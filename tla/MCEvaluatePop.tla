--------------------------- MODULE MCEvaluatePop ---------------------------
EXTENDS EvaluatePop
=============================================================================
