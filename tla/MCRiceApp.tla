----------------------------- MODULE MCRiceApp -----------------------------
EXTENDS RiceApp, TLC
MCCammeo == <<"c1", "c2", "c3">>
MCOsmancik == <<"o1", "o2">>
\* One that is right about all, one that is right about some, and one that says
\* Cammeo to everything.
MCIndividual == {{"c1", "c2", "c3"}, {"c1", "c2", "o1"}, Records}
=============================================================================
