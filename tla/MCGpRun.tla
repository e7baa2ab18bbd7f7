------------------------------ MODULE MCGpRun ------------------------------
EXTENDS GpRun, TLC
CONSTANTS e1, e2
NoExchange == <<>>
Entry(to, from, count, method) ==
  [to |-> to, from |-> from, count |-> count, tosel |-> [name |-> method]]
\* Nobody, the worst, everyone by fitness, and one that did not arrive before.
Ring == <<Entry(1, 2, 0, "best"), Entry(1, 2, 1, "worst"),
          Entry(2, 1, 2, "fitness"), Entry(1, 2, 1, "random")>>
None == {}
Never == -1
One == {e1}
Two == {e1, e2}
=============================================================================
