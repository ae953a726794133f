----------------------------- MODULE MCObserver -----------------------------
\* Model checking of Observer: one log route and the latency route.
EXTENDS Observer

MCCapacity  == [r \in Routes |-> 1]
MCMaxWrites == [r \in Routes |-> IF r = Latency THEN 4 ELSE 2]

\* The producer of one route has left a segment of another version, the other's
\* is read on from the element that was left, by whichever thread.
MCLeftSegments ==
  {[r \in Routes |-> IF r = route THEN "other" ELSE "ours"] : route \in Routes}
=============================================================================
