------------------------ MODULE MCConnectionManager ------------------------
(* Instances of ConnectionManager for TLC.                                 *)
EXTENDS ConnectionManager

CONSTANTS near, far

\* Both on the same side, so that the near one may go over the cap.
MCSide == [a \in Addrs |-> "successor"]
MCDistance == [a \in Addrs |-> IF a = near THEN 1 ELSE 2]
============================================================================
