--------------------------- MODULE MCClientResults ---------------------------
(* Requests about one resource, of two clients.                             *)
EXTENDS ClientResults, TLC

CONSTANTS r1, r2, a, b, site

MCClientOf == [r \in Request |-> IF r = r2 THEN b ELSE a]

MCResourceOf == [r \in Request |-> site]
=============================================================================
