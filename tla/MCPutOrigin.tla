---------------------------- MODULE MCPutOrigin ----------------------------
(* One retry: of a dropped callback for a streamed PUT, of a peer otherwise. *)
EXTENDS PutOrigin

MCBudgets == {[adv |-> 0, infra |-> 1], [adv |-> 1, infra |-> 0]}
=============================================================================
