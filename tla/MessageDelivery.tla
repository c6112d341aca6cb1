-------------------------- MODULE MessageDelivery --------------------------
(***************************************************************************)
(* What one direction of a connection promises to the layer above, with no *)
(* mention of packets, receipts, timers or the network: a message may be   *)
(* delivered any number of times after it was sent, it is reported as      *)
(* acknowledged only if it was delivered, and a message the sender has     *)
(* given up is never reported as acknowledged.                             *)
(***************************************************************************)
CONSTANT Message

VARIABLES sent, delivered, acked, failed

deliveryVars == <<sent, delivered, acked, failed>>

Init == sent = {} /\ delivered = {} /\ acked = {} /\ failed = {}

Send(m) == /\ m \notin sent
           /\ sent' = sent \cup {m}
           /\ UNCHANGED <<delivered, acked, failed>>

\* The sender learns at once that the message did not get out.
SendFails(m) == /\ m \notin sent
                /\ sent' = sent \cup {m}
                /\ failed' = failed \cup {m}
                /\ UNCHANGED <<delivered, acked>>

Deliver(m) == /\ m \in sent
              /\ delivered' = delivered \cup {m}
              /\ UNCHANGED <<sent, acked, failed>>

Acknowledge(S) == /\ S \subseteq delivered \ failed
                  /\ acked' = acked \cup S
                  /\ UNCHANGED <<sent, delivered, failed>>

GiveUp(m) == /\ m \in sent \ acked
             /\ failed' = failed \cup {m}
             /\ UNCHANGED <<sent, delivered, acked>>

Next == \/ \E m \in Message : Send(m) \/ SendFails(m) \/ Deliver(m) \/ GiveUp(m)
        \/ \E S \in SUBSET Message : Acknowledge(S)

Spec == Init /\ [][Next]_deliveryVars
=============================================================================
