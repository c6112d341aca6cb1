----------------------- MODULE ReceivedPacketTracker -----------------------
(***************************************************************************)
(* The tracker of received packets of one connection: duplicate detection  *)
(* over a retention window, and the receipts that are still to be sent     *)
(* (crates/core/src/transport/received_packet_tracker.rs).                 *)
(*                                                                         *)
(* The clock is relative, as in SentPacketTracker: an entry of the deque   *)
(* carries the time since the packet was accepted, and Tick ages all of    *)
(* them.  The values of time_by_packet_id are never read, only its keys.   *)
(***************************************************************************)
EXTENDS Integers, Sequences, FiniteSets

CONSTANTS
    Packet,
    RETAIN_TIME,
    MAX_PENDING_RECEIPTS

ASSUME ReceivedAssumption ==
    /\ RETAIN_TIME \in Nat
    /\ MAX_PENDING_RECEIPTS \in Nat \ {0}

VARIABLES
    pending_receipts,       \* Vec of ids whose receipt is still to be sent
    packet_id_time,         \* VecDeque of (id, time since it was accepted)
    time_by_packet_id       \* keys of the map: ids known to be duplicates

receivedVars == <<pending_receipts, packet_id_time, time_by_packet_id>>

ReceivedInit ==
    /\ pending_receipts = <<>>
    /\ packet_id_time = <<>>
    /\ time_by_packet_id = {}

-----------------------------------------------------------------------------
\* Mutant of Expired: an entry expires as soon as it reaches RETAIN_TIME.
Expired_Early(i) == packet_id_time[i].age >= RETAIN_TIME

Expired(i) == packet_id_time[i].age > RETAIN_TIME

\* cleanup pops entries from the front up to the first that is not expired.
Popped == {i \in DOMAIN packet_id_time : \A j \in 1..i : Expired(j)}

Kept == SubSeq(packet_id_time, Cardinality(Popped) + 1, Len(packet_id_time))

Known == time_by_packet_id \ {packet_id_time[i].id : i \in Popped}

ReportResult(p) ==
    IF p \in Known THEN "AlreadyReceived"
    ELSE IF Len(pending_receipts) + 1 < MAX_PENDING_RECEIPTS THEN "Ok"
    ELSE "QueueFull"

report_received_packet(p) ==
    IF p \in Known
    THEN /\ packet_id_time' = Kept
         /\ time_by_packet_id' = Known
         /\ UNCHANGED pending_receipts
    ELSE /\ packet_id_time' = Append(Kept, [id |-> p, age |-> 0])
         /\ time_by_packet_id' = Known \cup {p}
         /\ pending_receipts' = Append(pending_receipts, p)

\* The receipts handed out are those of pending_receipts before the step.
get_receipts ==
    /\ pending_receipts' = <<>>
    /\ packet_id_time' = Kept
    /\ time_by_packet_id' = Known

\* One unit of time.  Ages stop one past RETAIN_TIME: nothing tells later times apart.
OneOlder(t) == IF t > RETAIN_TIME THEN t ELSE t + 1

Age == /\ packet_id_time' = [i \in DOMAIN packet_id_time |->
                               [packet_id_time[i] EXCEPT !.age = OneOlder(@)]]
       /\ UNCHANGED <<pending_receipts, time_by_packet_id>>
=============================================================================
