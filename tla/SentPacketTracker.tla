------------------------- MODULE SentPacketTracker -------------------------
(***************************************************************************)
(* The tracker of sent, unacknowledged packets of one connection           *)
(* (crates/core/src/transport/sent_packet_tracker.rs).                     *)
(*                                                                         *)
(* One action per method.  The clock is relative: age[p] is the time since *)
(* the sent_time of p, and Tick ages every tracked packet.  Ages stop at   *)
(* MAX_RTO: no deadline the tracker compares with lies beyond it.          *)
(* A HashMap is a total function with a value that stands for "no entry"   *)
(* (NoStream, count 0), so that the lockstep of the maps is a property and *)
(* not an encoding.  Payloads are left out; the loss statistics, min_rtt   *)
(* and total_packets_sent decide nothing here and are left out too.        *)
(***************************************************************************)
EXTENDS Integers, Sequences, FiniteSets

CONSTANTS
    Packet,                  \* packet ids
    Stream,                  \* outbound stream ids
    Control,                 \* PacketStream::Control
    NoStream,                \* no entry in packet_streams
    MAX_PACKET_RETRANSMITS,
    MAX_RTO_BACKOFF,
    MIN_RTO, INITIAL_RTO, MAX_RTO,
    MIN_TLP_TIMEOUT

ASSUME TrackerAssumption ==
    /\ Control \notin Stream /\ NoStream \notin Stream /\ Control # NoStream
    /\ MAX_PACKET_RETRANSMITS \in Nat
    /\ MAX_RTO_BACKOFF \in Nat \ {0}
    /\ MIN_RTO \in Nat \ {0} /\ INITIAL_RTO \in Nat /\ MAX_RTO \in Nat
    /\ MIN_RTO <= INITIAL_RTO /\ INITIAL_RTO <= MAX_RTO
    /\ MIN_TLP_TIMEOUT \in Nat

VARIABLES
    pending_receipts,        \* ids with an entry (sent, not acknowledged)
    age,                     \* time since the entry's sent_time
    resend_queue,            \* VecDeque of ids; may hold ids no longer tracked
    packet_streams,          \* owner of each tracked packet
    retransmitted_packets,   \* Karn's algorithm: no RTT sample from these
    tlp_sent_packets,        \* probe already sent in this RTO period
    retransmit_counts,       \* RTOs fired; 0 is "no entry"
    rto_backoff,
    srtt,                    \* NoSample until the first RTT sample
    rto

mapVars   == <<packet_streams, retransmitted_packets, tlp_sent_packets,
               retransmit_counts>>
timerVars == <<rto_backoff, srtt, rto>>
trackerVars == <<pending_receipts, age, resend_queue, mapVars, timerVars>>

NoSample == -1
Least(a, b) == IF a <= b THEN a ELSE b
Most(a, b)  == IF a >= b THEN a ELSE b

TrackerInit ==
    /\ pending_receipts = {}
    /\ age = [p \in Packet |-> 0]
    /\ resend_queue = <<>>
    /\ packet_streams = [p \in Packet |-> NoStream]
    /\ retransmitted_packets = {}
    /\ tlp_sent_packets = {}
    /\ retransmit_counts = [p \in Packet |-> 0]
    /\ rto_backoff = 1
    /\ srtt = NoSample
    /\ rto = INITIAL_RTO

-----------------------------------------------------------------------------
\* First send of p for owner s, or the idempotent refresh of a tracked p: the
\* owner and the queue entry of a tracked packet are kept.
report_sent_packet(p, s) ==
    /\ age' = [age EXCEPT ![p] = 0]
    /\ IF p \in pending_receipts
       THEN UNCHANGED <<pending_receipts, packet_streams, resend_queue>>
       ELSE /\ pending_receipts' = pending_receipts \cup {p}
            /\ packet_streams' = [packet_streams EXCEPT ![p] = s]
            /\ resend_queue' = Append(resend_queue, p)
    /\ UNCHANGED <<retransmitted_packets, tlp_sent_packets, retransmit_counts,
                   timerVars>>

\* After a resend: restarts the timer of a packet that is still tracked and
\* never inserts one, so that a packet dropped meanwhile stays dropped.
refresh_sent_packet(p) ==
    /\ age' = IF p \in pending_receipts THEN [age EXCEPT ![p] = 0] ELSE age
    /\ UNCHANGED <<pending_receipts, resend_queue, mapVars, timerVars>>

\* Mutant of Untagged: the owner tag outlives the entry.
Untagged_Not(R) == packet_streams

Untagged(R) == [p \in Packet |-> IF p \in R THEN NoStream ELSE packet_streams[p]]

\* Forget the packets of R everywhere but in the resend queue.
Forget(R) ==
    /\ pending_receipts' = pending_receipts \ R
    /\ packet_streams' = Untagged(R)
    /\ retransmit_counts' =
         [p \in Packet |-> IF p \in R THEN 0 ELSE retransmit_counts[p]]
    /\ retransmitted_packets' = retransmitted_packets \ R
    /\ tlp_sent_packets' = tlp_sent_packets \ R
    /\ age' = [p \in Packet |-> IF p \in R THEN 0 ELSE age[p]]

\* VecDeque::retain: what is not in R, in the order it had.
Retained(q, R) ==
    LET kept == {i \in DOMAIN q : q[i] \notin R}
        Rank(i) == Cardinality({j \in kept : j <= i})
    IN  [k \in 1..Cardinality(kept) |-> q[CHOOSE i \in kept : Rank(i) = k]]

Owned(s) == {p \in Packet : packet_streams[p] = s}

\* The abort of stream s.  The bytes it returns are those of Released(s).
Released(s) == Owned(s) \cap pending_receipts

drop_stream(s) ==
    /\ Forget(Owned(s))
    /\ resend_queue' = Retained(resend_queue, Owned(s))
    /\ UNCHANGED timerVars

\* RFC 6298.  The first sample is the estimate and rto is sample + 2 * sample;
\* later ones are averaged, which leaves srtt between the old value and the
\* samples of this batch and rto at or above srtt, clamped.
Clamped(r) == Most(MIN_RTO, Least(r, MAX_RTO))

update_rtt(fresh) ==
    IF fresh = {} THEN UNCHANGED <<srtt, rto>>
    ELSE IF srtt = NoSample /\ Cardinality(fresh) = 1
    THEN /\ srtt' = (CHOOSE t \in {age[p] : p \in fresh} : TRUE)
         /\ rto' = Clamped(3 * srtt')
    ELSE LET points == {age[p] : p \in fresh} \cup ({srtt} \ {NoSample})
         IN  /\ srtt' \in {t \in 0..MAX_RTO :
                             \E lo, hi \in points : lo <= t /\ t <= hi}
             /\ rto' \in {r \in MIN_RTO..MAX_RTO : r >= srtt'}

\* The receipts of one inbound packet.  The packets that get an ack-info entry,
\* and so a flight-size release, are those of Acked(R).
Acked(R) == R \cap pending_receipts

report_received_receipts(R) ==
    /\ update_rtt(Acked(R) \ retransmitted_packets)
    /\ rto_backoff' = IF Acked(R) = {} THEN rto_backoff ELSE 1
    /\ Forget(R)
    /\ UNCHANGED resend_queue

-----------------------------------------------------------------------------
\* get_resend looks at the first tracked packet of the queue only, after
\* discarding the entries of untracked ones before it.
LiveAt == {i \in DOMAIN resend_queue : resend_queue[i] \in pending_receipts}
IsFirst(i) == \A j \in LiveAt : i <= j
FrontAt == CHOOSE i \in LiveAt : IsFirst(i)
IsFront(p) == \E i \in LiveAt : IsFirst(i) /\ resend_queue[i] = p
FromFront == SubSeq(resend_queue, FrontAt, Len(resend_queue))
PastFront == SubSeq(resend_queue, FrontAt + 1, Len(resend_queue))

effective_rto == Least(rto * rto_backoff, MAX_RTO)
probe_timeout == Most(2 * srtt, MIN_TLP_TIMEOUT)

RtoDue(p) == age[p] >= effective_rto
TlpDue(p) == /\ srtt # NoSample
             /\ p \notin tlp_sent_packets
             /\ age[p] >= probe_timeout
             /\ ~RtoDue(p)

\* Mutants: the packet is not marked; the count is not advanced; the entry is
\* popped and not pushed back.
mark_retransmitted_Not(p) == UNCHANGED retransmitted_packets
RetransmitCount_Stuck(p) == retransmit_counts[p]
Requeued_Popped(p) == PastFront

\* The steps of a resend.
mark_retransmitted(p) == retransmitted_packets' = retransmitted_packets \cup {p}
on_timeout_backoff == rto_backoff' = Least(2 * rto_backoff, MAX_RTO_BACKOFF)
RetransmitCount(p) == retransmit_counts[p] + 1
Requeued(p) == Append(PastFront, p)

\* ResendAction::TlpProbe
get_resend_tlp(p) ==
    /\ IsFront(p) /\ TlpDue(p)
    /\ tlp_sent_packets' = tlp_sent_packets \cup {p}
    /\ mark_retransmitted(p)
    /\ resend_queue' = FromFront
    /\ UNCHANGED <<pending_receipts, age, packet_streams, retransmit_counts,
                   timerVars>>

\* ResendAction::Resend
get_resend_rto(p) ==
    /\ IsFront(p) /\ RtoDue(p)
    /\ RetransmitCount(p) <= MAX_PACKET_RETRANSMITS
    /\ retransmit_counts' = [retransmit_counts EXCEPT ![p] = RetransmitCount(p)]
    /\ age' = [age EXCEPT ![p] = 0]
    /\ resend_queue' = Requeued(p)
    /\ mark_retransmitted(p)
    /\ on_timeout_backoff
    /\ tlp_sent_packets' = tlp_sent_packets \ {p}
    /\ UNCHANGED <<pending_receipts, packet_streams, srtt, rto>>

\* ResendAction::Abandon
get_resend_abandon(p) ==
    /\ IsFront(p) /\ RtoDue(p)
    /\ RetransmitCount(p) > MAX_PACKET_RETRANSMITS
    /\ Forget({p})
    /\ resend_queue' = PastFront
    /\ UNCHANGED timerVars

\* ResendAction::WaitUntil: only stale entries leave the queue.
get_resend_wait ==
    /\ \A p \in Packet : IsFront(p) => ~RtoDue(p) /\ ~TlpDue(p)
    /\ resend_queue' = IF LiveAt = {} THEN <<>> ELSE FromFront
    /\ UNCHANGED <<pending_receipts, age, mapVars, timerVars>>

Tick ==
    /\ age' = [p \in Packet |-> IF p \in pending_receipts
                                THEN Least(age[p] + 1, MAX_RTO) ELSE age[p]]
    /\ UNCHANGED <<pending_receipts, resend_queue, mapVars, timerVars>>

-----------------------------------------------------------------------------
\* The tracker under arbitrary callers: any id may be registered, refreshed or
\* acknowledged at any time, and again after it was forgotten.
Next ==
    \/ \E p \in Packet, s \in Stream \cup {Control} : report_sent_packet(p, s)
    \/ \E p \in Packet : refresh_sent_packet(p)
    \/ \E s \in Stream : drop_stream(s)
    \/ \E R \in SUBSET Packet : report_received_receipts(R)
    \/ \E p \in Packet : get_resend_tlp(p)
    \/ \E p \in Packet : get_resend_rto(p)
    \/ \E p \in Packet : get_resend_abandon(p)
    \/ get_resend_wait
    \/ Tick

Spec == TrackerInit /\ [][Next]_trackerVars

-----------------------------------------------------------------------------
TypeOK ==
    /\ pending_receipts \subseteq Packet
    /\ age \in [Packet -> 0..MAX_RTO]
    /\ packet_streams \in [Packet -> Stream \cup {Control, NoStream}]
    /\ retransmitted_packets \subseteq Packet
    /\ tlp_sent_packets \subseteq Packet
    /\ retransmit_counts \in [Packet -> 0..MAX_PACKET_RETRANSMITS]
    /\ rto_backoff \in 1..MAX_RTO_BACKOFF
    /\ srtt \in {NoSample} \cup 0..MAX_RTO
    /\ rto \in MIN_RTO..MAX_RTO

\* The owner map and the entries stay in lockstep across sends, ACKs, aborts,
\* probes, timeouts and abandonment ("the tag is removed in lockstep on ACK and
\* abandon", the assumption under which drop_stream's byte count is exact), and
\* no other map keeps an entry for a packet that is no longer tracked.
MapsInLockstep ==
    /\ \A p \in Packet : packet_streams[p] # NoStream <=> p \in pending_receipts
    /\ \A p \in Packet : retransmit_counts[p] > 0 => p \in pending_receipts
    /\ retransmitted_packets \subseteq pending_receipts
    /\ tlp_sent_packets \subseteq pending_receipts

\* Karn's algorithm: every packet that went out more than once since it was
\* registered, as a probe or after a timeout, is excluded from RTT sampling.
ResendsAreExcludedFromRtt ==
    \A p \in Packet :
        (p \in tlp_sent_packets \/ retransmit_counts[p] > 0)
            => p \in retransmitted_packets

\* No tracked packet is missing from the resend queue: get_resend pops entries
\* in a loop, and one that is popped and not put back would never be resent or
\* abandoned, and would pin its bytes in flight for ever.
PendingIsQueued ==
    \A p \in pending_receipts : \E i \in DOMAIN resend_queue : resend_queue[i] = p

=============================================================================
