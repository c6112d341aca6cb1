----------------------- MODULE OutboundFlightProofs -----------------------
(***************************************************************************)
(* TLAPS proofs about the tracker of sent packets and about the flight     *)
(* size that is kept over it, for every finite set of packets of any sizes,*)
(* any number of streams and every value of the timer constants.           *)
(***************************************************************************)
EXTENDS OutboundFlight, FiniteSetTheorems, TLAPS

\* Both samples update_rtt can produce, and the untouched case, are in range.
LEMMA UpdateRttType ==
    ASSUME TypeOK, NEW fresh \in SUBSET Packet, update_rtt(fresh)
    PROVE  srtt' \in {NoSample} \cup 0..MAX_RTO /\ rto' \in MIN_RTO..MAX_RTO
<1>. USE TrackerAssumption
<1>1. CASE fresh = {}
  BY <1>1 DEF TypeOK, update_rtt
<1>2. CASE fresh # {} /\ srtt = NoSample /\ Cardinality(fresh) = 1
  <2>1. {age[p] : p \in fresh} \subseteq 0..MAX_RTO /\ {age[p] : p \in fresh} # {}
    BY <1>2 DEF TypeOK
  <2>2. srtt' \in 0..MAX_RTO
    BY <1>2, <2>1 DEF update_rtt
  <2>3. rto' \in MIN_RTO..MAX_RTO
    <3>1. rto' = Clamped(3 * srtt')
      BY <1>2 DEF update_rtt
    <3>0. ASSUME NEW n \in Nat PROVE 3 * n \in Nat
      OBVIOUS
    <3>2. 3 * srtt' \in Nat
      <4>1. ASSUME NEW n \in 0..MAX_RTO PROVE n \in Nat
        OBVIOUS
      <4>. QED BY <2>2, <3>0, <4>1
    <3>3. ASSUME NEW r \in Nat PROVE Clamped(r) \in MIN_RTO..MAX_RTO
      BY DEF Clamped, Most, Least
    <3>. QED BY <3>1, <3>2, <3>3
  <2>. QED BY <2>2, <2>3
<1>3. CASE fresh # {} /\ ~(srtt = NoSample /\ Cardinality(fresh) = 1)
  <2>1. srtt' \in 0..MAX_RTO /\ rto' \in MIN_RTO..MAX_RTO
    BY <1>3 DEF update_rtt
  <2>. QED BY <2>1
<1>. QED BY <1>1, <1>2, <1>3

\* Forgetting any set of packets keeps the types and every map invariant.
LEMMA ForgetKeepsMaps ==
    ASSUME TypeOK, MapsInLockstep, ResendsAreExcludedFromRtt,
           NEW R \in SUBSET Packet, Forget(R)
    PROVE  /\ pending_receipts' \subseteq Packet
           /\ age' \in [Packet -> 0..MAX_RTO]
           /\ packet_streams' \in [Packet -> Stream \cup {Control, NoStream}]
           /\ retransmitted_packets' \subseteq Packet
           /\ tlp_sent_packets' \subseteq Packet
           /\ retransmit_counts' \in [Packet -> 0..MAX_PACKET_RETRANSMITS]
           /\ MapsInLockstep'
           /\ ResendsAreExcludedFromRtt'
<1>. USE TrackerAssumption DEF Forget, Untagged
<1>1. pending_receipts' \subseteq Packet /\ retransmitted_packets' \subseteq Packet
      /\ tlp_sent_packets' \subseteq Packet
  BY DEF TypeOK
<1>2. age' \in [Packet -> 0..MAX_RTO]
  BY DEF TypeOK
<1>3. packet_streams' \in [Packet -> Stream \cup {Control, NoStream}]
  BY DEF TypeOK
<1>4. retransmit_counts' \in [Packet -> 0..MAX_PACKET_RETRANSMITS]
  BY DEF TypeOK
<1>5. MapsInLockstep'
  BY DEF TypeOK, MapsInLockstep
<1>6. ResendsAreExcludedFromRtt'
  BY DEF TypeOK, ResendsAreExcludedFromRtt
<1>. QED BY <1>1, <1>2, <1>3, <1>4, <1>5, <1>6

TrackerInv == TypeOK /\ MapsInLockstep /\ ResendsAreExcludedFromRtt

\* The empty tracker satisfies the invariant.
LEMMA TrackerInitInv == TrackerInit => TrackerInv
BY TrackerAssumption
   DEF TrackerInit, TrackerInv, TypeOK, MapsInLockstep, ResendsAreExcludedFromRtt

\* One lemma per method, so that a component built on the tracker can cite them.
LEMMA ReportSentInv ==
    ASSUME TrackerInv, NEW p \in Packet, NEW s \in Stream \cup {Control},
           report_sent_packet(p, s)
    PROVE  TrackerInv'
<1>. USE TrackerAssumption DEF TrackerInv, report_sent_packet, timerVars
<1>1. TypeOK' BY DEF TypeOK
<1>2. MapsInLockstep' BY DEF TypeOK, MapsInLockstep
<1>3. ResendsAreExcludedFromRtt' BY DEF TypeOK, ResendsAreExcludedFromRtt
<1>. QED BY <1>1, <1>2, <1>3

\* refresh_sent_packet keeps the invariant.
LEMMA RefreshInv ==
    ASSUME TrackerInv, NEW p \in Packet, refresh_sent_packet(p)
    PROVE  TrackerInv'
<1>. USE TrackerAssumption DEF TrackerInv, refresh_sent_packet, timerVars, mapVars
<1>1. TypeOK' BY DEF TypeOK
<1>2. MapsInLockstep' BY DEF TypeOK, MapsInLockstep
<1>3. ResendsAreExcludedFromRtt' BY DEF TypeOK, ResendsAreExcludedFromRtt
<1>. QED BY <1>1, <1>2, <1>3

\* drop_stream clears every structure of the packets it forgets.
LEMMA DropStreamInv ==
    ASSUME TrackerInv, NEW s \in Stream, drop_stream(s)
    PROVE  TrackerInv'
<1>1. Owned(s) \in SUBSET Packet BY DEF Owned
<1>2. Forget(Owned(s)) BY DEF drop_stream
<1>3. UNCHANGED <<rto_backoff, srtt, rto>> BY DEF drop_stream, timerVars
<1>. QED BY <1>1, <1>2, <1>3, ForgetKeepsMaps DEF TrackerInv, TypeOK

\* report_received_receipts clears every structure of the packets it acknowledges.
LEMMA ReceiptsInv ==
    ASSUME TrackerInv, NEW R \in SUBSET Packet, report_received_receipts(R)
    PROVE  TrackerInv'
<1>1. Forget(R) BY DEF report_received_receipts
<1>2. srtt' \in {NoSample} \cup 0..MAX_RTO /\ rto' \in MIN_RTO..MAX_RTO
  <2>1. Acked(R) \ retransmitted_packets \in SUBSET Packet BY DEF Acked
  <2>2. update_rtt(Acked(R) \ retransmitted_packets) BY DEF report_received_receipts
  <2>. QED BY <2>1, <2>2, UpdateRttType DEF TrackerInv
<1>3. rto_backoff' \in 1..MAX_RTO_BACKOFF
  BY TrackerAssumption DEF report_received_receipts, TrackerInv, TypeOK
<1>. QED BY <1>1, <1>2, <1>3, ForgetKeepsMaps DEF TrackerInv, TypeOK

\* A tail-loss probe keeps the invariant.
LEMMA TlpInv ==
    ASSUME TrackerInv, NEW p \in Packet, p \in pending_receipts, get_resend_tlp(p)
    PROVE  TrackerInv'
<1>. USE TrackerAssumption DEF TrackerInv, get_resend_tlp, timerVars, mark_retransmitted
<1>1. TypeOK' BY DEF TypeOK
<1>2. MapsInLockstep' BY DEF TypeOK, MapsInLockstep
<1>3. ResendsAreExcludedFromRtt' BY DEF TypeOK, ResendsAreExcludedFromRtt
<1>. QED BY <1>1, <1>2, <1>3

\* A retransmission on timeout keeps the invariant.
LEMMA RtoInv ==
    ASSUME TrackerInv, NEW p \in Packet, p \in pending_receipts, get_resend_rto(p)
    PROVE  TrackerInv'
<1>. USE TrackerAssumption DEF TrackerInv, get_resend_rto, mark_retransmitted,
    on_timeout_backoff, RetransmitCount, Requeued
<1>1. TypeOK'
  <2>1. retransmit_counts' \in [Packet -> 0..MAX_PACKET_RETRANSMITS]
    BY DEF TypeOK
  <2>2. rto_backoff' \in 1..MAX_RTO_BACKOFF
    BY DEF TypeOK, Least
  <2>3. age' \in [Packet -> 0..MAX_RTO]
    BY DEF TypeOK
  <2>. QED BY <2>1, <2>2, <2>3 DEF TypeOK
<1>2. MapsInLockstep' BY DEF TypeOK, MapsInLockstep
<1>3. ResendsAreExcludedFromRtt' BY DEF TypeOK, ResendsAreExcludedFromRtt
<1>. QED BY <1>1, <1>2, <1>3

\* get_resend clears every structure of the packet it abandons.
LEMMA AbandonInv ==
    ASSUME TrackerInv, NEW p \in Packet, get_resend_abandon(p)
    PROVE  TrackerInv'
<1>1. {p} \in SUBSET Packet OBVIOUS
<1>2. Forget({p}) /\ UNCHANGED <<rto_backoff, srtt, rto>>
  BY DEF get_resend_abandon, timerVars
<1>. QED BY <1>1, <1>2, ForgetKeepsMaps DEF TrackerInv, TypeOK

\* get_resend that only waits keeps the invariant.
LEMMA WaitInv ==
    ASSUME TrackerInv, get_resend_wait
    PROVE  TrackerInv'
BY DEF TrackerInv, TypeOK, MapsInLockstep, ResendsAreExcludedFromRtt,
       get_resend_wait, mapVars, timerVars

\* The passing of time keeps the invariant.
LEMMA TickInv ==
    ASSUME TrackerInv, Tick
    PROVE  TrackerInv'
<1>. USE TrackerAssumption DEF TrackerInv, Tick, mapVars, timerVars
<1>1. age' \in [Packet -> 0..MAX_RTO] BY DEF TypeOK, Least
<1>2. TypeOK' BY <1>1 DEF TypeOK
<1>3. MapsInLockstep' /\ ResendsAreExcludedFromRtt'
  BY DEF MapsInLockstep, ResendsAreExcludedFromRtt
<1>. QED BY <1>2, <1>3

\* The front of the queue that get_resend acts on is a tracked packet.
LEMMA FrontIsPending ==
    ASSUME NEW p, IsFront(p)
    PROVE  p \in pending_receipts
BY DEF IsFront, LiveAt

\* Type correctness, the lockstep of the tracker's maps and Karn's exclusion
\* hold for arbitrary callers of the tracker: every interleaving of sends,
\* refreshes, stream aborts, receipts and resend checks.
THEOREM TrackerSafety ==
    Spec => [](TypeOK /\ MapsInLockstep /\ ResendsAreExcludedFromRtt)
<1>1. TrackerInit => TrackerInv BY TrackerInitInv
<1>2. TrackerInv /\ [Next]_trackerVars => TrackerInv'
  <2>. SUFFICES ASSUME TrackerInv, [Next]_trackerVars PROVE TrackerInv'
    OBVIOUS
  <2>1. ASSUME NEW p \in Packet, NEW s \in Stream \cup {Control},
               report_sent_packet(p, s)
        PROVE  TrackerInv'
    BY <2>1, ReportSentInv
  <2>2. ASSUME NEW p \in Packet, refresh_sent_packet(p) PROVE TrackerInv'
    BY <2>2, RefreshInv
  <2>3. ASSUME NEW s \in Stream, drop_stream(s) PROVE TrackerInv'
    BY <2>3, DropStreamInv
  <2>4. ASSUME NEW R \in SUBSET Packet, report_received_receipts(R)
        PROVE  TrackerInv'
    BY <2>4, ReceiptsInv
  <2>5. ASSUME NEW p \in Packet, get_resend_tlp(p) PROVE TrackerInv'
    BY <2>5, TlpInv, FrontIsPending DEF get_resend_tlp
  <2>6. ASSUME NEW p \in Packet, get_resend_rto(p) PROVE TrackerInv'
    BY <2>6, RtoInv, FrontIsPending DEF get_resend_rto
  <2>7. ASSUME NEW p \in Packet, get_resend_abandon(p) PROVE TrackerInv'
    BY <2>7, AbandonInv
  <2>8. CASE get_resend_wait BY <2>8, WaitInv
  <2>9. CASE Tick BY <2>9, TickInv
  <2>10. CASE UNCHANGED trackerVars
    BY <2>10 DEF TrackerInv, TypeOK, MapsInLockstep, ResendsAreExcludedFromRtt,
                 trackerVars, mapVars, timerVars
  <2>. QED BY <2>1, <2>2, <2>3, <2>4, <2>5, <2>6, <2>7, <2>8, <2>9, <2>10 DEF Next
<1>. QED BY <1>1, <1>2, PTL DEF Spec, TrackerInv

-----------------------------------------------------------------------------
\* A nonempty set of natural numbers has a least element.
LEMMA LeastOf ==
    ASSUME NEW T \in SUBSET Nat, T # {}
    PROVE  \E m \in T : \A k \in T : m <= k
<1> DEFINE F == {0..m : m \in T}
<1>1. F \subseteq FiniteSubsetsOf(Nat)
  <2>1. ASSUME NEW m \in T PROVE IsFiniteSet(0..m) /\ 0..m \in SUBSET Nat
    BY FS_Interval
  <2>2. QED
    BY <2>1 DEF FiniteSubsetsOf
<1>2. PICK S \in F : \A U \in F : <<U, S>> \notin StrictSubsetOrdering(Nat)
  <2>1. IsWellFoundedOn(StrictSubsetOrdering(Nat), FiniteSubsetsOf(Nat))
    BY FS_StrictSubsetOrderingWellFounded
  <2>2. F # {}
    OBVIOUS
  <2>3. \A R, D, G : IsWellFoundedOn(R, D) /\ G \subseteq D /\ G # {}
           => \E x \in G : \A y \in G : ~ (<<y, x>> \in R)
    BY WFMin
  <2>4. QED
    BY <1>1, <2>1, <2>2, <2>3
<1>3. PICK m \in T : S = 0..m
  OBVIOUS
<1>4. ASSUME NEW k \in T, k < m PROVE FALSE
  <2>1. 0..k \in F /\ 0..k \in SUBSET Nat /\ 0..m \in SUBSET Nat
    OBVIOUS
  <2>2. m \in 0..m /\ m \notin 0..k /\ 0..k \subseteq 0..m
    BY <1>4
  <2>3. <<0..k, 0..m>> \in StrictSubsetOrdering(Nat)
    BY <2>1, <2>2 DEF StrictSubsetOrdering
  <2>4. QED
    BY <1>2, <1>3, <2>1, <2>3
<1>5. QED
  BY <1>4

\* retain keeps every element that is not in R, and adds none.
LEMMA RetainedFacts ==
    ASSUME NEW q \in Seq(Packet), NEW R
    PROVE  /\ Retained(q, R) \in Seq(Packet)
           /\ \A i \in DOMAIN q : q[i] \notin R =>
                 \E k \in DOMAIN Retained(q, R) : Retained(q, R)[k] = q[i]
<1>. DEFINE kept == {i \in DOMAIN q : q[i] \notin R}
            Upto(i) == {j \in kept : j <= i}
            rank == [i \in kept |-> Cardinality(Upto(i))]
            n == Cardinality(kept)
<1>1. DOMAIN q = 1..Len(q) /\ Len(q) \in Nat /\ kept \subseteq 1..Len(q)
  OBVIOUS
<1>2. IsFiniteSet(kept) /\ n \in Nat
  <2>1. IsFiniteSet(1..Len(q))
    BY <1>1, FS_Interval
  <2>2. IsFiniteSet(kept)
    BY <1>1, <2>1, FS_Subset
  <2>. QED BY <2>2, FS_CardinalityType
<1>3. \A i : IsFiniteSet(Upto(i)) /\ Upto(i) \in SUBSET kept /\ Cardinality(Upto(i)) \in Nat
             /\ Cardinality(Upto(i)) <= n
  <2>1. ASSUME NEW i PROVE Upto(i) \in SUBSET kept
    OBVIOUS
  <2>. HIDE DEF Upto, kept
  <2>2. ASSUME NEW i PROVE IsFiniteSet(Upto(i)) /\ Cardinality(Upto(i)) <= n
    BY <1>2, <2>1, FS_Subset
  <2>3. ASSUME NEW i PROVE Cardinality(Upto(i)) \in Nat
    BY <2>2, FS_CardinalityType
  <2>. QED BY <2>1, <2>2, <2>3
<1>4. ASSUME NEW i \in kept, NEW j \in kept, i < j
      PROVE  Cardinality(Upto(i)) < Cardinality(Upto(j))
  <2>1. Upto(i) \in SUBSET Upto(j) /\ Upto(i) # Upto(j)
    <3>1. j \in Upto(j) /\ j \notin Upto(i)
      BY <1>1, <1>4
    <3>2. ASSUME NEW l \in Upto(i) PROVE l \in Upto(j)
      BY <1>1, <1>4
    <3>. QED BY <3>1, <3>2
  <2>2. IsFiniteSet(Upto(j)) /\ Cardinality(Upto(i)) \in Nat /\ Cardinality(Upto(j)) \in Nat
    BY <1>3
  <2>. HIDE DEF Upto
  <2>3. /\ Cardinality(Upto(i)) <= Cardinality(Upto(j))
        /\ Cardinality(Upto(j)) = Cardinality(Upto(i)) => Upto(j) = Upto(i)
    BY <2>1, <2>2, FS_Subset
  <2>. QED BY <2>1, <2>2, <2>3
<1>5. ASSUME NEW i \in kept PROVE rank[i] \in 1..n /\ rank[i] = Cardinality(Upto(i))
  <2>1. i \in Upto(i)
    BY <1>1
  <2>2. Cardinality(Upto(i)) # 0
    <3>. HIDE DEF Upto, kept
    <3>1. IsFiniteSet(Upto(i))
      BY <1>3
    <3>2. Cardinality(Upto(i)) = 0 <=> Upto(i) = {}
      BY <3>1, FS_EmptySet
    <3>. QED BY <2>1, <3>2
  <2>. HIDE DEF Upto, kept, n
  <2>3. rank[i] = Cardinality(Upto(i))
    OBVIOUS
  <2>4. Cardinality(Upto(i)) \in 1..n
    BY <1>2, <1>3, <2>2
  <2>. QED BY <2>3, <2>4
<1>6. ASSUME NEW i \in kept, NEW j \in kept, rank[i] = rank[j] PROVE i = j
  <2>1. i \in Nat /\ j \in Nat
    BY <1>1
  <2>2. Cardinality(Upto(i)) = Cardinality(Upto(j)) /\ Cardinality(Upto(i)) \in Nat
    BY <1>3, <1>5, <1>6
  <2>3. ~(i < j) /\ ~(j < i)
    <3>. HIDE DEF Upto
    <3>. QED BY <1>4, <2>2
  <2>. QED BY <2>1, <2>3
<1>7. ASSUME NEW k \in 1..n PROVE \E i \in kept : rank[i] = k
  <2>1. rank \in [kept -> 1..n]
    BY <1>5
  <2>. HIDE DEF rank, kept, n
  <2>2. rank \in Injection(kept, 1..n)
    BY <1>6, <2>1 DEF Injection, IsInjective
  <2>3. IsFiniteSet(1..n) /\ Cardinality(1..n) = n
    BY <1>2, FS_Interval
  <2>4. Cardinality(kept) = Cardinality(1..n)
    BY <2>3 DEF n
  <2>5. rank \in Surjection(kept, 1..n)
    BY <2>2, <2>3, <2>4, FS_Injection
  <2>. QED BY <2>5 DEF Surjection
<1>8. Retained(q, R) = [k \in 1..n |-> q[CHOOSE i \in kept : Cardinality(Upto(i)) = k]]
  BY DEF Retained
<1>. DEFINE Nth(k) == CHOOSE i \in kept : Cardinality(Upto(i)) = k
<1>9. ASSUME NEW k \in 1..n PROVE Nth(k) \in kept /\ rank[Nth(k)] = k
  <2>1. \E i \in kept : Cardinality(Upto(i)) = k
    BY <1>5, <1>7
  <2>2. Nth(k) \in kept /\ Cardinality(Upto(Nth(k))) = k
    <3>. HIDE DEF Upto, kept
    <3>. QED BY <2>1
  <2>. QED BY <1>5, <2>2
<1>10. \A k \in 1..n : q[Nth(k)] \in Packet
  <2>1. \A i \in kept : q[i] \in Packet
    BY <1>1
  <2>. HIDE DEF Nth, kept, n
  <2>. QED BY <1>9, <2>1
<1>. HIDE DEF kept, Upto, rank, n
<1>11. Retained(q, R) \in Seq(Packet)
  <2>1. Retained(q, R) = [k \in 1..n |-> q[Nth(k)]]
    BY <1>8
  <2>. HIDE DEF Nth
  <2>. QED BY <1>2, <1>10, <2>1
<1>12. ASSUME NEW i \in kept
       PROVE  \E k \in DOMAIN Retained(q, R) : Retained(q, R)[k] = q[i]
  <2>1. rank[i] \in 1..n
    BY <1>5
  <2>2. Nth(rank[i]) = i
    BY <1>6, <1>9, <2>1
  <2>3. rank[i] \in DOMAIN Retained(q, R) /\ Retained(q, R)[rank[i]] = q[Nth(rank[i])]
    BY <1>8, <2>1
  <2>. QED BY <2>2, <2>3
<1>. QED BY <1>11, <1>12 DEF kept

\* The queue from position i on.
LEMMA SubSeqFacts ==
    ASSUME NEW q \in Seq(Packet), NEW i \in 1..(Len(q) + 1)
    PROVE  /\ SubSeq(q, i, Len(q)) \in Seq(Packet)
           /\ \A j \in i..Len(q) : \E k \in DOMAIN SubSeq(q, i, Len(q)) :
                 SubSeq(q, i, Len(q))[k] = q[j]
<1>1. Len(q) \in Nat /\ SubSeq(q, i, Len(q)) \in Seq(Packet)
  OBVIOUS
<1>2. Len(SubSeq(q, i, Len(q))) = Len(q) - i + 1
  BY <1>1
<1>3. ASSUME NEW j \in i..Len(q)
      PROVE  /\ j - i + 1 \in DOMAIN SubSeq(q, i, Len(q))
             /\ SubSeq(q, i, Len(q))[j - i + 1] = q[j]
  <2>1. j - i + 1 \in 1..(Len(q) - i + 1) /\ i + (j - i + 1) - 1 = j
    BY <1>1
  <2>2. SubSeq(q, i, Len(q))[j - i + 1] = q[i + (j - i + 1) - 1]
    BY <1>1, <2>1
  <2>. QED BY <1>1, <1>2, <2>1, <2>2
<1>. QED BY <1>1, <1>3

\* The inductive invariant of the queue: PendingIsQueued needs no more than that the queue
\* holds packets.
QueueInv == resend_queue \in Seq(Packet) /\ PendingIsQueued

\* The position get_resend finds is the first of a tracked packet.
LEMMA FrontFacts ==
    ASSUME QueueInv, LiveAt # {}
    PROVE  /\ FrontAt \in LiveAt /\ IsFirst(FrontAt)
           /\ FrontAt \in 1..Len(resend_queue) /\ Len(resend_queue) \in Nat
           /\ \A p : IsFront(p) => resend_queue[FrontAt] = p
<1>1. /\ resend_queue \in Seq(Packet) /\ Len(resend_queue) \in Nat
      /\ LiveAt \subseteq 1..Len(resend_queue)
  BY DEF QueueInv, LiveAt
<1>2. \E i \in LiveAt : IsFirst(i)
  <2>1. LiveAt \in SUBSET Nat
    BY <1>1
  <2>. QED BY <2>1, LeastOf DEF IsFirst
<1>3. FrontAt \in LiveAt /\ IsFirst(FrontAt)
  BY <1>2 DEF FrontAt
<1>4. ASSUME NEW p, IsFront(p) PROVE resend_queue[FrontAt] = p
  <2>1. PICK i \in LiveAt : IsFirst(i) /\ resend_queue[i] = p
    BY <1>4 DEF IsFront
  <2>2. i <= FrontAt /\ FrontAt <= i /\ i \in Nat /\ FrontAt \in Nat
    BY <1>1, <1>3, <2>1 DEF IsFirst
  <2>3. i = FrontAt
    BY <2>2
  <2>. QED BY <2>1, <2>3
<1>. QED BY <1>1, <1>3, <1>4

\* What get_resend pops is stale, up to the front: every tracked packet is still in the
\* rest, and all but the one at the front are in what follows it.
LEMMA RestFacts ==
    ASSUME QueueInv, LiveAt # {}
    PROVE  /\ FromFront \in Seq(Packet) /\ PastFront \in Seq(Packet)
           /\ \A p \in pending_receipts :
                 /\ \E k \in DOMAIN FromFront : FromFront[k] = p
                 /\ p # resend_queue[FrontAt] => \E k \in DOMAIN PastFront : PastFront[k] = p
<1>1. /\ FrontAt \in 1..Len(resend_queue) /\ IsFirst(FrontAt) /\ Len(resend_queue) \in Nat
      /\ resend_queue \in Seq(Packet)
  BY FrontFacts DEF QueueInv
<1>2. FrontAt \in 1..(Len(resend_queue) + 1) /\ FrontAt + 1 \in 1..(Len(resend_queue) + 1)
  BY <1>1
<1>3. /\ FromFront \in Seq(Packet)
      /\ \A j \in FrontAt..Len(resend_queue) :
            \E k \in DOMAIN FromFront : FromFront[k] = resend_queue[j]
  BY <1>1, <1>2, SubSeqFacts DEF FromFront
<1>4. /\ PastFront \in Seq(Packet)
      /\ \A j \in (FrontAt + 1)..Len(resend_queue) :
            \E k \in DOMAIN PastFront : PastFront[k] = resend_queue[j]
  BY <1>1, <1>2, SubSeqFacts DEF PastFront
<1>5. ASSUME NEW p \in pending_receipts
      PROVE  /\ \E k \in DOMAIN FromFront : FromFront[k] = p
             /\ p # resend_queue[FrontAt] => \E k \in DOMAIN PastFront : PastFront[k] = p
  <2>1. PICK j \in DOMAIN resend_queue : resend_queue[j] = p
    BY DEF QueueInv, PendingIsQueued
  <2>2. j \in LiveAt /\ j \in 1..Len(resend_queue)
    BY <1>1, <2>1 DEF LiveAt
  <2>3. j \in FrontAt..Len(resend_queue)
    BY <1>1, <2>2 DEF IsFirst
  <2>4. p # resend_queue[FrontAt] => j \in (FrontAt + 1)..Len(resend_queue)
    BY <1>1, <2>1, <2>3
  <2>. QED BY <1>3, <1>4, <2>1, <2>3, <2>4
<1>. QED BY <1>3, <1>4, <1>5

\* One more entry at the back of the queue.
LEMMA PushedBack ==
    ASSUME NEW q \in Seq(Packet), NEW p \in Packet
    PROVE  /\ Append(q, p) \in Seq(Packet)
           /\ \E k \in DOMAIN Append(q, p) : Append(q, p)[k] = p
           /\ \A i \in DOMAIN q : \E k \in DOMAIN Append(q, p) : Append(q, p)[k] = q[i]
<1>1. /\ Append(q, p) \in Seq(Packet) /\ Len(q) \in Nat /\ DOMAIN q = 1..Len(q)
      /\ DOMAIN Append(q, p) = 1..(Len(q) + 1)
  OBVIOUS
<1>2. Len(q) + 1 \in DOMAIN Append(q, p) /\ Append(q, p)[Len(q) + 1] = p
  BY <1>1
<1>3. ASSUME NEW i \in DOMAIN q PROVE i \in DOMAIN Append(q, p) /\ Append(q, p)[i] = q[i]
  BY <1>1
<1>. QED BY <1>1, <1>2, <1>3

\* Every method of the tracker leaves every tracked packet in the queue.
LEMMA QueueStep == ASSUME QueueInv, [Next]_trackerVars PROVE QueueInv'
<1>1. CASE UNCHANGED <<pending_receipts, resend_queue>>
  BY <1>1 DEF QueueInv, PendingIsQueued
<1>2. ASSUME NEW p \in Packet, NEW s \in Stream \cup {Control}, report_sent_packet(p, s)
      PROVE  QueueInv'
  <2>1. CASE p \in pending_receipts
    BY <1>1, <1>2, <2>1 DEF report_sent_packet
  <2>2. CASE p \notin pending_receipts
    <3>1. pending_receipts' = pending_receipts \cup {p} /\ resend_queue' = Append(resend_queue, p)
      BY <1>2, <2>2 DEF report_sent_packet
    <3>2. resend_queue' \in Seq(Packet)
      BY <3>1, PushedBack DEF QueueInv
    <3>3. ASSUME NEW r \in pending_receipts'
          PROVE  \E k \in DOMAIN resend_queue' : resend_queue'[k] = r
      <4>1. CASE r = p
        BY <3>1, <4>1, PushedBack DEF QueueInv
      <4>2. CASE r # p
        <5>1. PICK k \in DOMAIN resend_queue : resend_queue[k] = r
          BY <3>1, <4>2 DEF QueueInv, PendingIsQueued
        <5>. QED BY <3>1, <5>1, PushedBack DEF QueueInv
      <4>. QED BY <4>1, <4>2
    <3>. QED BY <3>2, <3>3 DEF QueueInv, PendingIsQueued
  <2>. QED BY <2>1, <2>2
<1>3. ASSUME NEW s \in Stream, drop_stream(s) PROVE QueueInv'
  <2>1. /\ pending_receipts' = pending_receipts \ Owned(s)
        /\ resend_queue' = Retained(resend_queue, Owned(s))
    BY <1>3 DEF drop_stream, Forget
  <2>. QED BY <2>1, RetainedFacts DEF QueueInv, PendingIsQueued
<1>4. ASSUME NEW R \in SUBSET Packet, report_received_receipts(R) PROVE QueueInv'
  BY <1>4 DEF report_received_receipts, Forget, QueueInv, PendingIsQueued
<1>5. ASSUME NEW p \in Packet, get_resend_tlp(p) PROVE QueueInv'
  <2>1. LiveAt # {} /\ resend_queue' = FromFront /\ pending_receipts' = pending_receipts
    BY <1>5 DEF get_resend_tlp, IsFront
  <2>. QED BY <2>1, RestFacts DEF QueueInv, PendingIsQueued
<1>6. ASSUME NEW p \in Packet, get_resend_rto(p) PROVE QueueInv'
  <2>1. /\ LiveAt # {} /\ IsFront(p) /\ pending_receipts' = pending_receipts
        /\ resend_queue' = Append(PastFront, p)
    BY <1>6 DEF get_resend_rto, IsFront, Requeued
  <2>2. resend_queue[FrontAt] = p
    BY <2>1, FrontFacts
  <2>3. PastFront \in Seq(Packet)
    BY <2>1, RestFacts
  <2>4. ASSUME NEW r \in pending_receipts
        PROVE  \E k \in DOMAIN resend_queue' : resend_queue'[k] = r
    <3>1. CASE r = p
      BY <2>1, <2>3, <3>1, PushedBack
    <3>2. CASE r # p
      <4>1. PICK k \in DOMAIN PastFront : PastFront[k] = r
        BY <2>1, <2>2, <3>2, RestFacts
      <4>. QED BY <2>1, <2>3, <4>1, PushedBack
    <3>. QED BY <3>1, <3>2
  <2>5. resend_queue' \in Seq(Packet)
    BY <2>1, <2>3, PushedBack
  <2>. QED BY <2>1, <2>4, <2>5 DEF QueueInv, PendingIsQueued
<1>7. ASSUME NEW p \in Packet, get_resend_abandon(p) PROVE QueueInv'
  <2>1. /\ LiveAt # {} /\ IsFront(p) /\ pending_receipts' = pending_receipts \ {p}
        /\ resend_queue' = PastFront
    BY <1>7 DEF get_resend_abandon, IsFront, Forget
  <2>2. resend_queue[FrontAt] = p
    BY <2>1, FrontFacts
  <2>. QED BY <2>1, <2>2, RestFacts DEF QueueInv, PendingIsQueued
<1>8. CASE get_resend_wait
  <2>0. pending_receipts' = pending_receipts
    BY <1>8 DEF get_resend_wait
  <2>1. CASE LiveAt = {}
    <3>1. pending_receipts = {}
      BY <2>1 DEF LiveAt, QueueInv, PendingIsQueued
    <3>2. resend_queue' = <<>>
      BY <1>8, <2>1 DEF get_resend_wait
    <3>. QED BY <2>0, <3>1, <3>2 DEF QueueInv, PendingIsQueued
  <2>2. CASE LiveAt # {}
    <3>1. resend_queue' = FromFront
      BY <1>8, <2>2 DEF get_resend_wait
    <3>. QED BY <2>0, <2>2, <3>1, RestFacts DEF QueueInv, PendingIsQueued
  <2>. QED BY <2>1, <2>2
<1>9. CASE (\E p \in Packet : refresh_sent_packet(p)) \/ Tick \/ UNCHANGED trackerVars
  BY <1>1, <1>9 DEF refresh_sent_packet, Tick, trackerVars
<1>. QED BY <1>2, <1>3, <1>4, <1>5, <1>6, <1>7, <1>8, <1>9 DEF Next

\* No tracked packet is ever missing from resend_queue, whatever its callers do: get_resend
\* pops stale entries and puts back what it resends, and drop_stream takes out only what it
\* forgets.
THEOREM QueueCorrect == Spec => []PendingIsQueued
<1>1. TrackerInit => QueueInv
  BY DEF TrackerInit, QueueInv, PendingIsQueued
<1>2. QueueInv /\ [Next]_trackerVars => QueueInv'
  BY QueueStep
<1>. QED BY <1>1, <1>2, PTL DEF Spec, QueueInv

-----------------------------------------------------------------------------

\* Bytes is additive: a natural number, additive over disjoint packets and
\* subtractive over subsets.
LEMMA ByteSetFinite ==
    ASSUME NEW S \in SUBSET Packet
    PROVE  IsFiniteSet(ByteSet(S))
<1>1. IsFiniteSet(S)
  BY FlightAssumption, FS_Subset
<1>2. IsFiniteSet(1..MAX_PACKET_SIZE)
  BY FlightAssumption, FS_Interval
<1>3. IsFiniteSet(S \X (1..MAX_PACKET_SIZE))
  BY <1>1, <1>2, FS_Product
<1>4. ByteSet(S) \in SUBSET (S \X (1..MAX_PACKET_SIZE))
  BY DEF ByteSet
<1>. QED BY <1>3, <1>4, FS_Subset

\* The bytes of a finite set of packets are a natural number.
LEMMA BytesType ==
    ASSUME NEW S \in SUBSET Packet
    PROVE  Bytes(S) \in Nat
BY ByteSetFinite, FS_CardinalityType DEF Bytes

\* The bytes of one packet are its size.
LEMMA BytesOfOne ==
    ASSUME NEW p \in Packet
    PROVE  Bytes({p}) = PacketSize[p]
<1>. DEFINE n == PacketSize[p]
<1>1. n \in Nat /\ n <= MAX_PACKET_SIZE
  BY FlightAssumption
<1>2. ByteSet({p}) = {p} \X (1..n)
  BY <1>1, FlightAssumption DEF ByteSet
<1>3. IsFiniteSet(1..n) /\ Cardinality(1..n) = n
  BY <1>1, FS_Interval, SMTT(30)
<1>4. IsFiniteSet({p}) /\ Cardinality({p}) = 1
  BY FS_Singleton
<1>5. Cardinality({p} \X (1..n)) = 1 * n
  <2>1. Cardinality({p} \X (1..n)) = Cardinality({p}) * Cardinality(1..n)
    BY <1>3, <1>4, FS_Product, Zenon
  <2>. QED BY <1>3, <1>4, <2>1, Zenon
<1>6. Bytes({p}) = Cardinality({p} \X (1..n))
  BY <1>2, Zenon DEF Bytes
<1>7. 1 * n = n
  BY <1>1
<1>. QED BY <1>5, <1>6, <1>7, Zenon

\* The bytes of disjoint sets of packets add up.
LEMMA BytesAdd ==
    ASSUME NEW S \in SUBSET Packet, NEW T \in SUBSET Packet, S \cap T = {}
    PROVE  Bytes(S \cup T) = Bytes(S) + Bytes(T)
<1>1. ByteSet(S \cup T) = ByteSet(S) \cup ByteSet(T)
  BY DEF ByteSet
<1>2. ByteSet(S) \cap ByteSet(T) = {}
  BY DEF ByteSet
<1>3. IsFiniteSet(ByteSet(S)) /\ IsFiniteSet(ByteSet(T))
  BY ByteSetFinite
<1>. DEFINE A == ByteSet(S)
             B == ByteSet(T)
<1>4. Cardinality(A \cup B) = Cardinality(A) + Cardinality(B) - Cardinality(A \cap B)
  <2>. HIDE DEF A, B
  <2>. QED BY <1>3, FS_Union DEF A, B
<1>5. Cardinality(A \cap B) = 0
  BY <1>2, FS_EmptySet, Zenon
<1>6. Bytes(S) \in Nat /\ Bytes(T) \in Nat
  BY BytesType
<1>7. Bytes(S) = Cardinality(A) /\ Bytes(T) = Cardinality(B)
  BY DEF Bytes
<1>8. Bytes(S \cup T) = Cardinality(A \cup B)
  BY <1>1, Zenon DEF Bytes
<1>. HIDE DEF A, B
<1>. QED BY <1>4, <1>5, <1>6, <1>7, <1>8

\* What a release leaves: D is released once, so the subtraction never
\* saturates.
LEMMA BytesRemove ==
    ASSUME NEW S \in SUBSET Packet, NEW D \in SUBSET S
    PROVE  Bytes(S \ D) = Most(Bytes(S) - Bytes(D), 0)
<1>1. S = (S \ D) \cup D /\ (S \ D) \cap D = {}
  OBVIOUS
<1>2. Bytes(S) = Bytes(S \ D) + Bytes(D)
  <2>1. S \ D \in SUBSET Packet /\ D \in SUBSET Packet
    OBVIOUS
  <2>2. Bytes((S \ D) \cup D) = Bytes(S \ D) + Bytes(D)
    BY <1>1, <2>1, BytesAdd
  <2>. QED BY <1>1, <2>2
<1>3. Bytes(S \ D) \in Nat /\ Bytes(D) \in Nat
  BY BytesType
<1>. QED BY <1>2, <1>3 DEF Most

-----------------------------------------------------------------------------
\* The inductive invariant.  Conservation alone is not inductive: a release is
\* exact only because no other actor holds the packet, which is SingleHolder.
FlightInv == /\ TrackerInv /\ FlightTypeOK
             /\ SingleHolder /\ FlightConservation /\ AbortedStreamHoldsNothing

\* Flight size is made up of packets.
LEMMA AccountedType ==
    ASSUME FlightTypeOK
    PROVE  Accounted \in SUBSET Packet
BY DEF FlightTypeOK, TypeOK, HoldersAgree, Accounted, MainHolds, TaskHolds,
InHand

\* The initial state satisfies the invariant: nothing is in flight.
LEMMA FlightInitInv == Init => FlightInv
<1>. SUFFICES ASSUME Init PROVE FlightInv
  OBVIOUS
<1>1. TrackerInv BY TrackerInitInv DEF Init
<1>2. FlightTypeOK
  BY <1>1, FlightAssumption DEF Init, FlightTypeOK, HoldersAgree, TrackerInv, At
<1>3. SingleHolder
  BY FlightAssumption DEF Init, TrackerInit, SingleHolder, MainHolds, InHand, At
<1>4. Accounted = {}
  BY DEF Init, TrackerInit, Accounted, MainHolds, TaskHolds, InHand, At
<1>5. ByteSet({}) = {}
  BY DEF ByteSet
<1>6. Bytes({}) = 0
  BY <1>5, FS_EmptySet, Zenon DEF Bytes
<1>7. FlightConservation
  BY <1>4, <1>6 DEF FlightConservation, Init
<1>8. AbortedStreamHoldsNothing
  BY DEF AbortedStreamHoldsNothing, Init
<1>. QED BY <1>1, <1>2, <1>3, <1>7, <1>8 DEF FlightInv

\* A step that leaves the tracker alone keeps the invariant of the tracker.
LEMMA TrackerUnchanged ==
    ASSUME TrackerInv, UNCHANGED trackerVars
    PROVE  TrackerInv'
BY DEF trackerVars, mapVars, timerVars, TrackerInv, TypeOK, MapsInLockstep,
       ResendsAreExcludedFromRtt

\* The three ways a step can touch flight size: not at all, add the bytes of a
\* packet nobody held, take off the bytes of packets somebody held.
LEMMA KeepConserves ==
    ASSUME FlightInv, Accounted' = Accounted, UNCHANGED flightsize
    PROVE  FlightConservation' /\ flightsize' \in Nat
BY DEF FlightInv, FlightConservation, FlightTypeOK

\* on_send of a packet nobody held adds exactly its bytes.
LEMMA SendConserves ==
    ASSUME FlightInv, NEW p \in Packet, p \notin Accounted,
           Accounted' = Accounted \cup {p},
           flightsize' = flightsize + PacketSize[p]
    PROVE  FlightConservation' /\ flightsize' \in Nat
<1>1. Accounted \in SUBSET Packet BY AccountedType DEF FlightInv
<1>2. Bytes(Accounted \cup {p}) = Bytes(Accounted) + Bytes({p})
  BY <1>1, BytesAdd
<1>3. Bytes({p}) = PacketSize[p] BY BytesOfOne
<1>4. PacketSize[p] \in Nat BY FlightAssumption
<1>. QED BY <1>2, <1>3, <1>4 DEF FlightInv, FlightConservation, FlightTypeOK

\* A release of packets that were accounted for takes exactly their bytes.
LEMMA ReleaseConserves ==
    ASSUME FlightInv, NEW D \in SUBSET Accounted,
           Accounted' = Accounted \ D, Released_flight(Bytes(D))
    PROVE  FlightConservation' /\ flightsize' \in Nat
<1>1. Accounted \in SUBSET Packet BY AccountedType DEF FlightInv
<1>2. Bytes(Accounted \ D) = Most(Bytes(Accounted) - Bytes(D), 0)
  BY <1>1, BytesRemove
<1>3. Bytes(Accounted \ D) \in Nat BY <1>1, BytesType
<1>. QED BY <1>2, <1>3 DEF FlightInv, FlightConservation, Released_flight

\* The same for a single packet, as released by an ACK or an abandonment.
LEMMA ReleaseOneConserves ==
    ASSUME FlightInv, NEW p \in Accounted,
           Accounted' = Accounted \ {p}, Released_flight(PacketSize[p])
    PROVE  FlightConservation' /\ flightsize' \in Nat
<1>1. p \in Packet BY AccountedType DEF FlightInv
<1>2. Bytes({p}) = PacketSize[p] BY <1>1, BytesOfOne
<1>. QED BY <1>2, ReleaseConserves

-----------------------------------------------------------------------------
\* One lemma per action.
USE DEF flightVars, mainVars, taskVars, idVars, trackerVars, mapVars, timerVars,
        At, AtWith

\* The loop of the resend arm ends or goes round, within its bound.
LEMMA ResendLoopType ==
    ASSUME FlightTypeOK, CountResend \/ BreakResend
    PROVE  /\ main' \in {At("select"), At("resend")}
           /\ resend_count' \in 0..(MAX_RESENDS_PER_ITERATION - 1)
<1>1. main' \in {At("select"), At("resend")}
  BY DEF CountResend, BreakResend
<1>2. resend_count' \in 0..(MAX_RESENDS_PER_ITERATION - 1)
  BY FlightAssumption DEF CountResend, BreakResend, FlightTypeOK
<1>. QED BY <1>1, <1>2

\* OnAck keeps the inductive invariant.
LEMMA OnAckInv ==
    ASSUME FlightInv,
           NEW p \in Packet, OnAck(p)
    PROVE  FlightInv'
<1>. USE FlightAssumption DEF OnAck
<1>1. TrackerInv'
  BY TrackerUnchanged DEF FlightInv
<1>2. p \in Accounted /\ Accounted' = Accounted \ {p}
  BY DEF FlightInv, FlightTypeOK, HoldersAgree, TypeOK, TrackerInv,
         Accounted, SingleHolder, MainHolds, TaskHolds, InHand
<1>3. FlightConservation' /\ flightsize' \in Nat
  BY <1>2, ReleaseOneConserves DEF on_ack
<1>4. FlightTypeOK'
  BY <1>1, <1>3
  DEF FlightInv, FlightTypeOK, HoldersAgree, TypeOK, TrackerInv,
      SingleHolder, MainHolds, InHand, on_ack, Released_flight
<1>5. SingleHolder'
  BY DEF FlightInv, FlightTypeOK, HoldersAgree, TypeOK, TrackerInv,
         Accounted, SingleHolder, MainHolds, TaskHolds, InHand
<1>6. AbortedStreamHoldsNothing'
  BY DEF FlightInv, FlightTypeOK, HoldersAgree, TypeOK, TrackerInv,
         AbortedStreamHoldsNothing, Owned
<1>. QED BY <1>1, <1>3, <1>4, <1>5, <1>6 DEF FlightInv

\* AcksDone keeps the inductive invariant.
LEMMA AcksDoneInv ==
    ASSUME FlightInv, AcksDone
    PROVE  FlightInv'
<1>. USE FlightAssumption DEF AcksDone
<1>1. TrackerInv'
  BY TrackerUnchanged DEF FlightInv
<1>2. Accounted' = Accounted
  BY DEF FlightInv, FlightTypeOK, HoldersAgree, TypeOK, TrackerInv,
         Accounted, SingleHolder, MainHolds, TaskHolds, InHand
<1>3. FlightConservation' /\ flightsize' \in Nat
  BY <1>2, KeepConserves
<1>4. FlightTypeOK'
  BY <1>1, <1>3
  DEF FlightInv, FlightTypeOK, HoldersAgree, TypeOK, TrackerInv,
      SingleHolder, MainHolds, InHand
<1>5. SingleHolder'
  BY DEF FlightInv, FlightTypeOK, HoldersAgree, TypeOK, TrackerInv,
         Accounted, SingleHolder, MainHolds, TaskHolds, InHand
<1>6. AbortedStreamHoldsNothing'
  BY DEF FlightInv, FlightTypeOK, HoldersAgree, TypeOK, TrackerInv,
         AbortedStreamHoldsNothing, Owned
<1>. QED BY <1>1, <1>3, <1>4, <1>5, <1>6 DEF FlightInv

\* ResendArm keeps the inductive invariant.
LEMMA ResendArmInv ==
    ASSUME FlightInv, ResendArm
    PROVE  FlightInv'
<1>. USE FlightAssumption DEF ResendArm
<1>1. TrackerInv'
  BY TrackerUnchanged DEF FlightInv
<1>2. Accounted' = Accounted
  BY DEF FlightInv, FlightTypeOK, HoldersAgree, TypeOK, TrackerInv,
         Accounted, SingleHolder, MainHolds, TaskHolds, InHand
<1>3. FlightConservation' /\ flightsize' \in Nat
  BY <1>2, KeepConserves
<1>4. FlightTypeOK'
  BY <1>1, <1>3
  DEF FlightInv, FlightTypeOK, HoldersAgree, TypeOK, TrackerInv,
      SingleHolder, MainHolds, InHand
<1>5. SingleHolder'
  BY DEF FlightInv, FlightTypeOK, HoldersAgree, TypeOK, TrackerInv,
         Accounted, SingleHolder, MainHolds, TaskHolds, InHand
<1>6. AbortedStreamHoldsNothing'
  BY DEF FlightInv, FlightTypeOK, HoldersAgree, TypeOK, TrackerInv,
         AbortedStreamHoldsNothing, Owned
<1>. QED BY <1>1, <1>3, <1>4, <1>5, <1>6 DEF FlightInv

\* OnTimeout keeps the inductive invariant.
LEMMA OnTimeoutInv ==
    ASSUME FlightInv, OnTimeout
    PROVE  FlightInv'
<1>. USE FlightAssumption DEF OnTimeout
<1>1. TrackerInv'
  BY TrackerUnchanged DEF FlightInv
<1>2. Accounted' = Accounted
  BY DEF FlightInv, FlightTypeOK, HoldersAgree, TypeOK, TrackerInv,
         Accounted, SingleHolder, MainHolds, TaskHolds, InHand
<1>3. FlightConservation' /\ flightsize' \in Nat
  BY <1>2, KeepConserves DEF on_timeout
<1>4. FlightTypeOK'
  BY <1>1, <1>3
  DEF FlightInv, FlightTypeOK, HoldersAgree, TypeOK, TrackerInv,
      SingleHolder, MainHolds, InHand, on_timeout, Most
<1>5. SingleHolder'
  BY DEF FlightInv, FlightTypeOK, HoldersAgree, TypeOK, TrackerInv,
         Accounted, SingleHolder, MainHolds, TaskHolds, InHand
<1>6. AbortedStreamHoldsNothing'
  BY DEF FlightInv, FlightTypeOK, HoldersAgree, TypeOK, TrackerInv,
         AbortedStreamHoldsNothing, Owned
<1>. QED BY <1>1, <1>3, <1>4, <1>5, <1>6 DEF FlightInv

\* ResendCancelled keeps the inductive invariant.
LEMMA ResendCancelledInv ==
    ASSUME FlightInv, ResendCancelled
    PROVE  FlightInv'
<1>0. /\ main' \in {At("select"), At("resend")}
      /\ resend_count' \in 0..(MAX_RESENDS_PER_ITERATION - 1)
  BY ResendLoopType DEF FlightInv, ResendCancelled
<1>. USE <1>0, FlightAssumption DEF ResendCancelled
<1>1. TrackerInv'
  BY TrackerUnchanged DEF FlightInv
<1>2. Accounted' = Accounted
  BY DEF FlightInv, FlightTypeOK, HoldersAgree, TypeOK, TrackerInv,
         Accounted, SingleHolder, MainHolds, TaskHolds, InHand
<1>3. FlightConservation' /\ flightsize' \in Nat
  BY <1>2, KeepConserves
<1>4. FlightTypeOK'
  BY <1>1, <1>3
  DEF FlightInv, FlightTypeOK, HoldersAgree, TypeOK, TrackerInv,
      SingleHolder, MainHolds, InHand
<1>5. SingleHolder'
  BY DEF FlightInv, FlightTypeOK, HoldersAgree, TypeOK, TrackerInv,
         Accounted, SingleHolder, MainHolds, TaskHolds, InHand
<1>6. AbortedStreamHoldsNothing'
  BY DEF FlightInv, FlightTypeOK, HoldersAgree, TypeOK, TrackerInv,
         AbortedStreamHoldsNothing, Owned
<1>. QED BY <1>1, <1>3, <1>4, <1>5, <1>6 DEF FlightInv

\* ReleaseAbandoned keeps the inductive invariant.
LEMMA ReleaseAbandonedInv ==
    ASSUME FlightInv, ReleaseAbandoned
    PROVE  FlightInv'
<1>0. /\ main' \in {At("select"), At("resend")}
      /\ resend_count' \in 0..(MAX_RESENDS_PER_ITERATION - 1)
  BY ResendLoopType DEF FlightInv, ReleaseAbandoned
<1>. USE <1>0, FlightAssumption DEF ReleaseAbandoned
<1>1. TrackerInv'
  BY TrackerUnchanged DEF FlightInv
<1>2. main.pkt \in Accounted /\ Accounted' = Accounted \ {main.pkt}
  BY DEF FlightInv, FlightTypeOK, HoldersAgree, TypeOK, TrackerInv,
         Accounted, SingleHolder, MainHolds, TaskHolds, InHand
<1>3. FlightConservation' /\ flightsize' \in Nat
  BY <1>2, ReleaseOneConserves DEF release_flightsize
<1>4. FlightTypeOK'
  BY <1>1, <1>3
  DEF FlightInv, FlightTypeOK, HoldersAgree, TypeOK, TrackerInv,
      SingleHolder, MainHolds, InHand, release_flightsize, Released_flight
<1>5. SingleHolder'
  BY DEF FlightInv, FlightTypeOK, HoldersAgree, TypeOK, TrackerInv,
         Accounted, SingleHolder, MainHolds, TaskHolds, InHand
<1>6. AbortedStreamHoldsNothing'
  BY DEF FlightInv, FlightTypeOK, HoldersAgree, TypeOK, TrackerInv,
         AbortedStreamHoldsNothing, Owned
<1>. QED BY <1>1, <1>3, <1>4, <1>5, <1>6 DEF FlightInv

\* ControlOnSend keeps the inductive invariant.
LEMMA ControlOnSendInv ==
    ASSUME FlightInv,
           NEW p \in Packet, ControlOnSend(p)
    PROVE  FlightInv'
<1>. USE FlightAssumption DEF ControlOnSend
<1>1. TrackerInv'
  BY TrackerUnchanged DEF FlightInv
<1>2. p \notin Accounted /\ Accounted' = Accounted \cup {p}
  BY DEF FlightInv, FlightTypeOK, HoldersAgree, TypeOK, TrackerInv,
         Accounted, SingleHolder, MainHolds, TaskHolds, InHand
<1>3. FlightConservation' /\ flightsize' \in Nat
  BY <1>2, SendConserves DEF on_send
<1>4. FlightTypeOK'
  BY <1>1, <1>3
  DEF FlightInv, FlightTypeOK, HoldersAgree, TypeOK, TrackerInv,
      SingleHolder, MainHolds, InHand, on_send
<1>5. SingleHolder'
  BY DEF FlightInv, FlightTypeOK, HoldersAgree, TypeOK, TrackerInv,
         Accounted, SingleHolder, MainHolds, TaskHolds, InHand
<1>6. AbortedStreamHoldsNothing'
  BY DEF FlightInv, FlightTypeOK, HoldersAgree, TypeOK, TrackerInv,
         AbortedStreamHoldsNothing, Owned
<1>. QED BY <1>1, <1>3, <1>4, <1>5, <1>6 DEF FlightInv

\* ControlSent keeps the inductive invariant.
LEMMA ControlSentInv ==
    ASSUME FlightInv, ControlSent
    PROVE  FlightInv'
<1>. USE FlightAssumption DEF ControlSent
<1>1. TrackerInv'
  BY TrackerUnchanged DEF FlightInv
<1>2. Accounted' = Accounted
  BY DEF FlightInv, FlightTypeOK, HoldersAgree, TypeOK, TrackerInv,
         Accounted, SingleHolder, MainHolds, TaskHolds, InHand
<1>3. FlightConservation' /\ flightsize' \in Nat
  BY <1>2, KeepConserves
<1>4. FlightTypeOK'
  BY <1>1, <1>3
  DEF FlightInv, FlightTypeOK, HoldersAgree, TypeOK, TrackerInv,
      SingleHolder, MainHolds, InHand
<1>5. SingleHolder'
  BY DEF FlightInv, FlightTypeOK, HoldersAgree, TypeOK, TrackerInv,
         Accounted, SingleHolder, MainHolds, TaskHolds, InHand
<1>6. AbortedStreamHoldsNothing'
  BY DEF FlightInv, FlightTypeOK, HoldersAgree, TypeOK, TrackerInv,
         AbortedStreamHoldsNothing, Owned
<1>. QED BY <1>1, <1>3, <1>4, <1>5, <1>6 DEF FlightInv

\* ControlSendFailed keeps the inductive invariant.
LEMMA ControlSendFailedInv ==
    ASSUME FlightInv, ControlSendFailed
    PROVE  FlightInv'
<1>. USE FlightAssumption DEF ControlSendFailed
<1>1. TrackerInv'
  BY TrackerUnchanged DEF FlightInv
<1>2. Accounted' = Accounted
  BY DEF FlightInv, FlightTypeOK, HoldersAgree, TypeOK, TrackerInv,
         Accounted, SingleHolder, MainHolds, TaskHolds, InHand
<1>3. FlightConservation' /\ flightsize' \in Nat
  BY <1>2, KeepConserves
<1>4. FlightTypeOK'
  BY <1>1, <1>3
  DEF FlightInv, FlightTypeOK, HoldersAgree, TypeOK, TrackerInv,
      SingleHolder, MainHolds, InHand
<1>5. SingleHolder'
  BY DEF FlightInv, FlightTypeOK, HoldersAgree, TypeOK, TrackerInv,
         Accounted, SingleHolder, MainHolds, TaskHolds, InHand
<1>6. AbortedStreamHoldsNothing'
  BY DEF FlightInv, FlightTypeOK, HoldersAgree, TypeOK, TrackerInv,
         AbortedStreamHoldsNothing, Owned
<1>. QED BY <1>1, <1>3, <1>4, <1>5, <1>6 DEF FlightInv

\* CwndAdmitted keeps the inductive invariant.
LEMMA CwndAdmittedInv ==
    ASSUME FlightInv,
           NEW s \in Stream, NEW p \in Packet, CwndAdmitted(s, p)
    PROVE  FlightInv'
<1>. USE FlightAssumption DEF CwndAdmitted
<1>1. TrackerInv'
  BY TrackerUnchanged DEF FlightInv
<1>2. Accounted' = Accounted
  BY DEF FlightInv, FlightTypeOK, HoldersAgree, TypeOK, TrackerInv,
         Accounted, SingleHolder, MainHolds, TaskHolds, InHand
<1>3. FlightConservation' /\ flightsize' \in Nat
  BY <1>2, KeepConserves
<1>4. FlightTypeOK'
  BY <1>1, <1>3
  DEF FlightInv, FlightTypeOK, HoldersAgree, TypeOK, TrackerInv,
      SingleHolder, MainHolds, InHand
<1>5. SingleHolder'
  BY DEF FlightInv, FlightTypeOK, HoldersAgree, TypeOK, TrackerInv,
         Accounted, SingleHolder, MainHolds, TaskHolds, InHand
<1>6. AbortedStreamHoldsNothing'
  BY DEF FlightInv, FlightTypeOK, HoldersAgree, TypeOK, TrackerInv,
         AbortedStreamHoldsNothing, Owned
<1>. QED BY <1>1, <1>3, <1>4, <1>5, <1>6 DEF FlightInv

\* FragmentOnSend keeps the inductive invariant.
LEMMA FragmentOnSendInv ==
    ASSUME FlightInv,
           NEW s \in Stream, FragmentOnSend(s)
    PROVE  FlightInv'
<1>. USE FlightAssumption DEF FragmentOnSend
<1>1. TrackerInv'
  BY TrackerUnchanged DEF FlightInv
<1>2. cur[s] \in Packet /\ cur[s] \notin Accounted /\ Accounted' = Accounted \cup {cur[s]}
  BY DEF FlightInv, FlightTypeOK, HoldersAgree, TypeOK, TrackerInv,
         Accounted, SingleHolder, MainHolds, TaskHolds, InHand
<1>3. FlightConservation' /\ flightsize' \in Nat
  BY <1>2, SendConserves DEF on_send
<1>4. FlightTypeOK'
  BY <1>1, <1>3
  DEF FlightInv, FlightTypeOK, HoldersAgree, TypeOK, TrackerInv,
      SingleHolder, MainHolds, InHand, on_send
<1>5. SingleHolder'
  BY DEF FlightInv, FlightTypeOK, HoldersAgree, TypeOK, TrackerInv,
         Accounted, SingleHolder, MainHolds, TaskHolds, InHand
<1>6. AbortedStreamHoldsNothing'
  BY DEF FlightInv, FlightTypeOK, HoldersAgree, TypeOK, TrackerInv,
         AbortedStreamHoldsNothing, Owned
<1>. QED BY <1>1, <1>3, <1>4, <1>5, <1>6 DEF FlightInv

\* FragmentSent keeps the inductive invariant.
LEMMA FragmentSentInv ==
    ASSUME FlightInv,
           NEW s \in Stream, FragmentSent(s)
    PROVE  FlightInv'
<1>. USE FlightAssumption DEF FragmentSent
<1>1. TrackerInv'
  BY TrackerUnchanged DEF FlightInv
<1>2. Accounted' = Accounted
  BY DEF FlightInv, FlightTypeOK, HoldersAgree, TypeOK, TrackerInv,
         Accounted, SingleHolder, MainHolds, TaskHolds, InHand
<1>3. FlightConservation' /\ flightsize' \in Nat
  BY <1>2, KeepConserves
<1>4. FlightTypeOK'
  BY <1>1, <1>3
  DEF FlightInv, FlightTypeOK, HoldersAgree, TypeOK, TrackerInv,
      SingleHolder, MainHolds, InHand
<1>5. SingleHolder'
  BY DEF FlightInv, FlightTypeOK, HoldersAgree, TypeOK, TrackerInv,
         Accounted, SingleHolder, MainHolds, TaskHolds, InHand
<1>6. AbortedStreamHoldsNothing'
  BY DEF FlightInv, FlightTypeOK, HoldersAgree, TypeOK, TrackerInv,
         AbortedStreamHoldsNothing, Owned
<1>. QED BY <1>1, <1>3, <1>4, <1>5, <1>6 DEF FlightInv

\* FragmentSendFailed keeps the inductive invariant.
LEMMA FragmentSendFailedInv ==
    ASSUME FlightInv,
           NEW s \in Stream, FragmentSendFailed(s)
    PROVE  FlightInv'
<1>. USE FlightAssumption DEF FragmentSendFailed
<1>1. TrackerInv'
  BY TrackerUnchanged DEF FlightInv
<1>2. Accounted' = Accounted
  BY DEF FlightInv, FlightTypeOK, HoldersAgree, TypeOK, TrackerInv,
         Accounted, SingleHolder, MainHolds, TaskHolds, InHand
<1>3. FlightConservation' /\ flightsize' \in Nat
  BY <1>2, KeepConserves
<1>4. FlightTypeOK'
  BY <1>1, <1>3
  DEF FlightInv, FlightTypeOK, HoldersAgree, TypeOK, TrackerInv,
      SingleHolder, MainHolds, InHand
<1>5. SingleHolder'
  BY DEF FlightInv, FlightTypeOK, HoldersAgree, TypeOK, TrackerInv,
         Accounted, SingleHolder, MainHolds, TaskHolds, InHand
<1>6. AbortedStreamHoldsNothing'
  BY DEF FlightInv, FlightTypeOK, HoldersAgree, TypeOK, TrackerInv,
         AbortedStreamHoldsNothing, Owned
<1>. QED BY <1>1, <1>3, <1>4, <1>5, <1>6 DEF FlightInv

\* StreamGivesUp keeps the inductive invariant.
LEMMA StreamGivesUpInv ==
    ASSUME FlightInv,
           NEW s \in Stream, StreamGivesUp(s)
    PROVE  FlightInv'
<1>. USE FlightAssumption DEF StreamGivesUp
<1>1. TrackerInv'
  BY TrackerUnchanged DEF FlightInv
<1>2. Accounted' = Accounted
  BY DEF FlightInv, FlightTypeOK, HoldersAgree, TypeOK, TrackerInv,
         Accounted, SingleHolder, MainHolds, TaskHolds, InHand
<1>3. FlightConservation' /\ flightsize' \in Nat
  BY <1>2, KeepConserves
<1>4. FlightTypeOK'
  BY <1>1, <1>3
  DEF FlightInv, FlightTypeOK, HoldersAgree, TypeOK, TrackerInv,
      SingleHolder, MainHolds, InHand
<1>5. SingleHolder'
  BY DEF FlightInv, FlightTypeOK, HoldersAgree, TypeOK, TrackerInv,
         Accounted, SingleHolder, MainHolds, TaskHolds, InHand
<1>6. AbortedStreamHoldsNothing'
  BY DEF FlightInv, FlightTypeOK, HoldersAgree, TypeOK, TrackerInv,
         AbortedStreamHoldsNothing, Owned
<1>. QED BY <1>1, <1>3, <1>4, <1>5, <1>6 DEF FlightInv

\* AbortRelease keeps the inductive invariant.
LEMMA AbortReleaseInv ==
    ASSUME FlightInv,
           NEW s \in Stream, AbortRelease(s)
    PROVE  FlightInv'
<1>. USE FlightAssumption DEF AbortRelease
<1>1. TrackerInv'
  BY TrackerUnchanged DEF FlightInv
<1>2. dropped[s] \in SUBSET Accounted /\ Accounted' = Accounted \ dropped[s]
  BY DEF FlightInv, FlightTypeOK, HoldersAgree, TypeOK, TrackerInv,
         Accounted, SingleHolder, MainHolds, TaskHolds, InHand
<1>3. FlightConservation' /\ flightsize' \in Nat
  BY <1>2, ReleaseConserves DEF release_flightsize
<1>4. FlightTypeOK'
  BY <1>1, <1>3
  DEF FlightInv, FlightTypeOK, HoldersAgree, TypeOK, TrackerInv,
      SingleHolder, MainHolds, InHand, release_flightsize, Released_flight
<1>5. SingleHolder'
  BY DEF FlightInv, FlightTypeOK, HoldersAgree, TypeOK, TrackerInv,
         Accounted, SingleHolder, MainHolds, TaskHolds, InHand
<1>6. AbortedStreamHoldsNothing'
  BY DEF FlightInv, FlightTypeOK, HoldersAgree, TypeOK, TrackerInv,
         AbortedStreamHoldsNothing, Owned
<1>. QED BY <1>1, <1>3, <1>4, <1>5, <1>6 DEF FlightInv

\* AbortReleaseCurrent keeps the inductive invariant.
LEMMA AbortReleaseCurrentInv ==
    ASSUME FlightInv,
           NEW s \in Stream, AbortReleaseCurrent(s)
    PROVE  FlightInv'
<1>. USE FlightAssumption DEF AbortReleaseCurrent
<1>1. TrackerInv'
  BY TrackerUnchanged DEF FlightInv
<1>2. cur[s] \in Accounted /\ Accounted' = Accounted \ {cur[s]}
  BY DEF FlightInv, FlightTypeOK, HoldersAgree, TypeOK, TrackerInv,
         Accounted, SingleHolder, MainHolds, TaskHolds, InHand
<1>3. FlightConservation' /\ flightsize' \in Nat
  BY <1>2, ReleaseOneConserves DEF release_flightsize
<1>4. FlightTypeOK'
  BY <1>1, <1>3
  DEF FlightInv, FlightTypeOK, HoldersAgree, TypeOK, TrackerInv,
      SingleHolder, MainHolds, InHand, release_flightsize, Released_flight
<1>5. SingleHolder'
  BY DEF FlightInv, FlightTypeOK, HoldersAgree, TypeOK, TrackerInv,
         Accounted, SingleHolder, MainHolds, TaskHolds, InHand
<1>6. AbortedStreamHoldsNothing'
  BY DEF FlightInv, FlightTypeOK, HoldersAgree, TypeOK, TrackerInv,
         AbortedStreamHoldsNothing, Owned
<1>. QED BY <1>1, <1>3, <1>4, <1>5, <1>6 DEF FlightInv

\* StreamDone keeps the inductive invariant.
LEMMA StreamDoneInv ==
    ASSUME FlightInv,
           NEW s \in Stream, StreamDone(s)
    PROVE  FlightInv'
<1>. USE FlightAssumption DEF StreamDone
<1>1. TrackerInv'
  BY TrackerUnchanged DEF FlightInv
<1>2. Accounted' = Accounted
  BY DEF FlightInv, FlightTypeOK, HoldersAgree, TypeOK, TrackerInv,
         Accounted, SingleHolder, MainHolds, TaskHolds, InHand
<1>3. FlightConservation' /\ flightsize' \in Nat
  BY <1>2, KeepConserves
<1>4. FlightTypeOK'
  BY <1>1, <1>3
  DEF FlightInv, FlightTypeOK, HoldersAgree, TypeOK, TrackerInv,
      SingleHolder, MainHolds, InHand
<1>5. SingleHolder'
  BY DEF FlightInv, FlightTypeOK, HoldersAgree, TypeOK, TrackerInv,
         Accounted, SingleHolder, MainHolds, TaskHolds, InHand
<1>6. AbortedStreamHoldsNothing'
  BY DEF FlightInv, FlightTypeOK, HoldersAgree, TypeOK, TrackerInv,
         AbortedStreamHoldsNothing, Owned
<1>. QED BY <1>1, <1>3, <1>4, <1>5, <1>6 DEF FlightInv

\* RecvReceipts keeps the inductive invariant.
LEMMA RecvReceiptsInv ==
    ASSUME FlightInv,
           NEW R \in SUBSET on_wire, RecvReceipts(R)
    PROVE  FlightInv'
<1>. USE FlightAssumption DEF RecvReceipts
<1>1. TrackerInv'
  <2>1. R \in SUBSET Packet BY DEF FlightInv, FlightTypeOK
  <2>. QED BY <2>1, ReceiptsInv DEF FlightInv
<1>2. Accounted' = Accounted
  BY DEF FlightInv, FlightTypeOK, HoldersAgree, TypeOK, TrackerInv,
         Accounted, SingleHolder, MainHolds, TaskHolds, InHand, Acked,
         report_received_receipts, Forget, Untagged
<1>3. FlightConservation' /\ flightsize' \in Nat
  BY <1>2, KeepConserves
<1>4. FlightTypeOK'
  BY <1>1, <1>3
  DEF FlightInv, FlightTypeOK, HoldersAgree, TypeOK, TrackerInv,
      SingleHolder, MainHolds, InHand, Acked, report_received_receipts, Forget, Untagged
<1>5. SingleHolder'
  BY DEF FlightInv, FlightTypeOK, HoldersAgree, TypeOK, TrackerInv,
         Accounted, SingleHolder, MainHolds, TaskHolds, InHand, Acked,
         report_received_receipts, Forget, Untagged
<1>6. AbortedStreamHoldsNothing'
  BY TrackerAssumption DEF FlightInv, FlightTypeOK, HoldersAgree, TypeOK,
  TrackerInv,
         AbortedStreamHoldsNothing, Owned, Acked, report_received_receipts,
         Forget, Untagged
<1>. QED BY <1>1, <1>3, <1>4, <1>5, <1>6 DEF FlightInv

\* ResendTlp keeps the inductive invariant.
LEMMA ResendTlpInv ==
    ASSUME FlightInv,
           NEW p \in Packet, ResendTlp(p)
    PROVE  FlightInv'
<1>. USE FlightAssumption DEF ResendTlp
<1>1. TrackerInv'
  BY TlpInv, FrontIsPending DEF FlightInv, get_resend_tlp
<1>2. Accounted' = Accounted
  BY FrontIsPending DEF FlightInv, FlightTypeOK, HoldersAgree, TypeOK,
  TrackerInv,
         Accounted, SingleHolder, MainHolds, TaskHolds, InHand, get_resend_tlp
<1>3. FlightConservation' /\ flightsize' \in Nat
  BY <1>2, KeepConserves
<1>4. FlightTypeOK'
  BY FrontIsPending, <1>1, <1>3
  DEF FlightInv, FlightTypeOK, HoldersAgree, TypeOK, TrackerInv,
      SingleHolder, MainHolds, InHand, get_resend_tlp
<1>5. SingleHolder'
  BY FrontIsPending DEF FlightInv, FlightTypeOK, HoldersAgree, TypeOK,
  TrackerInv,
         Accounted, SingleHolder, MainHolds, TaskHolds, InHand, get_resend_tlp
<1>6. AbortedStreamHoldsNothing'
  BY FrontIsPending DEF FlightInv, FlightTypeOK, HoldersAgree, TypeOK,
  TrackerInv,
         AbortedStreamHoldsNothing, Owned, get_resend_tlp
<1>. QED BY <1>1, <1>3, <1>4, <1>5, <1>6 DEF FlightInv

\* ResendRto keeps the inductive invariant.
LEMMA ResendRtoInv ==
    ASSUME FlightInv,
           NEW p \in Packet, ResendRto(p)
    PROVE  FlightInv'
<1>. USE FlightAssumption DEF ResendRto
<1>1. TrackerInv'
  BY RtoInv, FrontIsPending DEF FlightInv, get_resend_rto
<1>2. Accounted' = Accounted
  BY FrontIsPending DEF FlightInv, FlightTypeOK, HoldersAgree, TypeOK,
  TrackerInv,
         Accounted, SingleHolder, MainHolds, TaskHolds, InHand, get_resend_rto
<1>3. FlightConservation' /\ flightsize' \in Nat
  BY <1>2, KeepConserves
<1>4. FlightTypeOK'
  BY FrontIsPending, <1>1, <1>3
  DEF FlightInv, FlightTypeOK, HoldersAgree, TypeOK, TrackerInv,
      SingleHolder, MainHolds, InHand, get_resend_rto
<1>5. SingleHolder'
  BY FrontIsPending DEF FlightInv, FlightTypeOK, HoldersAgree, TypeOK,
  TrackerInv,
         Accounted, SingleHolder, MainHolds, TaskHolds, InHand, get_resend_rto
<1>6. AbortedStreamHoldsNothing'
  BY FrontIsPending DEF FlightInv, FlightTypeOK, HoldersAgree, TypeOK,
  TrackerInv,
         AbortedStreamHoldsNothing, Owned, get_resend_rto
<1>. QED BY <1>1, <1>3, <1>4, <1>5, <1>6 DEF FlightInv

\* Resent keeps the inductive invariant.
LEMMA ResentInv ==
    ASSUME FlightInv,
           NEW ok \in BOOLEAN, Resent(ok)
    PROVE  FlightInv'
<1>0. /\ main' \in {At("select"), At("resend")}
      /\ resend_count' \in 0..(MAX_RESENDS_PER_ITERATION - 1)
  BY ResendLoopType DEF FlightInv, Resent
<1>. USE <1>0, FlightAssumption DEF Resent
<1>1. TrackerInv'
  <2>1. main.pkt \in Packet BY DEF FlightInv, FlightTypeOK
  <2>. QED BY <2>1, RefreshInv DEF FlightInv
<1>2. Accounted' = Accounted
  BY DEF FlightInv, FlightTypeOK, HoldersAgree, TypeOK, TrackerInv,
         Accounted, SingleHolder, MainHolds, TaskHolds, InHand,
         refresh_sent_packet
<1>3. FlightConservation' /\ flightsize' \in Nat
  BY <1>2, KeepConserves
<1>4. FlightTypeOK'
  BY <1>1, <1>3
  DEF FlightInv, FlightTypeOK, HoldersAgree, TypeOK, TrackerInv,
      SingleHolder, MainHolds, InHand, refresh_sent_packet
<1>5. SingleHolder'
  BY DEF FlightInv, FlightTypeOK, HoldersAgree, TypeOK, TrackerInv,
         Accounted, SingleHolder, MainHolds, TaskHolds, InHand,
         refresh_sent_packet
<1>6. AbortedStreamHoldsNothing'
  BY DEF FlightInv, FlightTypeOK, HoldersAgree, TypeOK, TrackerInv,
         AbortedStreamHoldsNothing, Owned, refresh_sent_packet
<1>. QED BY <1>1, <1>3, <1>4, <1>5, <1>6 DEF FlightInv

\* ResendAbandon keeps the inductive invariant.
LEMMA ResendAbandonInv ==
    ASSUME FlightInv,
           NEW p \in Packet, ResendAbandon(p)
    PROVE  FlightInv'
<1>. USE FlightAssumption DEF ResendAbandon
<1>1. TrackerInv'
  BY AbandonInv DEF FlightInv
<1>0. p \in pending_receipts
  BY FrontIsPending DEF get_resend_abandon
<1>2. Accounted' = Accounted
  BY <1>0 DEF FlightInv, FlightTypeOK, HoldersAgree, TypeOK, TrackerInv,
         Accounted, SingleHolder, MainHolds, TaskHolds, InHand,
         get_resend_abandon, Forget, Untagged
<1>3. FlightConservation' /\ flightsize' \in Nat
  BY <1>2, KeepConserves
<1>4. FlightTypeOK'
  BY <1>0, <1>1, <1>3
  DEF FlightInv, FlightTypeOK, HoldersAgree, TypeOK, TrackerInv,
      SingleHolder, MainHolds, InHand, get_resend_abandon, Forget, Untagged
<1>5. SingleHolder'
  BY <1>0 DEF FlightInv, FlightTypeOK, HoldersAgree, TypeOK, TrackerInv,
         Accounted, SingleHolder, MainHolds, TaskHolds, InHand,
         get_resend_abandon, Forget, Untagged
<1>6. AbortedStreamHoldsNothing'
  BY <1>0, TrackerAssumption DEF FlightInv, FlightTypeOK, HoldersAgree, TypeOK,
  TrackerInv,
         AbortedStreamHoldsNothing, Owned, get_resend_abandon, Forget, Untagged
<1>. QED BY <1>1, <1>3, <1>4, <1>5, <1>6 DEF FlightInv

\* ResendWait keeps the inductive invariant.
LEMMA ResendWaitInv ==
    ASSUME FlightInv, ResendWait
    PROVE  FlightInv'
<1>0. /\ main' \in {At("select"), At("resend")}
      /\ resend_count' \in 0..(MAX_RESENDS_PER_ITERATION - 1)
  BY ResendLoopType DEF FlightInv, ResendWait
<1>. USE <1>0, FlightAssumption DEF ResendWait
<1>1. TrackerInv'
  BY WaitInv DEF FlightInv
<1>2. Accounted' = Accounted
  BY DEF FlightInv, FlightTypeOK, HoldersAgree, TypeOK, TrackerInv,
         Accounted, SingleHolder, MainHolds, TaskHolds, InHand, get_resend_wait
<1>3. FlightConservation' /\ flightsize' \in Nat
  BY <1>2, KeepConserves
<1>4. FlightTypeOK'
  BY <1>1, <1>3
  DEF FlightInv, FlightTypeOK, HoldersAgree, TypeOK, TrackerInv,
      SingleHolder, MainHolds, InHand, get_resend_wait
<1>5. SingleHolder'
  BY DEF FlightInv, FlightTypeOK, HoldersAgree, TypeOK, TrackerInv,
         Accounted, SingleHolder, MainHolds, TaskHolds, InHand, get_resend_wait
<1>6. AbortedStreamHoldsNothing'
  BY DEF FlightInv, FlightTypeOK, HoldersAgree, TypeOK, TrackerInv,
         AbortedStreamHoldsNothing, Owned, get_resend_wait
<1>. QED BY <1>1, <1>3, <1>4, <1>5, <1>6 DEF FlightInv

\* ControlRegister keeps the inductive invariant.
LEMMA ControlRegisterInv ==
    ASSUME FlightInv, ControlRegister
    PROVE  FlightInv'
<1>. USE FlightAssumption DEF ControlRegister
<1>1. TrackerInv'
  <2>1. main.pkt \in Packet BY DEF FlightInv, FlightTypeOK
  <2>. QED BY <2>1, ReportSentInv DEF FlightInv
<1>2. Accounted' = Accounted
  BY DEF FlightInv, FlightTypeOK, HoldersAgree, TypeOK, TrackerInv,
         Accounted, SingleHolder, MainHolds, TaskHolds, InHand,
         report_sent_packet
<1>3. FlightConservation' /\ flightsize' \in Nat
  BY <1>2, KeepConserves
<1>4. FlightTypeOK'
  BY <1>1, <1>3
  DEF FlightInv, FlightTypeOK, HoldersAgree, TypeOK, TrackerInv,
      SingleHolder, MainHolds, InHand, report_sent_packet
<1>5. SingleHolder'
  BY DEF FlightInv, FlightTypeOK, HoldersAgree, TypeOK, TrackerInv,
         Accounted, SingleHolder, MainHolds, TaskHolds, InHand,
         report_sent_packet
<1>6. AbortedStreamHoldsNothing'
  BY TrackerAssumption DEF FlightInv, FlightTypeOK, HoldersAgree, TypeOK,
  TrackerInv,
         AbortedStreamHoldsNothing, Owned, report_sent_packet
<1>. QED BY <1>1, <1>3, <1>4, <1>5, <1>6 DEF FlightInv

\* FragmentRegister keeps the inductive invariant.
LEMMA FragmentRegisterInv ==
    ASSUME FlightInv,
           NEW s \in Stream, FragmentRegister(s)
    PROVE  FlightInv'
<1>. USE FlightAssumption DEF FragmentRegister
<1>1. TrackerInv'
  <2>1. cur[s] \in Packet BY DEF FlightInv, FlightTypeOK, HoldersAgree
  <2>. QED BY <2>1, ReportSentInv DEF FlightInv
<1>2. Accounted' = Accounted
  BY DEF FlightInv, FlightTypeOK, HoldersAgree, TypeOK, TrackerInv,
         Accounted, SingleHolder, MainHolds, TaskHolds, InHand,
         report_sent_packet
<1>3. FlightConservation' /\ flightsize' \in Nat
  BY <1>2, KeepConserves
<1>4. FlightTypeOK'
  BY <1>1, <1>3
  DEF FlightInv, FlightTypeOK, HoldersAgree, TypeOK, TrackerInv,
      SingleHolder, MainHolds, InHand, report_sent_packet
<1>5. SingleHolder'
  BY DEF FlightInv, FlightTypeOK, HoldersAgree, TypeOK, TrackerInv,
         Accounted, SingleHolder, MainHolds, TaskHolds, InHand,
         report_sent_packet
<1>6. AbortedStreamHoldsNothing'
  BY DEF FlightInv, FlightTypeOK, HoldersAgree, TypeOK, TrackerInv,
         AbortedStreamHoldsNothing, Owned, report_sent_packet
<1>. QED BY <1>1, <1>3, <1>4, <1>5, <1>6 DEF FlightInv

\* AbortDropStream keeps the inductive invariant.
LEMMA AbortDropStreamInv ==
    ASSUME FlightInv,
           NEW s \in Stream, AbortDropStream(s)
    PROVE  FlightInv'
<1>. USE FlightAssumption DEF AbortDropStream
<1>1. TrackerInv'
  BY DropStreamInv DEF FlightInv
<1>2. Accounted' = Accounted
  BY DEF FlightInv, FlightTypeOK, HoldersAgree, TypeOK, TrackerInv,
         Accounted, SingleHolder, MainHolds, TaskHolds, InHand, drop_stream,
         Forget, Untagged, Released
<1>3. FlightConservation' /\ flightsize' \in Nat
  BY <1>2, KeepConserves
<1>4. FlightTypeOK'
  BY <1>1, <1>3
  DEF FlightInv, FlightTypeOK, HoldersAgree, TypeOK, TrackerInv,
      SingleHolder, MainHolds, InHand, drop_stream, Forget, Untagged, Released
<1>5. SingleHolder'
  BY DEF FlightInv, FlightTypeOK, HoldersAgree, TypeOK, TrackerInv,
         Accounted, SingleHolder, MainHolds, TaskHolds, InHand, drop_stream,
         Forget, Untagged, Released
<1>6. AbortedStreamHoldsNothing'
  BY TrackerAssumption DEF FlightInv, FlightTypeOK, HoldersAgree, TypeOK,
  TrackerInv,
         AbortedStreamHoldsNothing, Owned, drop_stream, Forget, Untagged, Released
<1>. QED BY <1>1, <1>3, <1>4, <1>5, <1>6 DEF FlightInv

\* Time keeps the inductive invariant.
LEMMA TimeInv ==
    ASSUME FlightInv, Time
    PROVE  FlightInv'
<1>. USE FlightAssumption DEF Time
<1>1. TrackerInv'
  BY TickInv DEF FlightInv
<1>2. Accounted' = Accounted
  BY DEF FlightInv, FlightTypeOK, HoldersAgree, TypeOK, TrackerInv,
         Accounted, SingleHolder, MainHolds, TaskHolds, InHand, Tick
<1>3. FlightConservation' /\ flightsize' \in Nat
  BY <1>2, KeepConserves
<1>4. FlightTypeOK'
  BY <1>1, <1>3
  DEF FlightInv, FlightTypeOK, HoldersAgree, TypeOK, TrackerInv,
      SingleHolder, MainHolds, InHand, Tick
<1>5. SingleHolder'
  BY DEF FlightInv, FlightTypeOK, HoldersAgree, TypeOK, TrackerInv,
         Accounted, SingleHolder, MainHolds, TaskHolds, InHand, Tick
<1>6. AbortedStreamHoldsNothing'
  BY DEF FlightInv, FlightTypeOK, HoldersAgree, TypeOK, TrackerInv,
         AbortedStreamHoldsNothing, Owned, Tick
<1>. QED BY <1>1, <1>3, <1>4, <1>5, <1>6 DEF FlightInv

\* Every step of the sending half keeps the inductive invariant.
LEMMA FlightStep == FlightInv /\ [FlightNext]_vars => FlightInv'
<1>. SUFFICES ASSUME FlightInv, [FlightNext]_vars PROVE FlightInv'
  OBVIOUS
<1>1. ASSUME NEW R \in SUBSET on_wire, RecvReceipts(R) PROVE FlightInv'
  BY <1>1, RecvReceiptsInv
<1>2. ASSUME MainStep PROVE FlightInv'
  BY <1>2, OnAckInv, AcksDoneInv, ResendTlpInv, ResendRtoInv, ResendAbandonInv,
     ResendWaitInv, OnTimeoutInv, ResentInv, ResendCancelledInv,
     ReleaseAbandonedInv, ControlSentInv, ControlRegisterInv,
     ControlSendFailedInv DEF MainStep, Resend
<1>3. CASE ResendArm BY <1>3, ResendArmInv
<1>4. ASSUME NEW p \in Packet, ControlOnSend(p) PROVE FlightInv'
  BY <1>4, ControlOnSendInv
<1>5. ASSUME NEW s \in Stream, TaskStep(s) PROVE FlightInv'
  BY <1>5, CwndAdmittedInv, FragmentOnSendInv, FragmentSentInv,
     FragmentRegisterInv, FragmentSendFailedInv, StreamGivesUpInv,
     AbortDropStreamInv, AbortReleaseInv, AbortReleaseCurrentInv,
     StreamDoneInv DEF TaskStep
<1>6. CASE Time BY <1>6, TimeInv
<1>7. CASE UNCHANGED vars
  <2>1. TrackerInv' BY <1>7, TrackerUnchanged DEF FlightInv, vars
  <2>2. Accounted' = Accounted
    BY <1>7 DEF vars, Accounted, MainHolds, TaskHolds, InHand
  <2>3. FlightConservation' BY <1>7, <2>2, KeepConserves DEF vars
  <2>4. FlightTypeOK'
    BY <1>7 DEF vars, FlightInv, FlightTypeOK, HoldersAgree, TypeOK
  <2>5. SingleHolder'
    BY <1>7 DEF vars, FlightInv, SingleHolder, MainHolds, InHand
  <2>6. AbortedStreamHoldsNothing'
    BY <1>7 DEF vars, FlightInv, AbortedStreamHoldsNothing, Owned
  <2>. QED BY <2>1, <2>3, <2>4, <2>5, <2>6 DEF FlightInv
<1>. QED BY <1>1, <1>2, <1>3, <1>4, <1>5, <1>6, <1>7 DEF FlightNext

\* Type correctness of the sending half, with what the program counters of the
\* tasks say about the packet in hand.
THEOREM FlightTypeCorrect == FlightSpec => []FlightTypeOK
<1>1. Init => FlightInv BY FlightInitInv
<1>2. FlightInv /\ [FlightNext]_vars => FlightInv' BY FlightStep
<1>. QED BY <1>1, <1>2, PTL DEF FlightSpec, FlightInv

\* Flight size is conserved: in every interleaving of the connection's task and
\* any number of stream tasks, with sends that fail, recv() cancelled at its
\* awaits and receipts that are lost, repeated or early, no packet has two
\* holders and flight size is the bytes of the packets that have one.
THEOREM FlightSafety == FlightSpec => [](SingleHolder /\ FlightConservation)
<1>1. Init => FlightInv BY FlightInitInv
<1>2. FlightInv /\ [FlightNext]_vars => FlightInv' BY FlightStep
<1>. QED BY <1>1, <1>2, PTL DEF FlightSpec, FlightInv

\* From its drop_stream on, an aborted stream has no packet in the tracker, and
\* the fragment whose send failed is not there to be released a second time.
THEOREM AbortSafety ==
    FlightSpec => [](AbortedStreamHoldsNothing /\ FailedFragmentIsUntracked)
<1>1. Init => FlightInv BY FlightInitInv
<1>2. FlightInv /\ [FlightNext]_vars => FlightInv' BY FlightStep
<1>3. FlightInv => FailedFragmentIsUntracked
  BY DEF FlightInv, SingleHolder, InHand, FailedFragmentIsUntracked
<1>. QED BY <1>1, <1>2, <1>3, PTL DEF FlightSpec, FlightInv

\* No packet has two holders: none is both tracked and in the hands of a task, or of two.
COROLLARY HolderIsUnique == FlightSpec => []SingleHolder
BY FlightSafety, PTL

\* Under the tasks that share it, the maps of the tracker stay in lockstep and a packet that was
\* sent again gives no RTT sample.
THEOREM TrackerInUse == FlightSpec => [](MapsInLockstep /\ ResendsAreExcludedFromRtt)
<1>1. Init => FlightInv BY FlightInitInv
<1>2. FlightInv /\ [FlightNext]_vars => FlightInv' BY FlightStep
<1>. QED BY <1>1, <1>2, PTL DEF FlightSpec, FlightInv, TrackerInv

\* Karn's rule: a packet that was sent again is excluded from the RTT estimate until it is
\* forgotten, whichever task sends, aborts or acknowledges.
COROLLARY KarnIsKept == FlightSpec => []ResendsAreExcludedFromRtt
BY TrackerInUse, PTL

\* The tasks use the tracker only through its methods.
LEMMA FlightStepIsTrackerStep ==
    ASSUME FlightTypeOK, [FlightNext]_vars
    PROVE  [Next]_trackerVars
<1>1. ASSUME NEW R \in SUBSET on_wire, RecvReceipts(R) PROVE Next
  <2>1. R \in SUBSET Packet
    BY DEF FlightTypeOK
  <2>. QED BY <1>1, <2>1 DEF RecvReceipts, Next
<1>2. ASSUME MainStep PROVE Next \/ UNCHANGED trackerVars
  <2>1. ASSUME NEW ok \in BOOLEAN, Resent(ok) PROVE Next
    <3>1. main.pkt \in Packet
      BY <2>1 DEF Resent, FlightTypeOK
    <3>. QED BY <2>1, <3>1 DEF Resent, Next
  <2>2. CASE ControlRegister
    <3>1. main.pkt \in Packet
      BY <2>2 DEF ControlRegister, FlightTypeOK
    <3>. QED BY <2>2, <3>1 DEF ControlRegister, Next
  <2>3. CASE (\E p \in Packet : OnAck(p)) \/ AcksDone \/ OnTimeout \/ ResendCancelled
             \/ ReleaseAbandoned \/ ControlSent \/ ControlSendFailed
    BY <2>3 DEF OnAck, AcksDone, OnTimeout, ResendCancelled, ReleaseAbandoned, ControlSent,
                ControlSendFailed
  <2>4. ASSUME Resend PROVE Next
    BY <2>4 DEF Resend, ResendTlp, ResendRto, ResendAbandon, ResendWait, Next
  <2>. QED BY <1>2, <2>1, <2>2, <2>3, <2>4 DEF MainStep
<1>3. CASE ResendArm
  BY <1>3 DEF ResendArm
<1>4. ASSUME NEW p \in Packet, ControlOnSend(p) PROVE UNCHANGED trackerVars
  BY <1>4 DEF ControlOnSend
<1>5. ASSUME NEW s \in Stream, TaskStep(s) PROVE Next \/ UNCHANGED trackerVars
  <2>1. CASE FragmentRegister(s)
    <3>1. cur[s] \in Packet
      BY <2>1 DEF FragmentRegister, FlightTypeOK, HoldersAgree
    <3>. QED BY <2>1, <3>1 DEF FragmentRegister, Next
  <2>2. CASE AbortDropStream(s)
    BY <2>2 DEF AbortDropStream, Next
  <2>3. CASE (\E p \in Packet : CwndAdmitted(s, p)) \/ FragmentOnSend(s) \/ FragmentSent(s)
             \/ FragmentSendFailed(s) \/ StreamGivesUp(s) \/ AbortRelease(s)
             \/ AbortReleaseCurrent(s) \/ StreamDone(s)
    BY <2>3 DEF CwndAdmitted, FragmentOnSend, FragmentSent, FragmentSendFailed, StreamGivesUp,
                AbortRelease, AbortReleaseCurrent, StreamDone
  <2>. QED BY <1>5, <2>1, <2>2, <2>3 DEF TaskStep
<1>6. ASSUME Time PROVE Next
  BY <1>6 DEF Time, Next
<1>7. CASE UNCHANGED vars
  BY <1>7 DEF vars
<1>. QED BY <1>1, <1>2, <1>3, <1>4, <1>5, <1>6, <1>7 DEF FlightNext

\* The sending half implements the tracker under arbitrary callers: what holds of Spec holds
\* of the tracker that the connection's task and the stream tasks share.
THEOREM FlightImplementsTracker == FlightSpec => Spec
<1>1. Init => TrackerInit
  BY DEF Init
<1>2. FlightTypeOK /\ [FlightNext]_vars => [Next]_trackerVars
  BY FlightStepIsTrackerStep
<1>. QED BY <1>1, <1>2, FlightTypeCorrect, PTL DEF FlightSpec, Spec

\* In the sending half, too, no tracked packet is missing from the queue: none is left that
\* is never resent or abandoned and pins its bytes in flight.
COROLLARY QueueInUse == FlightSpec => []PendingIsQueued
BY FlightImplementsTracker, QueueCorrect, PTL
=============================================================================
