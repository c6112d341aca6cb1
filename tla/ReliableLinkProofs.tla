------------------------- MODULE ReliableLinkProofs -------------------------
(***************************************************************************)
(* TLAPS proofs about ReliableLink: for any set of messages, any retention *)
(* time, any queue of receipts and any number of retransmits, the          *)
(* duplicate window is exact, copies of a packet are handed up only now    *)
(* and then, receipts are accounted for, and the link implements           *)
(* MessageDelivery.                                                        *)
(***************************************************************************)
EXTENDS ReliableLink, FiniteSetTheorems, SequenceTheorems, WellFoundedInduction, TLAPS

Rx == [pc : {"select", "reported", "acking", "processing", "ticking", "replying"},
       id : Packet \cup {NoPacket}, kind : Kind,
       result : {"AlreadyReceived", "Ok", "QueueFull"},
       send_receipts : BOOLEAN, batch : Seq(Packet)]

Stamped == [id : Packet, age : 0..(RETAIN_TIME + 1)]

\* Types, and what the recv loop's program counter says of its locals.
LinkTypeOK ==
  /\ sent \subseteq Packet /\ acked \subseteq Packet /\ failed \subseteq Packet
  /\ tracked \in [Packet -> {"none", "data", "noop"}]
  /\ wire \subseteq Datagram /\ acks \subseteq SUBSET Packet
  /\ pending_receipts \in Seq(Packet)
  /\ packet_id_time \in Seq(Stamped)
  /\ time_by_packet_id \subseteq Packet
  /\ rx \in Rx
  /\ rx.pc \in {"reported", "acking", "processing"} => rx.id \in Packet
  /\ rx.pc \in {"select", "reported", "processing"} => rx.batch = <<>>
  /\ delivered \subseteq Packet /\ lost \subseteq Packet
  /\ since_accept \in [Packet -> 0..(RETAIN_TIME + 1)]

\* The deque has the ids of the map, each once and oldest first, with the time
\* since the packet was accepted.
DequeIsSorted == \A i, j \in DOMAIN packet_id_time : i < j => packet_id_time[i].age >= packet_id_time[j].age
DequeIsMap == /\ time_by_packet_id = {packet_id_time[i].id : i \in DOMAIN packet_id_time}
              /\ \A i, j \in DOMAIN packet_id_time : packet_id_time[i].id = packet_id_time[j].id => i = j
DequeIsTimed == /\ \A i \in DOMAIN packet_id_time :
                     since_accept[packet_id_time[i].id] = packet_id_time[i].age
                /\ \A p \in Packet \ time_by_packet_id : since_accept[p] = RETAIN_TIME + 1
DequeOK == DequeIsSorted /\ DequeIsMap /\ DequeIsTimed

\* A receipt leaves the pending ones only into a carrier, and that only onto the
\* wire or into lost.
ReceiptsStay == time_by_packet_id \subseteq Carried \cup lost

\* What the sender knows of a message: one that is tracked was sent and is neither
\* acknowledged nor given up; a message that fits one packet goes out as data only.
SenderOK ==
  /\ \A p \in Packet : tracked[p] # "none" => p \in sent \ (acked \cup failed)
  /\ \A p \in Fits(Packet) : tracked[p] # "noop"
  /\ acked \cap failed = {} /\ acked \cup failed \subseteq sent
  /\ \A d \in wire : d.id \in sent /\ (d.id \notin Oversized => d.kind = "data")

\* The packet in the hands of the recv loop came from the wire.
InHandOK == rx.pc \in {"reported", "acking", "processing"}
              => rx.id \in sent /\ (rx.id \notin Oversized => rx.kind = "data")

\* Every receipt of a message that fits is that of a message process_inbound is
\* committed to, or of the one in the hands of the recv loop, which is processed
\* before or with the receipt's way out, or else takes the receipt with it.
Unprocessed == IF rx.pc = "reported" /\ rx.result # "AlreadyReceived" THEN {rx.id} ELSE {}
ReceiptsAreEarned ==
  /\ Fits(Elements(pending_receipts)) \subseteq Committed \cup Unprocessed
  /\ Fits(Elements(rx.batch)) \subseteq Committed \cup (IF rx.pc = "acking" THEN {rx.id} ELSE {})
  /\ Fits(UNION acks) \subseteq Committed

LinkInv == /\ LinkTypeOK /\ DequeOK /\ ReceiptsStay
           /\ SenderOK /\ InHandOK /\ ReceiptsAreEarned
-----------------------------------------------------------------------------
\* A nonempty set of natural numbers has a least element.
LEMMA LeastOf ==
    ASSUME NEW T \in SUBSET Nat, T # {}
    PROVE  \E m \in T : \A k \in T : m <= k
<1> DEFINE F == {0..m : m \in T}
<1>1. F \subseteq FiniteSubsetsOf(Nat)
  <2>1. ASSUME NEW m \in T PROVE IsFiniteSet(0..m) /\ 0..m \in SUBSET Nat
    BY FS_Interval
  <2>2. QED
    BY <2>1 DEF FiniteSubsetsOf
<1>2. PICK S \in F : \A U \in F : <<U, S>> \notin StrictSubsetOrdering(Nat)
  <2>1. IsWellFoundedOn(StrictSubsetOrdering(Nat), FiniteSubsetsOf(Nat))
    BY FS_StrictSubsetOrderingWellFounded
  <2>2. F # {}
    OBVIOUS
  <2>3. \A R, D, G : IsWellFoundedOn(R, D) /\ G \subseteq D /\ G # {}
           => \E x \in G : \A y \in G : ~ (<<y, x>> \in R)
    BY WFMin
  <2>4. QED
    BY <1>1, <2>1, <2>2, <2>3
<1>3. PICK m \in T : S = 0..m
  OBVIOUS
<1>4. ASSUME NEW k \in T, k < m PROVE FALSE
  <2>1. 0..k \in F /\ 0..k \in SUBSET Nat /\ 0..m \in SUBSET Nat
    OBVIOUS
  <2>2. m \in 0..m /\ m \notin 0..k /\ 0..k \subseteq 0..m
    BY <1>4
  <2>3. <<0..k, 0..m>> \in StrictSubsetOrdering(Nat)
    BY <2>1, <2>2 DEF StrictSubsetOrdering
  <2>4. QED
    BY <1>2, <1>3, <2>1, <2>3
<1>5. QED
  BY <1>4

\* What one more element does to the elements of a queue.
LEMMA ElementsAppend ==
    ASSUME NEW q \in Seq(Packet), NEW p \in Packet
    PROVE  Append(q, p) \in Seq(Packet) /\ Elements(Append(q, p)) = Elements(q) \cup {p}
<1>1. DOMAIN Append(q, p) = 1..(Len(q) + 1) /\ DOMAIN q = 1..Len(q) /\ Len(q) \in Nat
  OBVIOUS
<1>2. ASSUME NEW i \in DOMAIN q PROVE i \in DOMAIN Append(q, p) /\ Append(q, p)[i] = q[i]
  BY <1>1
<1>3. Len(q) + 1 \in DOMAIN Append(q, p) /\ Append(q, p)[Len(q) + 1] = p
  BY <1>1
<1>4. ASSUME NEW i \in DOMAIN Append(q, p) PROVE i \in DOMAIN q \/ i = Len(q) + 1
  BY <1>1
<1>5. QED
  BY <1>2, <1>3, <1>4 DEF Elements

\* The elements of a queue are of its type, and an empty queue has none.
LEMMA ElementsType ==
    /\ \A q \in Seq(Packet) : Elements(q) \subseteq Packet
    /\ Elements(<<>>) = {} /\ <<>> \in Seq(Packet)
BY DEF Elements

\* One more batch among those that were sent.
LEMMA UnionAdd == \A A, X : UNION (A \cup {X}) = (UNION A) \cup X
OBVIOUS

-----------------------------------------------------------------------------
\* cleanup pops a prefix of the deque.
LEMMA PoppedIsPrefix ==
    ASSUME packet_id_time \in Seq(Stamped)
    PROVE  \E n \in 0..Len(packet_id_time) : Popped = 1..n /\ Cardinality(Popped) = n
<1> DEFINE len == Len(packet_id_time)
           T == {i \in 1..(len + 1) : i \notin Popped}
<1>1. len \in Nat /\ DOMAIN packet_id_time = 1..len /\ Popped \subseteq 1..len
  BY DEF Popped
<1>2. T \in SUBSET Nat /\ len + 1 \in T
  BY <1>1
<1>3. PICK m \in T : \A k \in T : m <= k
  BY <1>2, LeastOf
<1>4. m \in 1..(len + 1) /\ m \notin Popped
  OBVIOUS
<1>5. ASSUME NEW i \in 1..(m - 1) PROVE i \in Popped
  BY <1>1, <1>3, <1>4
<1>6. ASSUME NEW i \in Popped PROVE i \in 1..(m - 1)
  <2>1. i \in 1..len /\ \A j \in 1..i : Expired(j)
    BY <1>1 DEF Popped
  <2>2. CASE m <= i
    <3>1. m \in 1..len /\ \A j \in 1..m : j \in 1..i
      BY <1>1, <1>4, <2>1, <2>2
    <3>2. QED
      BY <1>1, <1>4, <2>1, <3>1 DEF Popped
  <2>3. QED
    BY <1>1, <1>4, <2>1, <2>2
<1>7. Popped = 1..(m - 1)
  BY <1>5, <1>6
<1>8. m - 1 \in 0..len
  BY <1>1, <1>4
<1>9. Cardinality(1..(m - 1)) = m - 1
  BY <1>4, <1>8, FS_Interval
<1>10. QED
  BY <1>7, <1>8, <1>9

\* What is left of a queue without its first n elements.
LEMMA SuffixOf ==
    ASSUME NEW S, NEW q \in Seq(S), NEW n \in 0..Len(q)
    PROVE  /\ SubSeq(q, n + 1, Len(q)) \in Seq(S)
           /\ DOMAIN SubSeq(q, n + 1, Len(q)) = 1..(Len(q) - n)
           /\ \A i \in 1..(Len(q) - n) : /\ SubSeq(q, n + 1, Len(q))[i] = q[n + i]
                                         /\ n + i \in 1..Len(q)
<1> DEFINE len == Len(q)
           w == SubSeq(q, n + 1, len)
<1>1. len \in Nat /\ n \in Nat /\ n <= len /\ \A i \in (n + 1)..len : q[i] \in S
  OBVIOUS
<1>2. /\ w \in Seq(S) /\ Len(w) = (IF n + 1 <= len THEN len - (n + 1) + 1 ELSE 0)
      /\ \A i \in 1..(len - (n + 1) + 1) : w[i] = q[(n + 1) + i - 1]
  BY <1>1, SubSeqProperties
<1> HIDE DEF w, len
<1>3. Len(w) = len - n /\ len - (n + 1) + 1 = len - n
  BY <1>1, <1>2
<1>4. \A i \in 1..(len - n) : n + i \in 1..len /\ (n + 1) + i - 1 = n + i
  BY <1>1
<1>5. DOMAIN w = 1..(len - n) /\ \A i \in 1..(len - n) : w[i] = q[n + i] /\ n + i \in 1..len
  BY <1>2, <1>3, <1>4
<1>6. QED
  BY <1>2, <1>5 DEF w, len

\* After cleanup the deque holds exactly the packets within the window.
LEMMA CleanupKeepsTheYoung ==
    ASSUME LinkTypeOK, DequeOK
    PROVE  /\ Kept \in Seq(Stamped) /\ Known \subseteq Packet
           /\ \A i, j \in DOMAIN Kept : i < j => Kept[i].age >= Kept[j].age
           /\ Known = {Kept[i].id : i \in DOMAIN Kept}
           /\ \A i, j \in DOMAIN Kept : Kept[i].id = Kept[j].id => i = j
           /\ \A i \in DOMAIN Kept : /\ since_accept[Kept[i].id] = Kept[i].age
                                     /\ Kept[i].age <= RETAIN_TIME
           /\ \A p \in Packet \ Known : since_accept[p] = RETAIN_TIME + 1
<1> DEFINE q == packet_id_time
           len == Len(packet_id_time)
<1>0. /\ q \in Seq(Stamped) /\ len \in Nat /\ DOMAIN q = 1..len
      /\ \A i \in 1..len : q[i] \in Stamped /\ q[i].age \in 0..(RETAIN_TIME + 1) /\ q[i].id \in Packet
  <2>1. q \in Seq(Stamped)
    BY DEF LinkTypeOK
  <2>2. len \in Nat /\ DOMAIN q = 1..len /\ \A i \in 1..len : q[i] \in Stamped
    BY <2>1
  <2>3. \A e \in Stamped : e.age \in 0..(RETAIN_TIME + 1) /\ e.id \in Packet
    BY DEF Stamped
  <2>4. QED
    BY <2>1, <2>2, <2>3
<1>1. PICK n \in 0..len : Popped = 1..n /\ Cardinality(Popped) = n
  BY <1>0, PoppedIsPrefix
<1>2. /\ Kept \in Seq(Stamped) /\ DOMAIN Kept = 1..(len - n)
      /\ \A i \in 1..(len - n) : Kept[i] = q[n + i] /\ n + i \in 1..len
  BY <1>0, <1>1, SuffixOf DEF Kept
<1>3. \A i \in 1..n : q[i].age = RETAIN_TIME + 1
  BY <1>0, <1>1, ReceivedAssumption DEF Popped, Expired
<1>4. ASSUME NEW i \in (n + 1)..len PROVE q[i].age <= RETAIN_TIME
  <2>1. n + 1 \in 1..len /\ n + 1 \notin Popped /\ i \in 1..len
    BY <1>0, <1>1
  <2>2. PICK j \in 1..(n + 1) : ~Expired(j)
    BY <1>0, <2>1 DEF Popped
  <2>3. j \in 1..len /\ j <= i /\ q[j].age <= RETAIN_TIME
    BY <1>0, <2>1, <2>2, ReceivedAssumption DEF Expired
  <2>4. q[i].age <= q[j].age
    BY <1>0, <2>1, <2>3 DEF DequeOK, DequeIsSorted
  <2>5. QED
    BY <1>0, <2>1, <2>3, <2>4, ReceivedAssumption
<1>5. Known = {q[i].id : i \in (n + 1)..len}
  <2>1. time_by_packet_id = {q[i].id : i \in 1..len}
    BY <1>0 DEF DequeOK, DequeIsMap
  <2>2. Known = {q[i].id : i \in 1..len} \ {q[i].id : i \in 1..n}
    BY <1>1, <2>1 DEF Known
  <2>3. \A i, j \in 1..len : q[i].id = q[j].id => i = j
    BY <1>0 DEF DequeOK, DequeIsMap
  <2>4. /\ \A i \in (n + 1)..len : i \in 1..len /\ i \notin 1..n
        /\ \A i \in 1..n : i \in 1..len
        /\ \A i \in 1..len : i \in 1..n \/ i \in (n + 1)..len
    BY <1>0, <1>1
  <2>5. QED
    BY <2>2, <2>3, <2>4
<1>6. Known = {Kept[i].id : i \in DOMAIN Kept}
  <2>1. \A i \in (n + 1)..len : i - n \in 1..(len - n) /\ Kept[i - n] = q[i]
    BY <1>0, <1>1, <1>2
  <2>2. \A i \in 1..(len - n) : n + i \in (n + 1)..len
    BY <1>0, <1>1
  <2>3. ASSUME NEW i \in (n + 1)..len PROVE \E k \in 1..(len - n) : Kept[k].id = q[i].id
    BY <2>1
  <2>4. ASSUME NEW k \in 1..(len - n) PROVE \E i \in (n + 1)..len : Kept[k].id = q[i].id
    BY <1>2, <2>2
  <2>5. {q[i].id : i \in (n + 1)..len} = {Kept[k].id : k \in 1..(len - n)}
    <3>1. ASSUME NEW x, \E i \in (n + 1)..len : x = q[i].id
          PROVE  \E k \in 1..(len - n) : x = Kept[k].id
      BY <2>3, <3>1
    <3>2. ASSUME NEW x, \E k \in 1..(len - n) : x = Kept[k].id
          PROVE  \E i \in (n + 1)..len : x = q[i].id
      BY <2>4, <3>2
    <3>3. QED
      BY <3>1, <3>2
  <2>6. QED
    BY <1>2, <1>5, <2>5
<1>7. \A i \in DOMAIN Kept : since_accept[Kept[i].id] = Kept[i].age /\ Kept[i].age <= RETAIN_TIME
  <2>1. \A i \in 1..(len - n) : n + i \in (n + 1)..len /\ n + i \in DOMAIN q
    BY <1>0, <1>1
  <2>2. \A i \in DOMAIN q : since_accept[q[i].id] = q[i].age
    BY DEF DequeOK, DequeIsTimed
  <2>3. ASSUME NEW i \in 1..(len - n)
        PROVE  since_accept[Kept[i].id] = Kept[i].age /\ Kept[i].age <= RETAIN_TIME
    <3>1. Kept[i] = q[n + i] /\ n + i \in (n + 1)..len /\ n + i \in DOMAIN q
      BY <1>2, <2>1
    <3>2. QED
      BY <1>4, <2>2, <3>1
  <2>4. DOMAIN Kept = 1..(len - n)
    BY <1>2
  <2>5. QED
    BY <2>3, <2>4
<1>8. \A i, j \in DOMAIN Kept : i < j => Kept[i].age >= Kept[j].age
  <2>1. \A i, j \in 1..(len - n) : i < j => n + i < n + j
    BY <1>0, <1>1
  <2>2. \A i, j \in 1..len : i < j => q[i].age >= q[j].age
    BY <1>0 DEF DequeOK, DequeIsSorted
  <2>3. QED
    BY <1>2, <2>1, <2>2
<1>9. \A i, j \in DOMAIN Kept : Kept[i].id = Kept[j].id => i = j
  <2> SUFFICES ASSUME NEW i \in 1..(len - n), NEW j \in 1..(len - n), Kept[i].id = Kept[j].id
               PROVE  i = j
    BY <1>2
  <2>1. n + i \in DOMAIN q /\ n + j \in DOMAIN q /\ q[n + i].id = q[n + j].id
    BY <1>0, <1>2
  <2>2. n + i = n + j
    BY <2>1 DEF DequeOK, DequeIsMap
  <2>3. QED
    BY <1>0, <1>1, <2>2
<1>10. ASSUME NEW p \in Packet \ Known PROVE since_accept[p] = RETAIN_TIME + 1
  <2>1. CASE p \in time_by_packet_id
    <3>1. PICK i \in 1..len : q[i].id = p
      BY <1>0, <2>1 DEF DequeOK, DequeIsMap
    <3>2. i \in 1..n
      BY <1>0, <1>1, <1>5, <3>1
    <3>3. QED
      BY <1>0, <1>3, <3>1, <3>2 DEF DequeOK, DequeIsTimed
  <2>2. CASE p \notin time_by_packet_id
    BY <2>2 DEF DequeOK, DequeIsTimed
  <2>3. QED
    BY <2>1, <2>2
<1>11. Known \subseteq Packet
  BY DEF Known, LinkTypeOK
<1>12. QED
  BY <1>2, <1>6, <1>7, <1>8, <1>9, <1>10, <1>11

\* The window of the types and the deque: known are those accepted lately.
LEMMA WindowIsExact == LinkTypeOK /\ DequeOK => RetentionIsExact
<1> SUFFICES ASSUME LinkTypeOK, DequeOK, NEW p \in Packet
             PROVE  p \in Known <=> since_accept[p] <= RETAIN_TIME
  BY DEF RetentionIsExact
<1>1. ASSUME p \in Known PROVE since_accept[p] <= RETAIN_TIME
  <2>1. PICK i \in DOMAIN Kept : p = Kept[i].id
    BY <1>1, CleanupKeepsTheYoung
  <2>2. QED
    BY <2>1, CleanupKeepsTheYoung
<1>2. ASSUME p \notin Known PROVE ~(since_accept[p] <= RETAIN_TIME)
  BY <1>2, CleanupKeepsTheYoung, ReceivedAssumption
<1>3. QED
  BY <1>1, <1>2

\* cleanup alone keeps the deque in order.
LEMMA CleanupKeepsDeque ==
    ASSUME LinkTypeOK, DequeOK, packet_id_time' = Kept, time_by_packet_id' = Known,
           since_accept' = since_accept
    PROVE  DequeOK' /\ packet_id_time' \in Seq(Stamped) /\ time_by_packet_id' \subseteq Packet
<1>1. DequeIsSorted'
  BY CleanupKeepsTheYoung DEF DequeIsSorted
<1>2. DequeIsMap'
  BY CleanupKeepsTheYoung DEF DequeIsMap
<1>3. DequeIsTimed'
  BY CleanupKeepsTheYoung DEF DequeIsTimed
<1>4. QED
  BY <1>1, <1>2, <1>3, CleanupKeepsTheYoung DEF DequeOK

\* A packet that is not known is accepted at the end of the deque.
LEMMA AcceptKeepsDeque ==
    ASSUME LinkTypeOK, DequeOK, NEW p \in Packet \ Known,
           packet_id_time' = Append(Kept, [id |-> p, age |-> 0]),
           time_by_packet_id' = Known \cup {p},
           since_accept' = [since_accept EXCEPT ![p] = 0]
    PROVE  /\ DequeOK' /\ packet_id_time' \in Seq(Stamped) /\ time_by_packet_id' \subseteq Packet
           /\ since_accept' \in [Packet -> 0..(RETAIN_TIME + 1)]
<1> DEFINE new == [id |-> p, age |-> 0]
           k == Len(Kept)
           w == packet_id_time'
<1>0. new \in Stamped /\ new.id = p /\ new.age = 0
  BY ReceivedAssumption DEF Stamped
<1>1. Kept \in Seq(Stamped) /\ Known \subseteq Packet /\ DOMAIN Kept = 1..k /\ k \in Nat
  BY CleanupKeepsTheYoung
<1>2. /\ w \in Seq(Stamped) /\ DOMAIN w = 1..(k + 1)
      /\ \A i \in 1..k : w[i] = Kept[i]
      /\ w[k + 1] = new
  BY <1>0, <1>1
<1>3. /\ \A i \in 1..(k + 1) : i \in 1..k \/ i = k + 1
      /\ \A i \in 1..k : i \in 1..(k + 1) /\ i # k + 1 /\ Kept[i].age \in Nat
      /\ k + 1 \in 1..(k + 1)
  <2>1. \A e \in Stamped : e.age \in Nat
    BY ReceivedAssumption DEF Stamped
  <2>2. \A i \in 1..k : Kept[i] \in Stamped
    BY <1>1
  <2>3. QED
    BY <1>1, <2>1, <2>2
<1> HIDE DEF new, k, w
<1>4. DequeIsSorted'
  <2> SUFFICES ASSUME NEW i \in 1..(k + 1), NEW j \in 1..(k + 1), i < j
               PROVE  w[i].age >= w[j].age
    BY <1>2 DEF DequeIsSorted, w
  <2>1. i \in 1..k
    BY <1>1
  <2>2. CASE j \in 1..k
    BY <1>1, <1>2, <2>1, <2>2, CleanupKeepsTheYoung
  <2>3. CASE j = k + 1
    BY <1>0, <1>2, <1>3, <2>1, <2>3
  <2>4. QED
    BY <1>3, <2>2, <2>3
<1>5. \A i \in 1..k : Kept[i].id \in Known
  BY <1>1, CleanupKeepsTheYoung
<1>6. DequeIsMap'
  <2>1. {w[i].id : i \in 1..(k + 1)} = Known \cup {p}
    <3>1. ASSUME NEW x, \E i \in 1..(k + 1) : x = w[i].id
          PROVE  x \in Known \cup {p}
      BY <1>0, <1>2, <1>3, <1>5, <3>1
    <3>2. ASSUME NEW x \in Known PROVE \E i \in 1..(k + 1) : x = w[i].id
      <4>1. PICK i \in 1..k : x = Kept[i].id
        BY <1>1, CleanupKeepsTheYoung
      <4>2. QED
        BY <1>2, <1>3, <4>1
    <3>3. \E i \in 1..(k + 1) : p = w[i].id
      BY <1>0, <1>2, <1>3
    <3>4. QED
      BY <3>1, <3>2, <3>3
  <2>2. ASSUME NEW i \in 1..(k + 1), NEW j \in 1..(k + 1), w[i].id = w[j].id
        PROVE  i = j
    <3>1. CASE i \in 1..k /\ j \in 1..k
      BY <1>1, <1>2, <2>2, <3>1, CleanupKeepsTheYoung
    <3>2. CASE i = k + 1 \/ j = k + 1
      BY <1>0, <1>2, <1>3, <1>5, <2>2, <3>2
    <3>3. QED
      BY <1>3, <3>1, <3>2
  <2>3. QED
    BY <1>2, <2>1, <2>2 DEF DequeIsMap, w
<1>7. since_accept' \in [Packet -> 0..(RETAIN_TIME + 1)]
  BY ReceivedAssumption DEF LinkTypeOK
<1>8. DequeIsTimed'
  <2>1. ASSUME NEW i \in 1..(k + 1) PROVE since_accept'[w[i].id] = w[i].age
    <3>1. CASE i \in 1..k
      <4>1. Kept[i].id # p /\ Kept[i].id \in Packet /\ since_accept[Kept[i].id] = Kept[i].age
        BY <1>1, <1>5, <3>1, CleanupKeepsTheYoung
      <4>2. QED
        BY <1>2, <3>1, <4>1 DEF LinkTypeOK
    <3>2. CASE i = k + 1
      BY <1>0, <1>2, <3>2 DEF LinkTypeOK
    <3>3. QED
      BY <1>3, <3>1, <3>2
  <2>2. ASSUME NEW r \in Packet \ (Known \cup {p}) PROVE since_accept'[r] = RETAIN_TIME + 1
    BY CleanupKeepsTheYoung DEF LinkTypeOK
  <2>3. QED
    BY <1>2, <2>1, <2>2 DEF DequeIsTimed, w
<1>9. QED
  BY <1>1, <1>2, <1>4, <1>6, <1>7, <1>8 DEF DequeOK, w

\* Time passes for the deque and for the history alike.
LEMMA AgeKeepsDeque ==
    ASSUME LinkTypeOK, DequeOK, Age, since_accept' = [p \in Packet |-> OneOlder(since_accept[p])]
    PROVE  /\ DequeOK' /\ packet_id_time' \in Seq(Stamped) /\ time_by_packet_id' \subseteq Packet
           /\ since_accept' \in [Packet -> 0..(RETAIN_TIME + 1)]
<1> DEFINE q == packet_id_time
           w == packet_id_time'
           len == Len(packet_id_time)
<1>1. q \in Seq(Stamped) /\ len \in Nat /\ DOMAIN q = 1..len /\ \A i \in 1..len : q[i] \in Stamped
  BY DEF LinkTypeOK
<1>2. \A t \in 0..(RETAIN_TIME + 1) : OneOlder(t) \in 0..(RETAIN_TIME + 1)
  BY ReceivedAssumption DEF OneOlder
<1>3. \A e \in Stamped : /\ [e EXCEPT !.age = OneOlder(@)] \in Stamped
                         /\ [e EXCEPT !.age = OneOlder(@)].id = e.id /\ e.id \in Packet
                         /\ [e EXCEPT !.age = OneOlder(@)].age = OneOlder(e.age)
                         /\ e.age \in 0..(RETAIN_TIME + 1)
  BY <1>2 DEF Stamped
<1>4. /\ w = [i \in 1..len |-> [q[i] EXCEPT !.age = OneOlder(@)]]
      /\ DOMAIN w = 1..len
      /\ time_by_packet_id' = time_by_packet_id
  BY <1>1 DEF Age
<1>5. \A i \in 1..len : w[i] \in Stamped /\ w[i].id = q[i].id /\ w[i].age = OneOlder(q[i].age)
  BY <1>1, <1>3, <1>4
<1>6. w \in Seq(Stamped)
  <2>1. w \in [1..len -> Stamped]
    BY <1>4, <1>5
  <2>2. QED
    BY <1>1, <2>1, IsASeq
<1>7. since_accept' \in [Packet -> 0..(RETAIN_TIME + 1)]
  BY <1>2 DEF LinkTypeOK
<1>8. DequeIsSorted'
  <2> SUFFICES ASSUME NEW i \in 1..len, NEW j \in 1..len, i < j
               PROVE  w[i].age >= w[j].age
    BY <1>4 DEF DequeIsSorted
  <2>1. q[i].age >= q[j].age
    BY <1>1 DEF DequeOK, DequeIsSorted
  <2>2. q[i].age \in 0..(RETAIN_TIME + 1) /\ q[j].age \in 0..(RETAIN_TIME + 1)
    BY <1>1, <1>3
  <2>3. OneOlder(q[i].age) >= OneOlder(q[j].age)
    BY <2>1, <2>2, ReceivedAssumption, SMTT(30) DEF OneOlder
  <2>4. QED
    BY <1>5, <2>3
<1>9. DequeIsMap'
  <2>1. {w[i].id : i \in 1..len} = {q[i].id : i \in 1..len}
    BY <1>5
  <2>2. \A i, j \in 1..len : w[i].id = w[j].id => i = j
    BY <1>1, <1>5 DEF DequeOK, DequeIsMap
  <2>3. QED
    BY <1>1, <1>4, <2>1, <2>2 DEF DequeOK, DequeIsMap
<1>10. DequeIsTimed'
  <2>1. ASSUME NEW i \in 1..len PROVE since_accept'[w[i].id] = w[i].age
    <3>1. q[i].id \in Packet /\ since_accept[q[i].id] = q[i].age
      BY <1>1, <1>3 DEF DequeOK, DequeIsTimed
    <3>2. QED
      BY <1>5, <3>1
  <2>2. ASSUME NEW r \in Packet \ time_by_packet_id PROVE since_accept'[r] = RETAIN_TIME + 1
    <3>1. since_accept[r] = RETAIN_TIME + 1
      BY DEF DequeOK, DequeIsTimed
    <3>2. QED
      BY <3>1, ReceivedAssumption DEF OneOlder
  <2>3. QED
    BY <1>4, <2>1, <2>2 DEF DequeIsTimed
<1>11. QED
  BY <1>4, <1>6, <1>7, <1>8, <1>9, <1>10 DEF DequeOK, LinkTypeOK

-----------------------------------------------------------------------------
(***************************************************************************)
(* The steps.  Those of the sending peer leave the receiving one alone.    *)
(***************************************************************************)

\* The parts of the invariant that are about the receiving peer only.
ReceiverInv == DequeOK /\ ReceiptsStay /\ ReceiptsAreEarned

\* They depend on nothing the sending peer's steps change.
LEMMA SenderLeavesReceiver ==
    ASSUME ReceiverInv, UNCHANGED <<acks, receivedVars, rx, historyVars>>
    PROVE  ReceiverInv'
BY DEF ReceiverInv, DequeOK, DequeIsSorted, DequeIsMap, DequeIsTimed, ReceiptsStay,
       ReceiptsAreEarned, Carried, Committed, Unprocessed, Fits, Elements, Known, Popped,
       receivedVars, historyVars

\* Sends, resends, abandonment and incoming receipts keep the invariant.
LEMMA SenderStep ==
    ASSUME LinkInv,
           \/ \E p \in Packet : \/ SendSingle(p) \/ SendFailed(p) \/ Resend(p) \/ Abandon(p)
                                \/ \E ok \in BOOLEAN : SendSplit(p, ok)
           \/ \E batch \in acks : RecvReceipts(batch)
    PROVE  LinkInv'
<1>1. ASSUME NEW p \in Packet, SendSingle(p) PROVE LinkInv'
  <2>1. LinkTypeOK'
    BY <1>1 DEF LinkInv, LinkTypeOK, SendSingle, receivedVars, historyVars, Datagram, Kind
  <2>2. SenderOK'
    BY <1>1 DEF LinkInv, LinkTypeOK, SenderOK, SendSingle, Fits
  <2>3. InHandOK' /\ ReceiverInv'
    BY <1>1, SenderLeavesReceiver DEF LinkInv, ReceiverInv, InHandOK, SendSingle
  <2>4. QED
    BY <2>1, <2>2, <2>3 DEF LinkInv, ReceiverInv
<1>2. ASSUME NEW p \in Packet, SendFailed(p) PROVE LinkInv'
  <2>1. LinkTypeOK'
    BY <1>2 DEF LinkInv, LinkTypeOK, SendFailed, receivedVars, historyVars, netVars
  <2>2. SenderOK'
    BY <1>2 DEF LinkInv, LinkTypeOK, SenderOK, SendFailed, Fits, netVars
  <2>3. InHandOK' /\ ReceiverInv'
    BY <1>2, SenderLeavesReceiver DEF LinkInv, ReceiverInv, InHandOK, SendFailed, netVars
  <2>4. QED
    BY <2>1, <2>2, <2>3 DEF LinkInv, ReceiverInv
<1>3. ASSUME NEW p \in Packet, Resend(p) PROVE LinkInv'
  <2>0. tracked[p] \in Kind /\ (p \notin Oversized => tracked[p] = "data") /\ p \in sent
    BY <1>3 DEF LinkInv, LinkTypeOK, SenderOK, Resend, Kind, Fits
  <2>1. LinkTypeOK'
    BY <1>3, <2>0 DEF LinkInv, LinkTypeOK, Resend, receivedVars, historyVars, Datagram
  <2>2. SenderOK'
    BY <1>3, <2>0 DEF LinkInv, LinkTypeOK, SenderOK, Resend, Fits
  <2>3. InHandOK' /\ ReceiverInv'
    BY <1>3, SenderLeavesReceiver DEF LinkInv, ReceiverInv, InHandOK, Resend
  <2>4. QED
    BY <2>1, <2>2, <2>3 DEF LinkInv, ReceiverInv
<1>4. ASSUME NEW p \in Packet, Abandon(p) PROVE LinkInv'
  <2>1. LinkTypeOK'
    BY <1>4 DEF LinkInv, LinkTypeOK, Abandon, receivedVars, historyVars, netVars
  <2>2. SenderOK'
    BY <1>4 DEF LinkInv, LinkTypeOK, SenderOK, Abandon, Fits, netVars
  <2>3. InHandOK' /\ ReceiverInv'
    BY <1>4, SenderLeavesReceiver DEF LinkInv, ReceiverInv, InHandOK, Abandon, netVars
  <2>4. QED
    BY <2>1, <2>2, <2>3 DEF LinkInv, ReceiverInv
<1>5. ASSUME NEW p \in Packet, NEW ok \in BOOLEAN, SendSplit(p, ok) PROVE LinkInv'
  <2>1. LinkTypeOK'
    BY <1>5 DEF LinkInv, LinkTypeOK, SendSplit, receivedVars, historyVars, Datagram, Kind
  <2>2. SenderOK'
    BY <1>5 DEF LinkInv, LinkTypeOK, SenderOK, SendSplit, Fits
  <2>3. InHandOK' /\ ReceiverInv'
    BY <1>5, SenderLeavesReceiver DEF LinkInv, ReceiverInv, InHandOK, SendSplit
  <2>4. QED
    BY <2>1, <2>2, <2>3 DEF LinkInv, ReceiverInv
<1>6. ASSUME NEW batch \in acks, RecvReceipts(batch) PROVE LinkInv'
  <2>1. LinkTypeOK'
    BY <1>6 DEF LinkInv, LinkTypeOK, RecvReceipts, receivedVars, historyVars, netVars
  <2>2. SenderOK'
    BY <1>6 DEF LinkInv, LinkTypeOK, SenderOK, RecvReceipts, Fits, netVars
  <2>3. InHandOK' /\ ReceiverInv'
    BY <1>6, SenderLeavesReceiver DEF LinkInv, ReceiverInv, InHandOK, RecvReceipts, netVars
  <2>4. QED
    BY <2>1, <2>2, <2>3 DEF LinkInv, ReceiverInv
<1>7. QED
  BY <1>1, <1>2, <1>3, <1>4, <1>5, <1>6

\* The receiving peer leaves the sender alone.
LEMMA ReceiverLeavesSender ==
    ASSUME SenderOK, UNCHANGED <<senderVars, wire>>
    PROVE  SenderOK'
BY DEF SenderOK, senderVars, Fits

\* The deque, when no datagram comes in and no time passes.
LEMMA DequeRests ==
    ASSUME DequeOK, UNCHANGED <<packet_id_time, time_by_packet_id, since_accept>>
    PROVE  DequeOK'
BY DEF DequeOK, DequeIsSorted, DequeIsMap, DequeIsTimed

\* A datagram arrives.
LEMMA RecvPacketStep ==
    ASSUME LinkInv, NEW d \in wire, RecvPacket(d)
    PROVE  LinkInv'
<1>0. /\ LinkTypeOK /\ DequeOK /\ ReceiptsStay /\ SenderOK /\ InHandOK /\ ReceiptsAreEarned
      /\ d.id \in Packet /\ d.kind \in Kind /\ d.id \in sent
      /\ d.id \notin Oversized => d.kind = "data"
  BY DEF LinkInv, LinkTypeOK, SenderOK, Datagram
<1>1. /\ rx.pc = "select" /\ rx.batch = <<>> /\ rx \in Rx
      /\ rx' = [pc |-> "reported", id |-> d.id, kind |-> d.kind, result |-> ReportResult(d.id),
                send_receipts |-> (since_report > MESSAGE_CONFIRMATION_TIMEOUT), batch |-> <<>>]
      /\ UNCHANGED <<senderVars, netVars, delivered, lost>>
  BY <1>0 DEF RecvPacket, Idle, LinkTypeOK
<1>2. ReportResult(d.id) \in {"AlreadyReceived", "Ok", "QueueFull"}
      /\ (ReportResult(d.id) = "AlreadyReceived" <=> d.id \in Known)
  BY DEF ReportResult
<1>3. rx' \in Rx
  BY <1>0, <1>1, <1>2 DEF Rx
<1>4. Known \subseteq time_by_packet_id
  BY DEF Known
<1>5. Committed = delivered /\ Committed' = delivered /\ Unprocessed = {}
  BY <1>1 DEF Committed, Unprocessed
<1>6. SenderOK' /\ InHandOK'
  BY <1>0, <1>1, ReceiverLeavesSender DEF netVars, senderVars, InHandOK
<1>7. CASE d.id \in Known
  <2>1. /\ packet_id_time' = Kept /\ time_by_packet_id' = Known
        /\ pending_receipts' = pending_receipts /\ since_accept' = since_accept
    BY <1>1, <1>2, <1>7 DEF RecvPacket, report_received_packet
  <2>2. DequeOK' /\ packet_id_time' \in Seq(Stamped) /\ time_by_packet_id' \subseteq Packet
    BY <1>0, <2>1, CleanupKeepsDeque
  <2>3. LinkTypeOK'
    BY <1>0, <1>1, <1>3, <2>1, <2>2 DEF LinkTypeOK, senderVars, netVars
  <2>4. ReceiptsStay'
    BY <1>0, <1>1, <1>4, <2>1 DEF ReceiptsStay, Carried, netVars
  <2>5. ReceiptsAreEarned'
    BY <1>0, <1>1, <1>5, <2>1 DEF ReceiptsAreEarned, netVars
  <2>6. QED
    BY <1>6, <2>2, <2>3, <2>4, <2>5 DEF LinkInv
<1>8. CASE d.id \notin Known
  <2>1. /\ packet_id_time' = Append(Kept, [id |-> d.id, age |-> 0])
        /\ time_by_packet_id' = Known \cup {d.id}
        /\ pending_receipts' = Append(pending_receipts, d.id)
        /\ since_accept' = [since_accept EXCEPT ![d.id] = 0]
    BY <1>1, <1>2, <1>8 DEF RecvPacket, report_received_packet
  <2>2. /\ DequeOK' /\ packet_id_time' \in Seq(Stamped) /\ time_by_packet_id' \subseteq Packet
        /\ since_accept' \in [Packet -> 0..(RETAIN_TIME + 1)]
    BY <1>0, <1>8, <2>1, AcceptKeepsDeque
  <2>3. /\ pending_receipts' \in Seq(Packet)
        /\ Elements(pending_receipts') = Elements(pending_receipts) \cup {d.id}
    BY <1>0, <2>1, ElementsAppend DEF LinkTypeOK
  <2>4. LinkTypeOK'
    BY <1>0, <1>1, <1>3, <2>2, <2>3 DEF LinkTypeOK, senderVars, netVars
  <2>5. ReceiptsStay'
    BY <1>0, <1>1, <1>4, <2>1, <2>3 DEF ReceiptsStay, Carried, netVars
  <2>6. Unprocessed' = {d.id}
    BY <1>1, <1>2, <1>8 DEF Unprocessed
  <2>7. ReceiptsAreEarned'
    BY <1>0, <1>1, <1>5, <2>3, <2>6 DEF ReceiptsAreEarned, netVars, Fits
  <2>8. QED
    BY <1>6, <2>2, <2>4, <2>5, <2>7 DEF LinkInv
<1>9. QED
  BY <1>7, <1>8

\* The receipts are taken out: by the recv loop, for a packet it goes on with or for
\* the timer or a message of this peer.
LEMMA TakeStep ==
    ASSUME LinkInv, Flush \/ AckTick \/ OutboundShortMessage
    PROVE  LinkInv'
<1>0. LinkTypeOK /\ DequeOK /\ ReceiptsStay /\ SenderOK /\ InHandOK /\ ReceiptsAreEarned
  BY DEF LinkInv
<1>1. /\ UNCHANGED <<senderVars, netVars, historyVars>>
      /\ pending_receipts' = <<>> /\ packet_id_time' = Kept /\ time_by_packet_id' = Known
      /\ rx.pc \in {"select", "reported"} /\ rx.batch = <<>>
      /\ rx'.batch = pending_receipts /\ rx' \in Rx
      /\ pending_receipts \in Seq(Packet)
  <2>1. CASE Flush
    BY <1>0, <2>1 DEF Flush, get_receipts, LinkTypeOK, Rx
  <2>2. CASE AckTick \/ OutboundShortMessage
    <3>1. PICK pc \in {"ticking", "replying"} : TakeReceipts(pc)
      BY <2>2 DEF AckTick, OutboundShortMessage
    <3>2. rx' = [pc |-> pc, id |-> NoPacket, kind |-> "noop", result |-> "Ok",
                 send_receipts |-> FALSE, batch |-> pending_receipts]
      BY <3>1 DEF TakeReceipts, Idle
    <3>3. rx' \in Rx /\ rx'.batch = pending_receipts /\ pending_receipts \in Seq(Packet)
      BY <1>0, <3>2 DEF Rx, Kind, LinkTypeOK
    <3>4. QED
      BY <1>0, <3>1, <3>3 DEF TakeReceipts, get_receipts, LinkTypeOK
  <2>3. QED
    BY <2>1, <2>2
<1>2. DequeOK' /\ packet_id_time' \in Seq(Stamped) /\ time_by_packet_id' \subseteq Packet
  BY <1>0, <1>1, CleanupKeepsDeque DEF historyVars
<1>3. Known \subseteq time_by_packet_id
  BY DEF Known
<1>4. SenderOK'
  BY <1>0, <1>1, ReceiverLeavesSender DEF netVars
<1>5. \/ /\ rx.pc = "reported" /\ rx'.pc \in {"acking", "processing"} /\ rx'.id = rx.id
         /\ rx'.kind = rx.kind /\ (rx'.pc = "processing" => pending_receipts = <<>>)
      \/ rx.pc = "select" /\ rx'.pc \in {"ticking", "replying"}
  <2>1. CASE Flush
    BY <1>0, <2>1 DEF Flush, LinkTypeOK, Rx
  <2>2. CASE AckTick \/ OutboundShortMessage
    BY <2>2 DEF AckTick, OutboundShortMessage, TakeReceipts, Idle
  <2>3. QED
    BY <2>1, <2>2
<1>6. LinkTypeOK'
  BY <1>0, <1>1, <1>2, <1>5 DEF LinkTypeOK, senderVars, netVars, historyVars
<1>7. InHandOK'
  BY <1>0, <1>1, <1>5 DEF InHandOK, senderVars
<1>8. ReceiptsStay'
  BY <1>0, <1>1, <1>3, ElementsType DEF ReceiptsStay, Carried, netVars, historyVars
<1>9. ReceiptsAreEarned'
  BY <1>0, <1>1, <1>5, ElementsType
     DEF ReceiptsAreEarned, Committed, Unprocessed, Fits, netVars, historyVars
<1>10. QED
  BY <1>2, <1>4, <1>6, <1>7, <1>8, <1>9 DEF LinkInv

\* The other steps of the recv loop leave the tracker alone.
LEMMA LoopStep ==
    ASSUME LinkInv,
           \/ Accept \/ IgnoreDuplicate \/ AckSent \/ AckFailed \/ RecvCancelled
           \/ process_inbound \/ CarrierSent \/ CarrierFailed
    PROVE  LinkInv'
<1>0. LinkTypeOK /\ DequeOK /\ ReceiptsStay /\ SenderOK /\ InHandOK /\ ReceiptsAreEarned
  BY DEF LinkInv
<1>1. UNCHANGED <<senderVars, wire, receivedVars, since_accept>>
  BY DEF Accept, IgnoreDuplicate, AckSent, AckFailed, RecvCancelled, process_inbound,
         CarrierSent, CarrierFailed, netVars, historyVars
<1>2. SenderOK' /\ DequeOK'
  BY <1>0, <1>1, ReceiverLeavesSender, DequeRests DEF receivedVars
<1>3. /\ LinkTypeOK' => Elements(rx.batch) \subseteq Packet
      /\ Elements(rx.batch) \subseteq Packet
      /\ Idle \in Rx /\ Idle.pc = "select" /\ Idle.batch = <<>>
  BY <1>0, ElementsType DEF LinkTypeOK, Rx, Idle, Kind
<1>4. CASE Accept
  <2>1. rx' \in Rx /\ rx'.pc = "processing" /\ rx'.batch = rx.batch /\ rx'.id = rx.id
        /\ rx'.kind = rx.kind /\ rx.pc = "reported" /\ acks' = acks /\ delivered' = delivered
        /\ lost' = lost
    BY <1>0, <1>4 DEF Accept, LinkTypeOK, Rx, netVars, historyVars
  <2>2. LinkTypeOK' /\ InHandOK'
    BY <1>0, <1>1, <2>1 DEF LinkTypeOK, InHandOK, senderVars, receivedVars
  <2>3. ReceiptsStay'
    BY <1>0, <1>1, <2>1 DEF ReceiptsStay, Carried, receivedVars
  <2>4. ReceiptsAreEarned'
    BY <1>0, <1>1, <2>1
       DEF ReceiptsAreEarned, Committed, Unprocessed, Fits, receivedVars, InHandOK
  <2>5. QED
    BY <1>2, <2>2, <2>3, <2>4 DEF LinkInv
<1>5. CASE IgnoreDuplicate
  <2>1. rx' = Idle /\ rx.pc = "reported" /\ rx.result = "AlreadyReceived" /\ acks' = acks
        /\ delivered' = delivered /\ lost' = lost /\ rx.batch = <<>>
    BY <1>0, <1>5 DEF IgnoreDuplicate, netVars, historyVars, LinkTypeOK
  <2>2. LinkTypeOK' /\ InHandOK'
    BY <1>0, <1>1, <1>3, <2>1 DEF LinkTypeOK, InHandOK, senderVars, receivedVars
  <2>3. ReceiptsStay'
    BY <1>0, <1>1, <1>3, <2>1 DEF ReceiptsStay, Carried, receivedVars
  <2>4. ReceiptsAreEarned'
    BY <1>0, <1>1, <1>3, <2>1, ElementsType
       DEF ReceiptsAreEarned, Committed, Unprocessed, Fits, receivedVars
  <2>5. QED
    BY <1>2, <2>2, <2>3, <2>4 DEF LinkInv
<1>6. CASE AckSent
  <2>1. /\ rx' \in Rx /\ rx'.pc = "processing" /\ rx'.batch = <<>> /\ rx'.id = rx.id
        /\ rx'.kind = rx.kind /\ rx.pc = "acking"
        /\ acks' = acks \cup {Elements(rx.batch)} /\ delivered' = delivered /\ lost' = lost
    BY <1>0, <1>6, ElementsType DEF AckSent, LinkTypeOK, Rx, historyVars
  <2>2. UNION acks' = (UNION acks) \cup Elements(rx.batch)
    BY <2>1, UnionAdd
  <2>3. LinkTypeOK' /\ InHandOK'
    BY <1>0, <1>1, <1>3, <2>1 DEF LinkTypeOK, InHandOK, senderVars, receivedVars
  <2>4. ReceiptsStay'
    BY <1>0, <1>1, <2>1, <2>2, ElementsType DEF ReceiptsStay, Carried, receivedVars
  <2>5. ReceiptsAreEarned'
    BY <1>0, <1>1, <2>1, <2>2, ElementsType
       DEF ReceiptsAreEarned, Committed, Unprocessed, Fits, receivedVars, InHandOK
  <2>6. QED
    BY <1>2, <2>3, <2>4, <2>5 DEF LinkInv
<1>7. CASE AckFailed
  <2>1. /\ rx' \in Rx /\ rx'.pc = "processing" /\ rx'.batch = <<>> /\ rx'.id = rx.id
        /\ rx'.kind = rx.kind /\ rx.pc = "acking"
        /\ acks' = acks /\ delivered' = delivered /\ lost' = lost \cup Elements(rx.batch)
    BY <1>0, <1>7, ElementsType DEF AckFailed, LinkTypeOK, Rx, netVars
  <2>2. LinkTypeOK' /\ InHandOK'
    BY <1>0, <1>1, <1>3, <2>1 DEF LinkTypeOK, InHandOK, senderVars, receivedVars
  <2>3. ReceiptsStay'
    BY <1>0, <1>1, <2>1, ElementsType DEF ReceiptsStay, Carried, receivedVars
  <2>4. ReceiptsAreEarned'
    BY <1>0, <1>1, <2>1, ElementsType
       DEF ReceiptsAreEarned, Committed, Unprocessed, Fits, receivedVars, InHandOK
  <2>5. QED
    BY <1>2, <2>2, <2>3, <2>4 DEF LinkInv
<1>8. CASE RecvCancelled \/ CarrierFailed
  <2>1. /\ rx' = Idle /\ rx.pc \in {"acking", "ticking", "replying"}
        /\ acks' = acks /\ delivered' = delivered /\ lost' = lost \cup Elements(rx.batch)
    BY <1>8 DEF RecvCancelled, CarrierFailed, netVars
  <2>2. LinkTypeOK' /\ InHandOK'
    BY <1>0, <1>1, <1>3, <2>1 DEF LinkTypeOK, InHandOK, senderVars, receivedVars
  <2>3. ReceiptsStay'
    BY <1>0, <1>1, <1>3, <2>1, ElementsType DEF ReceiptsStay, Carried, receivedVars
  <2>4. ReceiptsAreEarned'
    BY <1>0, <1>1, <1>3, <2>1, ElementsType
       DEF ReceiptsAreEarned, Committed, Unprocessed, Fits, receivedVars
  <2>5. QED
    BY <1>2, <2>2, <2>3, <2>4 DEF LinkInv
<1>9. CASE process_inbound
  <2>1. /\ rx' = Idle /\ rx.pc = "processing" /\ rx.batch = <<>>
        /\ acks' = acks /\ lost' = lost /\ delivered' = Committed
    BY <1>0, <1>9 DEF process_inbound, netVars, Committed, LinkTypeOK
  <2>2. Committed' = Committed /\ Committed \subseteq Packet
    BY <1>0, <1>3, <2>1 DEF Committed, LinkTypeOK
  <2>3. LinkTypeOK' /\ InHandOK'
    BY <1>0, <1>1, <1>3, <2>1, <2>2 DEF LinkTypeOK, InHandOK, senderVars, receivedVars
  <2>4. ReceiptsStay'
    BY <1>0, <1>1, <1>3, <2>1 DEF ReceiptsStay, Carried, receivedVars
  <2>5. ReceiptsAreEarned'
    BY <1>0, <1>1, <1>3, <2>1, <2>2, ElementsType
       DEF ReceiptsAreEarned, Unprocessed, Fits, receivedVars
  <2>6. QED
    BY <1>2, <2>3, <2>4, <2>5 DEF LinkInv
<1>10. CASE CarrierSent
  <2>1. /\ rx' = Idle /\ rx.pc \in {"ticking", "replying"}
        /\ acks' = acks \cup {Elements(rx.batch)} /\ delivered' = delivered /\ lost' = lost
    BY <1>10 DEF CarrierSent, historyVars
  <2>2. UNION acks' = (UNION acks) \cup Elements(rx.batch)
    BY <2>1, UnionAdd
  <2>3. LinkTypeOK' /\ InHandOK'
    BY <1>0, <1>1, <1>3, <2>1 DEF LinkTypeOK, InHandOK, senderVars, receivedVars
  <2>4. ReceiptsStay'
    BY <1>0, <1>1, <1>3, <2>1, <2>2, ElementsType DEF ReceiptsStay, Carried, receivedVars
  <2>5. ReceiptsAreEarned'
    BY <1>0, <1>1, <1>3, <2>1, <2>2, ElementsType
       DEF ReceiptsAreEarned, Committed, Unprocessed, Fits, receivedVars
  <2>6. QED
    BY <1>2, <2>3, <2>4, <2>5 DEF LinkInv
<1>11. QED
  BY <1>4, <1>5, <1>6, <1>7, <1>8, <1>9, <1>10

\* Time passes.
LEMMA TickStep == ASSUME LinkInv, Tick PROVE LinkInv'
<1>0. LinkTypeOK /\ DequeOK /\ ReceiptsStay /\ SenderOK /\ InHandOK /\ ReceiptsAreEarned
  BY DEF LinkInv
<1>1. /\ UNCHANGED <<senderVars, netVars, rx, delivered, lost, pending_receipts, time_by_packet_id>>
      /\ Age /\ since_accept' = [p \in Packet |-> OneOlder(since_accept[p])]
  BY DEF Tick, Age
<1>2. /\ DequeOK' /\ packet_id_time' \in Seq(Stamped) /\ time_by_packet_id' \subseteq Packet
      /\ since_accept' \in [Packet -> 0..(RETAIN_TIME + 1)]
  BY <1>0, <1>1, AgeKeepsDeque
<1>3. LinkTypeOK' /\ InHandOK'
  BY <1>0, <1>1, <1>2 DEF LinkTypeOK, InHandOK, senderVars, netVars
<1>4. ReceiptsStay' /\ ReceiptsAreEarned'
  BY <1>0, <1>1 DEF ReceiptsStay, ReceiptsAreEarned, Carried, Committed, Unprocessed, netVars
<1>5. SenderOK'
  BY <1>0, <1>1, ReceiverLeavesSender DEF netVars
<1>6. QED
  BY <1>2, <1>3, <1>4, <1>5 DEF LinkInv

\* The invariant holds at the start.
LEMMA LinkStarts == LinkInit => LinkInv
<1> SUFFICES ASSUME LinkInit PROVE LinkInv
  OBVIOUS
<1> USE LinkAssumption, ReceivedAssumption, ElementsType DEF LinkInit, ReceivedInit
<1>1. LinkTypeOK
  <2>1. rx \in Rx /\ rx.pc = "select" /\ rx.batch = <<>>
    BY DEF Idle, Rx, Kind
  <2>2. <<>> \in Seq(Stamped)
    OBVIOUS
  <2>3. since_accept \in [Packet -> 0..(RETAIN_TIME + 1)]
    OBVIOUS
  <2>4. QED
    BY <2>1, <2>2, <2>3 DEF LinkTypeOK
<1>2. DequeOK
  BY DEF DequeOK, DequeIsSorted, DequeIsMap, DequeIsTimed
<1>3. SenderOK /\ InHandOK
  BY DEF SenderOK, InHandOK, Idle, Fits
<1>4. ReceiptsStay /\ ReceiptsAreEarned
  BY DEF ReceiptsStay, ReceiptsAreEarned, Idle, Fits
<1>5. QED
  BY <1>1, <1>2, <1>3, <1>4 DEF LinkInv

\* Every step keeps the invariant.
LEMMA LinkSteps == LinkInv /\ [LinkNext]_linkVars => LinkInv'
<1> SUFFICES ASSUME LinkInv, [LinkNext]_linkVars PROVE LinkInv'
  OBVIOUS
<1>1. CASE UNCHANGED linkVars
  <2>1. UNCHANGED <<senderVars, netVars, receivedVars, rx, historyVars>>
    BY <1>1 DEF linkVars
  <2>2. LinkTypeOK' /\ InHandOK' /\ SenderOK'
    BY <2>1, ReceiverLeavesSender
       DEF LinkInv, LinkTypeOK, InHandOK, senderVars, netVars, receivedVars, historyVars
  <2>3. ReceiverInv'
    BY <2>1, SenderLeavesReceiver DEF LinkInv, ReceiverInv, netVars
  <2>4. QED
    BY <2>2, <2>3 DEF LinkInv, ReceiverInv
<1>2. CASE \/ \E p \in Packet : \/ SendSingle(p) \/ SendFailed(p) \/ Resend(p) \/ Abandon(p)
                                \/ \E ok \in BOOLEAN : SendSplit(p, ok)
           \/ \E batch \in acks : RecvReceipts(batch)
  BY <1>2, SenderStep
<1>3. CASE \E d \in wire : RecvPacket(d)
  BY <1>3, RecvPacketStep
<1>4. CASE Flush \/ AckTick \/ OutboundShortMessage
  BY <1>4, TakeStep
<1>5. CASE \/ Accept \/ IgnoreDuplicate \/ AckSent \/ AckFailed \/ RecvCancelled
           \/ process_inbound \/ CarrierSent \/ CarrierFailed
  BY <1>5, LoopStep
<1>6. CASE Tick
  BY <1>6, TickStep
<1>7. QED
  BY <1>1, <1>2, <1>3, <1>4, <1>5, <1>6 DEF LinkNext

\* The invariant holds in every state of every instance.
LEMMA LinkInvariant == LinkSpec => []LinkInv
BY LinkStarts, LinkSteps, PTL DEF LinkSpec

\* The duplicate window is exact: report_received_packet takes a packet for already received
\* if and only if it accepted it at most RETAIN_TIME ago, whatever was received,
\* expired and received again in between.
THEOREM WindowCorrect == LinkSpec => []RetentionIsExact
<1>1. LinkInv => RetentionIsExact
  BY WindowIsExact DEF LinkInv
<1>2. QED
  BY <1>1, LinkInvariant, PTL

\* No receipt of a packet within the window disappears but with a carrier that was not
\* sent: it is pending, in a carrier, on the wire or in lost.
THEOREM ReceiptsCorrect == LinkSpec => []ReceiptIsAccountedFor
<1>1. LinkInv => ReceiptIsAccountedFor
  BY DEF LinkInv, ReceiptsStay, ReceiptIsAccountedFor, Known
<1>2. QED
  BY <1>1, LinkInvariant, PTL

-----------------------------------------------------------------------------
\* A copy of p that recv() has in hand and will hand up, and those it handed up.
CopyInHand(p) ==
    IF /\ rx.pc \in {"reported", "acking", "processing"} /\ rx.id = p
       /\ rx.result = "AlreadyReceived" /\ rx.send_receipts
    THEN 1 ELSE 0
Copies(p) == repeats[p] + CopyInHand(p)

Intervals(n) == n * (MESSAGE_CONFIRMATION_TIMEOUT + 1)

\* The invariant behind RepeatsAreRare: each copy was preceded by an interval without an
\* overdue receipt, and the intervals and the one that is running fit into the time since the
\* packet was accepted.
Paced(p) ==
    /\ Intervals(Copies(p)) <= MESSAGE_CONFIRMATION_TIMEOUT + RETAIN_TIME
    /\ since_accept[p] <= RETAIN_TIME
         => Intervals(Copies(p)) + since_report <= MESSAGE_CONFIRMATION_TIMEOUT + since_accept[p]
RepeatsInv ==
    /\ since_report \in 0..(MESSAGE_CONFIRMATION_TIMEOUT + 1)
    /\ repeats \in [Packet -> Nat]
    /\ rx.pc \in {"acking", "processing"} /\ rx.result = "AlreadyReceived" => rx.send_receipts
    /\ \A p \in Packet : Paced(p)

\* Intervals counts: none, one more, and no fewer for more.
LEMMA IntervalsCount ==
    /\ Intervals(0) = 0
    /\ \A n \in Nat : /\ Intervals(n) \in Nat
                      /\ Intervals(n + 1) = Intervals(n) + MESSAGE_CONFIRMATION_TIMEOUT + 1
<1> DEFINE T == MESSAGE_CONFIRMATION_TIMEOUT + 1
<1>1. T \in Nat
  BY LinkAssumption
<1> HIDE DEF T
<1>2. \A n \in Nat : n * T \in Nat /\ (n + 1) * T = n * T + T
  BY <1>1
<1>3. 0 * T = 0
  BY <1>1
<1>4. QED
  BY <1>2, <1>3, LinkAssumption DEF T, Intervals

\* A step on which no clock moves and no packet gains a copy keeps the pace.
LEMMA KeepsPace ==
    ASSUME LinkTypeOK, RepeatsInv, UNCHANGED <<since_report, since_accept>>,
           NEW p \in Packet, Copies(p) \in Nat,
           \/ Copies(p)' = Copies(p)
           \/ Copies(p)' \in Nat /\ Copies(p)' + 1 = Copies(p)
    PROVE  Paced(p)'
<1>1. Intervals(Copies(p))' \in Nat /\ Intervals(Copies(p)) \in Nat
      /\ Intervals(Copies(p))' <= Intervals(Copies(p))
  BY IntervalsCount, LinkAssumption DEF Intervals
<1>2. Paced(p) /\ since_accept[p] \in Nat /\ since_report \in Nat
  BY ReceivedAssumption DEF RepeatsInv, LinkTypeOK
<1>3. QED
  BY <1>1, <1>2, LinkAssumption, ReceivedAssumption DEF Paced

\* Every step keeps the copies of a packet paced.
LEMMA RepeatsStep ==
    ASSUME LinkInv, RepeatsInv, [LinkNext]_linkVars
    PROVE  RepeatsInv'
<1>0. /\ LinkTypeOK /\ RetentionIsExact
      /\ since_report \in Nat /\ \A p \in Packet : since_accept[p] \in Nat
      /\ \A p \in Packet : repeats[p] \in Nat /\ CopyInHand(p) \in {0, 1} /\ Copies(p) \in Nat
  <2>1. LinkTypeOK /\ RetentionIsExact
    BY WindowIsExact DEF LinkInv
  <2>2. since_report \in Nat /\ \A p \in Packet : since_accept[p] \in Nat
    BY <2>1, LinkAssumption, ReceivedAssumption DEF RepeatsInv, LinkTypeOK
  <2>3. \A p \in Packet : repeats[p] \in Nat /\ CopyInHand(p) \in {0, 1}
    BY DEF RepeatsInv, CopyInHand
  <2>4. QED
    BY <2>1, <2>2, <2>3 DEF Copies
<1>1. ASSUME NEW d \in wire, RecvPacket(d) PROVE RepeatsInv'
  <2> DEFINE overdue == since_report > MESSAGE_CONFIRMATION_TIMEOUT
             again == ReportResult(d.id) = "AlreadyReceived"
  <2>1. /\ d.id \in Packet /\ rx.pc = "select"
        /\ since_report' = (IF overdue THEN 0 ELSE since_report)
        /\ rx'.pc = "reported" /\ rx'.id = d.id /\ rx'.result = ReportResult(d.id)
        /\ rx'.send_receipts = overdue
        /\ since_accept' = (IF again THEN since_accept ELSE [since_accept EXCEPT ![d.id] = 0])
        /\ repeats' = (IF again THEN repeats ELSE [repeats EXCEPT ![d.id] = 0])
    BY <1>0, <1>1 DEF RecvPacket, Idle, LinkTypeOK, Datagram
  <2>2. again <=> since_accept[d.id] <= RETAIN_TIME
    BY <1>0, <2>1 DEF ReportResult, RetentionIsExact
  <2>3. since_report' \in 0..(MESSAGE_CONFIRMATION_TIMEOUT + 1) /\ repeats' \in [Packet -> Nat]
    BY <2>1, LinkAssumption DEF RepeatsInv
  <2>4. \A p \in Packet : Copies(p) = repeats[p]
                          /\ Copies(p)' = IF p = d.id /\ again /\ overdue THEN repeats[p] + 1
                                                                          ELSE repeats'[p]
    <3>1. \A p \in Packet : CopyInHand(p) = 0
      BY <2>1 DEF CopyInHand
    <3>2. \A p \in Packet : CopyInHand(p)' = IF p = d.id /\ again /\ overdue THEN 1 ELSE 0
      BY <2>1 DEF CopyInHand
    <3>3. \A p \in Packet : repeats'[p] \in Nat /\ (again => repeats'[p] = repeats[p])
      BY <2>1, <2>3
    <3>4. QED
      BY <1>0, <3>1, <3>2, <3>3 DEF Copies
  <2> HIDE DEF overdue, again
  <2>5. ASSUME NEW p \in Packet PROVE Paced(p)'
    <3>0. Paced(p) /\ repeats[p] \in Nat /\ since_accept[p] \in Nat
      BY <1>0 DEF RepeatsInv
    <3>1. CASE p # d.id
      <4>1. Copies(p)' = Copies(p) /\ since_accept'[p] = since_accept[p]
            /\ since_report' <= since_report /\ since_report' \in Nat
        <5>1. since_report' <= since_report /\ since_report' \in Nat
          BY <1>0, <2>1
        <5>2. since_accept'[p] = since_accept[p] /\ repeats'[p] = repeats[p]
          BY <1>0, <2>1, <3>1 DEF LinkTypeOK, RepeatsInv
        <5>3. QED
          BY <2>4, <3>1, <5>1, <5>2
      <4>2. Intervals(Copies(p)) \in Nat /\ Intervals(Copies(p))' = Intervals(Copies(p))
        BY <1>0, <4>1, IntervalsCount DEF Intervals
      <4>3. QED
        BY <1>0, <3>0, <4>1, <4>2, LinkAssumption, ReceivedAssumption DEF Paced
    <3>2. CASE p = d.id /\ again
      <4>1. since_accept[p] <= RETAIN_TIME /\ since_accept'[p] = since_accept[p]
        BY <2>1, <2>2, <3>2
      <4>2. Intervals(repeats[p]) \in Nat
            /\ Intervals(repeats[p]) + since_report <= MESSAGE_CONFIRMATION_TIMEOUT + since_accept[p]
        BY <2>4, <3>0, <4>1, IntervalsCount DEF Paced
      <4>3. CASE overdue
        <5>1. Intervals(Copies(p))' = Intervals(repeats[p]) + MESSAGE_CONFIRMATION_TIMEOUT + 1
          <6>1. Copies(p)' = repeats[p] + 1
            BY <2>4, <3>2, <4>3
          <6>2. Intervals(Copies(p))' = Intervals(repeats[p] + 1)
            BY <6>1 DEF Intervals
          <6>3. QED
            BY <3>0, <6>2, IntervalsCount
        <5>2. since_report' = 0 /\ MESSAGE_CONFIRMATION_TIMEOUT + 1 <= since_report
          BY <1>0, <2>1, <4>3, LinkAssumption DEF overdue
        <5>3. QED
          BY <1>0, <3>0, <4>1, <4>2, <5>1, <5>2, LinkAssumption, ReceivedAssumption DEF Paced
      <4>4. CASE ~overdue
        <5>1. Copies(p)' = repeats[p] /\ since_report' = since_report
          BY <2>1, <2>4, <3>2, <4>4
        <5>2. Intervals(Copies(p))' = Intervals(repeats[p])
          BY <5>1 DEF Intervals
        <5>3. QED
          BY <1>0, <3>0, <4>1, <4>2, <5>1, <5>2, LinkAssumption, ReceivedAssumption DEF Paced
      <4>5. QED
        BY <4>3, <4>4
    <3>3. CASE p = d.id /\ ~again
      <4>1. Copies(p)' = 0 /\ since_accept'[p] = 0
        BY <1>0, <2>1, <2>4, <3>3 DEF LinkTypeOK, RepeatsInv
      <4>2. Intervals(Copies(p))' = 0
        <5>1. Intervals(Copies(p))' = Intervals(0)
          BY <4>1 DEF Intervals
        <5>2. QED
          BY <5>1, IntervalsCount
      <4>3. since_report' \in Nat /\ since_report' <= MESSAGE_CONFIRMATION_TIMEOUT
        BY <1>0, <2>1, LinkAssumption DEF overdue
      <4>4. QED
        BY <4>1, <4>2, <4>3, LinkAssumption, ReceivedAssumption DEF Paced
    <3>4. QED
      BY <3>1, <3>2, <3>3
  <2>6. QED
    BY <2>1, <2>3, <2>5 DEF RepeatsInv
<1>2. CASE process_inbound
  <2>1. /\ rx.pc = "processing" /\ rx.id \in Packet /\ rx' = Idle
        /\ UNCHANGED <<since_report, since_accept>>
        /\ repeats' = IF rx.kind = "data" /\ rx.result = "AlreadyReceived"
                      THEN [repeats EXCEPT ![rx.id] = @ + 1] ELSE repeats
    BY <1>0, <1>2 DEF process_inbound, LinkTypeOK
  <2>2. repeats' \in [Packet -> Nat]
    BY <2>1 DEF RepeatsInv
  <2>3. ASSUME NEW p \in Packet PROVE Paced(p)'
    <3>1. Copies(p)' = repeats'[p]
      BY <2>1, <2>2 DEF Copies, CopyInHand, Idle
    <3>2. \/ repeats'[p] = repeats[p] + 1 /\ CopyInHand(p) = 1
          \/ repeats'[p] = repeats[p]
      BY <1>0, <2>1 DEF RepeatsInv, CopyInHand
    <3>3. repeats[p] \in Nat /\ CopyInHand(p) \in {0, 1} /\ Copies(p) = repeats[p] + CopyInHand(p)
      BY <1>0 DEF Copies
    <3>4. \/ Copies(p)' = Copies(p)
          \/ Copies(p)' \in Nat /\ Copies(p)' + 1 = Copies(p)
      BY <3>1, <3>2, <3>3
    <3>5. QED
      BY <1>0, <2>1, <3>4, KeepsPace
  <2>4. QED
    BY <2>1, <2>2, <2>3 DEF RepeatsInv, Idle
<1>3. CASE Tick
  <2>1. /\ since_report' = (IF since_report > MESSAGE_CONFIRMATION_TIMEOUT
                            THEN since_report ELSE since_report + 1)
        /\ \A p \in Packet : since_accept'[p] = OneOlder(since_accept[p])
        /\ UNCHANGED <<rx, repeats>>
    BY <1>3 DEF Tick
  <2>2. since_report' \in 0..(MESSAGE_CONFIRMATION_TIMEOUT + 1)
    BY <2>1, LinkAssumption DEF RepeatsInv
  <2>3. ASSUME NEW p \in Packet PROVE Paced(p)'
    <3>1. Copies(p)' = Copies(p)
      BY <2>1 DEF Copies, CopyInHand
    <3>2. Intervals(Copies(p))' = Intervals(Copies(p)) /\ Intervals(Copies(p)) \in Nat
      BY <1>0, <3>1, IntervalsCount DEF Intervals
    <3>3. since_report' <= since_report + 1 /\ since_report' \in Nat
      BY <1>0, <2>1
    <3>4. since_accept'[p] <= RETAIN_TIME
            => since_accept'[p] = since_accept[p] + 1 /\ since_accept[p] <= RETAIN_TIME
      BY <1>0, <2>1, ReceivedAssumption DEF OneOlder, LinkTypeOK
    <3>5. Paced(p) /\ since_accept[p] \in Nat
      BY <1>0 DEF RepeatsInv
    <3>6. QED
      BY <1>0, <3>2, <3>3, <3>4, <3>5, LinkAssumption, ReceivedAssumption DEF Paced
  <2>4. QED
    BY <2>1, <2>2, <2>3 DEF RepeatsInv
<1>4. ASSUME UNCHANGED <<since_report, since_accept, repeats>>,
             rx'.pc \in {"acking", "processing"} /\ rx'.result = "AlreadyReceived"
               => rx'.send_receipts,
             \A p \in Packet : CopyInHand(p)' = CopyInHand(p) \/ CopyInHand(p)' = 0
      PROVE  RepeatsInv'
  <2>1. ASSUME NEW p \in Packet PROVE Paced(p)'
    <3>1. repeats[p] \in Nat /\ CopyInHand(p) \in {0, 1} /\ Copies(p) \in Nat
      BY <1>0
    <3>2. Copies(p) = repeats[p] + CopyInHand(p) /\ Copies(p)' = repeats[p] + CopyInHand(p)'
      BY <1>4 DEF Copies
    <3>3. CopyInHand(p)' = CopyInHand(p) \/ CopyInHand(p)' = 0
      BY <1>4
    <3>4. \/ Copies(p)' = Copies(p)
          \/ Copies(p)' \in Nat /\ Copies(p)' + 1 = Copies(p)
      BY <3>1, <3>2, <3>3
    <3>5. QED
      BY <1>0, <1>4, <3>1, <3>4, KeepsPace
  <2>2. QED
    BY <1>4, <2>1 DEF RepeatsInv
<1>5. CASE \/ \E p \in Packet : \/ SendSingle(p) \/ SendFailed(p) \/ Resend(p) \/ Abandon(p)
                                \/ \E ok \in BOOLEAN : SendSplit(p, ok)
           \/ \E batch \in acks : RecvReceipts(batch)
           \/ UNCHANGED linkVars
  <2>1. UNCHANGED <<since_report, since_accept, repeats, rx>>
    BY <1>5 DEF SendSingle, SendFailed, Resend, Abandon, SendSplit, RecvReceipts, linkVars,
                historyVars
  <2>2. QED
    BY <1>4, <2>1 DEF RepeatsInv, CopyInHand
<1>6. CASE Flush \/ Accept \/ AckSent \/ AckFailed
  <2>1. /\ UNCHANGED <<since_report, since_accept, repeats>>
        /\ rx.pc \in {"reported", "acking"} /\ rx'.pc \in {"acking", "processing"}
        /\ rx'.id = rx.id /\ rx'.result = rx.result /\ rx'.send_receipts = rx.send_receipts
        /\ rx.pc = "acking" \/ rx.result \in {"Ok", "QueueFull"} \/ rx.send_receipts
    BY <1>0, <1>6 DEF Flush, MustFlush, Accept, AckSent, AckFailed, historyVars, LinkTypeOK, Rx
  <2>2. QED
    BY <1>4, <2>1 DEF RepeatsInv, CopyInHand
<1>7. CASE \/ IgnoreDuplicate \/ RecvCancelled \/ CarrierSent \/ CarrierFailed
           \/ AckTick \/ OutboundShortMessage
  <2>1. /\ UNCHANGED <<since_report, since_accept, repeats>>
        /\ rx'.pc \in {"select", "ticking", "replying"}
    <3>1. CASE IgnoreDuplicate \/ RecvCancelled \/ CarrierSent \/ CarrierFailed
      BY <3>1 DEF IgnoreDuplicate, RecvCancelled, CarrierSent, CarrierFailed, historyVars, Idle
    <3>2. CASE AckTick \/ OutboundShortMessage
      BY <3>2 DEF AckTick, OutboundShortMessage, TakeReceipts, historyVars, Idle
    <3>3. QED
      BY <1>7, <3>1, <3>2
  <2>2. \A p \in Packet : CopyInHand(p)' = 0
    BY <2>1 DEF CopyInHand
  <2>3. QED
    BY <1>4, <2>1, <2>2
<1>8. QED
  BY <1>1, <1>2, <1>3, <1>5, <1>6, <1>7 DEF LinkNext

\* The copies of a packet that recv() hands up between two acceptances of it are at most one
\* in every MESSAGE_CONFIRMATION_TIMEOUT of the retention time, for any number of copies that
\* arrive: a copy is ignored unless it is the packet that finds receipts overdue.
THEOREM RepeatsBounded == LinkSpec => []RepeatsAreRare
<1>1. LinkInit => RepeatsInv
  <2> SUFFICES ASSUME LinkInit PROVE RepeatsInv
    OBVIOUS
  <2>1. \A p \in Packet : Copies(p) = 0 /\ since_accept[p] = RETAIN_TIME + 1
    BY DEF LinkInit, Copies, CopyInHand, Idle
  <2>2. \A p \in Packet : Intervals(Copies(p)) = 0
    BY <2>1, IntervalsCount
  <2>3. \A p \in Packet : Paced(p)
    BY <2>1, <2>2, LinkAssumption, ReceivedAssumption DEF Paced
  <2>4. QED
    BY <2>3, LinkAssumption DEF LinkInit, RepeatsInv, Idle
<1>2. LinkInv /\ RepeatsInv /\ [LinkNext]_linkVars => RepeatsInv'
  BY RepeatsStep
<1>3. LinkInv /\ RepeatsInv => RepeatsAreRare
  <2> SUFFICES ASSUME LinkInv, RepeatsInv, NEW p \in Packet
               PROVE  Intervals(repeats[p]) <= MESSAGE_CONFIRMATION_TIMEOUT + RETAIN_TIME
    BY DEF RepeatsAreRare, Intervals
  <2>1. repeats[p] \in Nat /\ (Copies(p) = repeats[p] \/ Copies(p) = repeats[p] + 1)
    BY DEF RepeatsInv, Copies, CopyInHand
  <2>2. Intervals(repeats[p]) \in Nat /\ Intervals(Copies(p)) \in Nat
        /\ Intervals(repeats[p]) <= Intervals(Copies(p))
    BY <2>1, IntervalsCount, LinkAssumption
  <2>3. Intervals(Copies(p)) <= MESSAGE_CONFIRMATION_TIMEOUT + RETAIN_TIME
    BY DEF RepeatsInv, Paced
  <2>4. QED
    BY <2>2, <2>3, LinkAssumption, ReceivedAssumption
<1>4. QED
  BY <1>1, <1>2, <1>3, LinkInvariant, PTL DEF LinkSpec

-----------------------------------------------------------------------------
(***************************************************************************)
(* The refinement.  A step of the link is a step of MessageDelivery for    *)
(* the messages that fit, or leaves what it promises alone.                *)
(***************************************************************************)

\* What the mapping makes of the variables of MessageDelivery.
Promise == <<Fits(sent), Fits(Committed), Fits(acked), Fits(failed)>>

\* The sending peer's steps.
LEMMA SenderRefines ==
    ASSUME LinkInv,
           \/ \E p \in Packet : \/ SendSingle(p) \/ SendFailed(p) \/ Resend(p) \/ Abandon(p)
                                \/ \E ok \in BOOLEAN : SendSplit(p, ok)
           \/ \E batch \in acks : RecvReceipts(batch)
    PROVE  Delivery!Next \/ Promise' = Promise
<1>0. Committed' = Committed
  BY DEF SendSingle, SendFailed, Resend, Abandon, SendSplit, RecvReceipts, Committed, historyVars
<1>1. ASSUME NEW p \in Packet, SendSingle(p) PROVE Delivery!Next
  <2>1. p \in Fits(Packet) /\ p \notin Fits(sent) /\ Fits(sent)' = Fits(sent) \cup {p}
        /\ Fits(acked)' = Fits(acked) /\ Fits(failed)' = Fits(failed)
        /\ Fits(Committed)' = Fits(Committed)
    BY <1>0, <1>1 DEF SendSingle, Fits
  <2>2. QED
    BY <2>1 DEF Delivery!Next, Delivery!Send
<1>2. ASSUME NEW p \in Packet, SendFailed(p) PROVE Delivery!Next \/ Promise' = Promise
  <2>1. CASE p \in Oversized
    BY <1>0, <1>2, <2>1 DEF SendFailed, Fits, Promise
  <2>2. CASE p \notin Oversized
    <3>1. p \in Fits(Packet) /\ p \notin Fits(sent) /\ Fits(sent)' = Fits(sent) \cup {p}
          /\ Fits(acked)' = Fits(acked) /\ Fits(failed)' = Fits(failed) \cup {p}
          /\ Fits(Committed)' = Fits(Committed)
      BY <1>0, <1>2, <2>2 DEF SendFailed, Fits
    <3>2. QED
      BY <3>1 DEF Delivery!Next, Delivery!SendFails
  <2>3. QED
    BY <2>1, <2>2
<1>3. ASSUME NEW p \in Packet, Resend(p) PROVE Promise' = Promise
  BY <1>0, <1>3 DEF Resend, Promise, Fits
<1>4. ASSUME NEW p \in Packet, Abandon(p) PROVE Delivery!Next \/ Promise' = Promise
  <2>1. CASE p \in Oversized
    BY <1>0, <1>4, <2>1 DEF Abandon, Fits, Promise
  <2>2. CASE p \notin Oversized
    <3>1. p \in Fits(Packet) /\ p \in Fits(sent) \ Fits(acked) /\ Fits(sent)' = Fits(sent)
          /\ Fits(acked)' = Fits(acked) /\ Fits(failed)' = Fits(failed) \cup {p}
          /\ Fits(Committed)' = Fits(Committed)
      BY <1>0, <1>4, <2>2 DEF Abandon, Fits, LinkInv, SenderOK
    <3>2. QED
      BY <3>1 DEF Delivery!Next, Delivery!GiveUp
  <2>3. QED
    BY <2>1, <2>2
<1>5. ASSUME NEW p \in Packet, NEW ok \in BOOLEAN, SendSplit(p, ok) PROVE Promise' = Promise
  BY <1>0, <1>5 DEF SendSplit, Promise, Fits
<1>6. ASSUME NEW batch \in acks, RecvReceipts(batch) PROVE Delivery!Next
  <2> DEFINE S == Fits({p \in batch : tracked[p] # "none"})
  <2>1. batch \subseteq Packet /\ batch \subseteq UNION acks
    BY DEF LinkInv, LinkTypeOK
  <2>2. S \in SUBSET Fits(Packet) /\ S \subseteq Fits(Committed) \ Fits(failed)
    BY <2>1 DEF LinkInv, ReceiptsAreEarned, SenderOK, Fits
  <2>3. Fits(acked)' = Fits(acked) \cup S /\ Fits(sent)' = Fits(sent)
        /\ Fits(failed)' = Fits(failed) /\ Fits(Committed)' = Fits(Committed)
    BY <1>0, <1>6 DEF RecvReceipts, Fits
  <2> HIDE DEF S
  <2>4. QED
    BY <2>2, <2>3 DEF Delivery!Next, Delivery!Acknowledge
<1>7. QED
  BY <1>1, <1>2, <1>3, <1>4, <1>5, <1>6

\* The receiving peer's steps: going on to process_inbound is the delivery.
LEMMA ReceiverRefines ==
    ASSUME LinkInv,
           \/ \E d \in wire : RecvPacket(d)
           \/ Flush \/ Accept \/ IgnoreDuplicate
           \/ AckSent \/ AckFailed \/ RecvCancelled \/ process_inbound
           \/ AckTick \/ OutboundShortMessage \/ CarrierSent \/ CarrierFailed
           \/ Tick
    PROVE  Delivery!Next \/ Promise' = Promise
<1>0. LinkTypeOK /\ InHandOK
  BY DEF LinkInv
<1>1. UNCHANGED <<sent, acked, failed>>
  BY DEF RecvPacket, Flush, Accept, IgnoreDuplicate, AckSent, AckFailed, RecvCancelled,
         process_inbound, AckTick, OutboundShortMessage, TakeReceipts, CarrierSent,
         CarrierFailed, Tick, senderVars
<1>2. ASSUME Committed' = Committed PROVE Promise' = Promise
  BY <1>1, <1>2 DEF Promise, Fits
<1>3. ASSUME rx.pc \in {"reported", "acking"}, rx'.pc = "processing", rx'.id = rx.id,
             rx'.kind = rx.kind, delivered' = delivered
      PROVE  Delivery!Next \/ Promise' = Promise
  <2>1. rx.id \in Packet /\ rx.id \in sent /\ (rx.id \notin Oversized => rx.kind = "data")
    BY <1>0, <1>3 DEF LinkTypeOK, InHandOK
  <2>2. Committed = delivered
        /\ Committed' = IF rx.kind = "data" THEN delivered \cup {rx.id} ELSE delivered
    BY <1>3 DEF Committed
  <2>3. CASE rx.id \in Oversized
    BY <1>1, <2>2, <2>3 DEF Promise, Fits
  <2>4. CASE rx.id \notin Oversized
    <3>1. /\ rx.id \in Fits(Packet) /\ rx.id \in Fits(sent)
          /\ Fits(Committed)' = Fits(Committed) \cup {rx.id} /\ Fits(sent)' = Fits(sent)
          /\ Fits(acked)' = Fits(acked) /\ Fits(failed)' = Fits(failed)
      BY <1>1, <2>1, <2>2, <2>4 DEF Fits
    <3>2. QED
      BY <3>1 DEF Delivery!Next, Delivery!Deliver
  <2>5. QED
    BY <2>3, <2>4
<1>4. CASE \E d \in wire : RecvPacket(d)
  <2>1. Committed' = Committed
    BY <1>4 DEF RecvPacket, Idle, Committed
  <2>2. QED
    BY <1>2, <2>1
<1>5. CASE Flush
  <2>1. /\ rx.pc = "reported" /\ rx'.pc \in {"acking", "processing"} /\ rx'.id = rx.id
        /\ rx'.kind = rx.kind /\ delivered' = delivered
    BY <1>0, <1>5 DEF Flush, LinkTypeOK, Rx, historyVars
  <2>2. CASE rx'.pc = "acking"
    BY <1>2, <2>1, <2>2 DEF Committed
  <2>3. QED
    BY <1>3, <2>1, <2>2
<1>6. CASE Accept \/ AckSent \/ AckFailed
  <2>1. /\ rx.pc \in {"reported", "acking"} /\ rx'.pc = "processing" /\ rx'.id = rx.id
        /\ rx'.kind = rx.kind /\ delivered' = delivered
    BY <1>0, <1>6 DEF Accept, AckSent, AckFailed, LinkTypeOK, Rx, historyVars
  <2>2. QED
    BY <1>3, <2>1
<1>7. CASE \/ IgnoreDuplicate \/ RecvCancelled \/ AckTick \/ OutboundShortMessage
           \/ CarrierSent \/ CarrierFailed \/ Tick
  <2>1. Committed' = Committed
    <3>1. CASE Tick
      BY <3>1 DEF Tick, Committed
    <3>2. CASE ~Tick
      <4>1. rx.pc # "processing" /\ rx'.pc # "processing" /\ delivered' = delivered
        <5>1. CASE IgnoreDuplicate \/ RecvCancelled \/ CarrierSent \/ CarrierFailed
          BY <5>1 DEF IgnoreDuplicate, RecvCancelled, CarrierSent, CarrierFailed, Idle,
                      historyVars
        <5>2. CASE AckTick \/ OutboundShortMessage
          BY <5>2 DEF AckTick, OutboundShortMessage, TakeReceipts, Idle, historyVars
        <5>3. QED
          BY <1>7, <3>2, <5>1, <5>2
      <4>2. QED
        BY <4>1 DEF Committed
    <3>3. QED
      BY <3>1, <3>2
  <2>2. QED
    BY <1>2, <2>1
<1>8. CASE process_inbound
  <2>1. Committed' = Committed
    BY <1>8 DEF process_inbound, Idle, Committed
  <2>2. QED
    BY <1>2, <2>1
<1>9. QED
  BY <1>4, <1>5, <1>6, <1>7, <1>8

\* The link implements the delivery service for the messages that fit one packet:
\* recv() sends receipts before it processes the packet they are for and may be
\* cancelled in between, and yet no message is acknowledged that is not delivered, and
\* none that was given up.
THEOREM LinkDelivers == LinkSpec => DeliversAsPromised
<1>1. LinkInit => Delivery!Init
  BY DEF LinkInit, Delivery!Init, Fits, Committed, Idle
<1>2. LinkInv /\ [LinkNext]_linkVars => [Delivery!Next]_(Delivery!deliveryVars)
  <2> SUFFICES ASSUME LinkInv, [LinkNext]_linkVars
               PROVE  Delivery!Next \/ Promise' = Promise
    BY DEF Delivery!deliveryVars, Promise
  <2>1. CASE UNCHANGED linkVars
    BY <2>1 DEF linkVars, senderVars, historyVars, Promise, Fits, Committed
  <2>2. QED
    BY <2>1, SenderRefines, ReceiverRefines DEF LinkNext
<1>3. QED
  BY <1>1, <1>2, LinkInvariant, PTL DEF LinkSpec, DeliversAsPromised, Delivery!Spec
=============================================================================
