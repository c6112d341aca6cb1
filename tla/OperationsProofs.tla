-------------------------- MODULE OperationsProofs --------------------------
(***************************************************************************)
(* TLAPS proofs about the registry of orphan streams, for any number of    *)
(* streams, registrations and claims, and about the origin of a PUT, for   *)
(* any peers, retry budgets and channel capacities.                        *)
(***************************************************************************)
EXTENDS OrphanStreams, PutOrigin, FiniteSetTheorems, TLAPS

RegPcs == {"idle", "no_waiter", "sending", "done"}
Early == {"idle", "already_claimed", "claimed", "no_orphan"}
ClaimPcs == Early \cup {"waiting", "timed_out", "cancelled", "unclaiming", "failed", "got"}

OrphanTypeOK ==
  /\ orphan_streams \in [Stream -> Handle \cup {None}]
  /\ stream_waiters \in [Stream -> Claimer \cup {None}]
  /\ claimed_streams \subseteq Stream
  /\ reg \in [Handle -> [pc : RegPcs, key : Stream \cup {None}, waiter : Claimer \cup {None}]]
  /\ claim \in [Claimer -> [pc : ClaimPcs, key : Stream \cup {None}, handle : Handle \cup {None}]]
  /\ channel \in [Claimer -> Handle \cup {None}]
  /\ cancelled \subseteq Handle /\ lost \subseteq Handle
  /\ cleared \in BOOLEAN
  /\ \A h \in Handle : /\ reg[h].pc # "idle" => reg[h].key \in Stream
                       /\ reg[h].pc = "sending" => reg[h].waiter \in Claimer
  /\ \A c \in Claimer : claim[c].pc # "idle" => claim[c].key \in Stream

\* A claimer holds a handle only when it is done, and one is in its channel only
\* while it waits.
HandlesInOrder ==
  \A c \in Claimer : /\ claim[c].handle # None => claim[c].pc = "got"
                     /\ channel[c] # None => claim[c].pc = "waiting"

\* The sender of a claimer's channel exists once: as the waiter of its stream, in the
\* hands of one registration, or it has been used.
SendersAreUnique ==
  /\ \A k \in Stream : stream_waiters[k] # None =>
        LET c == stream_waiters[k]
        IN  claim[c].key = k /\ claim[c].pc \notin Early /\ channel[c] = None
  /\ \A h \in Handle : reg[h].pc = "sending" =>
        LET c == reg[h].waiter
        IN  /\ claim[c].pc \notin Early /\ channel[c] = None
            /\ \A k \in Stream : stream_waiters[k] # c
            /\ \A g \in Handle : reg[g].pc = "sending" /\ reg[g].waiter = c => g = h

Has(c, h) == claim[c].handle = h \/ channel[c] = h

\* A handle is nowhere twice ...
NowhereTwice ==
  \A h \in Handle :
    /\ \A k \in Stream : orphan_streams[k] = h =>
          /\ \A l \in Stream : orphan_streams[l] = h => l = k
          /\ \A c \in Claimer : ~Has(c, h)
          /\ h \notin cancelled /\ h \notin lost
    /\ \A c \in Claimer : Has(c, h) =>
          /\ \A d \in Claimer : Has(d, h) => d = c
          /\ h \notin cancelled /\ h \notin lost
    /\ ~(h \in cancelled /\ h \in lost)

\* ... and somewhere from the moment its registration let go of it.
Somewhere(h) == \/ \E k \in Stream : orphan_streams[k] = h
                \/ \E c \in Claimer : Has(c, h)
                \/ h \in cancelled \/ h \in lost
OwnedWhenDone == \A h \in Handle : reg[h].pc = "done" <=> Somewhere(h)

\* Unless the claims were cleared, a claimer's stream is claimed until it fails, one
\* that waits can still be told, and so none is cancelled.
ClaimsAreKept ==
  ~cleared =>
    /\ \A c \in Claimer : Holds(c) => claim[c].key \in claimed_streams
    /\ \A c \in Claimer : claim[c].pc = "waiting" => ~SenderGone(c)
    /\ OneClaimPerStream

OrphanInv == /\ OrphanTypeOK /\ HandlesInOrder /\ SendersAreUnique
             /\ NowhereTwice /\ OwnedWhenDone /\ ClaimsAreKept
-----------------------------------------------------------------------------
\* A registration takes the waiter.
LEMMA TakeWaiterKeeps == ASSUME OrphanInv, NEW h \in Handle, NEW k \in Stream, TakeWaiter(h, k) PROVE OrphanInv'
<1> USE OrphanAssumption DEF OrphanInv
<1>1. OrphanTypeOK'
  BY DEF TakeWaiter, maps, OrphanTypeOK, RegPcs, ClaimPcs, Early
<1>2. HandlesInOrder'
  BY DEF TakeWaiter, maps, HandlesInOrder, OrphanTypeOK, ClaimPcs, RegPcs, Early
<1>3. SendersAreUnique'
  BY DEF TakeWaiter, maps, HandlesInOrder, OrphanTypeOK, SendersAreUnique, Early, ClaimPcs, RegPcs
<1>4. NowhereTwice'
  BY DEF TakeWaiter, maps, HandlesInOrder, NowhereTwice, OrphanTypeOK, OwnedWhenDone, SendersAreUnique, Somewhere, Has, ClaimPcs, RegPcs, Early
<1>5. OwnedWhenDone'
  BY DEF TakeWaiter, maps, HandlesInOrder, NowhereTwice, OrphanTypeOK, OwnedWhenDone, SendersAreUnique, Somewhere, Has, ClaimPcs, RegPcs, Early
<1>6. ClaimsAreKept'
  BY DEF TakeWaiter, maps, ClaimsAreKept, HandlesInOrder, OrphanTypeOK, SendersAreUnique, Holds, SenderGone, OneClaimPerStream, ClaimPcs, RegPcs, Early
<1>7. QED
  BY <1>1, <1>2, <1>3, <1>4, <1>5, <1>6

\* It sends the handle to the waiter.
LEMMA SendToWaiterKeeps == ASSUME OrphanInv, NEW h \in Handle, SendToWaiter(h) PROVE OrphanInv'
<1> USE OrphanAssumption DEF OrphanInv
<1>1. OrphanTypeOK'
  <2>1. /\ reg' \in [Handle -> [pc : RegPcs, key : Stream \cup {None}, waiter : Claimer \cup {None}]]
        /\ \A g \in Handle : reg'[g].key = reg[g].key /\ reg'[g].waiter = reg[g].waiter
    <3>1. /\ reg \in [Handle -> [pc : RegPcs, key : Stream \cup {None}, waiter : Claimer \cup {None}]]
          /\ reg' = [reg EXCEPT ![h].pc = "done"]
      BY DEF SendToWaiter, OrphanTypeOK
    <3>2. QED
      BY <3>1 DEF RegPcs
  <2>2. channel' \in [Claimer -> Handle \cup {None}] /\ lost' \subseteq Handle
    <3>1. CASE Listening(reg[h].waiter)
      <4>1. channel' = [channel EXCEPT ![reg[h].waiter] = h] /\ lost' = lost
        BY <3>1 DEF SendToWaiter
      <4>2. QED
        BY <4>1 DEF OrphanTypeOK
    <3>2. CASE ~Listening(reg[h].waiter)
      <4>1. channel' = channel /\ lost' = lost \cup {h}
        BY <3>2 DEF SendToWaiter
      <4>2. QED
        BY <4>1 DEF OrphanTypeOK
    <3>3. QED
      BY <3>1, <3>2
  <2>3. \A g \in Handle : /\ reg'[g].pc # "idle" => reg'[g].key \in Stream
                          /\ reg'[g].pc = "sending" => reg'[g].waiter \in Claimer
    BY <2>1 DEF SendToWaiter, OrphanTypeOK
  <2>4. QED
    BY <2>1, <2>2, <2>3 DEF SendToWaiter, maps, OrphanTypeOK
<1>2. HandlesInOrder'
  BY DEF SendToWaiter, maps, Listening, HandlesInOrder, OrphanTypeOK, ClaimPcs, RegPcs, Early
<1>3. SendersAreUnique'
  BY DEF SendToWaiter, maps, Listening, HandlesInOrder, OrphanTypeOK, SendersAreUnique, Early, ClaimPcs, RegPcs
<1>4. NowhereTwice'
  BY DEF SendToWaiter, maps, Listening, HandlesInOrder, NowhereTwice, OrphanTypeOK, OwnedWhenDone, SendersAreUnique, Somewhere, Has, ClaimPcs, RegPcs, Early
<1>5. OwnedWhenDone'
  BY DEF SendToWaiter, maps, Listening, HandlesInOrder, NowhereTwice, OrphanTypeOK, OwnedWhenDone, SendersAreUnique, Somewhere, Has, ClaimPcs, RegPcs, Early
<1>6. ClaimsAreKept'
  BY DEF SendToWaiter, maps, Listening, ClaimsAreKept, HandlesInOrder, OrphanTypeOK, SendersAreUnique, Holds, SenderGone, OneClaimPerStream, ClaimPcs, RegPcs, Early
<1>7. QED
  BY <1>1, <1>2, <1>3, <1>4, <1>5, <1>6

\* It stores the handle.
LEMMA StoreOrphanKeeps == ASSUME OrphanInv, NEW h \in Handle, StoreOrphan(h) PROVE OrphanInv'
<1> USE OrphanAssumption DEF OrphanInv
<1>1. OrphanTypeOK'
  BY DEF StoreOrphan, maps, Dropped, OrphanTypeOK, RegPcs, ClaimPcs, Early
<1>2. HandlesInOrder'
  BY DEF StoreOrphan, maps, Dropped, HandlesInOrder, OrphanTypeOK, ClaimPcs, RegPcs, Early
<1>3. SendersAreUnique'
  BY DEF StoreOrphan, maps, Dropped, HandlesInOrder, OrphanTypeOK, SendersAreUnique, Early, ClaimPcs, RegPcs
<1>4. NowhereTwice'
  BY DEF StoreOrphan, maps, Dropped, HandlesInOrder, NowhereTwice, OrphanTypeOK, OwnedWhenDone, SendersAreUnique, Somewhere, Has, ClaimPcs, RegPcs, Early
<1>5. OwnedWhenDone'
  BY DEF StoreOrphan, maps, Dropped, HandlesInOrder, NowhereTwice, OrphanTypeOK, OwnedWhenDone, SendersAreUnique, Somewhere, Has, ClaimPcs, RegPcs, Early
<1>6. ClaimsAreKept'
  BY DEF StoreOrphan, maps, Dropped, ClaimsAreKept, HandlesInOrder, OrphanTypeOK, SendersAreUnique, Holds, SenderGone, OneClaimPerStream, ClaimPcs, RegPcs, Early
<1>7. QED
  BY <1>1, <1>2, <1>3, <1>4, <1>5, <1>6

\* A claim is made.
LEMMA DeduplicateKeeps == ASSUME OrphanInv, NEW c \in Claimer, NEW k \in Stream, Deduplicate(c, k) PROVE OrphanInv'
<1> USE OrphanAssumption DEF OrphanInv
<1>1. OrphanTypeOK'
  BY DEF Deduplicate, maps, OrphanTypeOK, RegPcs, ClaimPcs, Early
<1>2. HandlesInOrder'
  BY DEF Deduplicate, maps, HandlesInOrder, OrphanTypeOK, ClaimPcs, RegPcs, Early
<1>3. SendersAreUnique'
  BY DEF Deduplicate, maps, HandlesInOrder, OrphanTypeOK, SendersAreUnique, Early, ClaimPcs, RegPcs
<1>4. NowhereTwice'
  BY DEF Deduplicate, maps, HandlesInOrder, NowhereTwice, OrphanTypeOK, OwnedWhenDone, SendersAreUnique, Somewhere, Has, ClaimPcs, RegPcs, Early
<1>5. OwnedWhenDone'
  BY DEF Deduplicate, maps, HandlesInOrder, NowhereTwice, OrphanTypeOK, OwnedWhenDone, SendersAreUnique, Somewhere, Has, ClaimPcs, RegPcs, Early
<1>6. ClaimsAreKept'
  BY DEF Deduplicate, maps, ClaimsAreKept, HandlesInOrder, OrphanTypeOK, SendersAreUnique, Holds, SenderGone, OneClaimPerStream, ClaimPcs, RegPcs, Early
<1>7. QED
  BY <1>1, <1>2, <1>3, <1>4, <1>5, <1>6

\* The claimer takes the orphan.
LEMMA TakeOrphanKeeps == ASSUME OrphanInv, NEW c \in Claimer, TakeOrphan(c) PROVE OrphanInv'
<1> USE OrphanAssumption DEF OrphanInv
<1>1. OrphanTypeOK'
  <2> DEFINE f == [claim EXCEPT ![c].pc = IF orphan_streams[claim[c].key] = None THEN "no_orphan" ELSE "got"]
  <2>0. /\ f \in [Claimer -> [pc : ClaimPcs, key : Stream \cup {None}, handle : Handle \cup {None}]]
        /\ f[c].key = claim[c].key
        /\ \A d \in Claimer : d # c => f[d] = claim[d]
    BY DEF TakeOrphan, OrphanTypeOK, ClaimPcs, Early
  <2>1. claim' = [f EXCEPT ![c].handle = orphan_streams[claim[c].key]]
    BY DEF TakeOrphan, OrphanTypeOK
  <2>2. orphan_streams[claim[c].key] \in Handle \cup {None}
    BY DEF TakeOrphan, OrphanTypeOK
  <2> HIDE DEF f
  <2>3. claim' \in [Claimer -> [pc : ClaimPcs, key : Stream \cup {None}, handle : Handle \cup {None}]]
    BY <2>0, <2>1, <2>2
  <2>4. \A d \in Claimer : claim'[d].pc # "idle" => claim'[d].key \in Stream
    BY <2>0, <2>1 DEF TakeOrphan, OrphanTypeOK
  <2>5. /\ orphan_streams' \in [Stream -> Handle \cup {None}]
        /\ channel' \in [Claimer -> Handle \cup {None}]
        /\ claimed_streams' \subseteq Stream
    BY DEF TakeOrphan, maps, OrphanTypeOK
  <2>6. QED
    BY <2>3, <2>4, <2>5 DEF TakeOrphan, maps, OrphanTypeOK
<1>2. HandlesInOrder'
  BY DEF TakeOrphan, maps, HandlesInOrder, OrphanTypeOK, ClaimPcs, RegPcs, Early
<1>3. SendersAreUnique'
  BY SMTT(30) DEF TakeOrphan, maps, HandlesInOrder, OrphanTypeOK, SendersAreUnique, Early, ClaimPcs, RegPcs
<1>4. NowhereTwice'
  BY DEF TakeOrphan, maps, HandlesInOrder, NowhereTwice, OrphanTypeOK, OwnedWhenDone, SendersAreUnique, Somewhere, Has, ClaimPcs, RegPcs, Early
<1>5. OwnedWhenDone'
  <2> DEFINE k == claim[c].key
  <2>1. /\ k \in Stream /\ claim[c].handle = None /\ channel[c] = None
        /\ claim'[c].handle = orphan_streams[k]
        /\ \A d \in Claimer : d # c => claim'[d] = claim[d]
        /\ orphan_streams'[k] = None
        /\ \A l \in Stream : l # k => orphan_streams'[l] = orphan_streams[l]
        /\ UNCHANGED <<reg, channel, cancelled, lost>>
    BY DEF TakeOrphan, OrphanTypeOK, HandlesInOrder
  <2>2. ASSUME NEW h \in Handle PROVE Somewhere(h)' <=> Somewhere(h)
    BY <2>1 DEF Somewhere, Has
  <2>3. QED
    BY <2>1, <2>2 DEF OwnedWhenDone
<1>6. ClaimsAreKept'
  <2>1. UNCHANGED <<stream_waiters, claimed_streams, reg, channel, cleared>>
    BY DEF TakeOrphan
  <2>2. \A d \in Claimer : /\ claim'[d].key = claim[d].key
                           /\ Holds(d)' => Holds(d)
                           /\ claim'[d].pc = "waiting" => claim[d].pc = "waiting"
                           /\ claim'[d].pc = "cancelled" => claim[d].pc = "cancelled"
    BY DEF TakeOrphan, OrphanTypeOK, Holds
  <2>3. ASSUME NEW d \in Claimer PROVE SenderGone(d)' <=> SenderGone(d)
    BY <2>1, <2>2 DEF SenderGone
  <2>4. OneClaimPerStream => OneClaimPerStream'
    BY <2>1, <2>2 DEF OneClaimPerStream
  <2>5. QED
    BY <2>1, <2>2, <2>3, <2>4 DEF ClaimsAreKept
<1>7. QED
  BY <1>1, <1>2, <1>3, <1>4, <1>5, <1>6

\* The claimer waits.
LEMMA InsertWaiterKeeps == ASSUME OrphanInv, NEW c \in Claimer, InsertWaiter(c) PROVE OrphanInv'
<1> USE OrphanAssumption DEF OrphanInv
<1>1. OrphanTypeOK'
  BY DEF InsertWaiter, maps, At, OrphanTypeOK, RegPcs, ClaimPcs, Early
<1>2. HandlesInOrder'
  BY DEF InsertWaiter, maps, At, HandlesInOrder, OrphanTypeOK, ClaimPcs, RegPcs, Early
<1>3. SendersAreUnique'
  BY DEF InsertWaiter, maps, At, HandlesInOrder, OrphanTypeOK, SendersAreUnique, Early, ClaimPcs, RegPcs
<1>4. NowhereTwice'
  BY DEF InsertWaiter, maps, At, HandlesInOrder, NowhereTwice, OrphanTypeOK, OwnedWhenDone, SendersAreUnique, Somewhere, Has, ClaimPcs, RegPcs, Early
<1>5. OwnedWhenDone'
  BY DEF InsertWaiter, maps, At, HandlesInOrder, NowhereTwice, OrphanTypeOK, OwnedWhenDone, SendersAreUnique, Somewhere, Has, ClaimPcs, RegPcs, Early
<1>6. ClaimsAreKept'
  BY DEF InsertWaiter, maps, At, ClaimsAreKept, HandlesInOrder, OrphanTypeOK, SendersAreUnique, Holds, SenderGone, OneClaimPerStream, ClaimPcs, RegPcs, Early
<1>7. QED
  BY <1>1, <1>2, <1>3, <1>4, <1>5, <1>6

\* The handle arrives.
LEMMA ArrivedKeeps == ASSUME OrphanInv, NEW c \in Claimer, Arrived(c) PROVE OrphanInv'
<1> USE OrphanAssumption DEF OrphanInv
<1>1. OrphanTypeOK'
  <2> DEFINE f == [claim EXCEPT ![c].pc = "got"]
  <2>0. /\ f \in [Claimer -> [pc : ClaimPcs, key : Stream \cup {None}, handle : Handle \cup {None}]]
        /\ f[c].key = claim[c].key
        /\ \A d \in Claimer : d # c => f[d] = claim[d]
    BY SMTT(30) DEF Arrived, OrphanTypeOK, ClaimPcs, Early
  <2>1. claim' = [f EXCEPT ![c].handle = channel[c]]
    BY DEF Arrived, OrphanTypeOK
  <2>2. channel[c] \in Handle \cup {None}
    BY DEF Arrived, OrphanTypeOK
  <2> HIDE DEF f
  <2>3. claim' \in [Claimer -> [pc : ClaimPcs, key : Stream \cup {None}, handle : Handle \cup {None}]]
    BY <2>0, <2>1, <2>2
  <2>4. \A d \in Claimer : claim'[d].pc # "idle" => claim'[d].key \in Stream
    BY <2>0, <2>1 DEF Arrived, OrphanTypeOK
  <2>5. /\ orphan_streams' \in [Stream -> Handle \cup {None}]
        /\ channel' \in [Claimer -> Handle \cup {None}]
        /\ claimed_streams' \subseteq Stream
    BY DEF Arrived, maps, OrphanTypeOK
  <2>6. QED
    BY <2>3, <2>4, <2>5 DEF Arrived, maps, OrphanTypeOK
<1>2. HandlesInOrder'
  BY DEF Arrived, maps, HandlesInOrder, OrphanTypeOK, ClaimPcs, RegPcs, Early
<1>3. SendersAreUnique'
  BY DEF Arrived, maps, HandlesInOrder, OrphanTypeOK, SendersAreUnique, Early, ClaimPcs, RegPcs
<1>4. NowhereTwice'
  BY DEF Arrived, maps, HandlesInOrder, NowhereTwice, OrphanTypeOK, OwnedWhenDone, SendersAreUnique, Somewhere, Has, ClaimPcs, RegPcs, Early
<1>5. OwnedWhenDone'
  BY DEF Arrived, maps, HandlesInOrder, NowhereTwice, OrphanTypeOK, OwnedWhenDone, SendersAreUnique, Somewhere, Has, ClaimPcs, RegPcs, Early
<1>6. ClaimsAreKept'
  BY DEF Arrived, maps, ClaimsAreKept, HandlesInOrder, OrphanTypeOK, SendersAreUnique, Holds, SenderGone, OneClaimPerStream, ClaimPcs, RegPcs, Early
<1>7. QED
  BY <1>1, <1>2, <1>3, <1>4, <1>5, <1>6

\* The claimer's sender is gone.
LEMMA WaiterCancelledKeeps == ASSUME OrphanInv, NEW c \in Claimer, WaiterCancelled(c) PROVE OrphanInv'
<1> USE OrphanAssumption DEF OrphanInv
<1>1. OrphanTypeOK'
  BY DEF WaiterCancelled, maps, At, SenderGone, OrphanTypeOK, RegPcs, ClaimPcs, Early
<1>2. HandlesInOrder'
  BY DEF WaiterCancelled, maps, At, SenderGone, HandlesInOrder, OrphanTypeOK, ClaimPcs, RegPcs, Early
<1>3. SendersAreUnique'
  BY DEF WaiterCancelled, maps, At, SenderGone, HandlesInOrder, OrphanTypeOK, SendersAreUnique, Early, ClaimPcs, RegPcs
<1>4. NowhereTwice'
  BY DEF WaiterCancelled, maps, At, SenderGone, HandlesInOrder, NowhereTwice, OrphanTypeOK, OwnedWhenDone, SendersAreUnique, Somewhere, Has, ClaimPcs, RegPcs, Early
<1>5. OwnedWhenDone'
  BY DEF WaiterCancelled, maps, At, SenderGone, HandlesInOrder, NowhereTwice, OrphanTypeOK, OwnedWhenDone, SendersAreUnique, Somewhere, Has, ClaimPcs, RegPcs, Early
<1>6. ClaimsAreKept'
  BY DEF WaiterCancelled, maps, At, SenderGone, ClaimsAreKept, HandlesInOrder, OrphanTypeOK, SendersAreUnique, Holds, OneClaimPerStream, ClaimPcs, RegPcs, Early
<1>7. QED
  BY <1>1, <1>2, <1>3, <1>4, <1>5, <1>6

\* The claimer gives up.
LEMMA TimesOutKeeps == ASSUME OrphanInv, NEW c \in Claimer, TimesOut(c) PROVE OrphanInv'
<1> USE OrphanAssumption DEF OrphanInv
<1>1. OrphanTypeOK'
  BY DEF TimesOut, maps, At, OrphanTypeOK, RegPcs, ClaimPcs, Early
<1>2. HandlesInOrder'
  BY DEF TimesOut, maps, At, HandlesInOrder, OrphanTypeOK, ClaimPcs, RegPcs, Early
<1>3. SendersAreUnique'
  BY DEF TimesOut, maps, At, HandlesInOrder, OrphanTypeOK, SendersAreUnique, Early, ClaimPcs, RegPcs
<1>4. NowhereTwice'
  BY DEF TimesOut, maps, At, HandlesInOrder, NowhereTwice, OrphanTypeOK, OwnedWhenDone, SendersAreUnique, Somewhere, Has, ClaimPcs, RegPcs, Early
<1>5. OwnedWhenDone'
  BY DEF TimesOut, maps, At, HandlesInOrder, NowhereTwice, OrphanTypeOK, OwnedWhenDone, SendersAreUnique, Somewhere, Has, ClaimPcs, RegPcs, Early
<1>6. ClaimsAreKept'
  BY DEF TimesOut, maps, At, ClaimsAreKept, HandlesInOrder, OrphanTypeOK, SendersAreUnique, Holds, SenderGone, OneClaimPerStream, ClaimPcs, RegPcs, Early
<1>7. QED
  BY <1>1, <1>2, <1>3, <1>4, <1>5, <1>6

\* It removes the waiter of its stream.
LEMMA RemoveWaiterKeeps == ASSUME OrphanInv, NEW c \in Claimer, RemoveWaiter(c) PROVE OrphanInv'
<1> USE OrphanAssumption DEF OrphanInv
<1>1. OrphanTypeOK'
  BY DEF RemoveWaiter, maps, At, OrphanTypeOK, RegPcs, ClaimPcs, Early
<1>2. HandlesInOrder'
  BY DEF RemoveWaiter, maps, At, HandlesInOrder, OrphanTypeOK, ClaimPcs, RegPcs, Early
<1>3. SendersAreUnique'
  BY DEF RemoveWaiter, maps, At, HandlesInOrder, OrphanTypeOK, SendersAreUnique, Early, ClaimPcs, RegPcs
<1>4. NowhereTwice'
  BY DEF RemoveWaiter, maps, At, HandlesInOrder, NowhereTwice, OrphanTypeOK, OwnedWhenDone, SendersAreUnique, Somewhere, Has, ClaimPcs, RegPcs, Early
<1>5. OwnedWhenDone'
  BY DEF RemoveWaiter, maps, At, HandlesInOrder, NowhereTwice, OrphanTypeOK, OwnedWhenDone, SendersAreUnique, Somewhere, Has, ClaimPcs, RegPcs, Early
<1>6. ClaimsAreKept'
  BY DEF RemoveWaiter, maps, At, ClaimsAreKept, HandlesInOrder, OrphanTypeOK, SendersAreUnique, Holds, SenderGone, OneClaimPerStream, ClaimPcs, RegPcs, Early
<1>7. QED
  BY <1>1, <1>2, <1>3, <1>4, <1>5, <1>6

\* It removes its claim.
LEMMA RemoveClaimKeeps == ASSUME OrphanInv, NEW c \in Claimer, RemoveClaim(c) PROVE OrphanInv'
<1> USE OrphanAssumption DEF OrphanInv
<1>1. OrphanTypeOK'
  <2>1. claim' \in [Claimer -> [pc : ClaimPcs, key : Stream \cup {None}, handle : Handle \cup {None}]]
    BY DEF RemoveClaim, At, OrphanTypeOK, ClaimPcs, Early
  <2>2. \A d \in Claimer : claim'[d].pc # "idle" => claim'[d].key \in Stream
    BY DEF RemoveClaim, At, OrphanTypeOK
  <2>3. /\ orphan_streams' \in [Stream -> Handle \cup {None}]
        /\ channel' \in [Claimer -> Handle \cup {None}]
        /\ claimed_streams' \subseteq Stream
    BY DEF RemoveClaim, maps, OrphanTypeOK
  <2>4. QED
    BY <2>1, <2>2, <2>3 DEF RemoveClaim, maps, OrphanTypeOK
<1>2. HandlesInOrder'
  BY DEF RemoveClaim, maps, At, HandlesInOrder, OrphanTypeOK, ClaimPcs, RegPcs, Early
<1>3. SendersAreUnique'
  BY DEF RemoveClaim, maps, At, HandlesInOrder, OrphanTypeOK, SendersAreUnique, Early, ClaimPcs, RegPcs
<1>4. NowhereTwice'
  BY DEF RemoveClaim, maps, At, HandlesInOrder, NowhereTwice, OrphanTypeOK, OwnedWhenDone, SendersAreUnique, Somewhere, Has, ClaimPcs, RegPcs, Early
<1>5. OwnedWhenDone'
  BY DEF RemoveClaim, maps, At, HandlesInOrder, NowhereTwice, OrphanTypeOK, OwnedWhenDone, SendersAreUnique, Somewhere, Has, ClaimPcs, RegPcs, Early
<1>6. ClaimsAreKept'
  BY DEF RemoveClaim, maps, At, ClaimsAreKept, HandlesInOrder, OrphanTypeOK, SendersAreUnique, Holds, SenderGone, OneClaimPerStream, ClaimPcs, RegPcs, Early
<1>7. QED
  BY <1>1, <1>2, <1>3, <1>4, <1>5, <1>6

\* The GC cancels an orphan.
LEMMA CollectOrphanKeeps == ASSUME OrphanInv, NEW k \in Stream, CollectOrphan(k) PROVE OrphanInv'
<1> USE OrphanAssumption DEF OrphanInv
<1>1. OrphanTypeOK'
  BY DEF CollectOrphan, maps, OrphanTypeOK, RegPcs, ClaimPcs, Early
<1>2. HandlesInOrder'
  BY DEF CollectOrphan, maps, HandlesInOrder, OrphanTypeOK, ClaimPcs, RegPcs, Early
<1>3. SendersAreUnique'
  BY DEF CollectOrphan, maps, HandlesInOrder, OrphanTypeOK, SendersAreUnique, Early, ClaimPcs, RegPcs
<1>4. NowhereTwice'
  BY DEF CollectOrphan, maps, HandlesInOrder, NowhereTwice, OrphanTypeOK, OwnedWhenDone, SendersAreUnique, Somewhere, Has, ClaimPcs, RegPcs, Early
<1>5. OwnedWhenDone'
  BY DEF CollectOrphan, maps, HandlesInOrder, NowhereTwice, OrphanTypeOK, OwnedWhenDone, SendersAreUnique, Somewhere, Has, ClaimPcs, RegPcs, Early
<1>6. ClaimsAreKept'
  BY DEF CollectOrphan, maps, ClaimsAreKept, HandlesInOrder, OrphanTypeOK, SendersAreUnique, Holds, SenderGone, OneClaimPerStream, ClaimPcs, RegPcs, Early
<1>7. QED
  BY <1>1, <1>2, <1>3, <1>4, <1>5, <1>6

\* The GC clears the claims.
LEMMA ClearClaimsKeeps == ASSUME OrphanInv, ClearClaims PROVE OrphanInv'
<1> USE OrphanAssumption DEF OrphanInv
<1>1. OrphanTypeOK'
  BY DEF ClearClaims, maps, OrphanTypeOK, RegPcs, ClaimPcs, Early
<1>2. HandlesInOrder'
  BY DEF ClearClaims, maps, HandlesInOrder, OrphanTypeOK, ClaimPcs, RegPcs, Early
<1>3. SendersAreUnique'
  BY DEF ClearClaims, maps, HandlesInOrder, OrphanTypeOK, SendersAreUnique, Early, ClaimPcs, RegPcs
<1>4. NowhereTwice'
  BY DEF ClearClaims, maps, HandlesInOrder, NowhereTwice, OrphanTypeOK, OwnedWhenDone, SendersAreUnique, Somewhere, Has, ClaimPcs, RegPcs, Early
<1>5. OwnedWhenDone'
  BY DEF ClearClaims, maps, HandlesInOrder, NowhereTwice, OrphanTypeOK, OwnedWhenDone, SendersAreUnique, Somewhere, Has, ClaimPcs, RegPcs, Early
<1>6. ClaimsAreKept'
  BY DEF ClearClaims, maps, ClaimsAreKept, HandlesInOrder, OrphanTypeOK, SendersAreUnique, Holds, SenderGone, OneClaimPerStream, ClaimPcs, RegPcs, Early
<1>7. QED
  BY <1>1, <1>2, <1>3, <1>4, <1>5, <1>6

\* The empty registry.
LEMMA OrphanInitOK == OrphanInit => OrphanInv
<1> SUFFICES ASSUME OrphanInit PROVE OrphanInv
  OBVIOUS
<1> USE OrphanAssumption
<1>1. OrphanTypeOK
  BY DEF OrphanInit, OrphanTypeOK, RegPcs, ClaimPcs, Early
<1>2. HandlesInOrder /\ SendersAreUnique
  BY DEF OrphanInit, HandlesInOrder, SendersAreUnique
<1>3. NowhereTwice /\ OwnedWhenDone
  BY DEF OrphanInit, NowhereTwice, OwnedWhenDone, Somewhere, Has
<1>4. ClaimsAreKept
  BY DEF OrphanInit, ClaimsAreKept, OneClaimPerStream, Holds
<1>5. QED
  BY <1>1, <1>2, <1>3, <1>4 DEF OrphanInv

\* Every step of a registration, a claim or the GC keeps the invariant.
LEMMA OrphanNextOK == OrphanInv /\ [OrphanNext]_orphanVars => OrphanInv'
<1> SUFFICES ASSUME OrphanInv, [OrphanNext]_orphanVars PROVE OrphanInv'
  OBVIOUS
<1>1. CASE OrphanNext
  <2>1. ASSUME NEW h \in Handle, RegisterStep(h) PROVE OrphanInv'
    BY <2>1, SendToWaiterKeeps, StoreOrphanKeeps DEF RegisterStep
  <2>2. ASSUME NEW c \in Claimer, ClaimStep(c) PROVE OrphanInv'
    BY <2>2, TakeOrphanKeeps, InsertWaiterKeeps, ArrivedKeeps, WaiterCancelledKeeps,
       TimesOutKeeps, RemoveWaiterKeeps, RemoveClaimKeeps DEF ClaimStep
  <2>3. QED
    BY <1>1, <2>1, <2>2, TakeWaiterKeeps, DeduplicateKeeps, CollectOrphanKeeps, ClearClaimsKeeps
    DEF OrphanNext
<1>2. CASE UNCHANGED orphanVars
  BY <1>2 DEF orphanVars, maps, OrphanInv, OrphanTypeOK, HandlesInOrder, SendersAreUnique,
     NowhereTwice, OwnedWhenDone, ClaimsAreKept, OneClaimPerStream, Holds, SenderGone, Somewhere, Has
<1>3. QED
  BY <1>1, <1>2

\* The invariant holds in every reachable state.
LEMMA OrphanInvariant == OrphanSpec => []OrphanInv
  BY OrphanInitOK, OrphanNextOK, PTL DEF OrphanSpec

\* A handle that is nowhere twice has no place before its registration is done and
\* one place after.
LEMMA OnePlace ==
  ASSUME OrphanInv, NEW h \in Handle
  PROVE  Cardinality(Places(h)) = IF reg[h].pc = "done" THEN 1 ELSE 0
<1>1. ASSUME ~Somewhere(h) PROVE Places(h) = {}
  BY <1>1 DEF Somewhere, Has, Places
<1>2. ASSUME Somewhere(h) PROVE \E p : Places(h) = {p}
  <2>1. CASE h \in cancelled
    BY <2>1 DEF OrphanInv, NowhereTwice, Has, Places
  <2>2. CASE h \in lost
    BY <2>2 DEF OrphanInv, NowhereTwice, Has, Places
  <2>3. ASSUME NEW k \in Stream, orphan_streams[k] = h PROVE Places(h) = {k}
    BY <2>3 DEF OrphanInv, NowhereTwice, Has, Places
  <2>4. ASSUME NEW c \in Claimer, Has(c, h) PROVE Places(h) = {c}
    BY <2>4 DEF OrphanInv, NowhereTwice, Has, Places
  <2>5. QED
    BY <1>2, <2>1, <2>2, <2>3, <2>4 DEF Somewhere
<1>3. Cardinality({}) = 0 /\ \A p : Cardinality({p}) = 1
  BY FS_EmptySet, FS_Singleton
<1>4. reg[h].pc = "done" <=> Somewhere(h)
  BY DEF OrphanInv, OwnedWhenDone
<1>5. QED
  BY <1>1, <1>2, <1>3, <1>4

\* A handle has one owner from the moment register_orphan has let go of it, in every
\* interleaving of any number of registrations, claims, timeouts and GC passes: no two
\* operations read one stream, and none reads a stream the GC has cancelled.
THEOREM HandlesAreOwned == OrphanSpec => []HandleHasOneOwner
<1>1. OrphanInv => HandleHasOneOwner
  BY OnePlace DEF HandleHasOneOwner
<1>2. QED
  BY <1>1, OrphanInvariant, PTL

\* Until the GC clears claimed_streams, no two claimers hold a claim to one stream and
\* no waiter is displaced by another.
THEOREM ClaimsAreExclusive == OrphanSpec => []OneClaimPerStream
<1>1. OrphanInv => OneClaimPerStream
  BY DEF OrphanInv, ClaimsAreKept, OneClaimPerStream
<1>2. QED
  BY <1>1, OrphanInvariant, PTL

-----------------------------------------------------------------------------
(***************************************************************************)
(* The origin of a PUT.                                                    *)
(***************************************************************************)
Chan == {"drv", "fwd", "fin"} \X Txs
ExecItem == [cb : Chan, msg : {"request", "forward"} \cup Answers, to : SUBSET Peers]
Note == [kind : {"completed", "orphaned"}, tx : Txs]
RelayPcs == {"idle", "store", "route", "sent", "final", "fail", "answered", "ended"}

PutTypeOK ==
  /\ budget \in Budgets /\ att \in Txs
  /\ pc \in {"send", "await", "release", "deliver", "done"}
  /\ got \in {"nothing", "closed", "timeout", "peerlost"} \cup Answers
  /\ infra \in 0 .. budget.infra /\ retries \in 0 .. budget.adv
  /\ att <= 1 + infra + retries
  /\ buf \in {"empty", "peerlost"} \cup Answers
  /\ open \subseteq Chan /\ pending \subseteq Chan /\ astray \subseteq Txs
  /\ exec \in Seq(ExecItem)
  /\ notes \in Seq(Note) /\ Len(notes) <= NoteCapacity
  /\ tasks \subseteq [tx : Txs, msg : Answers]
  /\ relay \in [Txs -> RelayPcs]
  /\ conn \subseteq Peers /\ inbox \subseteq Txs
  /\ live \subseteq Peers \X Txs /\ dialing \subseteq Peers \X Txs /\ asked \subseteq Peers \X Txs

\* Whose receivers exist: the waiting driver's, and those of relay tasks at a send.
ReceiversOK ==
  \A c \in open :
    \/ c[1] = "drv" /\ c[2] = att /\ pc = "await"
    \/ c[1] = "fwd" /\ relay[c[2]] = "sent"
    \/ c[1] = "fin" /\ relay[c[2]] = "answered"

\* The waiting driver has its answer or somebody who can still send one, unless a
\* fire-and-forget send took the place of its callback.
SenderStays ==
  /\ pc = "await" => <<"drv", att>> \in open
  /\ pc = "await" /\ buf = "empty" /\ att \notin astray => HasSender(<<"drv", att>>)
  /\ BareCloseNeedsSlip

\* A transaction's slot and its live entries will be released: its round trip is under
\* way, or the release is queued.
Owed(t) == \/ t = att /\ pc \in {"await", "release"}
           \/ \E i \in 1 .. Len(notes) : notes[i] = [kind |-> "completed", tx |-> t]
SlotsOwed ==
  /\ \A c \in pending : c[2] \notin astray => c[1] = "drv" /\ Owed(c[2])
  /\ \A e \in live : e[2] \notin astray => Owed(e[2])
  /\ \A i \in 1 .. Len(notes) : notes[i].kind = "completed" =>
        notes[i].tx < att \/ pc \in {"deliver", "done"}

\* A transaction is sent once, and forwarded at most once, after it was sent.
Begun(t) == t < att \/ (t = att /\ pc # "send")
Forwarded(t) == relay[t] \notin {"idle", "store", "route"}
Away(t) == \E p \in Peers : <<p, t>> \in asked \cup dialing
ItemOK(m) ==
  /\ m.cb[1] = "drv" <=> m.msg = "request"
  /\ m.msg = "request" => relay[m.cb[2]] = "idle" /\ Begun(m.cb[2])
  /\ m.msg = "forward" => Forwarded(m.cb[2]) /\ ~Away(m.cb[2])
Same(m, n) == m.msg = n.msg /\ m.cb[2] = n.cb[2] /\ m.msg \in {"request", "forward"}
ForwardedOnce ==
  /\ \A t \in Txs : /\ relay[t] # "idle" => Begun(t)
                    /\ Away(t) => Forwarded(t)
  /\ \A i \in 1 .. Len(exec) : ItemOK(exec[i])
  /\ \A i, j \in 1 .. Len(exec) : Same(exec[i], exec[j]) => i = j

\* A peer that has the waiting driver's request, or will have it, is known to
\* live_tx_tracker.
PeersAreTracked ==
  /\ \A d \in dialing : d[1] \notin conn
  /\ pc = "await" /\ <<"drv", att>> \in pending =>
        \A p \in Peers : <<p, att>> \in asked \cup dialing => <<p, att>> \in live

PutInv == /\ PutTypeOK /\ ReceiversOK /\ SenderStays /\ SlotsOwed
          /\ ForwardedOnce /\ PeersAreTracked
-----------------------------------------------------------------------------
\* What appending and taking the first element do.
LEMMA AppendFacts ==
  ASSUME NEW S, NEW s \in Seq(S), NEW x \in S
  PROVE  /\ Append(s, x) \in Seq(S) /\ Len(s) \in Nat
         /\ Len(Append(s, x)) = Len(s) + 1 /\ Append(s, x)[Len(s) + 1] = x
         /\ \A i \in 1 .. Len(s) : Append(s, x)[i] = s[i] /\ i \in 1 .. Len(s) + 1
OBVIOUS

\* The rest of a sequence.
LEMMA TailFacts ==
  ASSUME NEW S, NEW s \in Seq(S), s # <<>>
  PROVE  /\ Tail(s) \in Seq(S) /\ Len(s) \in Nat /\ 1 \in 1 .. Len(s)
         /\ Len(Tail(s)) = Len(s) - 1 /\ Head(s) = s[1] /\ s[1] \in S
         /\ \A i \in 1 .. Len(Tail(s)) : Tail(s)[i] = s[i + 1] /\ i + 1 \in 2 .. Len(s)
         /\ \A i \in 2 .. Len(s) : Tail(s)[i - 1] = s[i] /\ i - 1 \in 1 .. Len(Tail(s))
<1>1. Tail(s) \in Seq(S) /\ Len(s) \in Nat /\ Len(s) # 0 /\ Len(Tail(s)) = Len(s) - 1
  OBVIOUS
<1>2. \A i \in 1 .. Len(Tail(s)) : Tail(s)[i] = s[i + 1]
  BY <1>1
<1>3. Head(s) = s[1] /\ s[1] \in S
  BY <1>1
<1>4. QED
  BY <1>1, <1>2, <1>3

\* One sequence after another.
LEMMA ConcatFacts ==
  ASSUME NEW S, NEW s \in Seq(S), NEW u \in Seq(S)
  PROVE  /\ s \o u \in Seq(S) /\ Len(s \o u) = Len(s) + Len(u)
         /\ \A i \in 1 .. Len(s) : (s \o u)[i] = s[i]
         /\ \A i \in 1 .. Len(u) : (s \o u)[Len(s) + i] = u[i]
<1>1. s \o u \in Seq(S) /\ Len(s \o u) = Len(s) + Len(u) /\ Len(s) \in Nat /\ Len(u) \in Nat
  OBVIOUS
<1>2. \A i \in 1 .. Len(s) : (s \o u)[i] = s[i]
  OBVIOUS
<1>3. \A i \in 1 .. Len(u) : (s \o u)[Len(s) + i] = u[i]
  OBVIOUS
<1>4. QED
  BY <1>1, <1>2, <1>3

\* A channel is a pair.
LEMMA ChanPair == \A c \in Chan : c = <<c[1], c[2]>> /\ c[2] \in Txs
BY DEF Chan

\* An item of the op_execution channel names a transaction.
LEMMA ItemFacts == \A m \in ExecItem : m.cb \in Chan /\ m.cb[2] \in Txs
<1>1. \A m \in ExecItem : m.cb \in Chan
  BY DEF ExecItem
<1>2. QED
  BY <1>1, ChanPair

\* The items in the op_execution channel, and the notifications.
LEMMA ChannelFacts ==
  ASSUME PutTypeOK
  PROVE  /\ DOMAIN exec = 1 .. Len(exec) /\ Len(exec) \in Nat
         /\ \A i \in 1 .. Len(exec) : exec[i] \in ExecItem /\ exec[i].cb[2] \in Txs
         /\ \A i \in 1 .. Len(notes) : notes[i] \in Note /\ notes[i].tx \in Txs
<1>1. exec \in Seq(ExecItem) /\ notes \in Seq(Note)
  BY DEF PutTypeOK
<1>2. /\ DOMAIN exec = 1 .. Len(exec) /\ Len(exec) \in Nat
      /\ \A i \in 1 .. Len(exec) : exec[i] \in ExecItem
  BY <1>1
<1>3. \A i \in 1 .. Len(notes) : notes[i] \in Note
  BY <1>1
<1>4. \A n \in Note : n.tx \in Txs
  BY DEF Note
<1>5. QED
  BY <1>2, <1>3, <1>4, ItemFacts

\* Transactions are numbered from one.
LEMMA TxsFacts == MaxAttempts \in Nat /\ \A t \in Txs : t \in Nat /\ 1 <= t /\ t <= MaxAttempts
BY PutAssumption DEF Txs

\* A transaction that has begun stays begun; so far as only the driver moves, what was
\* sent and forwarded stays so.
LEMMA DriverMoves ==
  ASSUME PutTypeOK, ForwardedOnce, UNCHANGED <<exec, relay, asked, dialing>>,
         \A t \in Txs : Begun(t) => Begun(t)'
  PROVE  ForwardedOnce'
<1>1. \A i \in 1 .. Len(exec) : exec[i] \in ExecItem /\ exec[i].cb[2] \in Txs
  BY ChannelFacts
<1>2. \A t : Forwarded(t)' = Forwarded(t) /\ Away(t)' = Away(t)
  BY DEF Forwarded, Away
<1>3. \A i \in 1 .. Len(exec) : ItemOK(exec[i])'
  BY <1>1, <1>2 DEF ForwardedOnce, ItemOK
<1>4. QED
  BY <1>2, <1>3 DEF ForwardedOnce, Same

\* A step of one relay task which sends nothing.
LEMMA RelayMoves ==
  ASSUME PutTypeOK, ForwardedOnce, NEW t \in Txs, NEW to \in RelayPcs \ {"idle"},
         relay[t] # "idle", relay' = [relay EXCEPT ![t] = to], Forwarded(t) => Forwarded(t)',
         UNCHANGED <<att, pc, exec, asked, dialing>>
  PROVE  ForwardedOnce'
<1>1. \A i \in 1 .. Len(exec) : exec[i] \in ExecItem /\ exec[i].cb[2] \in Txs
  BY ChannelFacts
<1>2. /\ \A u : Begun(u)' = Begun(u) /\ Away(u)' = Away(u)
      /\ \A u \in Txs : Forwarded(u) => Forwarded(u)'
      /\ \A u \in Txs : u # t => relay'[u] = relay[u]
      /\ relay'[t] # "idle"
  BY DEF Forwarded, Away, Begun, PutTypeOK
<1>3. ASSUME NEW i \in 1 .. Len(exec) PROVE ItemOK(exec[i])'
  <2>1. ItemOK(exec[i])
    BY DEF ForwardedOnce
  <2>2. exec'[i].cb[2] = t => exec'[i].msg # "request"
    BY <2>1 DEF ItemOK
  <2>3. QED
    BY <1>1, <1>2, <2>1, <2>2 DEF ItemOK
<1>4. QED
  BY <1>2, <1>3 DEF ForwardedOnce, Same

\* A new item in the op_execution channel.
LEMMA ItemAppended ==
  ASSUME PutTypeOK, ForwardedOnce, NEW m \in ExecItem, exec' = Append(exec, m),
         \A i \in 1 .. Len(exec) : ItemOK(exec[i])' /\ ~Same(exec[i], m),
         ItemOK(m)',
         \A t \in Txs : (relay'[t] # "idle" => Begun(t)') /\ (Away(t)' => Forwarded(t)')
  PROVE  ForwardedOnce'
<1>1. /\ Len(exec) \in Nat /\ Len(exec') = Len(exec) + 1 /\ exec'[Len(exec) + 1] = m
      /\ \A i \in 1 .. Len(exec) : exec'[i] = exec[i]
  BY AppendFacts DEF PutTypeOK
<1>2. \A i \in 1 .. Len(exec') : i \in 1 .. Len(exec) \/ i = Len(exec) + 1
  BY <1>1
<1>3. \A i \in 1 .. Len(exec') : ItemOK(exec[i])'
  BY <1>1, <1>2 DEF ItemOK
<1>4. ASSUME NEW i \in 1 .. Len(exec'), NEW j \in 1 .. Len(exec'), Same(exec'[i], exec'[j])
      PROVE  i = j
  <2>1. CASE i \in 1 .. Len(exec) /\ j \in 1 .. Len(exec)
    BY <1>1, <1>4, <2>1 DEF ForwardedOnce
  <2>2. CASE i \in 1 .. Len(exec) /\ j = Len(exec) + 1
    BY <1>1, <1>4, <2>2
  <2>3. CASE i = Len(exec) + 1 /\ j \in 1 .. Len(exec)
    BY <1>1, <1>4, <2>3 DEF Same
  <2>4. QED
    BY <1>2, <2>1, <2>2, <2>3
<1>5. QED
  BY <1>3, <1>4 DEF ForwardedOnce, Same

\* The driver's sender stays while the op_execution channel grows.
LEMMA SenderStaysByAppend ==
  ASSUME PutTypeOK, SenderStays, NEW m \in ExecItem, exec' = Append(exec, m),
         <<"drv", att>> \in open => <<"drv", att>> \in open',
         UNCHANGED <<att, pc, got, buf, pending, tasks, astray>>
  PROVE  SenderStays'
<1>1. /\ Len(exec) \in Nat /\ Len(exec') = Len(exec) + 1
      /\ DOMAIN exec = 1 .. Len(exec) /\ DOMAIN exec' = 1 .. Len(exec')
      /\ \A i \in 1 .. Len(exec) : exec'[i] = exec[i] /\ i \in 1 .. Len(exec')
  BY AppendFacts DEF PutTypeOK
<1>2. HasSender(<<"drv", att>>) => HasSender(<<"drv", att>>)'
  BY <1>1 DEF HasSender
<1>3. QED
  BY <1>2 DEF SenderStays, BareCloseNeedsSlip

\* The driver sends the request of its attempt.
LEMMA DriverSendKeeps == ASSUME PutInv, DriverSend PROVE PutInv'
<1> USE PutAssumption DEF PutInv
<1>0. UNCHANGED <<budget, att, got, infra, retries, outcome, buf, notes, pending, live, tasks,
   relay, conn, dialing, asked, inbox, astray>>
  BY DEF DriverSend, SendExec, driverVars, loopVars, netVars
<1>1. PutTypeOK'
  <2> DEFINE m == [cb |-> <<"drv", att>>, msg |-> "request", to |-> {}]
  <2>1. m \in ExecItem /\ <<"drv", att>> \in Chan
    BY DEF PutTypeOK, ExecItem, Chan
  <2>2. exec' = Append(exec, m) /\ open' = open \cup {<<"drv", att>>} /\ pc = "send" /\ pc' = "await"
    BY DEF DriverSend, SendExec
  <2>3. m.cb = <<"drv", att>> /\ m.msg = "request" /\ m.cb[1] = "drv" /\ m.cb[2] = att
    OBVIOUS
  <2> HIDE DEF m
  <2>4. exec' \in Seq(ExecItem)
    BY <2>1, <2>2, AppendFacts DEF PutTypeOK
  <2>5. QED
    BY <1>0, <2>1, <2>2, <2>4 DEF PutTypeOK
<1>2. ReceiversOK'
  BY <1>0 DEF DriverSend, SendExec, ReceiversOK, PutTypeOK, Chan, RelayPcs
<1>3. SenderStays'
  <2> DEFINE m == [cb |-> <<"drv", att>>, msg |-> "request", to |-> {}]
  <2>1. m \in ExecItem /\ <<"drv", att>> \in Chan
    BY DEF PutTypeOK, ExecItem, Chan
  <2>2. exec' = Append(exec, m) /\ open' = open \cup {<<"drv", att>>} /\ pc = "send" /\ pc' = "await"
    BY DEF DriverSend, SendExec
  <2>3. m.cb = <<"drv", att>> /\ m.msg = "request" /\ m.cb[1] = "drv" /\ m.cb[2] = att
    OBVIOUS
  <2> HIDE DEF m
  <2>4. Len(exec) + 1 \in DOMAIN exec' /\ exec'[Len(exec) + 1] = m
    BY <2>1, <2>2, AppendFacts DEF PutTypeOK
  <2>5. HasSender(<<"drv", att>>)'
    BY <1>0, <2>3, <2>4 DEF HasSender
  <2>6. QED
    BY <1>0, <2>2, <2>5 DEF SenderStays, BareCloseNeedsSlip
<1>4. SlotsOwed'
  BY <1>0 DEF DriverSend, SendExec, SlotsOwed, Owed, PutTypeOK, Chan, Note
<1>5. ForwardedOnce'
  <2> DEFINE m == [cb |-> <<"drv", att>>, msg |-> "request", to |-> {}]
  <2>1. m \in ExecItem /\ <<"drv", att>> \in Chan
    BY DEF PutTypeOK, ExecItem, Chan
  <2>2. exec' = Append(exec, m) /\ open' = open \cup {<<"drv", att>>} /\ pc = "send" /\ pc' = "await"
    BY DEF DriverSend, SendExec
  <2>3. m.cb = <<"drv", att>> /\ m.msg = "request" /\ m.cb[1] = "drv" /\ m.cb[2] = att
    OBVIOUS
  <2> HIDE DEF m
  <2>4. ~Begun(att) /\ att \in Txs
    <3>1. att \in Txs
      BY DEF PutTypeOK
    <3>2. ~(att < att)
      BY <3>1, TxsFacts
    <3>3. QED
      BY <2>2, <3>1, <3>2 DEF Begun
  <2>5. \A i \in 1 .. Len(exec) : ~Same(exec[i], m)
    BY <2>3, <2>4 DEF ForwardedOnce, ItemOK, Same
  <2>6. /\ \A t : Begun(t) => Begun(t)'
        /\ \A t : Forwarded(t)' = Forwarded(t) /\ Away(t)' = Away(t)
    BY <1>0, <2>2 DEF Begun, Forwarded, Away
  <2>7. ASSUME NEW i \in 1 .. Len(exec) PROVE ItemOK(exec[i])'
    <3>1. exec'[i] = exec[i] /\ ItemOK(exec[i])
      BY <2>1, <2>2, AppendFacts DEF PutTypeOK, ForwardedOnce
    <3>2. QED
      BY <1>0, <2>6, <3>1 DEF ItemOK
  <2>8. ItemOK(m)'
    <3>1. relay[att] = "idle" /\ Begun(att)'
      BY <1>0, <2>2, <2>4 DEF ForwardedOnce, Begun
    <3>2. m' = m
      BY <1>0 DEF m
    <3>3. QED
      BY <1>0, <2>3, <3>1, <3>2 DEF ItemOK
  <2>9. PICK n : n = m /\ n \in ExecItem
    BY <2>1
  <2>10. ItemOK(n)'
    <3>1. n' = n
      OBVIOUS
    <3>2. m' = m
      BY <1>0 DEF m
    <3>3. QED
      BY <2>8, <2>9, <3>2 DEF ItemOK
  <2>11. \A t \in Txs : (relay'[t] # "idle" => Begun(t)') /\ (Away(t)' => Forwarded(t)')
    BY <1>0, <2>6 DEF ForwardedOnce
  <2>12. \A i \in 1 .. Len(exec) : ItemOK(exec[i])' /\ ~Same(exec[i], n)
    BY <2>5, <2>7, <2>9
  <2>13. exec' = Append(exec, n)
    BY <2>2, <2>9
  <2>14. QED
    BY <2>9, <2>10, <2>11, <2>12, <2>13, ItemAppended
<1>6. PeersAreTracked'
  <2>1. att \in Txs /\ ~Begun(att)
    <3>1. att \in Txs
      BY DEF PutTypeOK
    <3>2. ~(att < att)
      BY <3>1, TxsFacts
    <3>3. QED
      BY <3>1, <3>2 DEF DriverSend, Begun
  <2>2. ~Away(att)
    BY <2>1 DEF ForwardedOnce, Forwarded
  <2>3. QED
    BY <1>0, <2>2 DEF PeersAreTracked, Away
<1>7. QED
  BY <1>1, <1>2, <1>3, <1>4, <1>5, <1>6

\* The driver's wait ends.
LEMMA DriverReceivesKeeps == ASSUME PutInv, DriverReceives PROVE PutInv'
<1> USE PutAssumption DEF PutInv
<1>0. UNCHANGED <<budget, att, infra, retries, outcome, exec, notes, pending, live, tasks,
   relay, conn, dialing, asked, inbox, astray>>
  BY DEF DriverReceives, EndRoundTrip, driverVars, loopVars, netVars
<1>1. PutTypeOK'
  BY <1>0 DEF DriverReceives, EndRoundTrip, PutTypeOK, Chan, ExecItem, Note, RelayPcs, Answers, Txs
<1>2. ReceiversOK'
  BY <1>0 DEF DriverReceives, EndRoundTrip, ReceiversOK, PutTypeOK, Chan, RelayPcs
<1>3. SenderStays'
  BY <1>0 DEF DriverReceives, EndRoundTrip, SenderStays, ReceiversOK, BareCloseNeedsSlip,
     HasSender, SlotsOwed, PutTypeOK, Chan, Answers, ExecItem
<1>4. SlotsOwed'
  BY <1>0 DEF DriverReceives, EndRoundTrip, SlotsOwed, Owed, PutTypeOK, Chan, Note
<1>5. ForwardedOnce'
  BY <1>0 DEF DriverReceives, EndRoundTrip, ForwardedOnce, ItemOK, Same, Begun, Forwarded, Away,
     PutTypeOK, ExecItem, Chan, RelayPcs
<1>6. PeersAreTracked'
  BY <1>0 DEF DriverReceives, EndRoundTrip, PeersAreTracked, ForwardedOnce, Begun, Forwarded,
     Away, PutTypeOK, Chan
<1>7. QED
  BY <1>1, <1>2, <1>3, <1>4, <1>5, <1>6

\* The attempt times out.
LEMMA AttemptTimesOutKeeps == ASSUME PutInv, AttemptTimesOut PROVE PutInv'
<1> USE PutAssumption DEF PutInv
<1>0. UNCHANGED <<budget, att, infra, retries, outcome, exec, notes, pending, live, tasks,
   relay, conn, dialing, asked, inbox, astray>>
  BY DEF AttemptTimesOut, EndRoundTrip, driverVars, loopVars, netVars
<1>1. PutTypeOK'
  BY <1>0 DEF AttemptTimesOut, EndRoundTrip, PutTypeOK, Chan, ExecItem, Note, RelayPcs, Answers, Txs
<1>2. ReceiversOK'
  BY <1>0 DEF AttemptTimesOut, EndRoundTrip, ReceiversOK, PutTypeOK, Chan, RelayPcs
<1>3. SenderStays'
  BY <1>0 DEF AttemptTimesOut, EndRoundTrip, SenderStays, ReceiversOK, BareCloseNeedsSlip,
     HasSender, SlotsOwed, PutTypeOK, Chan, Answers, ExecItem
<1>4. SlotsOwed'
  BY <1>0 DEF AttemptTimesOut, EndRoundTrip, SlotsOwed, Owed, PutTypeOK, Chan, Note
<1>5. ForwardedOnce'
  <2>1. \A t \in Txs : Begun(t) => Begun(t)'
    BY <1>0 DEF AttemptTimesOut, EndRoundTrip, Begun, PutTypeOK, Txs
  <2>2. QED
    BY <1>0, <2>1, DriverMoves
<1>6. PeersAreTracked'
  BY <1>0 DEF AttemptTimesOut, EndRoundTrip, PeersAreTracked, ForwardedOnce, Begun, Forwarded,
     Away, PutTypeOK, Chan
<1>7. QED
  BY <1>1, <1>2, <1>3, <1>4, <1>5, <1>6

\* The driver releases the slot and judges the attempt.
LEMMA DriverReleasesKeeps == ASSUME PutInv, DriverReleases PROVE PutInv'
<1> USE PutAssumption DEF PutInv
<1>0. UNCHANGED <<budget, open, buf, exec, pending, live, tasks, relay, conn, dialing, asked,
   inbox>>
  BY DEF DriverReleases, Judge, Advance, NextAttempt, Finish, driverVars, loopVars, netVars
<1>a. /\ \/ att' = att + 1 /\ pc' = "send"
         \/ att' = att /\ pc' = "deliver"
      /\ got' = "nothing" /\ budget' = budget /\ pc = "release"
  BY DEF DriverReleases, Judge, Advance, NextAttempt, Finish
<1>b. /\ infra' \in 0 .. budget.infra /\ retries' \in 0 .. budget.adv
      /\ att' <= 1 + infra' + retries'
  <2>1. budget.infra \in Nat /\ budget.adv \in Nat /\ att \in Nat /\ att <= 1 + infra + retries
        /\ infra \in 0 .. budget.infra /\ retries \in 0 .. budget.adv
    BY DEF PutTypeOK, Txs
  <2>2. CASE infra < budget.infra /\ infra' = infra + 1 /\ att' = att + 1 /\ retries' = retries
    BY <2>1, <2>2
  <2>3. CASE retries < budget.adv /\ retries' = retries + 1 /\ infra' = infra /\ att' <= att + 1
             /\ att' \in {att, att + 1}
    BY <2>1, <2>3
  <2>4. CASE infra' = infra /\ retries' = retries /\ att' = att
    BY <2>1, <2>4
  <2>5. QED
    BY <2>1, <2>2, <2>3, <2>4 DEF DriverReleases, Judge, Advance, NextAttempt, Finish
<1>c. att' \in Txs
  <2>1. /\ budget.infra \in Nat /\ budget.adv \in Nat /\ att \in Nat /\ 1 <= att
        /\ 1 + budget.adv + budget.infra <= MaxAttempts /\ MaxAttempts \in Nat
    BY DEF PutTypeOK, Txs
  <2>2. QED
    BY <1>a, <1>b, <2>1 DEF Txs
<1>d. \/ astray' = astray \cup {att} /\ notes' = notes
      \/ /\ astray' = astray /\ Len(notes) < NoteCapacity
         /\ notes' = Append(notes, [kind |-> "completed", tx |-> att])
  BY DEF DriverReleases
<1>e. [kind |-> "completed", tx |-> att] \in Note /\ att \in Txs
  BY DEF PutTypeOK, Note
<1>1. PutTypeOK'
  <2>1. notes' \in Seq(Note) /\ Len(notes') <= NoteCapacity /\ astray' \subseteq Txs
    <3>1. notes \in Seq(Note) /\ Len(notes) <= NoteCapacity /\ astray \subseteq Txs
      BY DEF PutTypeOK
    <3>2. CASE astray' = astray \cup {att} /\ notes' = notes
      BY <1>e, <3>1, <3>2
    <3>3. CASE /\ astray' = astray /\ Len(notes) < NoteCapacity
               /\ notes' = Append(notes, [kind |-> "completed", tx |-> att])
      <4>1. /\ notes' \in Seq(Note) /\ Len(notes') = Len(notes) + 1 /\ Len(notes) \in Nat
        BY <1>e, <3>1, <3>3, AppendFacts
      <4>2. QED
        BY <3>1, <3>3, <4>1
    <3>4. QED
      BY <1>d, <3>2, <3>3
  <2>2. QED
    BY <1>0, <1>a, <1>b, <1>c, <2>1 DEF PutTypeOK
<1>2. ReceiversOK'
  BY <1>0 DEF DriverReleases, Judge, Advance, NextAttempt, Finish, ReceiversOK, PutTypeOK, Chan,
     RelayPcs
<1>3. SenderStays'
  BY <1>0 DEF DriverReleases, Judge, Advance, NextAttempt, Finish, SenderStays, ReceiversOK,
     BareCloseNeedsSlip, HasSender, SlotsOwed, PutTypeOK, Chan, Answers, ExecItem
<1>4. SlotsOwed'
  <2>0. att \in Nat
    BY DEF PutTypeOK, Txs
  <2>1. /\ \A i \in 1 .. Len(notes) : notes'[i] = notes[i] /\ i \in 1 .. Len(notes')
        /\ \A i \in 1 .. Len(notes') : i \in 1 .. Len(notes)
                                       \/ notes'[i] = [kind |-> "completed", tx |-> att]
        /\ att \in astray' \/ \E i \in 1 .. Len(notes') : notes'[i] = [kind |-> "completed", tx |-> att]
    <3>1. CASE notes' = notes
      BY <1>d, <1>e, <3>1, AppendFacts DEF PutTypeOK
    <3>2. CASE notes' = Append(notes, [kind |-> "completed", tx |-> att])
      <4>1. /\ Len(notes) \in Nat /\ Len(notes') = Len(notes) + 1
            /\ notes'[Len(notes) + 1] = [kind |-> "completed", tx |-> att]
            /\ \A i \in 1 .. Len(notes) : notes'[i] = notes[i]
        BY <1>e, <3>2, AppendFacts DEF PutTypeOK
      <4>2. QED
        BY <4>1
    <3>3. QED
      BY <1>d, <3>1, <3>2
  <2>2. \A t : t \notin astray' /\ Owed(t) => Owed(t)'
    BY <1>a, <2>1 DEF Owed
  <2>3. astray \subseteq astray'
    BY <1>d
  <2>4. \A i \in 1 .. Len(notes) : notes[i].tx \in Nat
    BY ChannelFacts, TxsFacts
  <2>5. \A i \in 1 .. Len(notes') : notes'[i].kind = "completed" =>
           notes'[i].tx < att' \/ pc' \in {"deliver", "done"}
    <3>1. ASSUME NEW i \in 1 .. Len(notes), notes[i].kind = "completed"
          PROVE  notes[i].tx < att' \/ pc' \in {"deliver", "done"}
      BY <1>a, <2>0, <2>4, <3>1 DEF SlotsOwed, DriverReleases
    <3>2. att < att' \/ pc' \in {"deliver", "done"}
      BY <1>a, <2>0
    <3>3. QED
      BY <2>1, <3>1, <3>2
  <2>6. QED
    BY <1>0, <2>2, <2>3, <2>5 DEF SlotsOwed
<1>5. ForwardedOnce'
  <2>1. \A t \in Txs : Begun(t) => Begun(t)'
    BY <1>a DEF DriverReleases, Begun, PutTypeOK, Txs
  <2>2. QED
    BY <1>0, <2>1, DriverMoves
<1>6. PeersAreTracked'
  BY <1>0 DEF DriverReleases, Judge, Advance, NextAttempt, Finish, PeersAreTracked,
     ForwardedOnce, Begun, Forwarded, Away, PutTypeOK, Chan
<1>7. QED
  BY <1>1, <1>2, <1>3, <1>4, <1>5, <1>6

\* The result goes to the client.
LEMMA DriverDeliversKeeps == ASSUME PutInv, DriverDelivers PROVE PutInv'
<1> USE PutAssumption DEF PutInv
<1>0. UNCHANGED <<budget, att, got, infra, retries, outcome, open, buf, exec, pending, tasks,
   relay, conn, dialing, asked, inbox, astray>>
  BY DEF DriverDelivers, send_client_result, driverVars, loopVars, netVars
<1>1. PutTypeOK'
  <2>1. [kind |-> "completed", tx |-> 1] \in Note
    BY DEF PutTypeOK, Note, Txs
  <2>2. notes' = notes \/ (/\ Len(notes) < NoteCapacity
                           /\ notes' = Append(notes, [kind |-> "completed", tx |-> 1]))
    BY DEF DriverDelivers, send_client_result
  <2>3. notes' \in Seq(Note) /\ Len(notes') <= NoteCapacity
    <3>1. notes \in Seq(Note) /\ Len(notes) <= NoteCapacity
      BY DEF PutTypeOK
    <3>2. CASE notes' = notes
      BY <3>1, <3>2
    <3>3. CASE Len(notes) < NoteCapacity /\ notes' = Append(notes, [kind |-> "completed", tx |-> 1])
      <4>1. notes' \in Seq(Note) /\ Len(notes') = Len(notes) + 1 /\ Len(notes) \in Nat
        BY <2>1, <3>1, <3>3, AppendFacts
      <4>2. QED
        BY <3>3, <4>1
    <3>4. QED
      BY <2>2, <3>2, <3>3
  <2>4. QED
    BY <1>0, <2>3 DEF DriverDelivers, PutTypeOK
<1>2. ReceiversOK'
  BY <1>0 DEF DriverDelivers, send_client_result, ReceiversOK, PutTypeOK, Chan, RelayPcs
<1>3. SenderStays'
  BY <1>0 DEF DriverDelivers, send_client_result, SenderStays, ReceiversOK, BareCloseNeedsSlip,
     HasSender, SlotsOwed, PutTypeOK, Chan, Answers, ExecItem
<1>4. SlotsOwed'
  <2>1. [kind |-> "completed", tx |-> 1] \in Note
    BY DEF PutTypeOK, Note, Txs
  <2>2. notes' = notes \/ (/\ Len(notes) < NoteCapacity
                           /\ notes' = Append(notes, [kind |-> "completed", tx |-> 1]))
    BY DEF DriverDelivers, send_client_result
  <2>3. \A i \in 1 .. Len(notes) : notes'[i] = notes[i] /\ i \in 1 .. Len(notes')
    <3>1. CASE notes' = notes
      BY <3>1
    <3>2. CASE notes' = Append(notes, [kind |-> "completed", tx |-> 1])
      BY <2>1, <3>2, AppendFacts DEF PutTypeOK
    <3>3. QED
      BY <2>2, <3>1, <3>2
  <2>4. \A t : Owed(t) => Owed(t)'
    BY <1>0, <2>3 DEF Owed, DriverDelivers
  <2>5. QED
    BY <1>0, <2>4 DEF SlotsOwed, DriverDelivers
<1>5. ForwardedOnce'
  <2>1. \A t \in Txs : Begun(t) => Begun(t)'
    BY <1>0 DEF DriverDelivers, Begun, PutTypeOK, Txs
  <2>2. QED
    BY <1>0, <2>1, DriverMoves
<1>6. PeersAreTracked'
  BY <1>0 DEF DriverDelivers, send_client_result, PeersAreTracked, ForwardedOnce, Begun,
     Forwarded, Away, PutTypeOK, Chan
<1>7. QED
  BY <1>1, <1>2, <1>3, <1>4, <1>5, <1>6

\* The event loop handles a notification.
LEMMA HandleNotificationKeeps == ASSUME PutInv, HandleNotification PROVE PutInv'
<1> USE PutAssumption DEF PutInv
<1>0. UNCHANGED <<budget, att, pc, got, infra, retries, outcome, open, exec, tasks, relay, conn,
   dialing, asked, inbox, astray>>
  BY DEF HandleNotification, TellCause, Deliver, Waiter, driverVars, loopVars, netVars
<1> DEFINE t == Head(notes).tx
<1>a. /\ notes' \in Seq(Note) /\ Len(notes) \in Nat /\ 1 \in 1 .. Len(notes)
      /\ Len(notes') = Len(notes) - 1 /\ Head(notes) = notes[1] /\ notes[1] \in Note
      /\ \A i \in 1 .. Len(notes') : notes'[i] = notes[i + 1] /\ i + 1 \in 2 .. Len(notes)
      /\ \A i \in 2 .. Len(notes) : notes'[i - 1] = notes[i] /\ i - 1 \in 1 .. Len(notes')
  BY TailFacts DEF HandleNotification, PutTypeOK
<1>b. /\ pending' = pending \ Waiter(t) /\ live' = {e \in live : e[2] # t}
      /\ IF Head(notes).kind = "orphaned" THEN TellCause(t) ELSE UNCHANGED buf
  BY DEF HandleNotification
<1>c. t \in Txs /\ Head(notes).kind \in {"completed", "orphaned"} /\ notes[1].tx = t
  BY <1>a DEF Note
<1>d. buf' = buf \/ (buf = "empty" /\ buf' = "peerlost")
  BY <1>b DEF TellCause, Deliver
<1> HIDE DEF t
<1>1. PutTypeOK'
  <2>1. Len(notes') <= NoteCapacity
    BY <1>a DEF PutTypeOK
  <2>2. QED
    BY <1>0, <1>a, <1>b, <1>d, <2>1 DEF PutTypeOK
<1>2. SenderStays'
  <2>1. ASSUME pc = "await", buf' = "empty", att \notin astray PROVE HasSender(<<"drv", att>>)'
    <3>1. buf = "empty" /\ <<"drv", att>> \in open /\ HasSender(<<"drv", att>>)
      BY <1>d, <2>1 DEF SenderStays
    <3>2. CASE <<"drv", att>> \in pending /\ t = att
      <4>1. Head(notes).kind = "orphaned"
        BY <1>a, <1>c, <2>1, <3>2 DEF SlotsOwed, PutTypeOK, Txs
      <4>2. buf' = "peerlost"
        BY <1>b, <3>1, <3>2, <4>1 DEF TellCause, Deliver
      <4>3. QED
        BY <2>1, <4>2
    <3>3. CASE <<"drv", att>> \in pending /\ t # att
      <4>1. <<"drv", att>>[2] = att
        OBVIOUS
      <4>2. <<"drv", att>> \in pending'
        BY <1>b, <3>3, <4>1 DEF Waiter
      <4>3. QED
        BY <1>0, <4>2 DEF HasSender
    <3>4. CASE <<"drv", att>> \notin pending
      BY <1>0, <3>1, <3>4 DEF HasSender
    <3>5. QED
      BY <3>2, <3>3, <3>4
  <2>2. QED
    BY <1>0, <2>1 DEF SenderStays, BareCloseNeedsSlip
<1>3. SlotsOwed'
  <2>1. ASSUME NEW u, u # t, Owed(u) PROVE Owed(u)'
    <3>1. CASE u = att /\ pc \in {"await", "release"}
      BY <1>0, <3>1 DEF Owed
    <3>2. CASE \E i \in 1 .. Len(notes) : notes[i] = [kind |-> "completed", tx |-> u]
      <4>1. PICK i \in 1 .. Len(notes) : notes[i] = [kind |-> "completed", tx |-> u]
        BY <3>2
      <4>2. i # 1
        BY <1>c, <2>1, <4>1
      <4>3. i \in 2 .. Len(notes)
        BY <1>a, <4>2
      <4>4. QED
        BY <1>a, <4>1, <4>3 DEF Owed
    <3>3. QED
      BY <2>1, <3>1, <3>2 DEF Owed
  <2>2. \A c \in pending' : c \in pending /\ c[2] # t
    BY <1>b DEF Waiter
  <2>3. \A i \in 1 .. Len(notes') : notes'[i].kind = "completed" =>
           notes'[i].tx < att \/ pc \in {"deliver", "done"}
    BY <1>a DEF SlotsOwed
  <2>4. QED
    BY <1>0, <1>b, <2>1, <2>2, <2>3 DEF SlotsOwed
<1>4. PeersAreTracked'
  BY <1>0 DEF HandleNotification, TellCause, Deliver, Waiter, PeersAreTracked, ForwardedOnce,
     Begun, Forwarded, Away, PutTypeOK, Chan
<1>5. ReceiversOK' /\ ForwardedOnce'
  BY <1>0 DEF ReceiversOK, ForwardedOnce, ItemOK, Same, Begun, Forwarded, Away
<1>6. QED
  BY <1>1, <1>2, <1>3, <1>4, <1>5

\* The event loop handles an item of op_execution.
LEMMA HandleExecKeeps == ASSUME PutInv, HandleExec PROVE PutInv'
<1> USE PutAssumption DEF PutInv
<1>0. UNCHANGED <<budget, att, pc, got, infra, retries, outcome, open, buf, notes, conn, inbox>>
  BY DEF HandleExec, Install, Waiter, Dispatch, Tracked, SpawnForward, start_relay_put,
     driverVars, loopVars, netVars
<1>m. PICK m, c, t : m = Head(exec) /\ c = m.cb /\ t = c[2]
  OBVIOUS
<1>a. /\ exec' \in Seq(ExecItem) /\ Len(exec) \in Nat /\ 1 \in 1 .. Len(exec)
      /\ Len(exec') = Len(exec) - 1 /\ Head(exec) = exec[1] /\ exec[1] \in ExecItem
      /\ \A i \in 1 .. Len(exec') : exec'[i] = exec[i + 1] /\ i + 1 \in 2 .. Len(exec)
      /\ \A i \in 2 .. Len(exec) : exec'[i - 1] = exec[i] /\ i - 1 \in 1 .. Len(exec')
  BY TailFacts DEF HandleExec, PutTypeOK
<1>b. /\ m = exec[1] /\ c \in Chan /\ t \in Txs /\ m.to \subseteq Peers /\ ItemOK(m)
      /\ c = <<c[1], t>> /\ m.msg \in {"request", "forward"} \cup Answers
  <2>1. m = exec[1] /\ m \in ExecItem /\ ItemOK(m)
    BY <1>a, <1>m DEF ForwardedOnce
  <2>2. c \in Chan /\ m.to \subseteq Peers /\ m.msg \in {"request", "forward"} \cup Answers
    BY <1>m, <2>1 DEF ExecItem
  <2>3. QED
    BY <1>m, <2>1, <2>2, ChanPair
<1>c. /\ pending' = IF c \in open THEN (pending \ Waiter(t)) \cup {c} ELSE pending
      /\ astray' = IF c \in open /\ c[1] # "drv" THEN astray \cup {t} ELSE astray
  BY <1>m DEF HandleExec, Install
<1>d. \/ /\ m.msg = "request"
         /\ relay' = [relay EXCEPT ![t] = IF @ = "idle" THEN "store" ELSE @] \/ relay' = relay
         /\ UNCHANGED <<live, tasks, asked, dialing>>
      \/ /\ m.msg = "forward"
         /\ \E p \in m.to : Dispatch(t, p)
         /\ UNCHANGED <<tasks, relay>>
      \/ /\ m.msg \in Answers
         /\ SpawnForward(pending', t, m.msg)
         /\ UNCHANGED <<live, relay, asked, dialing>>
  BY <1>m DEF HandleExec, start_relay_put
<1>e. \A p : Tracked(t, p) =
         IF \E d \in pending' : d[2] = t THEN live \cup {<<p, t>>} ELSE live
  BY DEF Tracked
<1>f. ASSUME m.msg = "forward"
      PROVE  \E p \in m.to :
                \/ /\ p \in conn /\ asked' = asked \cup {<<p, t>>} /\ dialing' = dialing
                   /\ live' = Tracked(t, p)
                \/ /\ p \notin conn /\ dialing' = dialing \cup {<<p, t>>} /\ asked' = asked
                   /\ live' = Tracked(t, p)
                \/ /\ p \notin conn /\ dialing' = dialing /\ asked' = asked
                   /\ live' = {e \in Tracked(t, p) : e[2] # t}
  <2>1. \E p \in m.to : Dispatch(t, p)
    BY <1>d, <1>f DEF Answers
  <2>2. QED
    BY <2>1 DEF Dispatch
<1>g. m.msg # "forward" => UNCHANGED <<live, asked, dialing>>
  BY <1>d
<1>h. m.msg = "request" \/ relay' = relay
  BY <1>d
<1>i. tasks \subseteq tasks' /\ tasks' \subseteq [tx : Txs, msg : Answers]
  <2>1. CASE m.msg \in Answers
    <3>1. SpawnForward(pending', t, m.msg)
      BY <1>d, <2>1 DEF Answers
    <3>2. QED
      BY <1>b, <2>1, <3>1, SMTT(30) DEF SpawnForward, PutTypeOK
  <2>2. CASE m.msg \notin Answers
    BY <1>d, <2>2 DEF PutTypeOK
  <2>3. QED
    BY <2>1, <2>2
<1>1. PutTypeOK'
  <2>1. pending' \subseteq Chan /\ astray' \subseteq Txs
    BY <1>b, <1>c DEF PutTypeOK
  <2>2. relay' \in [Txs -> RelayPcs]
    BY <1>b, <1>d, <1>h DEF PutTypeOK, RelayPcs, Answers
  <2>3. /\ live' \subseteq Peers \X Txs /\ asked' \subseteq Peers \X Txs
        /\ dialing' \subseteq Peers \X Txs
    <3>1. CASE m.msg = "forward"
      <4>1. \A p \in Peers : <<p, t>> \in Peers \X Txs
        BY <1>b
      <4>2. \A p \in Peers : Tracked(t, p) \subseteq Peers \X Txs
        BY <1>e, <4>1, SMTT(30) DEF PutTypeOK
      <4>3. QED
        BY <1>b, <1>f, <3>1, <4>1, <4>2 DEF PutTypeOK
    <3>2. CASE m.msg # "forward"
      BY <1>g, <3>2 DEF PutTypeOK
    <3>3. QED
      BY <3>1, <3>2
  <2>4. QED
    BY <1>0, <1>a, <1>i, <2>1, <2>2, <2>3 DEF PutTypeOK
<1>2. ReceiversOK'
  <2>1. \A u \in Txs : relay[u] \in {"sent", "answered"} => relay'[u] = relay[u]
    BY <1>b, <1>d, <1>h DEF PutTypeOK
  <2>2. QED
    BY <1>0, <2>1, ChanPair DEF ReceiversOK, PutTypeOK
<1>3. SenderStays'
  <2> DEFINE d == <<"drv", att>>
  <2>1. ASSUME pc = "await", buf = "empty", att \notin astray' PROVE HasSender(d)'
    <3>1. d \in open /\ HasSender(d) /\ d[1] = "drv" /\ d[2] = att
      BY <1>c, <2>1 DEF SenderStays
    <3>2. CASE d \in pending
      <4>1. c \in open /\ t = att => c = d
        BY <1>b, <1>c, <2>1
      <4>2. d \in pending'
        BY <1>c, <3>1, <3>2, <4>1 DEF Waiter
      <4>3. QED
        BY <1>0, <4>2 DEF HasSender
    <3>3. CASE \E i \in DOMAIN exec : exec[i].cb = d
      <4>1. PICK i \in 1 .. Len(exec) : exec[i].cb = d
        BY <3>3, ChannelFacts
      <4>2. CASE i = 1
        <5>1. c = d
          BY <1>b, <1>m, <4>1, <4>2
        <5>2. d \in pending'
          BY <1>c, <3>1, <5>1
        <5>3. QED
          BY <1>0, <5>2 DEF HasSender
      <4>3. CASE i \in 2 .. Len(exec)
        <5>1. i - 1 \in DOMAIN exec' /\ exec'[i - 1].cb = d
          BY <1>a, <4>1, <4>3
        <5>2. QED
          BY <1>0, <5>1 DEF HasSender
      <4>4. QED
        BY <1>a, <4>2, <4>3
    <3>4. CASE \E k \in tasks : <<"drv", k.tx>> = d
      BY <1>0, <1>i, <3>4 DEF HasSender
    <3>5. QED
      BY <3>1, <3>2, <3>3, <3>4 DEF HasSender
  <2>2. astray \subseteq astray'
    BY <1>c
  <2>3. QED
    BY <1>0, <2>1, <2>2 DEF SenderStays, BareCloseNeedsSlip
<1>4. SlotsOwed'
  <2>1. \A u : Owed(u)' <=> Owed(u)
    BY <1>0 DEF Owed
  <2>2. astray \subseteq astray'
    BY <1>c
  <2>3. ASSUME NEW d \in pending', d[2] \notin astray' PROVE d[1] = "drv" /\ Owed(d[2])
    <3>1. CASE d \in pending
      BY <2>2, <2>3, <3>1 DEF SlotsOwed
    <3>2. CASE d = c /\ c \in open
      BY <1>b, <1>c, <1>m, <2>3, <3>2 DEF ReceiversOK, Owed
    <3>3. QED
      BY <1>c, <3>1, <3>2
  <2>4. ASSUME NEW e \in live', e[2] \notin astray' PROVE Owed(e[2])
    <3>1. CASE e \in live
      BY <2>2, <2>4, <3>1 DEF SlotsOwed
    <3>2. CASE e \notin live
      <4>1. e[2] = t /\ \E d \in pending' : d[2] = t
        BY <1>e, <1>f, <1>g, <2>4, <3>2
      <4>2. QED
        BY <2>3, <2>4, <4>1
    <3>3. QED
      BY <3>1, <3>2
  <2>5. QED
    BY <1>0, <2>1, <2>3, <2>4 DEF SlotsOwed
<1>5. ForwardedOnce'
  <2>1. \A i \in 2 .. Len(exec) : ItemOK(exec[i]) /\ ~Same(exec[1], exec[i]) /\ exec[i] \in ExecItem
    <3>1. \A i \in 2 .. Len(exec) : i \in 1 .. Len(exec) /\ i # 1
      BY <1>a
    <3>2. \A i \in 1 .. Len(exec) : exec[i] \in ExecItem
      BY DEF PutTypeOK
    <3>3. QED
      BY <1>a, <3>1, <3>2 DEF ForwardedOnce
  <2>2. /\ \A u \in Txs : u # t => relay'[u] = relay[u]
        /\ relay'[t] = relay[t] \/ (m.msg = "request" /\ relay[t] = "idle" /\ relay'[t] = "store")
    BY <1>b, <1>d, <1>h DEF PutTypeOK
  <2>3. \A u \in Txs : Forwarded(u)' <=> Forwarded(u)
    BY <2>2 DEF Forwarded
  <2>4. /\ \A u : u # t => (Away(u)' <=> Away(u))
        /\ m.msg # "forward" => (Away(t)' <=> Away(t))
    <3>1. CASE m.msg = "forward"
      <4>1. PICK p \in m.to : \/ asked' = asked \cup {<<p, t>>} /\ dialing' = dialing
                              \/ dialing' = dialing \cup {<<p, t>>} /\ asked' = asked
                              \/ dialing' = dialing /\ asked' = asked
        BY <1>f, <3>1
      <4>2. \A q, u : u # t => (<<q, u>> \in asked' \cup dialing' <=> <<q, u>> \in asked \cup dialing)
        BY <4>1
      <4>3. QED
        BY <3>1, <4>2 DEF Away
    <3>2. CASE m.msg # "forward"
      BY <1>g, <3>2 DEF Away
    <3>3. QED
      BY <3>1, <3>2
  <2>5. \A u : Begun(u)' <=> Begun(u)
    BY <1>0 DEF Begun
  <2>6. ASSUME NEW u \in Txs
        PROVE  (relay'[u] # "idle" => Begun(u)') /\ (Away(u)' => Forwarded(u)')
    <3>1. CASE u = t /\ m.msg = "request"
      <4>1. Begun(t)
        BY <1>b, <1>m, <3>1 DEF ItemOK
      <4>2. Away(t)' => Forwarded(t)'
        BY <1>b, <2>3, <2>4, <3>1 DEF ForwardedOnce
      <4>3. QED
        BY <2>5, <3>1, <4>1, <4>2
    <3>2. CASE u = t /\ m.msg = "forward"
      <4>1. Forwarded(t)' /\ relay'[t] = relay[t]
        BY <1>b, <1>m, <2>2, <2>3, <3>2 DEF ItemOK
      <4>2. QED
        BY <1>b, <2>5, <3>2, <4>1 DEF ForwardedOnce
    <3>3. CASE u # t \/ m.msg \notin {"request", "forward"}
      <4>1. Away(u)' => Away(u)
        BY <2>4, <3>3
      <4>2. relay'[u] = relay[u]
        BY <2>2, <3>3
      <4>3. QED
        BY <2>3, <2>5, <4>1, <4>2 DEF ForwardedOnce
    <3>4. QED
      BY <3>1, <3>2, <3>3
  <2>7. ASSUME NEW i \in 2 .. Len(exec)
        PROVE  LET n == exec[i]
               IN  /\ n.cb[1] = "drv" <=> n.msg = "request"
                   /\ n.msg = "request" => relay'[n.cb[2]] = "idle" /\ Begun(n.cb[2])
                   /\ n.msg = "forward" => Forwarded(n.cb[2]) /\ ~\E p \in Peers : <<p, n.cb[2]>> \in asked' \cup dialing'
    <3> DEFINE n == exec[i]
               u == n.cb[2]
    <3>1. ItemOK(n) /\ n \in ExecItem /\ u \in Txs /\ ~Same(m, n)
      BY <1>b, <2>1, ItemFacts
    <3>2. m.cb[2] = t
      BY <1>m
    <3> HIDE DEF n
    <3>3. ASSUME n.msg = "request" PROVE relay'[u] = "idle" /\ Begun(u)
      BY <2>2, <3>1, <3>2, <3>3 DEF ItemOK, Same
    <3>4. ASSUME n.msg = "forward" PROVE Forwarded(u) /\ ~\E p \in Peers : <<p, u>> \in asked' \cup dialing'
      <4>1. Forwarded(u) /\ ~Away(u)
        BY <3>1, <3>4 DEF ItemOK
      <4>2. u = t => m.msg # "forward"
        BY <3>1, <3>2, <3>4 DEF Same
      <4>3. QED
        <5>1. PICK w : w = u
          OBVIOUS
        <5>2. ~Away(w)'
          BY <2>4, <4>1, <4>2, <5>1
        <5>3. ~\E p \in Peers : <<p, w>> \in asked' \cup dialing'
          BY <5>2 DEF Away
        <5>4. QED
          BY <4>1, <5>1, <5>3
    <3>5. QED
      BY <3>1, <3>3, <3>4 DEF ItemOK, n
  <2>8. ASSUME NEW i \in 1 .. Len(exec') PROVE ItemOK(exec[i])'
    <3>1. i + 1 \in 2 .. Len(exec) /\ exec'[i] = exec[i + 1] /\ exec[i + 1].cb[2] \in Txs
      BY <1>a, <2>1, ItemFacts
    <3>2. QED
      BY <2>3, <2>5, <2>7, <3>1 DEF ItemOK, Away
  <2>9. ASSUME NEW i \in 1 .. Len(exec'), NEW j \in 1 .. Len(exec'), Same(exec'[i], exec'[j])
        PROVE  i = j
    <3>1. i + 1 \in 1 .. Len(exec) /\ j + 1 \in 1 .. Len(exec) /\ Same(exec[i + 1], exec[j + 1])
      BY <1>a, <2>9
    <3>2. i + 1 = j + 1
      BY <3>1 DEF ForwardedOnce
    <3>3. QED
      BY <1>a, <3>2
  <2>10. QED
    BY <2>6, <2>8, <2>9 DEF ForwardedOnce, Same
<1>6. PeersAreTracked'
  <2>1. \A d \in dialing' : d[1] \notin conn
    <3>1. CASE m.msg = "forward"
      BY <1>f, <3>1 DEF PeersAreTracked
    <3>2. CASE m.msg # "forward"
      BY <1>g, <3>2 DEF PeersAreTracked
    <3>3. QED
      BY <3>1, <3>2
  <2>2. ASSUME pc = "await", <<"drv", att>> \in pending', NEW p \in Peers,
               <<p, att>> \in asked' \cup dialing'
        PROVE  <<p, att>> \in live'
    <3>1. CASE m.msg = "forward" /\ t = att
      <4>1. ~Away(att)
        BY <1>b, <1>m, <3>1 DEF ItemOK
      <4>2. <<p, att>> \notin asked \cup dialing
        BY <4>1 DEF Away
      <4>3. \E d \in pending' : d[2] = t
        BY <2>2, <3>1
      <4>4. QED
        BY <1>e, <1>f, <2>2, <3>1, <4>2, <4>3
    <3>2. CASE m.msg = "forward" /\ t # att
      <4>1. <<p, att>> \in asked \cup dialing /\ (<<p, att>> \in live => <<p, att>> \in live')
        BY <1>e, <1>f, <2>2, <3>2
      <4>2. <<"drv", att>> \in pending
        BY <1>b, <1>c, <2>2, <3>2
      <4>3. QED
        BY <2>2, <4>1, <4>2 DEF PeersAreTracked
    <3>3. CASE m.msg # "forward" /\ <<"drv", att>> \in pending
      BY <1>g, <2>2, <3>3 DEF PeersAreTracked
    <3>4. CASE m.msg # "forward" /\ <<"drv", att>> \notin pending
      <4>1. c = <<"drv", att>>
        BY <1>c, <2>2, <3>4
      <4>2. relay[att] = "idle" /\ att \in Txs
        BY <1>b, <1>m, <4>1 DEF ItemOK, PutTypeOK
      <4>3. ~Away(att)
        BY <4>2 DEF ForwardedOnce, Forwarded
      <4>4. QED
        BY <1>g, <2>2, <3>4, <4>3 DEF Away
    <3>5. QED
      BY <3>1, <3>2, <3>3, <3>4
  <2>3. QED
    BY <1>0, <2>1, <2>2 DEF PeersAreTracked
<1>7. QED
  BY <1>1, <1>2, <1>3, <1>4, <1>5, <1>6

\* The event loop handles the answer of a peer.
LEMMA HandleInboundKeeps == ASSUME PutInv, HandleInbound PROVE PutInv'
<1> USE PutAssumption DEF PutInv
<1>0. UNCHANGED <<budget, att, pc, got, infra, retries, outcome, open, buf, exec, notes,
   pending, live, relay, conn, dialing, asked, astray>>
  BY DEF HandleInbound, SpawnForward, driverVars, loopVars, netVars
<1>1. PutTypeOK'
  <2>1. PICK t \in inbox, m \in Answers : inbox' = inbox \ {t} /\ SpawnForward(pending, t, m)
    BY DEF HandleInbound
  <2>2. tasks' \subseteq [tx : Txs, msg : Answers] /\ inbox' \subseteq Txs
    BY <2>1 DEF SpawnForward, PutTypeOK
  <2>3. QED
    BY <1>0, <2>2 DEF PutTypeOK
<1>2. SenderStays'
  BY <1>0 DEF HandleInbound, SpawnForward, SenderStays, ReceiversOK, BareCloseNeedsSlip,
     HasSender, SlotsOwed, PutTypeOK, Chan, Answers, ExecItem
<1>3. ReceiversOK' /\ SlotsOwed'
  BY <1>0 DEF ReceiversOK, SlotsOwed, Owed
<1>4. ForwardedOnce'
  BY <1>0 DEF ForwardedOnce, ItemOK, Same, Begun, Forwarded, Away
<1>5. PeersAreTracked'
  BY <1>0 DEF PeersAreTracked
<1>6. QED
  BY <1>1, <1>2, <1>3, <1>4, <1>5

\* Slots without a receiver are removed.
LEMMA SweepKeeps == ASSUME PutInv, Sweep PROVE PutInv'
<1> USE PutAssumption DEF PutInv
<1>0. UNCHANGED <<budget, att, pc, got, infra, retries, outcome, open, buf, exec, notes, live,
   tasks, relay, conn, dialing, asked, inbox, astray>>
  BY DEF Sweep, driverVars, loopVars, netVars
<1>1. PutTypeOK'
  BY <1>0 DEF Sweep, PutTypeOK, Chan, ExecItem, Note, RelayPcs, Answers, Txs
<1>2. SenderStays'
  BY <1>0 DEF Sweep, SenderStays, ReceiversOK, BareCloseNeedsSlip, HasSender, SlotsOwed,
     PutTypeOK, Chan, Answers, ExecItem
<1>3. SlotsOwed'
  BY <1>0 DEF Sweep, SlotsOwed, Owed, PutTypeOK, Chan, Note
<1>4. PeersAreTracked'
  BY <1>0 DEF Sweep, PeersAreTracked, ForwardedOnce, Begun, Forwarded, Away, PutTypeOK, Chan
<1>5. ReceiversOK' /\ ForwardedOnce'
  BY <1>0 DEF ReceiversOK, ForwardedOnce, ItemOK, Same, Begun, Forwarded, Away
<1>6. QED
  BY <1>1, <1>2, <1>3, <1>4, <1>5

\* An answer is forwarded to the driver.
LEMMA ForwardReplyKeeps == ASSUME PutInv, ForwardReply PROVE PutInv'
<1> USE PutAssumption DEF PutInv
<1>0. UNCHANGED <<budget, att, pc, got, infra, retries, outcome, open, exec, notes, pending,
   live, relay, conn, dialing, asked, inbox, astray>>
  BY DEF ForwardReply, Deliver, driverVars, loopVars, netVars
<1>1. PutTypeOK'
  BY <1>0 DEF ForwardReply, Deliver, PutTypeOK, Chan, ExecItem, Note, RelayPcs, Answers, Txs
<1>2. SenderStays'
  BY <1>0 DEF ForwardReply, Deliver, SenderStays, ReceiversOK, BareCloseNeedsSlip, HasSender,
     SlotsOwed, PutTypeOK, Chan, Answers, ExecItem
<1>3. ReceiversOK' /\ SlotsOwed'
  BY <1>0 DEF ReceiversOK, SlotsOwed, Owed
<1>4. ForwardedOnce'
  BY <1>0 DEF ForwardedOnce, ItemOK, Same, Begun, Forwarded, Away
<1>5. PeersAreTracked'
  BY <1>0 DEF PeersAreTracked
<1>6. QED
  BY <1>1, <1>2, <1>3, <1>4, <1>5

\* The relay task stores the contract.
LEMMA RelayStoresKeeps == ASSUME PutInv, NEW t \in Txs, RelayStores(t) PROVE PutInv'
<1> USE PutAssumption DEF PutInv
<1>0. UNCHANGED <<budget, att, pc, got, infra, retries, outcome, open, buf, exec, notes,
   pending, live, tasks, conn, dialing, asked, inbox, astray>>
  BY DEF RelayStores, Relay, driverVars, loopVars, netVars
<1>1. PutTypeOK'
  <2>1. PICK to \in {"route", "final", "fail"} : relay' = [relay EXCEPT ![t] = to]
    BY DEF RelayStores, Relay
  <2>2. relay' \in [Txs -> RelayPcs]
    BY <2>1 DEF PutTypeOK, RelayPcs
  <2>3. QED
    BY <1>0, <2>2 DEF PutTypeOK
<1>2. ReceiversOK'
  BY <1>0 DEF RelayStores, Relay, ReceiversOK, PutTypeOK, Chan, RelayPcs
<1>3. ForwardedOnce'
  <2>1. PICK to \in {"route", "final", "fail"} : relay[t] = "store" /\ relay' = [relay EXCEPT ![t] = to]
    BY DEF RelayStores, Relay
  <2>2. Forwarded(t) => Forwarded(t)'
    BY <2>1 DEF Forwarded, PutTypeOK
  <2>3. QED
    BY <1>0, <2>1, <2>2, RelayMoves DEF RelayPcs
<1>4. SenderStays' /\ SlotsOwed' /\ PeersAreTracked'
  BY <1>0 DEF SenderStays, BareCloseNeedsSlip, HasSender, SlotsOwed, Owed, PeersAreTracked
<1>5. QED
  BY <1>1, <1>2, <1>3, <1>4

\* The relay task forwards the PUT.
LEMMA RelayForwardsKeeps == ASSUME PutInv, NEW t \in Txs, RelayForwards(t) PROVE PutInv'
<1> USE PutAssumption DEF PutInv
<1>0. UNCHANGED <<budget, att, pc, got, infra, retries, outcome, buf, notes, pending, live,
   tasks, conn, dialing, asked, inbox, astray>>
  BY DEF RelayForwards, Relay, SendExec, driverVars, loopVars, netVars
<1>a. PICK p \in Peers : SendExec(<<"fwd", t>>, "forward", {p})
  BY DEF RelayForwards, PutTypeOK
<1> DEFINE m == [cb |-> <<"fwd", t>>, msg |-> "forward", to |-> {p}]
<1>b. /\ exec' = Append(exec, m) /\ open' = open \cup {<<"fwd", t>>}
      /\ relay[t] = "route" /\ relay' = [relay EXCEPT ![t] = "sent"]
  BY <1>a DEF RelayForwards, Relay, SendExec
<1>c. m \in ExecItem /\ <<"fwd", t>> \in Chan
  BY DEF ExecItem, Chan
<1>d. m.msg = "forward" /\ m.cb[1] = "fwd" /\ m.cb[2] = t
  OBVIOUS
<1> HIDE DEF m
<1>1. PutTypeOK'
  <2>1. exec' \in Seq(ExecItem)
    BY <1>b, <1>c, AppendFacts DEF PutTypeOK
  <2>2. relay' \in [Txs -> RelayPcs]
    BY <1>b DEF PutTypeOK, RelayPcs
  <2>3. QED
    BY <1>0, <1>b, <1>c, <2>1, <2>2 DEF PutTypeOK
<1>2. ReceiversOK'
  BY <1>0 DEF RelayForwards, Relay, SendExec, ReceiversOK, PutTypeOK, Chan, RelayPcs
<1>3. SenderStays'
  BY <1>0, <1>b, <1>c, SenderStaysByAppend
<1>4. ForwardedOnce'
  <2>1. /\ ~Forwarded(t) /\ Forwarded(t)' /\ Begun(t) /\ ~Away(t)
    BY <1>b DEF Forwarded, PutTypeOK, ForwardedOnce
  <2>2. \A u : Begun(u)' = Begun(u) /\ Away(u)' = Away(u)
    BY <1>0 DEF Begun, Away
  <2>3. \A u \in Txs : u # t => relay'[u] = relay[u] /\ (Forwarded(u)' <=> Forwarded(u))
    BY <1>b DEF Forwarded, PutTypeOK
  <2>4. ASSUME NEW i \in 1 .. Len(exec) PROVE ItemOK(exec[i])' /\ ~Same(exec[i], m)
    <3>1. ItemOK(exec[i]) /\ exec[i] \in ExecItem /\ exec'[i] = exec[i] /\ exec[i].cb[2] \in Txs
      <4>1. exec'[i] = exec[i]
        BY <1>b, <1>c, AppendFacts DEF PutTypeOK
      <4>2. QED
        BY <4>1, ChannelFacts DEF ForwardedOnce
    <3>2. ~Same(exec[i], m)
      BY <1>d, <2>1, <3>1 DEF Same, ItemOK
    <3>3. exec[i].cb[2] = t => exec[i].msg # "request"
      BY <1>b, <3>1 DEF ItemOK
    <3>4. QED
      BY <2>1, <2>2, <2>3, <3>1, <3>2, <3>3 DEF ItemOK
  <2>5. ItemOK(m)'
    BY <1>d, <2>1, <2>2 DEF ItemOK, m
  <2>6. \A u \in Txs : (relay'[u] # "idle" => Begun(u)') /\ (Away(u)' => Forwarded(u)')
    BY <2>1, <2>2, <2>3 DEF ForwardedOnce
  <2>7. QED
    BY <1>b, <1>c, <2>4, <2>5, <2>6, ItemAppended
<1>5. SlotsOwed' /\ PeersAreTracked'
  BY <1>0 DEF SlotsOwed, Owed, PeersAreTracked
<1>6. QED
  BY <1>1, <1>2, <1>3, <1>4, <1>5

\* The forwarding send returns.
LEMMA RelayForwardedKeeps == ASSUME PutInv, NEW t \in Txs, RelayForwarded(t) PROVE PutInv'
<1> USE PutAssumption DEF PutInv
<1>0. UNCHANGED <<budget, att, pc, got, infra, retries, outcome, buf, exec, notes, pending,
   live, tasks, conn, dialing, asked, inbox, astray>>
  BY DEF RelayForwarded, Relay, driverVars, loopVars, netVars
<1>1. PutTypeOK'
  BY <1>0 DEF RelayForwarded, Relay, PutTypeOK, Chan, ExecItem, Note, RelayPcs, Answers, Txs
<1>2. ReceiversOK'
  BY <1>0 DEF RelayForwarded, Relay, ReceiversOK, PutTypeOK, Chan, RelayPcs
<1>3. SenderStays'
  BY <1>0 DEF RelayForwarded, Relay, SenderStays, ReceiversOK, BareCloseNeedsSlip, HasSender,
     SlotsOwed, PutTypeOK, Chan, Answers, ExecItem
<1>4. ForwardedOnce'
  <2>1. PICK to \in {"ended", "final"} : relay[t] = "sent" /\ relay' = [relay EXCEPT ![t] = to]
    BY DEF RelayForwarded, Relay
  <2>2. Forwarded(t) => Forwarded(t)'
    BY <2>1 DEF Forwarded, PutTypeOK
  <2>3. QED
    BY <1>0, <2>1, <2>2, RelayMoves DEF RelayPcs
<1>5. SlotsOwed' /\ PeersAreTracked'
  BY <1>0 DEF SlotsOwed, Owed, PeersAreTracked
<1>6. QED
  BY <1>1, <1>2, <1>3, <1>4, <1>5

\* The relay task answers.
LEMMA RelayAnswersKeeps == ASSUME PutInv, NEW t \in Txs, RelayAnswers(t) PROVE PutInv'
<1> USE PutAssumption DEF PutInv
<1>0. UNCHANGED <<budget, att, pc, got, infra, retries, outcome, buf, notes, pending, live,
   tasks, conn, dialing, asked, inbox, astray>>
  BY DEF RelayAnswers, Relay, SendExec, driverVars, loopVars, netVars
<1>a. PICK a \in Answers : SendExec(<<"fin", t>>, a, {})
  BY DEF RelayAnswers, Answers
<1> DEFINE m == [cb |-> <<"fin", t>>, msg |-> a, to |-> {}]
<1>b. /\ exec' = Append(exec, m) /\ open' = open \cup {<<"fin", t>>}
      /\ relay[t] \in {"final", "fail"} /\ relay' = [relay EXCEPT ![t] = "answered"]
  BY <1>a DEF RelayAnswers, Relay, SendExec
<1>c. m \in ExecItem /\ <<"fin", t>> \in Chan
  BY DEF ExecItem, Chan
<1>d. m.msg \in Answers /\ m.msg = a /\ m.cb[1] = "fin" /\ m.cb[2] = t
  OBVIOUS
<1> HIDE DEF m
<1>1. PutTypeOK'
  <2>1. exec' \in Seq(ExecItem)
    BY <1>b, <1>c, AppendFacts DEF PutTypeOK
  <2>2. relay' \in [Txs -> RelayPcs]
    BY <1>b DEF PutTypeOK, RelayPcs
  <2>3. QED
    BY <1>0, <1>b, <1>c, <2>1, <2>2 DEF PutTypeOK
<1>2. ReceiversOK'
  BY <1>0 DEF RelayAnswers, Relay, SendExec, ReceiversOK, PutTypeOK, Chan, RelayPcs
<1>3. SenderStays'
  BY <1>0, <1>b, <1>c, SenderStaysByAppend
<1>4. ForwardedOnce'
  <2>1. relay[t] # "idle" /\ relay'[t] = "answered" /\ Forwarded(t) /\ Forwarded(t)'
    BY <1>b DEF Forwarded, PutTypeOK
  <2>2. \A u : Begun(u)' = Begun(u) /\ Away(u)' = Away(u)
    BY <1>0 DEF Begun, Away
  <2>3. \A u \in Txs : (u # t => relay'[u] = relay[u]) /\ (Forwarded(u)' <=> Forwarded(u))
    BY <1>b, <2>1 DEF Forwarded, PutTypeOK
  <2>4. ASSUME NEW i \in 1 .. Len(exec) PROVE ItemOK(exec[i])' /\ ~Same(exec[i], m)
    <3>1. ItemOK(exec[i]) /\ exec[i] \in ExecItem /\ exec'[i] = exec[i] /\ exec[i].cb[2] \in Txs
      <4>1. exec'[i] = exec[i]
        BY <1>b, <1>c, AppendFacts DEF PutTypeOK
      <4>2. QED
        BY <4>1, ChannelFacts DEF ForwardedOnce
    <3>2. ~Same(exec[i], m)
      BY <1>d DEF Same, Answers
    <3>3. exec[i].cb[2] = t => exec[i].msg # "request"
      BY <2>1, <3>1 DEF ItemOK
    <3>4. QED
      BY <2>2, <2>3, <3>1, <3>2, <3>3 DEF ItemOK
  <2>5. ItemOK(m)'
    BY <1>d DEF ItemOK, m, Answers
  <2>6. \A u \in Txs : (relay'[u] # "idle" => Begun(u)') /\ (Away(u)' => Forwarded(u)')
    BY <2>1, <2>2, <2>3 DEF ForwardedOnce
  <2>7. QED
    BY <1>b, <1>c, <2>4, <2>5, <2>6, ItemAppended
<1>5. SlotsOwed' /\ PeersAreTracked'
  BY <1>0 DEF SlotsOwed, Owed, PeersAreTracked
<1>6. QED
  BY <1>1, <1>2, <1>3, <1>4, <1>5

\* The answering send returns.
LEMMA RelayEndsKeeps == ASSUME PutInv, NEW t \in Txs, RelayEnds(t) PROVE PutInv'
<1> USE PutAssumption DEF PutInv
<1>0. UNCHANGED <<budget, att, pc, got, infra, retries, outcome, buf, exec, notes, pending,
   live, tasks, conn, dialing, asked, inbox, astray>>
  BY DEF RelayEnds, Relay, driverVars, loopVars, netVars
<1>1. PutTypeOK'
  BY <1>0 DEF RelayEnds, Relay, PutTypeOK, Chan, ExecItem, Note, RelayPcs, Answers, Txs
<1>2. ReceiversOK'
  BY <1>0 DEF RelayEnds, Relay, ReceiversOK, PutTypeOK, Chan, RelayPcs
<1>3. SenderStays'
  BY <1>0 DEF RelayEnds, Relay, SenderStays, ReceiversOK, BareCloseNeedsSlip, HasSender,
     SlotsOwed, PutTypeOK, Chan, Answers, ExecItem
<1>4. ForwardedOnce'
  <2>1. PICK to \in {"ended"} : relay[t] = "answered" /\ relay' = [relay EXCEPT ![t] = to]
    BY DEF RelayEnds, Relay
  <2>2. Forwarded(t) => Forwarded(t)'
    BY <2>1 DEF Forwarded, PutTypeOK
  <2>3. QED
    BY <1>0, <2>1, <2>2, RelayMoves DEF RelayPcs
<1>5. SlotsOwed' /\ PeersAreTracked'
  BY <1>0 DEF SlotsOwed, Owed, PeersAreTracked
<1>6. QED
  BY <1>1, <1>2, <1>3, <1>4, <1>5

\* A peer answers.
LEMMA PeerAnswersKeeps == ASSUME PutInv, PeerAnswers PROVE PutInv'
<1> USE PutAssumption DEF PutInv
<1>0. UNCHANGED <<budget, att, pc, got, infra, retries, outcome, open, buf, exec, notes,
   pending, live, tasks, relay, conn, dialing, astray>>
  BY DEF PeerAnswers, driverVars, loopVars, netVars
<1>1. PutTypeOK'
  BY <1>0 DEF PeerAnswers, PutTypeOK, Chan, ExecItem, Note, RelayPcs, Answers, Txs
<1>2. ForwardedOnce'
  <2>1. asked' \subseteq asked
    BY DEF PeerAnswers
  <2>2. \A t : Away(t)' => Away(t)
    BY <1>0, <2>1 DEF Away
  <2>3. ASSUME NEW i \in 1 .. Len(exec) PROVE ItemOK(exec[i])'
    BY <1>0, <2>2 DEF ForwardedOnce, ItemOK, Begun, Forwarded
  <2>4. QED
    BY <1>0, <2>2, <2>3 DEF ForwardedOnce, Same, Begun, Forwarded
<1>3. PeersAreTracked'
  BY <1>0 DEF PeerAnswers, PeersAreTracked, ForwardedOnce, Begun, Forwarded, Away, PutTypeOK, Chan
<1>4. ReceiversOK' /\ SenderStays' /\ SlotsOwed'
  BY <1>0 DEF ReceiversOK, SenderStays, BareCloseNeedsSlip, HasSender, SlotsOwed, Owed
<1>5. QED
  BY <1>1, <1>2, <1>3, <1>4

\* A connection attempt ends.
LEMMA DialEndsKeeps == ASSUME PutInv, DialEnds PROVE PutInv'
<1> USE PutAssumption DEF PutInv
<1>0. UNCHANGED <<budget, att, pc, got, infra, retries, outcome, open, buf, exec, notes,
   pending, live, tasks, relay, inbox, astray>>
  BY DEF DialEnds, driverVars, loopVars, netVars
<1>1. PutTypeOK'
  BY <1>0 DEF DialEnds, PutTypeOK, Chan, ExecItem, Note, RelayPcs, Answers, Txs
<1>2. ForwardedOnce'
  BY <1>0 DEF DialEnds, ForwardedOnce, ItemOK, Same, Begun, Forwarded, Away, PutTypeOK,
     ExecItem, Chan, RelayPcs
<1>3. PeersAreTracked'
  BY <1>0 DEF DialEnds, PeersAreTracked, ForwardedOnce, Begun, Forwarded, Away, PutTypeOK, Chan
<1>4. ReceiversOK' /\ SenderStays' /\ SlotsOwed'
  BY <1>0 DEF ReceiversOK, SenderStays, BareCloseNeedsSlip, HasSender, SlotsOwed, Owed
<1>5. QED
  BY <1>1, <1>2, <1>3, <1>4

\* handle_orphaned_transactions queues the wake-up of every transaction, as far as the
\* notification channel has room, and nothing else.
LEMMA WakeFacts ==
  ASSUME PutTypeOK, NEW txs \in SUBSET Txs, WakeDrivers(txs)
  PROVE  /\ notes' \in Seq(Note) /\ Len(notes') <= NoteCapacity /\ Len(notes) <= Len(notes')
         /\ \A i \in 1 .. Len(notes) : notes'[i] = notes[i] /\ i \in 1 .. Len(notes')
         /\ \A i \in 1 .. Len(notes') : i \notin 1 .. Len(notes) => notes'[i].kind = "orphaned"
         /\ \A t \in txs : \/ \E i \in DOMAIN notes' : notes'[i] = [kind |-> "orphaned", tx |-> t]
                           \/ Len(notes') = NoteCapacity
<1> USE PutAssumption
<1> DEFINE n == Cardinality(txs)
           room == NoteCapacity - Len(notes)
<1>1. IsFiniteSet(txs) /\ n \in Nat
  <2>1. IsFiniteSet(Txs)
    BY FS_Interval DEF Txs
  <2>2. IsFiniteSet(txs)
    BY <2>1, FS_Subset
  <2>3. QED
    BY <2>2, FS_CardinalityType
<1>2. notes \in Seq(Note) /\ Len(notes) \in Nat /\ room \in Nat
  BY DEF PutTypeOK
<1> DEFINE told(order) == SubSeq(order, 1, IF Len(order) < room THEN Len(order) ELSE room)
           new(order) == [i \in DOMAIN told(order) |-> [kind |-> "orphaned", tx |-> told(order)[i]]]
<1>3. PICK order \in SetToSeqs(txs) : notes' = notes \o new(order)
  BY DEF WakeDrivers
<1>4. order \in [1 .. n -> txs] /\ \A i, j \in 1 .. n : i # j => order[i] # order[j]
  BY <1>3 DEF SetToSeqs
<1>5. order \in Surjection(1 .. n, txs)
  <2>1. order \in Injection(1 .. n, txs)
    BY <1>4 DEF Injection, IsInjective
  <2>2. Cardinality(1 .. n) = n
    BY <1>1, FS_Interval
  <2>3. QED
    BY <1>1, <2>1, <2>2, FS_Injection
<1>6. order \in Seq(txs) /\ Len(order) = n
  BY <1>1, <1>4
<1> DEFINE k == IF n < room THEN n ELSE room
<1>7. /\ DOMAIN told(order) = 1 .. k /\ k \in 0 .. n /\ k <= room
      /\ \A i \in 1 .. k : told(order)[i] = order[i] /\ order[i] \in txs
  BY <1>1, <1>2, <1>4, <1>6
<1>8. new(order) = [i \in 1 .. k |-> [kind |-> "orphaned", tx |-> told(order)[i]]]
  BY <1>7
<1>9. /\ new(order) \in Seq(Note) /\ Len(new(order)) = k
      /\ \A i \in 1 .. k : new(order)[i] = [kind |-> "orphaned", tx |-> order[i]]
  <2>1. \A i \in 1 .. k : [kind |-> "orphaned", tx |-> told(order)[i]] \in Note
    BY <1>7 DEF Note
  <2> HIDE DEF told, k
  <2>2. k \in Nat
    BY <1>1, <1>7
  <2>3. QED
    BY <1>7, <1>8, <2>1, <2>2
<1> HIDE DEF new, told, k, room, n
<1>10. /\ notes' \in Seq(Note) /\ Len(notes') = Len(notes) + k
       /\ \A i \in 1 .. Len(notes) : notes'[i] = notes[i]
       /\ \A i \in 1 .. k : notes'[Len(notes) + i] = new(order)[i]
  <2>1. PICK u : u = new(order) /\ u \in Seq(Note) /\ Len(u) = k
    BY <1>9
  <2>2. notes' = notes \o u
    BY <1>3, <2>1
  <2>3. QED
    BY <1>2, <2>1, <2>2, ConcatFacts
<1>11. k \in Nat /\ n \in Nat /\ k <= n /\ k <= room /\ room = NoteCapacity - Len(notes)
       /\ (k = n \/ k = room)
  BY <1>1, <1>2, <1>7 DEF k, room
<1>12. Len(notes') <= NoteCapacity /\ Len(notes) <= Len(notes') /\ NoteCapacity \in Nat
  BY <1>2, <1>10, <1>11
<1>13. ASSUME NEW i \in 1 .. Len(notes'), i \notin 1 .. Len(notes)
       PROVE  notes'[i].kind = "orphaned"
  <2>1. i - Len(notes) \in 1 .. k /\ i = Len(notes) + (i - Len(notes))
    BY <1>2, <1>10, <1>11, <1>13
  <2>2. QED
    BY <1>9, <1>10, <2>1
<1>14. ASSUME NEW t \in txs, Len(notes') # NoteCapacity
       PROVE  \E i \in DOMAIN notes' : notes'[i] = [kind |-> "orphaned", tx |-> t]
  <2>1. k = n
    BY <1>2, <1>10, <1>11, <1>14
  <2>2. PICK i \in 1 .. n : order[i] = t
    BY <1>5 DEF Surjection
  <2>3. Len(notes) + i \in DOMAIN notes'
    BY <1>2, <1>10, <1>11, <2>1
  <2>4. QED
    BY <1>9, <1>10, <2>1, <2>2, <2>3
<1>15. QED
  BY <1>2, <1>10, <1>12, <1>13, <1>14

\* A connection is pruned.
LEMMA PruneKeeps == ASSUME PutInv, NEW p \in Peers, Prune(p) PROVE PutInv'
<1> USE PutAssumption DEF PutInv
<1>0. UNCHANGED <<budget, att, pc, got, infra, retries, outcome, open, buf, exec, pending,
   tasks, relay, dialing, inbox, astray>>
  BY DEF Prune, WakeDrivers, driverVars, loopVars, netVars
<1>1. PutTypeOK'
  <2>1. /\ WakeDrivers({t \in Txs : <<p, t>> \in live}) /\ live' = {e \in live : e[1] # p}
        /\ conn' = conn \ {p} /\ asked' = {a \in asked : a[1] # p}
    BY DEF Prune
  <2>2. /\ notes' \in Seq(Note) /\ Len(notes') <= NoteCapacity
        /\ \A i \in 1 .. Len(notes) : notes'[i] = notes[i] /\ i \in 1 .. Len(notes')
        /\ \A i \in 1 .. Len(notes') : i \notin 1 .. Len(notes) => notes'[i].kind = "orphaned"
    BY <2>1, WakeFacts
  <2>3. QED
    BY <1>0, <2>1, <2>2 DEF PutTypeOK
<1>2. SlotsOwed'
  <2>1. /\ WakeDrivers({t \in Txs : <<p, t>> \in live}) /\ live' = {e \in live : e[1] # p}
        /\ conn' = conn \ {p} /\ asked' = {a \in asked : a[1] # p}
    BY DEF Prune
  <2>2. /\ notes' \in Seq(Note) /\ Len(notes') <= NoteCapacity
        /\ \A i \in 1 .. Len(notes) : notes'[i] = notes[i] /\ i \in 1 .. Len(notes')
        /\ \A i \in 1 .. Len(notes') : i \notin 1 .. Len(notes) => notes'[i].kind = "orphaned"
    BY <2>1, WakeFacts
  <2>3. \A t : Owed(t) => Owed(t)'
    BY <1>0, <2>2 DEF Owed
  <2>4. \A i \in 1 .. Len(notes') : notes'[i].kind = "completed" =>
           notes'[i].tx < att \/ pc \in {"deliver", "done"}
    BY <2>2 DEF SlotsOwed
  <2>5. QED
    BY <1>0, <2>1, <2>3, <2>4 DEF SlotsOwed
<1>3. ForwardedOnce'
  BY <1>0 DEF Prune, WakeDrivers, ForwardedOnce, ItemOK, Same, Begun, Forwarded, Away,
     PutTypeOK, ExecItem, Chan, RelayPcs
<1>4. PeersAreTracked'
  BY <1>0 DEF Prune, WakeDrivers, PeersAreTracked, ForwardedOnce, Begun, Forwarded, Away,
     PutTypeOK, Chan
<1>5. ReceiversOK' /\ SenderStays'
  BY <1>0 DEF ReceiversOK, SenderStays, BareCloseNeedsSlip, HasSender
<1>6. QED
  BY <1>1, <1>2, <1>3, <1>4, <1>5
-----------------------------------------------------------------------------
\* The inductive invariant holds at the start.
LEMMA PutInitOK == ASSUME Init PROVE PutInv
<1> USE PutAssumption
<1>1. /\ budget \in Budgets /\ att = 1 /\ pc = "send" /\ got = "nothing" /\ infra = 0
      /\ retries = 0 /\ open = {} /\ buf = "empty" /\ exec = <<>> /\ notes = <<>>
      /\ pending = {} /\ live = {} /\ tasks = {} /\ relay = [t \in Txs |-> "idle"]
      /\ conn = Peers /\ dialing = {} /\ asked = {} /\ inbox = {} /\ astray = {}
  BY DEF Init
<1>2. budget.adv \in Nat /\ budget.infra \in Nat /\ 1 \in Txs /\ Len(notes) = 0 /\ Len(exec) = 0
  BY <1>1 DEF Txs
<1>3. PutTypeOK
  <2>1. exec \in Seq(ExecItem) /\ notes \in Seq(Note)
    BY <1>1
  <2>2. relay \in [Txs -> RelayPcs]
    BY <1>1 DEF RelayPcs
  <2>3. infra \in 0 .. budget.infra /\ retries \in 0 .. budget.adv /\ att <= 1 + infra + retries
    BY <1>1, <1>2
  <2>4. QED
    BY <1>1, <1>2, <2>1, <2>2, <2>3 DEF PutTypeOK
<1>4. ReceiversOK /\ SenderStays
  BY <1>1 DEF ReceiversOK, SenderStays, BareCloseNeedsSlip
<1>5. SlotsOwed /\ PeersAreTracked
  BY <1>1, <1>2 DEF SlotsOwed, PeersAreTracked
<1>6. ForwardedOnce
  BY <1>1, <1>2 DEF ForwardedOnce, Away, Same
<1>7. QED
  BY <1>3, <1>4, <1>5, <1>6 DEF PutInv

\* Every step keeps the inductive invariant.
LEMMA PutNextOK == ASSUME PutInv, [Next]_vars PROVE PutInv'
<1>1. CASE Driver
  BY <1>1, DriverSendKeeps, DriverReceivesKeeps, AttemptTimesOutKeeps, DriverReleasesKeeps,
     DriverDeliversKeeps DEF Driver
<1>2. CASE EventLoop
  BY <1>2, HandleNotificationKeeps, HandleExecKeeps, HandleInboundKeeps DEF EventLoop
<1>3. CASE Sweep \/ ForwardReply
  BY <1>3, SweepKeeps, ForwardReplyKeeps
<1>4. CASE \E t \in Txs : RelayTask(t)
  BY <1>4, RelayStoresKeeps, RelayForwardsKeeps, RelayForwardedKeeps, RelayAnswersKeeps,
     RelayEndsKeeps DEF RelayTask
<1>5. CASE PeerAnswers \/ DialEnds
  BY <1>5, PeerAnswersKeeps, DialEndsKeeps
<1>6. CASE \E p \in Peers : Prune(p)
  BY <1>6, PruneKeeps
<1>7. CASE UNCHANGED vars
  <2>1. UNCHANGED <<budget, att, pc, got, infra, retries, outcome, open, buf, exec, notes,
                    pending, live, tasks, relay, conn, dialing, asked, inbox, astray>>
    BY <1>7 DEF vars, driverVars, loopVars, netVars
  <2>2. PutTypeOK' /\ ReceiversOK' /\ SenderStays' /\ SlotsOwed'
    BY <2>1 DEF PutInv, PutTypeOK, ReceiversOK, SenderStays, BareCloseNeedsSlip, HasSender,
       SlotsOwed, Owed
  <2>3. ForwardedOnce' /\ PeersAreTracked'
    BY <2>1 DEF PutInv, ForwardedOnce, ItemOK, Same, Begun, Forwarded, Away, PeersAreTracked
  <2>4. QED
    BY <2>2, <2>3 DEF PutInv
<1>8. QED
  BY <1>1, <1>2, <1>3, <1>4, <1>5, <1>6, <1>7 DEF Next

\* PutInv is an invariant of the origin of a PUT.
LEMMA PutInvariant == PutSpec => []PutInv
<1>1. Init => PutInv
  BY PutInitOK
<1>2. PutInv /\ [Next]_vars => PutInv'
  BY PutNextOK
<1>3. QED
  BY <1>1, <1>2, PTL DEF PutSpec

\* The wait of send_and_await ends in a bare close only after a fire-and-forget send put
\* its own callback in the place of the driver's, or the release timed out: until the
\* answer or the loss of the peer is in the driver's channel, the event loop, the
\* op_execution channel or a task keeps a sender of it.  The shutdown of the event loop,
\* which closes every channel, is outside the model.
THEOREM CloseNeedsSlip == PutSpec => []BareCloseNeedsSlip
<1>1. PutInv => BareCloseNeedsSlip
  BY DEF PutInv, SenderStays
<1>2. QED
  BY <1>1, PutInvariant, PTL

\* What release_pending_op_slot, the receivers' ends and the queued notifications leave of a
\* PUT: nothing that is open, and no slot and no live entry but of a transaction whose
\* callback slipped or whose release timed out.
THEOREM SlotsGoBack == PutSpec => []SlotsAreReleased
<1>1. ASSUME PutInv, Drained PROVE /\ pending \cap open = {}
                                   /\ \A c \in pending : c[2] \in astray
                                   /\ \A e \in live : e[2] \in astray
  <2>1. open = {}
    BY <1>1, ChanPair DEF PutInv, PutTypeOK, ReceiversOK, Drained
  <2>2. Len(notes) = 0 /\ pc = "done"
    BY <1>1 DEF Drained
  <2>3. \A t : ~Owed(t)
    BY <2>2 DEF Owed
  <2>4. QED
    BY <1>1, <2>1, <2>3 DEF PutInv, SlotsOwed
<1>2. PutInv => SlotsAreReleased
  BY <1>1 DEF SlotsAreReleased
<1>3. QED
  BY <1>2, PutInvariant, PTL

\* Pruning the connection to the peer that has the request of the waiting driver queues the
\* wake-up, or finds the notification channel full: handle_op_execution registered the peer
\* with live_tx_tracker whoever installed the waiter, and no later step took it away while
\* the driver waited.
THEOREM PrunedDriverWoken == PutSpec => ParkedDriverIsWoken
<1> DEFINE Woken == \A p \in conn \ conn' :
              (pc = "await" /\ <<"drv", att>> \in pending /\ <<p, att>> \in asked)
                 => (Wakes(att)' \/ Len(notes') = NoteCapacity)
<1>1. ASSUME PutInv, Next PROVE Woken
  <2>1. CASE \E p \in Peers : Prune(p)
    <3>1. PICK q \in Peers : Prune(q)
      BY <2>1
    <3>2. conn \ conn' \subseteq {q} /\ WakeDrivers({t \in Txs : <<q, t>> \in live}) /\ att' = att
      BY <3>1 DEF Prune, driverVars
    <3>3. SUFFICES ASSUME pc = "await", <<"drv", att>> \in pending, <<q, att>> \in asked
                   PROVE  Wakes(att)' \/ Len(notes') = NoteCapacity
      BY <3>2
    <3>4. att \in {t \in Txs : <<q, t>> \in live} /\ PutTypeOK
      BY <1>1, <3>3 DEF PutInv, PeersAreTracked, PutTypeOK
    <3>5. \/ \E i \in DOMAIN notes' : notes'[i] = [kind |-> "orphaned", tx |-> att]
          \/ Len(notes') = NoteCapacity
      BY <3>2, <3>4, WakeFacts
    <3>6. QED
      BY <3>2, <3>5 DEF Wakes
  <2>2. CASE conn \subseteq conn'
    BY <2>2
  <2>3. QED
    <3>1. CASE Driver
      BY <2>2, <3>1 DEF Driver, DriverSend, SendExec, DriverReceives, AttemptTimesOut, EndRoundTrip,
         DriverReleases, DriverDelivers, netVars
    <3>2. CASE EventLoop
      BY <2>2, <3>2 DEF EventLoop, HandleNotification, HandleExec, HandleInbound, netVars
    <3>3. CASE Sweep \/ ForwardReply
      BY <2>2, <3>3 DEF Sweep, ForwardReply, netVars
    <3>4. CASE \E t \in Txs : RelayTask(t)
      BY <2>2, <3>4 DEF RelayTask, RelayStores, RelayForwards, RelayForwarded, RelayAnswers,
         RelayEnds, Relay, netVars
    <3>5. CASE PeerAnswers \/ DialEnds
      BY <2>2, <3>5 DEF PeerAnswers, DialEnds
    <3>6. QED
      BY <1>1, <2>1, <3>1, <3>2, <3>3, <3>4, <3>5 DEF Next
<1>2. PutInv /\ [Next]_vars => [Woken]_vars
  BY <1>1
<1>3. PutSpec => [][Woken]_vars
  BY <1>2, PutInvariant, PTL DEF PutSpec
<1>4. QED
  BY <1>3 DEF ParkedDriverIsWoken
=============================================================================
