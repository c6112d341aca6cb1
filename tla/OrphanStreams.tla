--------------------------- MODULE OrphanStreams ---------------------------
(***************************************************************************)
(* The registry where the transport, which sees the first fragment of a    *)
(* stream, and the operations, which see the metadata message of the same  *)
(* stream, meet (crates/core/src/operations/orphan_streams.rs).            *)
(*                                                                         *)
(* Actors: one register_orphan call per registration, one claim_or_wait    *)
(* call per Claimer (a retry is another claimer), the GC task.  Each step  *)
(* is one operation on one of the three concurrent maps or on a oneshot    *)
(* channel: the maps are locked one at a time, never together.             *)
(* Durations are left out: a timeout may fire at any time while a claimer  *)
(* waits, and the GC may find any orphan expired.                          *)
(***************************************************************************)
EXTENDS Naturals, FiniteSets

CONSTANTS
    Stream,            \* keys (peer address, stream id)
    Claimer,           \* calls of claim_or_wait
    Handle,            \* stream handles, one per call of register_orphan
    None,
    CLAIMED_CAP        \* size above which the GC clears claimed_streams

ASSUME OrphanAssumption ==
    /\ IsFiniteSet(Stream)
    /\ None \notin Stream \cup Claimer \cup Handle
    /\ CLAIMED_CAP \in Nat

VARIABLES
    orphan_streams,    \* [Stream -> Handle or None]
    stream_waiters,    \* [Stream -> the claimer at the other end, or None]
    claimed_streams,   \* set of Stream
    reg,               \* per handle: pc and key of its register_orphan, waiter taken
    claim,             \* per claimer: pc, key and handle obtained
    channel,           \* per claimer: the handle sent to it, or None
    cancelled, lost,   \* history: handles the GC cancelled, handles dropped
    cleared            \* history: the GC has cleared claimed_streams

maps == <<orphan_streams, stream_waiters, claimed_streams>>
orphanVars == <<maps, reg, claim, channel, cancelled, lost, cleared>>

OrphanInit ==
    /\ orphan_streams = [k \in Stream |-> None]
    /\ stream_waiters = [k \in Stream |-> None]
    /\ claimed_streams = {}
    /\ reg = [h \in Handle |-> [pc |-> "idle", key |-> None, waiter |-> None]]
    /\ claim = [c \in Claimer |-> [pc |-> "idle", key |-> None, handle |-> None]]
    /\ channel = [c \in Claimer |-> None]
    /\ cancelled = {} /\ lost = {} /\ cleared = FALSE

\* Replacing or dropping an entry of orphan_streams drops its handle.
Dropped(h) == {h} \ {None}

-----------------------------------------------------------------------------
\* register_orphan(k, h): take the waiter if there is one ...
TakeWaiter(h, k) ==
    /\ reg[h].pc = "idle"
    /\ reg' = [reg EXCEPT ![h] =
                 [pc |-> IF stream_waiters[k] = None THEN "no_waiter" ELSE "sending",
                  key |-> k, waiter |-> stream_waiters[k]]]
    /\ stream_waiters' = [stream_waiters EXCEPT ![k] = None]
    /\ UNCHANGED <<orphan_streams, claimed_streams, claim, channel, cancelled, lost, cleared>>

\* ... and send it the handle; a receiver that is gone loses it ...
Listening(c) == claim[c].pc = "waiting"

SendToWaiter(h) ==
    /\ reg[h].pc = "sending"
    /\ LET c == reg[h].waiter
       IN  IF Listening(c)
           THEN channel' = [channel EXCEPT ![c] = h] /\ UNCHANGED lost
           ELSE lost' = lost \cup {h} /\ UNCHANGED channel
    /\ reg' = [reg EXCEPT ![h].pc = "done"]
    /\ UNCHANGED <<maps, claim, cancelled, cleared>>

\* ... or else store the handle as an orphan.
StoreOrphan(h) ==
    /\ reg[h].pc = "no_waiter"
    /\ LET k == reg[h].key
       IN  /\ lost' = lost \cup Dropped(orphan_streams[k])
           /\ orphan_streams' = [orphan_streams EXCEPT ![k] = h]
    /\ reg' = [reg EXCEPT ![h].pc = "done"]
    /\ UNCHANGED <<stream_waiters, claimed_streams, claim, channel, cancelled, cleared>>

-----------------------------------------------------------------------------
At(c, pc) == claim' = [claim EXCEPT ![c].pc = pc]

\* claim_or_wait: the atomic deduplication ...
Deduplicate(c, k) ==
    /\ claim[c].pc = "idle"
    /\ claim' = [claim EXCEPT ![c] =
                   [pc |-> IF k \in claimed_streams THEN "already_claimed" ELSE "claimed",
                    key |-> k, handle |-> None]]
    /\ claimed_streams' = claimed_streams \cup {k}
    /\ UNCHANGED <<orphan_streams, stream_waiters, reg, channel, cancelled, lost, cleared>>

\* Mutant of TakeOrphan: the handle is cloned and its entry stays.
TakeOrphan_Clones(c) ==
    /\ claim[c].pc = "claimed"
    /\ LET h == orphan_streams[claim[c].key]
       IN  claim' = [claim EXCEPT ![c].pc = IF h = None THEN "no_orphan" ELSE "got",
                                  ![c].handle = h]
    /\ UNCHANGED <<maps, reg, channel, cancelled, lost, cleared>>

\* ... the orphan if it is there ...
TakeOrphan(c) ==
    /\ claim[c].pc = "claimed"
    /\ LET h == orphan_streams[claim[c].key]
       IN  claim' = [claim EXCEPT ![c].pc = IF h = None THEN "no_orphan" ELSE "got",
                                  ![c].handle = h]
    /\ orphan_streams' = [orphan_streams EXCEPT ![claim[c].key] = None]
    /\ UNCHANGED <<stream_waiters, claimed_streams, reg, channel, cancelled, lost, cleared>>

\* ... or else a waiter, which replaces and so drops any other sender.
InsertWaiter(c) ==
    /\ claim[c].pc = "no_orphan"
    /\ stream_waiters' = [stream_waiters EXCEPT ![claim[c].key] = c]
    /\ At(c, "waiting")
    /\ UNCHANGED <<orphan_streams, claimed_streams, reg, channel, cancelled, lost, cleared>>

\* The stream arrives while waiting.
Arrived(c) ==
    /\ claim[c].pc = "waiting" /\ channel[c] # None
    /\ claim' = [claim EXCEPT ![c].pc = "got", ![c].handle = channel[c]]
    /\ channel' = [channel EXCEPT ![c] = None]
    /\ UNCHANGED <<maps, reg, cancelled, lost, cleared>>

\* Nobody holds the sender of c any more, and nothing was sent.
SenderGone(c) ==
    /\ channel[c] = None
    /\ stream_waiters[claim[c].key] # c
    /\ ~\E h \in Handle : reg[h].pc = "sending" /\ reg[h].waiter = c

WaiterCancelled(c) ==
    /\ claim[c].pc = "waiting" /\ SenderGone(c)
    /\ At(c, "cancelled")
    /\ UNCHANGED <<maps, reg, channel, cancelled, lost, cleared>>

\* The timeout looks at the channel before it looks at the clock.
TimesOut(c) ==
    /\ claim[c].pc = "waiting" /\ channel[c] = None
    /\ At(c, "timed_out")
    /\ UNCHANGED <<maps, reg, channel, cancelled, lost, cleared>>

\* Mutant of RemoveWaiter: the claim is given up before the waiter.
RemoveWaiter_ClaimFirst(c) ==
    /\ claim[c].pc \in {"timed_out", "cancelled"}
    /\ claimed_streams' = claimed_streams \ {claim[c].key}
    /\ stream_waiters' = IF claim[c].key \in claimed_streams THEN stream_waiters
                         ELSE [stream_waiters EXCEPT ![claim[c].key] = None]
    /\ At(c, IF claim[c].key \in claimed_streams THEN claim[c].pc ELSE "failed")
    /\ UNCHANGED <<orphan_streams, reg, channel, cancelled, lost, cleared>>

\* Both failures: the waiter is removed, whoever it belongs to ...
RemoveWaiter(c) ==
    /\ claim[c].pc \in {"timed_out", "cancelled"}
    /\ stream_waiters' = [stream_waiters EXCEPT ![claim[c].key] = None]
    /\ At(c, "unclaiming")
    /\ UNCHANGED <<orphan_streams, claimed_streams, reg, channel, cancelled, lost, cleared>>

\* ... and then the claim, so that a retry is possible.
RemoveClaim(c) ==
    /\ claim[c].pc = "unclaiming"
    /\ claimed_streams' = claimed_streams \ {claim[c].key}
    /\ At(c, "failed")
    /\ UNCHANGED <<orphan_streams, stream_waiters, reg, channel, cancelled, lost, cleared>>

-----------------------------------------------------------------------------
\* gc_expired: expired orphans are cancelled and removed; the claims are cleared
\* when there are too many.
CollectOrphan(k) ==
    /\ orphan_streams[k] # None
    /\ cancelled' = cancelled \cup {orphan_streams[k]}
    /\ orphan_streams' = [orphan_streams EXCEPT ![k] = None]
    /\ UNCHANGED <<stream_waiters, claimed_streams, reg, claim, channel, lost, cleared>>

ClearClaims ==
    /\ Cardinality(claimed_streams) > CLAIMED_CAP
    /\ claimed_streams' = {}
    /\ cleared' = TRUE
    /\ UNCHANGED <<orphan_streams, stream_waiters, reg, claim, channel, cancelled, lost>>

ClaimStep(c) ==
    \/ TakeOrphan(c) \/ InsertWaiter(c) \/ Arrived(c) \/ WaiterCancelled(c)
    \/ TimesOut(c) \/ RemoveWaiter(c) \/ RemoveClaim(c)

RegisterStep(h) == SendToWaiter(h) \/ StoreOrphan(h)

OrphanNext ==
    \/ \E h \in Handle : \E k \in Stream : TakeWaiter(h, k)
    \/ \E h \in Handle : RegisterStep(h)
    \/ \E c \in Claimer : \E k \in Stream : Deduplicate(c, k)
    \/ \E c \in Claimer : ClaimStep(c)
    \/ \E k \in Stream : CollectOrphan(k)
    \/ ClearClaims

OrphanSpec == OrphanInit /\ [][OrphanNext]_orphanVars

-----------------------------------------------------------------------------

\* Where a handle can be.
Places(h) == {k \in Stream : orphan_streams[k] = h}
             \cup {c \in Claimer : claim[c].handle = h \/ channel[c] = h}
             \cup (IF h \in cancelled THEN {"cancelled"} ELSE {})
             \cup (IF h \in lost THEN {"lost"} ELSE {})

\* A handle a register_orphan call has let go of is in exactly one place, in
\* every interleaving of registration, claim, timeout and GC: it is an orphan,
\* or one claimer's, or cancelled, or dropped.  So no two operations read one
\* stream, and the GC never cancels a stream that an operation has claimed.
HandleHasOneOwner ==
    \A h \in Handle : Cardinality(Places(h)) = IF reg[h].pc = "done" THEN 1 ELSE 0

\* Deduplication: unless the GC has cleared the claims, at most one claimer per
\* stream is between its claim and its failure, although claims are taken back
\* after a timeout and taken again.  Hence no claimer loses its waiter to another.
Holds(c) == claim[c].pc \in {"claimed", "no_orphan", "waiting", "timed_out",
                             "cancelled", "unclaiming", "got"}
OneClaimPerStream ==
    ~cleared =>
      /\ \A c, d \in Claimer : Holds(c) /\ Holds(d) /\ claim[c].key = claim[d].key => c = d
      /\ \A c \in Claimer : claim[c].pc # "cancelled"

\* "If someone is already waiting for this stream, the handle is delivered
\* immediately": a stream that is stored as an orphan has nobody waiting for it,
\* once the calls that are under way have gone past the maps.
Settled(k) == /\ \A h \in Handle : reg[h].key = k => reg[h].pc = "done"
              /\ \A c \in Claimer : claim[c].key = k =>
                    claim[c].pc \in {"already_claimed", "waiting", "got", "failed"}
NoMissedHandoff ==
    \A k \in Stream : Settled(k) => orphan_streams[k] = None \/ stream_waiters[k] = None
=============================================================================
