------------------------------ MODULE FairQueue ------------------------------
(***************************************************************************)
(* The queue in front of the contract executor: FairEventQueue             *)
(* (contract/fair_queue.rs) and the part of the contract_handling loop     *)
(* (contract.rs) that fills and empties it.                                *)
(*                                                                         *)
(* One task owns the queue.  It drains the event channel in batches,       *)
(* serves one event, and blocks when nothing is queued.  An event is       *)
(* known here by its priority class and by the key of the queue it is      *)
(* routed to (extract_contract_id: a contract, or Default); the order of   *)
(* the events of one key is the order of its VecDeque, so a queue is its   *)
(* length.  The observability counters and the gauge are left out.         *)
(***************************************************************************)
EXTENDS Integers, Sequences, FiniteSets

CONSTANTS QueueKey,                  \* the contracts and Default
          MAX_QUEUED_PER_CONTRACT,
          MAX_TOTAL_FAIR_QUEUE,
          CLIENT_LOCAL_RESERVE,
          RELAY_STARVATION_FLOOR,
          MAX_DRAIN_BATCH

ASSUME QueueConstants ==
    /\ IsFiniteSet(QueueKey)
    /\ MAX_QUEUED_PER_CONTRACT \in Nat \ {0}
    /\ MAX_TOTAL_FAIR_QUEUE \in Nat
    /\ CLIENT_LOCAL_RESERVE \in Nat \ {0}
    /\ CLIENT_LOCAL_RESERVE < MAX_TOTAL_FAIR_QUEUE
    /\ RELAY_STARVATION_FLOOR \in Nat
    /\ MAX_DRAIN_BATCH \in Nat \ {0}

VARIABLES
    len,            \* events of each key's queue, per tier
    round_robin,    \* the keys waiting for a turn, per tier
    queued,         \* PriorityTier::queued
    total_queued,
    client_streak,
    pc,             \* where contract_handling is
    drained,        \* events taken from the channel in this batch
    pending,        \* <<tier, key>> of the event being admitted with eviction
    shed,           \* events evicted for it so far
    lowerWait,      \* history: pops since work below ClientLocal was last served
    turns           \* history: turns other keys had while a key waited

queueVars == <<len, round_robin, queued, total_queued, turns>>
loopVars == <<pc, drained, pending, shed>>
vars == <<queueVars, client_streak, lowerWait, loopVars>>

Priority == {"Background", "NetworkRelay", "ClientLocal"}

soft_cap == MAX_TOTAL_FAIR_QUEUE - CLIENT_LOCAL_RESERVE

saturating_sub(n) == IF n = 0 THEN 0 ELSE n - 1

NoEvent == <<>>

QueueInit ==
    /\ len = [t \in Priority |-> [k \in QueueKey |-> 0]]
    /\ round_robin = [t \in Priority |-> <<>>]
    /\ queued = [t \in Priority |-> 0]
    /\ total_queued = 0
    /\ client_streak = 0
    /\ pc = "drain"
    /\ drained = 0
    /\ pending = NoEvent
    /\ shed = 0
    /\ lowerWait = 0
    /\ turns = [t \in Priority |-> [k \in QueueKey |-> [j \in QueueKey |-> 0]]]

-----------------------------------------------------------------------------
(***************************************************************************)
(* The tiers: PriorityTier::push and PriorityTier::pop.  The total is      *)
(* their callers' business.                                                *)
(***************************************************************************)

HasItem(t) == \E k \in QueueKey : len[t][k] > 0

LowerWaits == HasItem("NetworkRelay") \/ HasItem("Background")

\* Mutant: the key is registered whether or not its queue was empty.
TierPush_Always(t, k) ==
    /\ len' = [len EXCEPT ![t][k] = @ + 1]
    /\ round_robin' = [round_robin EXCEPT ![t] = Append(@, k)]
    /\ queued' = [queued EXCEPT ![t] = @ + 1]
    /\ UNCHANGED turns

TierPush(t, k) ==
    /\ len' = [len EXCEPT ![t][k] = @ + 1]
    /\ round_robin' = [round_robin EXCEPT ![t] =
                          IF len[t][k] = 0 THEN Append(@, k) ELSE @]
    /\ queued' = [queued EXCEPT ![t] = @ + 1]
    /\ UNCHANGED turns

\* PriorityTier::pop: the first key in turn that has an event; keys found
\* with an empty queue are dropped on the way.
Turn(t, i) ==
    /\ len[t][round_robin[t][i]] > 0
    /\ \A j \in 1 .. (i - 1) : len[t][round_robin[t][j]] = 0

\* The history of a turn of key k in tier t.
CountTurn(t, k) ==
    turns' = [turns EXCEPT ![t] =
                 [w \in QueueKey |->
                     [j \in QueueKey |->
                         IF w = k THEN 0
                         ELSE IF j = k /\ len[t][w] > 0
                              THEN turns[t][w][j] + 1
                              ELSE turns[t][w][j]]]]

\* Mutant: a key with more events keeps its place at the front.
TierPop_ToFront(t) ==
    \E i \in DOMAIN round_robin[t] :
        LET k == round_robin[t][i]
            rest == SubSeq(round_robin[t], i + 1, Len(round_robin[t]))
        IN  /\ Turn(t, i)
            /\ len' = [len EXCEPT ![t][k] = @ - 1]
            /\ round_robin' = [round_robin EXCEPT ![t] =
                                  IF len[t][k] = 1 THEN rest ELSE <<k>> \o rest]
            /\ queued' = [queued EXCEPT ![t] = saturating_sub(@)]
            /\ CountTurn(t, k)

TierPop(t) ==
    \E i \in DOMAIN round_robin[t] :
        LET k == round_robin[t][i]
            rest == SubSeq(round_robin[t], i + 1, Len(round_robin[t]))
        IN  /\ Turn(t, i)
            /\ len' = [len EXCEPT ![t][k] = @ - 1]
            /\ round_robin' = [round_robin EXCEPT ![t] =
                                  IF len[t][k] = 1 THEN rest ELSE Append(rest, k)]
            /\ queued' = [queued EXCEPT ![t] = saturating_sub(@)]
            /\ CountTurn(t, k)

-----------------------------------------------------------------------------
(***************************************************************************)
(* Admission: FairEventQueue::try_push and push_with_background_eviction.  *)
(* The eviction loop is broken into its iterations; the loop owns the      *)
(* queue throughout, so nothing comes between them.                        *)
(***************************************************************************)

\* Mutant: off by one at the soft cap.
GlobalCapacity_OffByOne(t) ==
    \/ total_queued >= MAX_TOTAL_FAIR_QUEUE
    \/ t # "ClientLocal" /\ total_queued > soft_cap

GlobalCapacity(t) ==
    \/ total_queued >= MAX_TOTAL_FAIR_QUEUE
    \/ t # "ClientLocal" /\ total_queued >= soft_cap

PerContract(t, k) == len[t][k] >= MAX_QUEUED_PER_CONTRACT

try_push(t, k) ==
    /\ ~GlobalCapacity(t)
    /\ ~PerContract(t, k)
    /\ TierPush(t, k)
    /\ total_queued' = total_queued + 1

EvictionCanHelp(t) ==
    /\ t # "Background"
    /\ GlobalCapacity(t)
    /\ queued["Background"] > 0

\* A new event in hand: from the batch, or from the blocking receive, after
\* which a fresh batch begins.
Received(at) ==
    /\ pc = at
    /\ \/ at = "drain" /\ drained < MAX_DRAIN_BATCH /\ drained' = drained + 1
       \/ at = "select" /\ drained' = 0

Admit(t, k, at) ==
    /\ Received(at)
    /\ try_push(t, k)
    /\ pc' = "drain"
    /\ UNCHANGED <<client_streak, lowerWait, pending, shed>>

Refuse(t, k, at) ==
    /\ Received(at)
    /\ GlobalCapacity(t) \/ PerContract(t, k)
    /\ ~EvictionCanHelp(t)
    /\ pc' = "drain"
    /\ UNCHANGED <<queueVars, client_streak, lowerWait, pending, shed>>

StartEviction(t, k, at) ==
    /\ Received(at)
    /\ EvictionCanHelp(t)
    /\ pc' = "evict"
    /\ pending' = <<t, k>>
    /\ UNCHANGED <<queueVars, client_streak, lowerWait, shed>>

\* Mutant: the eviction does not give the slots back to the total.
evict_background_KeepsTotal ==
    /\ pc = "evict"
    /\ shed < CLIENT_LOCAL_RESERVE
    /\ TierPop("Background")
    /\ shed' = shed + 1
    /\ lowerWait' = IF LowerWaits' THEN lowerWait ELSE 0
    /\ UNCHANGED <<total_queued, client_streak, pc, drained, pending>>

evict_background ==
    /\ pc = "evict"
    /\ shed < CLIENT_LOCAL_RESERVE
    /\ TierPop("Background")
    /\ total_queued' = saturating_sub(total_queued)
    /\ shed' = shed + 1
    /\ lowerWait' = IF LowerWaits' THEN lowerWait ELSE 0
    /\ UNCHANGED <<client_streak, pc, drained, pending>>

EvictionEnds ==
    /\ pc = "evict"
    /\ shed = CLIENT_LOCAL_RESERVE \/ ~HasItem("Background")
    /\ pc' = "retry"
    /\ UNCHANGED <<queueVars, client_streak, lowerWait, drained, pending, shed>>

\* The foreground event is tried once more, and is refused for good if the
\* eviction did not help.
RetryDone ==
    /\ pc = "retry"
    /\ pc' = "drain"
    /\ pending' = NoEvent
    /\ shed' = 0
    /\ UNCHANGED <<client_streak, lowerWait, drained>>

RetryAdmits ==
    /\ RetryDone
    /\ try_push(pending[1], pending[2])

RetryRefused ==
    /\ RetryDone
    /\ GlobalCapacity(pending[1]) \/ PerContract(pending[1], pending[2])
    /\ UNCHANGED queueVars

-----------------------------------------------------------------------------
(***************************************************************************)
(* Service: FairEventQueue::pop and the rest of the loop.                  *)
(***************************************************************************)

lower_nonempty == queued["NetworkRelay"] > 0 \/ queued["Background"] > 0

\* Mutant: off by one at the floor.
force_lower_OffByOne ==
    /\ queued["ClientLocal"] > 0
    /\ lower_nonempty
    /\ client_streak > RELAY_STARVATION_FLOOR

force_lower ==
    /\ queued["ClientLocal"] > 0
    /\ lower_nonempty
    /\ client_streak >= RELAY_STARVATION_FLOOR

\* Mutant: the forced turn goes to the lowest tier first.
Order_LowestFirst ==
    IF force_lower THEN <<"Background", "NetworkRelay", "ClientLocal">>
                   ELSE <<"ClientLocal", "NetworkRelay", "Background">>

Order ==
    IF force_lower THEN <<"NetworkRelay", "Background", "ClientLocal">>
                   ELSE <<"ClientLocal", "NetworkRelay", "Background">>

\* The streak that pop leaves after serving tier t.
NextStreak(t) ==
    IF t = "ClientLocal" /\ lower_nonempty THEN client_streak + 1 ELSE 0

\* The batch is over (channel empty or MAX_DRAIN_BATCH reached): serve one.
\* A tier passed over has no queue and hence no key in turn either.
Serve(t) ==
    /\ pc = "drain"
    /\ \E p \in 1 .. 3 :
           /\ Order[p] = t
           /\ \A q \in 1 .. (p - 1) : ~HasItem(Order[q])
    /\ TierPop(t)
    /\ total_queued' = saturating_sub(total_queued)
    /\ client_streak' = NextStreak(t)
    /\ lowerWait' = IF t = "ClientLocal" /\ LowerWaits THEN lowerWait + 1 ELSE 0
    /\ drained' = 0
    /\ UNCHANGED <<pc, pending, shed>>

\* pop found every tier empty: block in the select.
Park ==
    /\ pc = "drain"
    /\ \A t \in Priority : ~HasItem(t)
    /\ pc' = "select"
    /\ UNCHANGED <<queueVars, client_streak, lowerWait, drained, pending, shed>>

\* A client disconnect of the batch is handled on the spot.
InlineDisconnect ==
    /\ Received("drain")
    /\ UNCHANGED <<queueVars, client_streak, lowerWait, pc, pending, shed>>

\* The select ends with a resumed upsert, an export or a notification.
OtherWork ==
    /\ pc = "select"
    /\ pc' = "drain"
    /\ drained' = 0
    /\ UNCHANGED <<queueVars, client_streak, lowerWait, pending, shed>>

\* A closed channel or a fatal executor error ends contract_handling.
FatalError ==
    /\ pc \in {"drain", "select"}
    /\ pc' = "stopped"
    /\ UNCHANGED <<queueVars, client_streak, lowerWait, drained, pending, shed>>

LoopStep ==
    \/ evict_background
    \/ EvictionEnds
    \/ RetryAdmits
    \/ RetryRefused
    \/ \E t \in Priority : Serve(t)
    \/ Park

QueueNext ==
    \/ \E t \in Priority, k \in QueueKey, at \in {"drain", "select"} :
           \/ Admit(t, k, at)
           \/ Refuse(t, k, at)
           \/ StartEviction(t, k, at)
    \/ InlineDisconnect
    \/ OtherWork
    \/ FatalError
    \/ LoopStep

QueueSpec == QueueInit /\ [][QueueNext]_vars

\* The loop task is scheduled as long as it can run: a batch is bounded by
\* MAX_DRAIN_BATCH, so it gets to serve whatever the channel delivers.
FairQueueSpec == QueueSpec /\ WF_vars(LoopStep)

-----------------------------------------------------------------------------
QueueTypeOK ==
    /\ len \in [Priority -> [QueueKey -> 0 .. MAX_QUEUED_PER_CONTRACT]]
    /\ round_robin \in [Priority -> Seq(QueueKey)]
    /\ queued \in [Priority -> Nat]
    /\ total_queued \in 0 .. MAX_TOTAL_FAIR_QUEUE
    /\ client_streak \in Nat
    /\ pc \in {"drain", "evict", "retry", "select", "stopped"}
    /\ drained \in 0 .. MAX_DRAIN_BATCH
    /\ IF pc \in {"evict", "retry"}
       THEN pending \in {"NetworkRelay", "ClientLocal"} \X QueueKey
       ELSE pending = NoEvent
    /\ shed \in 0 .. CLIENT_LOCAL_RESERVE
    /\ lowerWait \in Nat
    /\ turns \in [Priority -> [QueueKey -> [QueueKey -> Nat]]]

\* Every key with queued events has exactly one turn coming in its tier, and a
\* key without events has none (push registers a key when its queue leaves
\* empty, pop and evict_background retire it when the queue empties): a key
\* registered twice would be served twice as often, one lost would never be
\* served again.
TurnsAreExact ==
    \A t \in Priority :
        /\ \A i, j \in DOMAIN round_robin[t] :
               round_robin[t][i] = round_robin[t][j] => i = j
        /\ \A k \in QueueKey :
               len[t][k] > 0 <=> \E i \in DOMAIN round_robin[t] : round_robin[t][i] = k

\* The events of tier t, one <<key, position>> each.
Slots(t) == {s \in QueueKey \X (1 .. MAX_QUEUED_PER_CONTRACT) : s[2] <= len[t][s[1]]}

\* The counts that admission and pop decide by are the events really queued:
\* pushes, pops, evictions and retries keep queued and total_queued in step
\* with the per-contract queues.
CountsAreExact ==
    /\ \A t \in Priority : queued[t] = Cardinality(Slots(t))
    /\ total_queued = queued["Background"] + queued["NetworkRelay"] + queued["ClientLocal"]

\* Work below ClientLocal never takes the reserved slots, whatever the order
\* of arrivals, pops and evictions: a local client's request can meet a full
\* queue only when CLIENT_LOCAL_RESERVE client requests are already in it
\* (fair_queue.rs: "never rejected ... merely because background ... has
\* filled the queue").
ReserveIsKept ==
    /\ queued["Background"] + queued["NetworkRelay"] <= soft_cap
    /\ total_queued = MAX_TOTAL_FAIR_QUEUE => queued["ClientLocal"] >= CLIENT_LOCAL_RESERVE

\* However long clients keep the queue busy, at most RELAY_STARVATION_FLOOR
\* consecutive pops pass waiting lower-tier work by.
StarvationIsBounded == lowerWait <= RELAY_STARVATION_FLOOR

\* Between two turns of a contract that has events waiting, no other contract
\* of its tier has two: queues that empty and refill go to the back.
NoKeyOvertakesTwice ==
    \A t \in Priority, k, j \in QueueKey : turns[t][k][j] <= 1

\* A contract's queued client or relay events are eventually served: clients
\* cannot shut out relays, nor one contract another, for ever.
ForegroundIsServed ==
    \A t \in {"ClientLocal", "NetworkRelay"}, k \in QueueKey :
        <>[](len[t][k] > 0 /\ pc # "stopped") => []<><<len'[t][k] < len[t][k]>>_vars

=============================================================================
