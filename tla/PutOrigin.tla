----------------------------- MODULE PutOrigin -----------------------------
(***************************************************************************)
(* A client's PUT on the node it was sent to.  The client driver           *)
(* (drive_retry_loop) sends each attempt, under a transaction of its own,  *)
(* to the node's event loop and waits for the answer.  The event loop      *)
(* keeps the waiter in pending_op_results and starts the relay task, which *)
(* stores the contract here and either forwards the PUT to a peer or       *)
(* answers itself through the loopback.  Answers reach the waiter through  *)
(* short tasks; a pruned connection wakes the drivers that depend on it;   *)
(* attempts time out and are retried.                                      *)
(*                                                                         *)
(* A reply channel is <<kind of sender, transaction>>: "drv" is the        *)
(* driver's, "fwd" and "fin" belong to the relay's fire-and-forget sends,  *)
(* whose receivers nobody reads.                                           *)
(***************************************************************************)
EXTENDS Naturals, SequencesExt

CONSTANTS Peers,
          Budgets,        \* retry budgets a PUT may have: [adv |-> max_advancements,
                          \* infra |-> MAX_INFRA_RETRIES]; a streamed PUT has adv = 0
          MaxAttempts,    \* 1 + adv + infra of the largest budget
          ExecCapacity,   \* of the op_execution channel
          NoteCapacity    \* of the notification channel

ASSUME PutAssumption ==
    /\ Budgets \subseteq [adv : Nat, infra : Nat]
    /\ MaxAttempts \in Nat
    /\ \A b \in Budgets : 1 + b.adv + b.infra <= MaxAttempts
    /\ ExecCapacity \in Nat \ {0}
    /\ NoteCapacity \in Nat \ {0}

VARIABLES
    budget,     \* the retry budget of this PUT
    att,        \* the driver's current attempt, which is also its transaction
    pc,         \* where the driver is
    got,        \* how the round trip of the attempt ended
    infra,      \* infra_retries
    retries,    \* advancements made
    outcome,    \* what the client is told
    open,       \* reply channels whose receiver exists
    buf,        \* what the reply channel of the current attempt holds (capacity 1)
    exec,       \* the op_execution channel
    notes,      \* the notification channel
    pending,    \* pending_op_results: at most one channel per transaction
    live,       \* live_tx_tracker: <<peer, transaction>>
    tasks,      \* process_message_decoupled tasks carrying an answer
    relay,      \* the relay task of each transaction
    conn,       \* connected peers
    dialing,    \* sends waiting for a connection to a gateway
    asked,      \* forwarded requests peers may answer
    inbox,      \* answers of peers the event loop has not read
    astray      \* transactions for which a fire-and-forget callback was installed,
                \* or whose release timed out

driverVars == <<budget, att, pc, got, infra, retries, outcome>>
loopVars == <<pending, live>>
netVars == <<conn, dialing, asked, inbox>>
vars == <<driverVars, open, buf, exec, notes, loopVars, tasks, relay, netVars, astray>>

Txs == 1 .. MaxAttempts
Answers == {"response", "error"}

Init ==
    /\ budget \in Budgets
    /\ att = 1 /\ pc = "send" /\ got = "nothing" /\ infra = 0 /\ retries = 0
    /\ outcome = "none"
    /\ open = {} /\ buf = "empty"
    /\ exec = <<>> /\ notes = <<>>
    /\ pending = {} /\ live = {}
    /\ tasks = {} /\ relay = [t \in Txs |-> "idle"]
    /\ conn = Peers /\ dialing = {} /\ asked = {} /\ inbox = {}
    /\ astray = {}

-----------------------------------------------------------------------------
(* Channels. *)

\* send().await on op_execution: it waits for room.  The receiver of the reply
\* channel exists from before the send.
SendExec(c, msg, to) ==
    /\ Len(exec) < ExecCapacity
    /\ exec' = Append(exec, [cb |-> c, msg |-> msg, to |-> to])
    /\ open' = open \cup {c}

\* try_send to the driver's channel: dropped when the receiver is gone or the
\* one place is taken.
Deliver(t, item) ==
    buf' = IF <<"drv", t>> \in open /\ buf = "empty" THEN item ELSE buf

\* A channel is closed for its reader when no sender is left anywhere.
HasSender(c) ==
    \/ c \in pending
    \/ \E i \in DOMAIN exec : exec[i].cb = c
    \/ \E k \in tasks : <<"drv", k.tx>> = c

Waiter(t) == {c \in pending : c[2] = t}

-----------------------------------------------------------------------------
(* The client driver: drive_retry_loop around send_and_await. *)

DriverSend ==
    /\ pc = "send"
    /\ SendExec(<<"drv", att>>, "request", {})
    /\ pc' = "await"
    /\ UNCHANGED <<budget, att, got, infra, retries, outcome, buf, notes, loopVars,
                   tasks, relay, netVars, astray>>

\* The round trip is over: the receiver is dropped and the slot released next.
EndRoundTrip(result) ==
    /\ got' = result
    /\ open' = open \ {<<"drv", att>>}
    /\ buf' = "empty"
    /\ pc' = "release"
    /\ UNCHANGED <<budget, att, infra, retries, outcome, exec, notes, loopVars,
                   tasks, relay, netVars, astray>>

\* recv_waiter_reply: an answer, the loss of the peer, or a bare close.
DriverReceives ==
    /\ pc = "await"
    /\ \/ buf # "empty" /\ EndRoundTrip(buf)
       \/ buf = "empty" /\ ~HasSender(<<"drv", att>>) /\ EndRoundTrip("closed")

\* Mutant: the deadline covers only the send.
AttemptTimesOut_SendOnly == pc = "send" /\ EndRoundTrip("timeout")

\* The deadline covers the send as well; a streaming attempt may end by stall
\* or ceiling although an answer is ready, for select! has no order.
AttemptTimesOut ==
    /\ pc \in {"send", "await"}
    /\ EndRoundTrip("timeout")

NextAttempt ==
    /\ att' = att + 1
    /\ pc' = "send"
    /\ got' = "nothing"
    /\ UNCHANGED <<budget, outcome>>

Finish(result) ==
    /\ outcome' = result
    /\ pc' = "deliver"
    /\ got' = "nothing"
    /\ UNCHANGED <<budget, att>>

\* advance_to_next_peer: within the budget there may still be no other peer.
Advance ==
    \/ /\ retries < budget.adv
       /\ retries' = retries + 1
       /\ NextAttempt \/ Finish("exhausted")
    \/ /\ retries >= budget.adv
       /\ Finish("exhausted")
       /\ UNCHANGED retries

\* A bare close is retried on the same peer, a few times in all; any other
\* failure asks for another peer.
Judge ==
    \/ got \in Answers /\ Finish(got) /\ UNCHANGED <<infra, retries>>
    \/ /\ got = "closed" /\ infra < budget.infra
       /\ infra' = infra + 1
       /\ NextAttempt
       /\ UNCHANGED retries
    \/ /\ \/ got \in {"timeout", "peerlost"}
          \/ got = "closed" /\ infra >= budget.infra
       /\ Advance
       /\ UNCHANGED infra

\* release_pending_op_slot on every way out: it waits for room, and gives up
\* after 30 s.
DriverReleases ==
    /\ pc = "release"
    /\ \/ /\ Len(notes) < NoteCapacity
          /\ notes' = Append(notes, [kind |-> "completed", tx |-> att])
          /\ UNCHANGED astray
       \/ /\ Len(notes) >= NoteCapacity
          /\ astray' = astray \cup {att}
          /\ UNCHANGED notes
    /\ Judge
    /\ UNCHANGED <<open, buf, exec, loopVars, tasks, relay, netVars>>

\* The result goes to the client; the event loop is told by a try_send, and only
\* if the result router had room.
send_client_result ==
    \/ /\ Len(notes) < NoteCapacity
       /\ notes' = Append(notes, [kind |-> "completed", tx |-> 1])
    \/ UNCHANGED notes

\* completed(client_tx) when there is an answer, then deliver_outcome.
DriverDelivers ==
    /\ pc = "deliver"
    /\ live' = IF outcome = "exhausted" THEN live ELSE {e \in live : e[2] # 1}
    /\ send_client_result
    /\ pc' = "done"
    /\ UNCHANGED <<budget, att, got, infra, retries, outcome, open, buf, exec, pending,
                   tasks, relay, netVars, astray>>

-----------------------------------------------------------------------------
(* The event loop.  It polls notifications, op_execution and peers in this  *)
(* order, but not at one instant: an item may come in behind the poll of its *)
(* channel, so that any of them can be the one that is handled.             *)

\* Mutant: the orphaned waiter is dropped without the cause.
TellCause_Not(t) == UNCHANGED buf

\* PeerDisconnected goes into the waiter's channel before the sender is dropped.
TellCause(t) ==
    IF <<"drv", t>> \in pending THEN Deliver(t, "peerlost") ELSE UNCHANGED buf

\* TransactionCompleted and TransactionOrphaned.
HandleNotification ==
    /\ notes # <<>>
    /\ LET t == Head(notes).tx
       IN  /\ IF Head(notes).kind = "orphaned" THEN TellCause(t) ELSE UNCHANGED buf
           /\ pending' = pending \ Waiter(t)
           /\ live' = {e \in live : e[2] # t}
    /\ notes' = Tail(notes)
    /\ UNCHANGED <<driverVars, open, exec, tasks, relay, netVars, astray>>

\* Mutant: the callback is installed although its receiver is gone.
Install_Always(c) ==
    /\ pending' = (pending \ Waiter(c[2])) \cup {c}
    /\ astray' = IF c \in open /\ c[1] # "drv" THEN astray \cup {c[2]} ELSE astray

\* The callback is installed unless its receiver is already gone.
Install(c) ==
    /\ pending' = IF c \in open THEN (pending \ Waiter(c[2])) \cup {c} ELSE pending
    /\ astray' = IF c \in open /\ c[1] # "drv" THEN astray \cup {c[2]} ELSE astray

\* Mutant: the target is recorded only for a waiter this send installed.
Tracked_OwnWaiter(t, p) ==
    IF <<"fwd", t>> \in pending' THEN live \cup {<<p, t>>} ELSE live

\* tx -> target is recorded when somebody waits, whoever installed the waiter.
Tracked(t, p) ==
    IF \E c \in pending' : c[2] = t THEN live \cup {<<p, t>>} ELSE live

\* OutboundMessageWithTarget.  A peer without a connection is dialled if it is
\* still known, as a gateway or to the connection manager; otherwise the
\* transaction counts as completed.
Dispatch(t, p) ==
    \/ /\ p \in conn
       /\ asked' = asked \cup {<<p, t>>}
       /\ live' = Tracked(t, p)
       /\ UNCHANGED dialing
    \/ /\ p \notin conn
       /\ dialing' = dialing \cup {<<p, t>>}
       /\ live' = Tracked(t, p)
       /\ UNCHANGED asked
    \/ /\ p \notin conn
       /\ live' = {e \in Tracked(t, p) : e[2] # t}
       /\ UNCHANGED <<asked, dialing>>

\* process_message looks the callback up and spawns the task that will use it.
\* Only the driver's callback, while it is open, makes a difference.
SpawnForward(slots, t, m) ==
    tasks' = IF <<"drv", t>> \in slots \cap open
             THEN tasks \cup {[tx |-> t, msg |-> m]} ELSE tasks

\* One relay task for each transaction.
start_relay_put(t) == relay' = [relay EXCEPT ![t] = IF @ = "idle" THEN "store" ELSE @]

HandleExec ==
    /\ exec # <<>>
    /\ exec' = Tail(exec)
    /\ LET m == Head(exec)
           t == m.cb[2]
       IN  /\ Install(m.cb)
           /\ \/ /\ m.msg = "request"
                 /\ start_relay_put(t) \/ UNCHANGED relay   \* dropped: banned since
                 /\ UNCHANGED <<live, tasks, asked, dialing>>
              \/ /\ m.msg = "forward"
                 /\ \E p \in m.to : Dispatch(t, p)
                 /\ UNCHANGED <<tasks, relay>>
              \/ /\ m.msg \in Answers
                 /\ SpawnForward(pending', t, m.msg)
                 /\ UNCHANGED <<live, relay, asked, dialing>>
    /\ UNCHANGED <<driverVars, open, buf, notes, conn, inbox>>

\* process_message for the answer of a peer.
HandleInbound ==
    /\ \E t \in inbox, m \in Answers :
          /\ inbox' = inbox \ {t}
          /\ SpawnForward(pending, t, m)
    /\ UNCHANGED <<driverVars, open, buf, exec, notes, loopVars, relay,
                   conn, dialing, asked, astray>>

\* notify_orphaned_transaction_on: one try_send for each transaction that was
\* live on the peer; what finds no room is not told.
WakeDrivers(txs) ==
    \E order \in SetToSeqs(txs) :
        LET room == NoteCapacity - Len(notes)
            told == SubSeq(order, 1, IF Len(order) < room THEN Len(order) ELSE room)
        IN  notes' = notes \o [i \in DOMAIN told |-> [kind |-> "orphaned", tx |-> told[i]]]

\* prune_connection and handle_orphaned_transactions.
Prune(p) ==
    /\ p \in conn
    /\ conn' = conn \ {p}
    /\ asked' = {a \in asked : a[1] # p}
    /\ live' = {e \in live : e[1] # p}
    /\ WakeDrivers({t \in Txs : <<p, t>> \in live})
    /\ UNCHANGED <<driverVars, open, buf, exec, pending, tasks, relay,
                   dialing, inbox, astray>>

\* The periodic clean-up of slots whose receiver is gone.
Sweep ==
    /\ pending \ open # {}
    /\ pending' = pending \cap open
    /\ UNCHANGED <<driverVars, open, buf, exec, notes, live, tasks, relay,
                   netVars, astray>>

EventLoop == HandleNotification \/ HandleExec \/ HandleInbound

-----------------------------------------------------------------------------
(* Spawned tasks. *)

\* try_forward_driver_reply, with the callback process_message looked up.
ForwardReply ==
    /\ \E k \in tasks :
          /\ Deliver(k.tx, k.msg)
          /\ tasks' = tasks \ {k}
    /\ UNCHANGED <<driverVars, open, exec, notes, loopVars, relay, netVars, astray>>

Relay(t, from, to) ==
    /\ relay[t] = from
    /\ relay' = [relay EXCEPT ![t] = to]
    /\ UNCHANGED <<driverVars, buf, notes, loopVars, tasks, netVars, astray>>

\* relay_put_store_locally, and the choice between a next hop and ending here.
RelayStores(t) ==
    /\ Relay(t, "store", "route") \/ Relay(t, "store", "final") \/ Relay(t, "store", "fail")
    /\ UNCHANGED <<open, exec>>

\* A connected peer, or a gateway when there is none, gets the PUT without a
\* waiter of the relay's own: send_fire_and_forget.
RelayForwards(t) ==
    /\ Relay(t, "route", "sent")
    /\ \E p \in IF conn = {} THEN Peers ELSE conn : SendExec(<<"fwd", t>>, "forward", {p})

\* send_fire_and_forget returns, and only then drops the receiver; the stream
\* that follows a streaming forward may fail.
RelayForwarded(t) ==
    /\ Relay(t, "sent", "ended") \/ Relay(t, "sent", "final")
    /\ open' = open \ {<<"fwd", t>>}
    /\ UNCHANGED exec

\* relay_put_finalize_local and the error path of run_relay_put: the answer
\* goes back through send_local_loopback.
RelayAnswers(t) ==
    /\ \/ Relay(t, "final", "answered") /\ SendExec(<<"fin", t>>, "response", {})
       \/ Relay(t, "fail", "answered") /\ SendExec(<<"fin", t>>, "error", {})

\* send_local_loopback returns; the waiter is the driver's and is not released.
RelayEnds(t) ==
    /\ Relay(t, "answered", "ended")
    /\ open' = open \ {<<"fin", t>>}
    /\ UNCHANGED exec

RelayTask(t) ==
    \/ RelayStores(t) \/ RelayForwards(t)
    \/ RelayForwarded(t) \/ RelayAnswers(t) \/ RelayEnds(t)

-----------------------------------------------------------------------------
(* The rest of the network. *)

PeerAnswers ==
    /\ \E a \in asked :
          /\ asked' = asked \ {a}
          /\ inbox' = inbox \cup {a[2]}
    /\ UNCHANGED <<driverVars, open, buf, exec, notes, loopVars, tasks, relay,
                   conn, dialing, astray>>

\* The connection that queued messages wait for is made, or not; the waiting
\* sends to a peer are told together.
DialEnds ==
    /\ \E p \in Peers :
          LET waiting == {d \in dialing : d[1] = p}
          IN  /\ waiting # {}
              /\ dialing' = dialing \ waiting
              /\ \/ conn' = conn \cup {p} /\ asked' = asked \cup waiting
                 \/ UNCHANGED <<conn, asked>>
    /\ UNCHANGED <<driverVars, open, buf, exec, notes, loopVars, tasks, relay,
                   inbox, astray>>

-----------------------------------------------------------------------------
Driver == DriverSend \/ DriverReceives \/ AttemptTimesOut \/ DriverReleases
          \/ DriverDelivers

Next ==
    \/ Driver \/ EventLoop \/ Sweep \/ ForwardReply
    \/ \E t \in Txs : RelayTask(t)
    \/ PeerAnswers \/ DialEnds
    \/ \E p \in Peers : Prune(p)

PutSpec == Init /\ [][Next]_vars

\* Every task and the event loop keep running, deadlines expire and the sweep
\* recurs; nothing is promised of peers and connections.
PutFairness ==
    /\ WF_vars(Driver)
    /\ WF_vars(EventLoop)
    /\ WF_vars(ForwardReply)
    /\ \A t \in Txs : WF_vars(RelayTask(t))
    /\ WF_vars(Sweep)

FairPutSpec == PutSpec /\ PutFairness

-----------------------------------------------------------------------------
(* Properties. *)

\* The driver's wait ends in a bare close, which it takes for a fault of this
\* node and retries, only if a fire-and-forget send put its own callback in the
\* place of the driver's (send_fire_and_forget, handle_op_execution).  This is about
\* a node that runs: the loop that shuts down, which is not in the model, drops
\* every callback.
BareCloseNeedsSlip == got = "closed" => att \in astray

\* When the connection to a peer that has the driver's request is pruned, the
\* wake-up of the waiting driver is queued, unless the notification channel is
\* full (handle_op_execution registers, handle_orphaned_transactions notifies).
Wakes(t) == \E i \in DOMAIN notes : notes[i] = [kind |-> "orphaned", tx |-> t]
ParkedDriverIsWoken ==
    [][\A p \in conn \ conn' :
          (pc = "await" /\ <<"drv", att>> \in pending /\ <<p, att>> \in asked)
             => (Wakes(att)' \/ Len(notes') = NoteCapacity)]_vars

\* When the driver and its relays are done and the channels are drained, a slot
\* is left over only after a release that timed out or a slipped callback, and
\* never one that the sweep would have to keep.
Drained ==
    /\ pc = "done" /\ exec = <<>> /\ notes = <<>>
    /\ \A t \in Txs : relay[t] \in {"idle", "ended"}
SlotsAreReleased ==
    Drained => /\ pending \cap open = {}
               /\ \A c \in pending : c[2] \in astray
               /\ \A e \in live : e[2] \in astray

\* Every PUT ends, whatever peers, connections and channels do, and in the end
\* no slot is left in pending_op_results.
PutEndsClean == <>[](pc = "done" /\ pending = {})
=============================================================================
