---------------------------- MODULE ClientResults ----------------------------
(***************************************************************************)
(* The way of a client request through the node and of its result back:    *)
(* process_open_request (client_events.rs), the RequestRouter that lets    *)
(* identical requests share one operation (node/request_router.rs), the    *)
(* spawn of the operation's task behind the shutdown gate, its end         *)
(* (send_client_result, completed), the ResultRouter and the SessionActor  *)
(* (client_events/), and ShutdownHandle (node.rs).                         *)
(*                                                                         *)
(* The requests, the operations' tasks, the result router, the session     *)
(* actor and the shutdown run concurrently.  A step is what one of them    *)
(* does between two awaits, or with one shard of a DashMap.  A request     *)
(* makes at most one Transaction, so a transaction is named by the request *)
(* that made it.  What an operation does is not modelled: it runs and      *)
(* ends.                                                                   *)
(***************************************************************************)
EXTENDS Integers, Sequences, FiniteSets

CONSTANTS Request, Client, Resource,
          ClientOf,               \* who sent a request
          ResourceOf,             \* what a request is about
          NoResource, NoTx, NoRequest,
          MAX_PENDING_RESULTS,    \* results the session actor caches
          ResultCapacity,         \* of the channel to the result router
          SessionCapacity         \* of the channel to the session actor

ASSUME ClientResultsConstants ==
    /\ ClientOf \in [Request -> Client]
    /\ NoResource \notin Resource
    /\ ResourceOf \in [Request -> Resource]
    /\ NoTx \notin Request /\ NoRequest \notin Request
    /\ IsFiniteSet(Request)
    /\ MAX_PENDING_RESULTS \in Nat \ {0}
    /\ ResultCapacity \in Nat \ {0}
    /\ SessionCapacity \in Nat \ {0}

Tx == Request

VARIABLES
    resource_to_transaction, transaction_to_resource, transaction_waiters,
    entry,                   \* the request holding a resource's map entry
    req,                     \* where each request's future is
    reqTx,                   \* the transaction it was given
    op,                      \* where each transaction's operation is
    guards,                  \* transactions whose ClientOpGuard is alive
    inflight_client_ops, shutting_down, shutdown,
    results,                 \* channel to the result router
    carried,                 \* the result the router is forwarding
    inbox,                   \* channel to the session actor
    client_transactions, client_request_ids,
    pending_results,         \* transactions with a cached result
    delivered_clients,       \* of each cached result
    older,                   \* <<t, u>>: t was accessed before u
    heard,                   \* history: requests the session actor was told of
    answers,                 \* history: answers each request got
    lost,                    \* history: results a full channel dropped
    resulted,                \* history: results the session actor got
    missed                   \* history: requests registered after the result
                             \*          had left the cache

routerVars == <<resource_to_transaction, transaction_to_resource,
                transaction_waiters, entry>>
gateVars == <<guards, inflight_client_ops, shutting_down, shutdown>>
cacheVars == <<pending_results, delivered_clients, older>>
sessionVars == <<client_transactions, client_request_ids, cacheVars>>
history == <<heard, answers, lost, resulted, missed>>
vars == <<routerVars, req, reqTx, op, gateVars, results, carried, inbox,
          sessionVars, history>>

ClientResultsInit ==
    /\ resource_to_transaction = [s \in Resource |-> NoTx]
    /\ transaction_to_resource = [t \in Tx |-> NoResource]
    /\ transaction_waiters = [t \in Tx |-> {}]
    /\ entry = [s \in Resource |-> NoRequest]
    /\ req = [r \in Request |-> "open"]
    /\ reqTx = [r \in Request |-> NoTx]
    /\ op = [t \in Tx |-> "none"]
    /\ guards = {}
    /\ inflight_client_ops = 0
    /\ shutting_down = FALSE
    /\ shutdown = "idle"
    /\ results = <<>>
    /\ carried = NoTx
    /\ inbox = <<>>
    /\ client_transactions = [t \in Tx |-> {}]
    /\ client_request_ids = [t \in Tx |-> [c \in Client |-> NoRequest]]
    /\ pending_results = {}
    /\ delivered_clients = [t \in Tx |-> {}]
    /\ older = {}
    /\ heard = {}
    /\ answers = [r \in Request |-> 0]
    /\ lost = {}
    /\ resulted = {}
    /\ missed = {}

-----------------------------------------------------------------------------
(***************************************************************************)
(* RequestRouter::route_request.  It keeps the resource's map entry locked *)
(* throughout, but not transaction_to_resource: a completing operation can *)
(* remove its reverse mapping between the look-up and the join.            *)
(***************************************************************************)

\* An operation is created: no entry, or one whose transaction has completed.
RouteNew(r) ==
    LET s == ResourceOf[r]
        old == resource_to_transaction[s]
    IN  /\ req[r] = "open"
        /\ entry[s] = NoRequest
        /\ old # NoTx => transaction_to_resource[old] = NoResource
        /\ resource_to_transaction' = [resource_to_transaction EXCEPT ![s] = r]
        /\ transaction_to_resource' = [transaction_to_resource EXCEPT ![r] = s]
        /\ transaction_waiters' = [transaction_waiters EXCEPT ![r] = {r}]
        /\ reqTx' = [reqTx EXCEPT ![r] = r]
        /\ req' = [req EXCEPT ![r] = "register"]
        /\ UNCHANGED <<entry, op, gateVars, results, carried, inbox,
                       sessionVars, history>>

\* The entry's transaction is still active ...
RouteFound(r) ==
    LET s == ResourceOf[r]
        old == resource_to_transaction[s]
    IN  /\ req[r] = "open"
        /\ entry[s] = NoRequest
        /\ old # NoTx
        /\ transaction_to_resource[old] # NoResource
        /\ entry' = [entry EXCEPT ![s] = r]
        /\ reqTx' = [reqTx EXCEPT ![r] = old]
        /\ req' = [req EXCEPT ![r] = "join"]
        /\ UNCHANGED <<resource_to_transaction, transaction_to_resource,
                       transaction_waiters, op, gateVars, results, carried,
                       inbox, sessionVars, history>>

\* ... so the client joins its waiters, and the entry is released.
RouteJoin(r) ==
    /\ req[r] = "join"
    /\ transaction_waiters' = [transaction_waiters EXCEPT ![reqTx[r]] = @ \cup {r}]
    /\ entry' = [entry EXCEPT ![ResourceOf[r]] = NoRequest]
    /\ req' = [req EXCEPT ![r] = "register"]
    /\ UNCHANGED <<resource_to_transaction, transaction_to_resource, reqTx, op,
                   gateVars, results, carried, inbox, sessionVars, history>>

\* Only an UPDATE is routed; GET, PUT and SUBSCRIBE make their own transaction.
DirectTransaction(r) ==
    /\ req[r] = "open"
    /\ reqTx' = [reqTx EXCEPT ![r] = r]
    /\ req' = [req EXCEPT ![r] = "register"]
    /\ UNCHANGED <<routerVars, op, gateVars, results, carried, inbox,
                   sessionVars, history>>

\* An early return of process_open_request (peer not joined, served from the
\* local copy, refused): the client is answered by the request's own future.
AnsweredAtOnce(r) ==
    /\ req[r] = "open"
    /\ answers' = [answers EXCEPT ![r] = @ + 1]
    /\ req' = [req EXCEPT ![r] = "done"]
    /\ UNCHANGED <<routerVars, reqTx, op, gateVars, results, carried, inbox,
                   sessionVars, heard, lost, resulted, missed>>

-----------------------------------------------------------------------------
(***************************************************************************)
(* waiting_for_transaction_result: two sends, each with a timeout; then    *)
(* the request that made the transaction starts its operation.             *)
(***************************************************************************)

\* The first send timed out: the client gets an error, and nothing is started.
RegisterFails(r) ==
    /\ req[r] = "register"
    /\ answers' = [answers EXCEPT ![r] = @ + 1]
    /\ req' = [req EXCEPT ![r] = "done"]
    /\ UNCHANGED <<routerVars, reqTx, op, gateVars, results, carried, inbox,
                   sessionVars, heard, lost, resulted, missed>>

AfterRegistration(r) == [req EXCEPT ![r] = IF reqTx[r] = r THEN "start" ELSE "done"]

notify_session_actor(r) ==
    /\ req[r] = "register"
    /\ Len(inbox) < SessionCapacity
    /\ inbox' = Append(inbox, [type |-> "RegisterTransaction",
                               tx |-> reqTx[r], request |-> r])
    /\ heard' = heard \cup {r}
    /\ req' = AfterRegistration(r)
    /\ UNCHANGED <<routerVars, reqTx, op, gateVars, results, carried,
                   sessionVars, answers, lost, resulted, missed>>

\* The session actor's channel stayed full: the request goes on all the same.
NotifyTimesOut(r) ==
    /\ req[r] = "register"
    /\ Len(inbox) = SessionCapacity
    /\ req' = AfterRegistration(r)
    /\ UNCHANGED <<routerVars, reqTx, op, gateVars, results, carried, inbox,
                   sessionVars, history>>

\* Mutant: the operation is started all the same.
ListenerFails_GoesOn(r) ==
    /\ req[r] = "start"
    /\ op[r] = "none"
    /\ transaction_to_resource[r] = NoResource
    /\ answers' = [answers EXCEPT ![r] = @ + 1]
    /\ op' = [op EXCEPT ![r] = "result"]
    /\ req' = [req EXCEPT ![r] = "done"]
    /\ UNCHANGED <<routerVars, reqTx, gateVars, results, carried, inbox,
                   sessionVars, heard, lost, resulted, missed>>

\* A subscription listener could not be registered: the client gets an error.
ListenerFails(r) ==
    /\ req[r] = "start"
    /\ op[r] = "none"
    /\ transaction_to_resource[r] = NoResource
    /\ answers' = [answers EXCEPT ![r] = @ + 1]
    /\ req' = [req EXCEPT ![r] = "done"]
    /\ UNCHANGED <<routerVars, reqTx, op, gateVars, results, carried, inbox,
                   sessionVars, heard, lost, resulted, missed>>

\* The contract is banned, or its WASM a debug build: report_op_init_error.
StartRefused(r) ==
    /\ req[r] = "start"
    /\ op[r] = "none"
    /\ op' = [op EXCEPT ![r] = "result"]
    /\ req' = [req EXCEPT ![r] = "done"]
    /\ UNCHANGED <<routerVars, reqTx, gateVars, results, carried, inbox,
                   sessionVars, history>>

\* admit_client_op counts the operation before it looks at the gate.
AdmitBumps(r) ==
    /\ req[r] = "start"
    /\ op[r] = "none"
    /\ inflight_client_ops' = inflight_client_ops + 1
    /\ guards' = guards \cup {r}
    /\ op' = [op EXCEPT ![r] = "bumped"]
    /\ UNCHANGED <<routerVars, req, reqTx, shutting_down, shutdown, results,
                   carried, inbox, sessionVars, history>>

\* Mutant: the guard stays with the caller and is not moved into the task.
AdmitSpawns_GuardDropped(r) ==
    /\ op[r] = "bumped"
    /\ ~shutting_down
    /\ inflight_client_ops' = inflight_client_ops - 1
    /\ guards' = guards \ {r}
    /\ op' = [op EXCEPT ![r] = "running"]
    /\ req' = [req EXCEPT ![r] = "done"]
    /\ UNCHANGED <<routerVars, reqTx, shutting_down, shutdown, results, carried,
                   inbox, sessionVars, history>>

AdmitSpawns(r) ==
    /\ op[r] = "bumped"
    /\ ~shutting_down
    /\ op' = [op EXCEPT ![r] = "running"]
    /\ req' = [req EXCEPT ![r] = "done"]
    /\ UNCHANGED <<routerVars, reqTx, gateVars, results, carried, inbox,
                   sessionVars, history>>

\* The node is shutting down: the guard is dropped and an error reported.
AdmitRejects(r) ==
    /\ op[r] = "bumped"
    /\ shutting_down
    /\ inflight_client_ops' = inflight_client_ops - 1
    /\ guards' = guards \ {r}
    /\ op' = [op EXCEPT ![r] = "result"]
    /\ req' = [req EXCEPT ![r] = "done"]
    /\ UNCHANGED <<routerVars, reqTx, shutting_down, shutdown, results, carried,
                   inbox, sessionVars, history>>

-----------------------------------------------------------------------------
(***************************************************************************)
(* The end of an operation: its result is sent, then completed cleans up,  *)
(* RequestRouter::complete_operation going through its maps one by one.    *)
(***************************************************************************)

\* The operation ends, or could not be started.  try_send: a full channel
\* drops the result.
send_client_result(t) ==
    /\ op[t] \in {"running", "result"}
    /\ IF Len(results) < ResultCapacity
       THEN results' = Append(results, t) /\ UNCHANGED lost
       ELSE lost' = lost \cup {t} /\ UNCHANGED results
    /\ op' = [op EXCEPT ![t] = "complete"]
    /\ UNCHANGED <<routerVars, req, reqTx, gateVars, carried, inbox,
                   sessionVars, heard, answers, resulted, missed>>

CompleteReverse(t) ==
    /\ op[t] = "complete"
    /\ transaction_to_resource' = [transaction_to_resource EXCEPT ![t] = NoResource]
    /\ op' = [op EXCEPT ![t] = IF transaction_to_resource[t] = NoResource
                               THEN "waiters" ELSE "unmap"]
    /\ UNCHANGED <<resource_to_transaction, transaction_waiters, entry, req,
                   reqTx, gateVars, results, carried, inbox, sessionVars, history>>

\* Mutant: the map entry is not waited for.
CompleteResource_Unlocked(t) ==
    LET s == ResourceOf[t]
    IN  /\ op[t] = "unmap"
        /\ resource_to_transaction' = [resource_to_transaction EXCEPT ![s] = NoTx]
        /\ op' = [op EXCEPT ![t] = "waiters"]
        /\ UNCHANGED <<transaction_to_resource, transaction_waiters, entry, req,
                       reqTx, gateVars, results, carried, inbox, sessionVars, history>>

\* The resource's mapping is removed, whatever transaction it names by now;
\* the map's shard is locked while a request holds the entry.
CompleteResource(t) ==
    LET s == ResourceOf[t]
    IN  /\ op[t] = "unmap"
        /\ entry[s] = NoRequest
        /\ resource_to_transaction' = [resource_to_transaction EXCEPT ![s] = NoTx]
        /\ op' = [op EXCEPT ![t] = "waiters"]
        /\ UNCHANGED <<transaction_to_resource, transaction_waiters, entry, req,
                       reqTx, gateVars, results, carried, inbox, sessionVars, history>>

\* The waiters go last, and with them the guard of an operation's task.
CompleteWaiters(t) ==
    /\ op[t] = "waiters"
    /\ transaction_waiters' = [transaction_waiters EXCEPT ![t] = {}]
    /\ op' = [op EXCEPT ![t] = "over"]
    /\ guards' = guards \ {t}
    /\ inflight_client_ops' = IF t \in guards THEN inflight_client_ops - 1
                                              ELSE inflight_client_ops
    /\ UNCHANGED <<resource_to_transaction, transaction_to_resource, entry, req,
                   reqTx, shutting_down, shutdown, results, carried, inbox,
                   sessionVars, history>>

-----------------------------------------------------------------------------
(***************************************************************************)
(* ResultRouter::run.                                                      *)
(***************************************************************************)

RouterTakes ==
    /\ carried = NoTx
    /\ results # <<>>
    /\ carried' = Head(results)
    /\ results' = Tail(results)
    /\ UNCHANGED <<routerVars, req, reqTx, op, gateVars, inbox, sessionVars, history>>

RouterForwards ==
    /\ carried # NoTx
    /\ Len(inbox) < SessionCapacity
    /\ inbox' = Append(inbox, [type |-> "DeliverHostResponse", tx |-> carried])
    /\ carried' = NoTx
    /\ UNCHANGED <<routerVars, req, reqTx, op, gateVars, results, sessionVars, history>>

\* SESSION_SEND_TIMEOUT
RouterDrops ==
    /\ carried # NoTx
    /\ Len(inbox) = SessionCapacity
    /\ lost' = lost \cup {carried}
    /\ carried' = NoTx
    /\ UNCHANGED <<routerVars, req, reqTx, op, gateVars, results, inbox,
                   sessionVars, heard, answers, resulted, missed>>

-----------------------------------------------------------------------------
(***************************************************************************)
(* SessionActor::process_message.  The clock is left out: any set of       *)
(* cached results closed under "accessed earlier" may have outlived        *)
(* PENDING_RESULT_TTL when a message is processed.                         *)
(***************************************************************************)

OldestOf(P) == {t \in P : \A u \in P : <<u, t>> \notin older}

OutlivedSets ==
    {S \in SUBSET pending_results :
        \A t \in S, u \in pending_results : <<u, t>> \in older => u \in S}

Active == {t \in Tx : \/ client_transactions[t] # {}
                      \/ \E c \in Client : client_request_ids[t][c] # NoRequest}

KeptByTtl(S) == pending_results \ (S \ Active)

\* prune_pending_results leaves P: what outlived the TTL and has no client
\* goes, then the oldest if the cache is full.
Prunes(P) ==
    \E S \in OutlivedSets :
        LET kept == KeptByTtl(S)
        IN  IF Cardinality(kept) >= MAX_PENDING_RESULTS
            THEN \E t \in OldestOf(kept) : P = kept \ {t}
            ELSE P = kept

\* pending_results becomes P, and t, a member of it, is touched.
Touched(P, t) ==
    {p \in older : p[1] \in P \ {t} /\ p[2] \in P \ {t}} \cup ((P \ {t}) \X {t})

\* deliver_result_to_clients: each recipient is answered once, for the request
\* it registered, which is then forgotten.
Answered(t, recipients, ids) ==
    [r \in Request |-> IF \E c \in recipients : ids[c] = r
                       THEN answers[r] + 1 ELSE answers[r]]

\* Mutant: the correlation of an answered request is kept.
Without_Kept(ids, clients) == ids

Without(ids, clients) == [c \in Client |-> IF c \in clients THEN NoRequest ELSE ids[c]]

SessionTakes(type) ==
    /\ inbox # <<>>
    /\ Head(inbox).type = type
    /\ inbox' = Tail(inbox)
    /\ UNCHANGED <<routerVars, req, reqTx, op, gateVars, results, carried, heard, lost>>

\* Mutant: a result that is already there is not looked for.
CachedFor_Never(t, c, P) == FALSE

\* The result is in the cache and the client did not get it yet.
CachedFor(t, c, P) == t \in P /\ c \notin delivered_clients[t]

\* A client registers; if the result is cached and it did not get it yet, it
\* is delivered at once.
RegisterTransaction(P) ==
    LET t == Head(inbox).tx
        r == Head(inbox).request
        c == ClientOf[r]
        ids == [client_request_ids[t] EXCEPT ![c] = r]
        late == CachedFor(t, c, P)
        delivered == [u \in Tx |-> IF u \in P THEN delivered_clients[u] ELSE {}]
    IN  /\ SessionTakes("RegisterTransaction")
        /\ pending_results' = P
        /\ older' = IF t \in P THEN Touched(P, t) ELSE older \cap (P \X P)
        /\ missed' = IF t \in resulted \ P THEN missed \cup {r} ELSE missed
        /\ IF late
           THEN /\ delivered_clients' = [delivered EXCEPT ![t] = @ \cup {c}]
                /\ answers' = Answered(t, {c}, ids)
                /\ client_transactions' = [client_transactions EXCEPT ![t] = @ \ {c}]
                /\ client_request_ids' = [client_request_ids EXCEPT ![t] = Without(ids, {c})]
           ELSE /\ delivered_clients' = delivered
                /\ client_transactions' = [client_transactions EXCEPT ![t] = @ \cup {c}]
                /\ client_request_ids' = [client_request_ids EXCEPT ![t] = ids]
                /\ UNCHANGED answers
        /\ UNCHANGED resulted

\* handle_result_delivery makes room for a new entry and leaves Q of P.
MakesRoom(P, t, Q) ==
    IF t \notin P /\ Cardinality(P) >= MAX_PENDING_RESULTS
    THEN \E u \in OldestOf(P) : Q = P \ {u}
    ELSE Q = P

Recipients(t, P) ==
    client_transactions[t] \ (IF t \in P THEN delivered_clients[t] ELSE {})

\* The result goes to the clients waiting for it, and is cached for those
\* that register later.
handle_result_delivery(P) ==
    LET t == Head(inbox).tx
        recipients == Recipients(t, P)
    IN  /\ SessionTakes("DeliverHostResponse")
        /\ \E Q \in SUBSET P :
               /\ MakesRoom(P, t, Q)
               /\ pending_results' = Q \cup {t}
               /\ older' = Touched(Q \cup {t}, t)
               /\ delivered_clients' =
                      [u \in Tx |-> (IF u \in Q THEN delivered_clients[u] ELSE {})
                                    \cup (IF u = t THEN recipients ELSE {})]
        /\ answers' = Answered(t, recipients, client_request_ids[t])
        /\ resulted' = resulted \cup {t}
        /\ UNCHANGED missed
        /\ client_transactions' = [client_transactions EXCEPT ![t] = {}]
        /\ client_request_ids' = [client_request_ids EXCEPT ![t] = Without(@, recipients)]

process_message ==
    \E P \in SUBSET pending_results :
        /\ Prunes(P)
        /\ RegisterTransaction(P) \/ handle_result_delivery(P)

-----------------------------------------------------------------------------
(***************************************************************************)
(* ShutdownHandle::shutdown: close the gate, wait until no operation is in *)
(* flight or drain_timeout, disconnect.                                    *)
(***************************************************************************)

ShutdownStep(from, to) ==
    /\ shutdown = from
    /\ shutdown' = to
    /\ UNCHANGED <<routerVars, req, reqTx, op, guards, inflight_client_ops, results,
                   carried, inbox, sessionVars, history>>

CloseAdmission ==
    /\ ShutdownStep("idle", "draining")
    /\ shutting_down' = TRUE

DrainDone ==
    /\ ShutdownStep("draining", "drained")
    /\ inflight_client_ops = 0
    /\ UNCHANGED shutting_down

DrainTimesOut ==
    /\ ShutdownStep("draining", "cut")
    /\ inflight_client_ops # 0
    /\ UNCHANGED shutting_down

-----------------------------------------------------------------------------
RequestStep(r) ==
    \/ RouteNew(r) \/ RouteFound(r) \/ RouteJoin(r) \/ DirectTransaction(r)
    \/ notify_session_actor(r) \/ NotifyTimesOut(r)
    \/ AdmitBumps(r) \/ AdmitSpawns(r) \/ AdmitRejects(r)

RequestFails(r) ==
    AnsweredAtOnce(r) \/ RegisterFails(r) \/ ListenerFails(r) \/ StartRefused(r)

OperationStep(t) ==
    \/ send_client_result(t)
    \/ CompleteReverse(t) \/ CompleteResource(t) \/ CompleteWaiters(t)

RouterStep == RouterTakes \/ RouterForwards \/ RouterDrops

ClientResultsNext ==
    \/ \E r \in Request : RequestStep(r) \/ RequestFails(r) \/ OperationStep(r)
    \/ RouterStep
    \/ process_message
    \/ CloseAdmission \/ DrainDone \/ DrainTimesOut

ClientResultsSpec == ClientResultsInit /\ [][ClientResultsNext]_vars

\* Every task is run as long as it can go on: Tokio polls what is ready, every
\* await here is a channel with a timeout, and an operation's own waits are
\* bounded (OPERATION_TTL).  A request may be refused at any point.
FairClientResultsSpec ==
    /\ ClientResultsSpec
    /\ \A r \in Request : WF_vars(RequestStep(r)) /\ WF_vars(OperationStep(r))
    /\ WF_vars(RouterStep)
    /\ WF_vars(process_message)

-----------------------------------------------------------------------------
Message ==
    [type : {"RegisterTransaction"}, tx : Tx, request : Request]
        \cup [type : {"DeliverHostResponse"}, tx : Tx]

\* The types, proved in ClientResultsProofs.  The comments of the session actor
\* let its cache exceed MAX_PENDING_RESULTS for a while; both places that insert
\* evict first, so it never does.
ClientResultsTypeOK ==
    /\ resource_to_transaction \in [Resource -> Tx \cup {NoTx}]
    /\ transaction_to_resource \in [Tx -> Resource \cup {NoResource}]
    /\ transaction_waiters \in [Tx -> SUBSET Request]
    /\ entry \in [Resource -> Request \cup {NoRequest}]
    /\ req \in [Request -> {"open", "join", "register", "start", "done"}]
    /\ reqTx \in [Request -> Tx \cup {NoTx}]
    /\ op \in [Tx -> {"none", "bumped", "running", "result", "complete", "unmap",
                       "waiters", "over"}]
    /\ guards \subseteq Tx
    /\ inflight_client_ops = Cardinality(guards)
    /\ shutting_down = (shutdown # "idle")
    /\ shutdown \in {"idle", "draining", "drained", "cut"}
    /\ results \in Seq(Tx) /\ Len(results) <= ResultCapacity
    /\ carried \in Tx \cup {NoTx}
    /\ inbox \in Seq(Message) /\ Len(inbox) <= SessionCapacity
    /\ client_transactions \in [Tx -> SUBSET Client]
    /\ client_request_ids \in [Tx -> [Client -> Request \cup {NoRequest}]]
    /\ pending_results \subseteq Tx
    /\ Cardinality(pending_results) <= MAX_PENDING_RESULTS
    /\ delivered_clients \in [Tx -> SUBSET Client]
    /\ older \subseteq pending_results \X pending_results
    /\ heard \subseteq Request /\ missed \subseteq Request
    /\ lost \subseteq Tx /\ resulted \subseteq Tx
    /\ answers \in [Request -> Nat]

\* Once the drain has seen no operation in flight, none runs or will run:
\* admit_client_op counts before it looks at the gate, shutdown closes the
\* gate before it looks at the count.
NoOperationAfterDrain ==
    shutdown = "drained" => /\ \A t \in Tx : op[t] # "running"
                            /\ \A t \in guards : op[t] = "bumped"

\* A completed operation is in none of the router's maps, whatever requests
\* joined it while complete_operation went through them: a mapping left would
\* make later requests wait for it, a waiter left would never go away.
CompletionLeavesNoTrace ==
    \A t \in Tx : op[t] = "over" =>
        /\ \A s \in Resource : resource_to_transaction[s] # t
        /\ transaction_to_resource[t] = NoResource
        /\ transaction_waiters[t] = {}

\* A request is answered at most once, though its result may come by the
\* registration, by the delivery or as an error of its own future.
AnsweredAtMostOnce == \A r \in Request : answers[r] <= 1

\* The two maps of the session actor name the same waiting clients, and each
\* for a request of its own that asked for this transaction: no result goes
\* out under a made-up or another request's id.
WaitersAreCorrelated ==
    \A t \in Tx, c \in Client :
        LET r == client_request_ids[t][c]
        IN  /\ c \in client_transactions[t] <=> r # NoRequest
            /\ r # NoRequest => ClientOf[r] = c /\ reqTx[r] = t

\* Another request of the same client shares r's transaction: the session
\* actor keeps one request id per client and transaction.
Twin(r) == \E q \in Request \ {r} : ClientOf[q] = ClientOf[r] /\ reqTx[q] = reqTx[r]

\* The request that made transaction t gave up before it started the operation.
NeverStarted(t) == t \in Tx /\ op[t] = "none" /\ req[t] = "done"

\* A request the session actor was told of is answered, whether it registers
\* before the result or after it and whether it started the operation or joined
\* one that was about to complete; unless the result was dropped by a full
\* channel or had left the cache, or the operation was never started.
HeardIsAnswered ==
    \A r \in Request :
        r \in heard ~> \/ answers[r] > 0
                       \/ reqTx[r] \in lost
                       \/ r \in missed
                       \/ NeverStarted(reqTx[r])
                       \/ Twin(r)

=============================================================================
