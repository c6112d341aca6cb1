------------------------ MODULE ClientResultsProofs ------------------------
(***************************************************************************)
(* TLAPS proofs about the way of a client request through the node, for    *)
(* any number of requests, clients and resources and every capacity of the *)
(* channels and of the cache.                                              *)
(***************************************************************************)
EXTENDS ClientResults, FiniteSetTheorems, TLAPS

\* An operation that is admitted has its guard until it is over, whether or not the
\* node is shutting down.
GateOK ==
  /\ \A t \in Tx : op[t] \in {"bumped", "running"} => t \in guards
  /\ \A t \in guards : op[t] \notin {"none", "result", "over"}
  /\ NoOperationAfterDrain

\* Where a request's future and the operation it makes are.
StagesOK ==
  \A r \in Request :
    /\ req[r] \in {"join", "register", "start"} => reqTx[r] \in Tx
    /\ req[r] \in {"open", "join", "register"} =>
          op[r] = "none" /\ r \notin heard /\ answers[r] = 0
    /\ req[r] = "start" => reqTx[r] = r /\ op[r] \in {"none", "bumped"}
    /\ op[r] = "bumped" => req[r] = "start"

\* An operation is in the router's maps from its routing to its completion, and
\* complete_operation cannot go past the map entry of a request about to join.
Joinable(t) == transaction_to_resource[t] # NoResource \/ op[t] = "unmap"

RouterOK ==
  /\ \A t \in Tx : transaction_to_resource[t] # NoResource =>
        op[t] \notin {"unmap", "waiters", "over"}
  /\ \A s \in Resource : resource_to_transaction[s] # NoTx =>
        ResourceOf[resource_to_transaction[s]] = s /\ Joinable(resource_to_transaction[s])
  /\ \A s \in Resource : entry[s] # NoRequest =>
        req[entry[s]] = "join" /\ ResourceOf[entry[s]] = s
  /\ \A r \in Request : req[r] = "join" =>
        /\ entry[ResourceOf[r]] = r
        /\ ResourceOf[reqTx[r]] = ResourceOf[r] /\ Joinable(reqTx[r])
  /\ \A t \in Tx : op[t] = "over" => transaction_waiters[t] = {}

\* The result of a transaction exists once: in the channel to the router, in its hands,
\* in the session actor's inbox, or delivered; and only after the operation's end.
Ended(t) == op[t] \in {"complete", "unmap", "waiters", "over"}
IsResult(i) == inbox[i].type = "DeliverHostResponse"

ResultsOK ==
  /\ \A i \in 1..Len(results) :
        /\ Ended(results[i]) /\ results[i] \notin resulted /\ results[i] # carried
        /\ \A j \in 1..Len(results) : results[j] = results[i] => i = j
        /\ \A j \in 1..Len(inbox) : IsResult(j) => inbox[j].tx # results[i]
  /\ carried # NoTx => Ended(carried) /\ carried \notin resulted
  /\ \A i \in 1..Len(inbox) : IsResult(i) =>
        /\ Ended(inbox[i].tx) /\ inbox[i].tx \notin resulted /\ inbox[i].tx # carried
        /\ \A j \in 1..Len(inbox) : IsResult(j) /\ inbox[j].tx = inbox[i].tx => i = j
  /\ \A t \in resulted : Ended(t)
  /\ pending_results \subseteq resulted

\* A registration reaches the session actor once, and then its request is in one of
\* three states: still in the inbox, waiting under its id, or no longer known.
InInbox(r) == \E i \in 1..Len(inbox) : ~IsResult(i) /\ inbox[i].request = r

RegistrationsOK ==
  /\ \A i \in 1..Len(inbox) : ~IsResult(i) =>
        /\ inbox[i].request \in heard /\ inbox[i].tx = reqTx[inbox[i].request]
        /\ \A j \in 1..Len(inbox) : ~IsResult(j) /\ inbox[j].request = inbox[i].request => i = j
  /\ \A t \in Tx, c \in Client : client_request_ids[t][c] # NoRequest =>
        client_request_ids[t][c] \in heard /\ ~InInbox(client_request_ids[t][c])
  /\ WaitersAreCorrelated

\* An answered request gets no other answer: its own future answered it and the session
\* actor never heard of it, or its operation is never started, or its result was
\* delivered and it is no longer known.
Answerless(r) == \A t \in Tx, c \in Client : client_request_ids[t][c] # r
Finished(r) ==
  \/ r \notin heard /\ req[r] = "done"
  \/ reqTx[r] = r /\ op[r] = "none" /\ req[r] = "done"
  \/ r \in heard /\ reqTx[r] \in resulted /\ ~InInbox(r) /\ Answerless(r)

AnswersOK == \A r \in Request : answers[r] # 0 => answers[r] = 1 /\ Finished(r)

ResultsInv == /\ ClientResultsTypeOK /\ GateOK /\ StagesOK /\ RouterOK
              /\ ResultsOK /\ RegistrationsOK /\ AnswersOK
-----------------------------------------------------------------------------
\* The transaction that route_request finds is of the same resource.
LEMMA FoundIsActive ==
  ASSUME ClientResultsTypeOK, RouterOK, NEW r \in Request,
         resource_to_transaction[ResourceOf[r]] # NoTx
  PROVE  /\ ResourceOf[r] \in Resource
         /\ resource_to_transaction[ResourceOf[r]] \in Tx
         /\ ResourceOf[resource_to_transaction[ResourceOf[r]]] = ResourceOf[r]
<1>1. ResourceOf[r] \in Resource
  BY ClientResultsConstants
<1>2. QED
  BY <1>1 DEF ClientResultsTypeOK, RouterOK

\* What a message is.
LEMMA MessageFields ==
  ASSUME NEW m \in Message
  PROVE  /\ m.tx \in Tx
         /\ m.type # "DeliverHostResponse" => m.type = "RegisterTransaction" /\ m.request \in Request
BY DEF Message

\* The session actor takes the first message of its inbox.
LEMMA TakesFirst ==
  ASSUME ClientResultsTypeOK, NEW type, SessionTakes(type)
  PROVE  /\ Len(inbox) \in Nat /\ 1 \in 1..Len(inbox) /\ Len(inbox') = Len(inbox) - 1
         /\ Head(inbox) = inbox[1] /\ inbox[1] \in Message /\ inbox[1].type = type
         /\ inbox' \in Seq(Message) /\ Len(inbox') <= SessionCapacity
         /\ \A i \in 1..Len(inbox') :
               /\ inbox'[i] = inbox[i + 1] /\ i + 1 \in 1..Len(inbox) /\ i + 1 # 1
               /\ IsResult(i)' <=> IsResult(i + 1)
<1>1. inbox \in Seq(Message) /\ inbox # <<>> /\ inbox' = Tail(inbox) /\ Head(inbox).type = type
  BY DEF SessionTakes, ClientResultsTypeOK
<1>2. /\ Len(inbox) \in Nat /\ 1 \in 1..Len(inbox) /\ Len(inbox') = Len(inbox) - 1
      /\ Head(inbox) = inbox[1] /\ inbox[1] \in Message
      /\ inbox' \in Seq(Message)
  BY <1>1
<1>3. Len(inbox') <= SessionCapacity
  BY <1>2, ClientResultsConstants DEF ClientResultsTypeOK
<1>4. \A i \in 1..Len(inbox') : inbox'[i] = inbox[i + 1] /\ i + 1 \in 1..Len(inbox) /\ i + 1 # 1
  BY <1>1, <1>2
<1>5. QED
  BY <1>1, <1>2, <1>3, <1>4 DEF IsResult

\* A request makes a new operation.
LEMMA RouteNewKeeps == ASSUME ResultsInv, NEW r \in Request, RouteNew(r) PROVE ResultsInv'
<1> USE ClientResultsConstants DEF ResultsInv, Tx
<1>0. UNCHANGED <<entry, op, guards, inflight_client_ops, shutting_down, shutdown, results,
   carried, inbox, client_transactions, client_request_ids, pending_results, delivered_clients,
   older, heard, answers, lost, resulted, missed>>
  BY DEF RouteNew, routerVars, gateVars, sessionVars, cacheVars, history
<1>1. ClientResultsTypeOK'
  <2>1. ResourceOf[r] \in Resource
    OBVIOUS
  <2>2. /\ resource_to_transaction' \in [Resource -> Tx \cup {NoTx}]
        /\ transaction_to_resource' \in [Tx -> Resource \cup {NoResource}]
        /\ transaction_waiters' \in [Tx -> SUBSET Request]
    BY <2>1 DEF RouteNew, ClientResultsTypeOK
  <2>3. /\ req' \in [Request -> {"open", "join", "register", "start", "done"}]
        /\ reqTx' \in [Request -> Tx \cup {NoTx}]
    BY DEF RouteNew, ClientResultsTypeOK
  <2>4. QED
    BY <1>0, <2>2, <2>3 DEF ClientResultsTypeOK
<1>2. StagesOK'
  BY <1>0 DEF RouteNew, StagesOK, ClientResultsTypeOK
<1>3. RouterOK'
  BY <1>0 DEF RouteNew, RouterOK, StagesOK, Joinable, ClientResultsTypeOK
<1>4. RegistrationsOK'
  BY <1>0 DEF RouteNew, RegistrationsOK, WaitersAreCorrelated, InInbox, IsResult, StagesOK,
     ClientResultsTypeOK
<1>5. AnswersOK'
  BY <1>0 DEF RouteNew, AnswersOK, Finished, InInbox, IsResult, Answerless, StagesOK,
     ClientResultsTypeOK
<1>6. GateOK' /\ ResultsOK'
  BY <1>0 DEF GateOK, NoOperationAfterDrain, ResultsOK, Ended, IsResult
<1>7. QED
  BY <1>1, <1>2, <1>3, <1>4, <1>5, <1>6

\* A request finds an active operation and locks the entry.
LEMMA RouteFoundKeeps == ASSUME ResultsInv, NEW r \in Request, RouteFound(r) PROVE ResultsInv'
<1> USE ClientResultsConstants DEF ResultsInv, Tx
<1>0. UNCHANGED <<resource_to_transaction, transaction_to_resource, transaction_waiters, op,
   guards, inflight_client_ops, shutting_down, shutdown, results, carried, inbox,
   client_transactions, client_request_ids, pending_results, delivered_clients, older, heard,
   answers, lost, resulted, missed>>
  BY DEF RouteFound, routerVars, gateVars, sessionVars, cacheVars, history
<1>1. ClientResultsTypeOK'
  <2> DEFINE old == resource_to_transaction[ResourceOf[r]]
  <2>1. old \in Tx /\ ResourceOf[old] = ResourceOf[r] /\ ResourceOf[r] \in Resource
    BY FoundIsActive DEF RouteFound
  <2>2. /\ reqTx' = [reqTx EXCEPT ![r] = old] /\ req' = [req EXCEPT ![r] = "join"]
        /\ entry' = [entry EXCEPT ![ResourceOf[r]] = r]
        /\ req[r] = "open" /\ entry[ResourceOf[r]] = NoRequest
        /\ transaction_to_resource[old] # NoResource
    BY DEF RouteFound
  <2> HIDE DEF old
  <2>3. /\ entry' \in [Resource -> Request \cup {NoRequest}]
        /\ req' \in [Request -> {"open", "join", "register", "start", "done"}]
        /\ reqTx' \in [Request -> Tx \cup {NoTx}]
    BY <2>1, <2>2 DEF ClientResultsTypeOK
  <2>4. QED
    BY <1>0, <2>3 DEF ClientResultsTypeOK
<1>2. StagesOK'
  <2> DEFINE old == resource_to_transaction[ResourceOf[r]]
  <2>1. old \in Tx /\ ResourceOf[old] = ResourceOf[r] /\ ResourceOf[r] \in Resource
    BY FoundIsActive DEF RouteFound
  <2>2. /\ reqTx' = [reqTx EXCEPT ![r] = old] /\ req' = [req EXCEPT ![r] = "join"]
        /\ entry' = [entry EXCEPT ![ResourceOf[r]] = r]
        /\ req[r] = "open" /\ entry[ResourceOf[r]] = NoRequest
        /\ transaction_to_resource[old] # NoResource
    BY DEF RouteFound
  <2> HIDE DEF old
  <2>3. QED
    BY <1>0, <2>1, <2>2 DEF StagesOK, ClientResultsTypeOK
<1>3. RouterOK'
  <2> DEFINE old == resource_to_transaction[ResourceOf[r]]
  <2>1. old \in Tx /\ ResourceOf[old] = ResourceOf[r] /\ ResourceOf[r] \in Resource
    BY FoundIsActive DEF RouteFound
  <2>2. /\ reqTx' = [reqTx EXCEPT ![r] = old] /\ req' = [req EXCEPT ![r] = "join"]
        /\ entry' = [entry EXCEPT ![ResourceOf[r]] = r]
        /\ req[r] = "open" /\ entry[ResourceOf[r]] = NoRequest
        /\ transaction_to_resource[old] # NoResource
    BY DEF RouteFound
  <2> HIDE DEF old
  <2>3. \A q \in Request : q # r => req'[q] = req[q] /\ reqTx'[q] = reqTx[q]
    BY <2>2 DEF ClientResultsTypeOK
  <2>4. req'[r] = "join" /\ reqTx'[r] = old /\ entry'[ResourceOf[r]] = r
    BY <2>1, <2>2 DEF ClientResultsTypeOK
  <2>5. \A s \in Resource : s # ResourceOf[r] => entry'[s] = entry[s]
    BY <2>2 DEF ClientResultsTypeOK
  <2>6. QED
    BY <1>0, <2>1, <2>2, <2>3, <2>4, <2>5 DEF RouterOK, Joinable, ClientResultsTypeOK
<1>4. RegistrationsOK'
  BY <1>0 DEF RouteFound, RegistrationsOK, WaitersAreCorrelated, InInbox, IsResult, StagesOK,
     ClientResultsTypeOK
<1>5. AnswersOK'
  BY <1>0 DEF RouteFound, AnswersOK, Finished, InInbox, IsResult, Answerless, StagesOK,
     ClientResultsTypeOK
<1>6. GateOK' /\ ResultsOK'
  BY <1>0 DEF GateOK, NoOperationAfterDrain, ResultsOK, Ended, IsResult
<1>7. QED
  BY <1>1, <1>2, <1>3, <1>4, <1>5, <1>6

\* It joins the operation's waiters.
LEMMA RouteJoinKeeps == ASSUME ResultsInv, NEW r \in Request, RouteJoin(r) PROVE ResultsInv'
<1> USE ClientResultsConstants DEF ResultsInv, Tx
<1>0. UNCHANGED <<resource_to_transaction, transaction_to_resource, reqTx, op, guards,
   inflight_client_ops, shutting_down, shutdown, results, carried, inbox, client_transactions,
   client_request_ids, pending_results, delivered_clients, older, heard, answers, lost,
   resulted, missed>>
  BY DEF RouteJoin, routerVars, gateVars, sessionVars, cacheVars, history
<1>1. ClientResultsTypeOK'
  <2>1. reqTx[r] \in Tx /\ ResourceOf[r] \in Resource
    BY DEF RouteJoin, StagesOK
  <2>2. /\ transaction_waiters' \in [Tx -> SUBSET Request]
        /\ entry' \in [Resource -> Request \cup {NoRequest}]
        /\ req' \in [Request -> {"open", "join", "register", "start", "done"}]
    BY <2>1 DEF RouteJoin, ClientResultsTypeOK
  <2>3. QED
    BY <1>0, <2>2 DEF ClientResultsTypeOK
<1>2. StagesOK'
  BY <1>0 DEF RouteJoin, StagesOK, ClientResultsTypeOK
<1>3. RouterOK'
  BY <1>0 DEF RouteJoin, RouterOK, StagesOK, Joinable, ClientResultsTypeOK
<1>4. AnswersOK'
  BY <1>0 DEF RouteJoin, AnswersOK, Finished, InInbox, IsResult, Answerless, StagesOK,
     ClientResultsTypeOK
<1>5. GateOK' /\ ResultsOK' /\ RegistrationsOK'
  BY <1>0 DEF GateOK, NoOperationAfterDrain, ResultsOK, Ended, IsResult, RegistrationsOK,
     WaitersAreCorrelated, InInbox
<1>6. QED
  BY <1>1, <1>2, <1>3, <1>4, <1>5

\* A request makes its own transaction.
LEMMA DirectTransactionKeeps == ASSUME ResultsInv, NEW r \in Request,
   DirectTransaction(r) PROVE ResultsInv'
<1> USE ClientResultsConstants DEF ResultsInv, Tx
<1>0. UNCHANGED <<resource_to_transaction, transaction_to_resource, transaction_waiters, entry,
   op, guards, inflight_client_ops, shutting_down, shutdown, results, carried, inbox,
   client_transactions, client_request_ids, pending_results, delivered_clients, older, heard,
   answers, lost, resulted, missed>>
  BY DEF DirectTransaction, routerVars, gateVars, sessionVars, cacheVars, history
<1>1. ClientResultsTypeOK'
  BY <1>0 DEF DirectTransaction, ClientResultsTypeOK, StagesOK
<1>2. StagesOK'
  BY <1>0 DEF DirectTransaction, StagesOK, ClientResultsTypeOK
<1>3. RouterOK'
  BY <1>0 DEF DirectTransaction, RouterOK, StagesOK, Joinable, ClientResultsTypeOK
<1>4. RegistrationsOK'
  BY <1>0 DEF DirectTransaction, RegistrationsOK, WaitersAreCorrelated, InInbox, IsResult,
     StagesOK, ClientResultsTypeOK
<1>5. AnswersOK'
  BY <1>0 DEF DirectTransaction, AnswersOK, Finished, InInbox, IsResult, Answerless, StagesOK,
     ClientResultsTypeOK
<1>6. GateOK' /\ ResultsOK'
  BY <1>0 DEF GateOK, NoOperationAfterDrain, ResultsOK, Ended, IsResult
<1>7. QED
  BY <1>1, <1>2, <1>3, <1>4, <1>5, <1>6

\* A request is answered at once.
LEMMA AnsweredAtOnceKeeps == ASSUME ResultsInv, NEW r \in Request,
   AnsweredAtOnce(r) PROVE ResultsInv'
<1> USE ClientResultsConstants DEF ResultsInv, Tx
<1>0. UNCHANGED <<resource_to_transaction, transaction_to_resource, transaction_waiters, entry,
   reqTx, op, guards, inflight_client_ops, shutting_down, shutdown, results, carried, inbox,
   client_transactions, client_request_ids, pending_results, delivered_clients, older, heard,
   lost, resulted, missed>>
  BY DEF AnsweredAtOnce, routerVars, gateVars, sessionVars, cacheVars, history
<1>1. ClientResultsTypeOK'
  BY <1>0 DEF AnsweredAtOnce, ClientResultsTypeOK, StagesOK
<1>2. StagesOK'
  BY <1>0 DEF AnsweredAtOnce, StagesOK, ClientResultsTypeOK
<1>3. RouterOK'
  BY <1>0 DEF AnsweredAtOnce, RouterOK, StagesOK, Joinable, ClientResultsTypeOK
<1>4. AnswersOK'
  BY <1>0 DEF AnsweredAtOnce, AnswersOK, Finished, InInbox, IsResult, Answerless, StagesOK,
     ClientResultsTypeOK
<1>5. GateOK' /\ ResultsOK' /\ RegistrationsOK'
  BY <1>0 DEF GateOK, NoOperationAfterDrain, ResultsOK, Ended, IsResult, RegistrationsOK,
     WaitersAreCorrelated, InInbox
<1>6. QED
  BY <1>1, <1>2, <1>3, <1>4, <1>5

\* The registration of a request fails.
LEMMA RegisterFailsKeeps == ASSUME ResultsInv, NEW r \in Request, RegisterFails(r) PROVE ResultsInv'
<1> USE ClientResultsConstants DEF ResultsInv, Tx
<1>0. UNCHANGED <<resource_to_transaction, transaction_to_resource, transaction_waiters, entry,
   reqTx, op, guards, inflight_client_ops, shutting_down, shutdown, results, carried, inbox,
   client_transactions, client_request_ids, pending_results, delivered_clients, older, heard,
   lost, resulted, missed>>
  BY DEF RegisterFails, routerVars, gateVars, sessionVars, cacheVars, history
<1>1. ClientResultsTypeOK'
  BY <1>0 DEF RegisterFails, ClientResultsTypeOK, StagesOK
<1>2. StagesOK'
  BY <1>0 DEF RegisterFails, StagesOK, ClientResultsTypeOK
<1>3. RouterOK'
  BY <1>0 DEF RegisterFails, RouterOK, StagesOK, Joinable, ClientResultsTypeOK
<1>4. AnswersOK'
  BY <1>0 DEF RegisterFails, AnswersOK, Finished, InInbox, IsResult, Answerless, StagesOK,
     ClientResultsTypeOK
<1>5. GateOK' /\ ResultsOK' /\ RegistrationsOK'
  BY <1>0 DEF GateOK, NoOperationAfterDrain, ResultsOK, Ended, IsResult, RegistrationsOK,
     WaitersAreCorrelated, InInbox
<1>6. QED
  BY <1>1, <1>2, <1>3, <1>4, <1>5

\* The session actor is told of a request.
LEMMA notify_session_actorKeeps == ASSUME ResultsInv, NEW r \in Request,
   notify_session_actor(r) PROVE ResultsInv'
<1> USE ClientResultsConstants DEF ResultsInv, Tx
<1>0. UNCHANGED <<resource_to_transaction, transaction_to_resource, transaction_waiters, entry,
   reqTx, op, guards, inflight_client_ops, shutting_down, shutdown, results, carried,
   client_transactions, client_request_ids, pending_results, delivered_clients, older, answers,
   lost, resulted, missed>>
  BY DEF notify_session_actor, AfterRegistration, routerVars, gateVars, sessionVars, cacheVars,
     history
<1>1. ClientResultsTypeOK'
  <2> DEFINE m == [type |-> "RegisterTransaction", tx |-> reqTx[r], request |-> r]
  <2>1. m \in Message
    BY DEF notify_session_actor, StagesOK, Message
  <2>2. inbox' = Append(inbox, m) /\ Len(inbox) < SessionCapacity
    BY DEF notify_session_actor
  <2> HIDE DEF m
  <2>3. inbox' \in Seq(Message) /\ Len(inbox') <= SessionCapacity
    BY <2>1, <2>2 DEF ClientResultsTypeOK
  <2>4. /\ heard' \subseteq Request
        /\ req' \in [Request -> {"open", "join", "register", "start", "done"}]
    BY DEF notify_session_actor, AfterRegistration, ClientResultsTypeOK
  <2>5. QED
    BY <1>0, <2>3, <2>4 DEF ClientResultsTypeOK
<1>2. StagesOK'
  BY <1>0 DEF notify_session_actor, AfterRegistration, StagesOK, ClientResultsTypeOK
<1>3. RouterOK'
  BY <1>0 DEF notify_session_actor, AfterRegistration, RouterOK, StagesOK, Joinable,
     ClientResultsTypeOK
<1>4. ResultsOK'
  BY <1>0 DEF notify_session_actor, AfterRegistration, ResultsOK, Ended, IsResult,
     ClientResultsTypeOK
<1>5. RegistrationsOK'
  BY <1>0, SMTT(30) DEF notify_session_actor, AfterRegistration, RegistrationsOK, WaitersAreCorrelated,
     InInbox, IsResult, StagesOK, ClientResultsTypeOK
<1>6. AnswersOK'
  BY <1>0 DEF notify_session_actor, AfterRegistration, AnswersOK, Finished, InInbox, IsResult,
     Answerless, StagesOK, ClientResultsTypeOK
<1>7. GateOK'
  BY <1>0 DEF GateOK, NoOperationAfterDrain
<1>8. QED
  BY <1>1, <1>2, <1>3, <1>4, <1>5, <1>6, <1>7

\* The session actor is not told of a request.
LEMMA NotifyTimesOutKeeps == ASSUME ResultsInv, NEW r \in Request,
   NotifyTimesOut(r) PROVE ResultsInv'
<1> USE ClientResultsConstants DEF ResultsInv, Tx
<1>0. UNCHANGED <<resource_to_transaction, transaction_to_resource, transaction_waiters, entry,
   reqTx, op, guards, inflight_client_ops, shutting_down, shutdown, results, carried, inbox,
   client_transactions, client_request_ids, pending_results, delivered_clients, older, heard,
   answers, lost, resulted, missed>>
  BY DEF NotifyTimesOut, AfterRegistration, routerVars, gateVars, sessionVars, cacheVars, history
<1>1. ClientResultsTypeOK'
  BY <1>0 DEF NotifyTimesOut, AfterRegistration, ClientResultsTypeOK, StagesOK
<1>2. StagesOK'
  BY <1>0 DEF NotifyTimesOut, AfterRegistration, StagesOK, ClientResultsTypeOK
<1>3. RouterOK'
  BY <1>0 DEF NotifyTimesOut, AfterRegistration, RouterOK, StagesOK, Joinable, ClientResultsTypeOK
<1>4. AnswersOK'
  BY <1>0 DEF NotifyTimesOut, AfterRegistration, AnswersOK, Finished, InInbox, IsResult,
     Answerless, StagesOK, ClientResultsTypeOK
<1>5. GateOK' /\ ResultsOK' /\ RegistrationsOK'
  BY <1>0 DEF GateOK, NoOperationAfterDrain, ResultsOK, Ended, IsResult, RegistrationsOK,
     WaitersAreCorrelated, InInbox
<1>6. QED
  BY <1>1, <1>2, <1>3, <1>4, <1>5

\* A subscription listener cannot be registered.
LEMMA ListenerFailsKeeps == ASSUME ResultsInv, NEW r \in Request, ListenerFails(r) PROVE ResultsInv'
<1> USE ClientResultsConstants DEF ResultsInv, Tx
<1>0. UNCHANGED <<resource_to_transaction, transaction_to_resource, transaction_waiters, entry,
   reqTx, op, guards, inflight_client_ops, shutting_down, shutdown, results, carried, inbox,
   client_transactions, client_request_ids, pending_results, delivered_clients, older, heard,
   lost, resulted, missed>>
  BY DEF ListenerFails, routerVars, gateVars, sessionVars, cacheVars, history
<1>1. ClientResultsTypeOK'
  BY <1>0 DEF ListenerFails, ClientResultsTypeOK, StagesOK
<1>2. StagesOK'
  BY <1>0 DEF ListenerFails, StagesOK, ClientResultsTypeOK
<1>3. RouterOK'
  BY <1>0 DEF ListenerFails, RouterOK, StagesOK, Joinable, ClientResultsTypeOK
<1>4. AnswersOK'
  <2>1. reqTx[r] = r /\ op[r] = "none" /\ req[r] = "start"
    BY DEF ListenerFails, StagesOK
  <2>2. r \notin resulted
    BY <2>1 DEF ResultsOK, Ended
  <2>3. answers[r] = 0
    <3>1. CASE answers[r] # 0
      <4>1. Finished(r)
        BY <3>1 DEF AnswersOK
      <4>2. QED
        BY <2>1, <2>2, <4>1 DEF Finished
    <3>2. QED
      BY <3>1
  <2>4. answers'[r] = 1 /\ req'[r] = "done"
    BY <2>3 DEF ListenerFails, ClientResultsTypeOK
  <2>5. \A q \in Request : q # r => answers'[q] = answers[q] /\ req'[q] = req[q]
    BY DEF ListenerFails, ClientResultsTypeOK
  <2>6. QED
    BY <1>0, <2>1, <2>4, <2>5 DEF AnswersOK, Finished, InInbox, IsResult, Answerless
<1>5. GateOK' /\ ResultsOK' /\ RegistrationsOK'
  BY <1>0 DEF GateOK, NoOperationAfterDrain, ResultsOK, Ended, IsResult, RegistrationsOK,
     WaitersAreCorrelated, InInbox
<1>6. QED
  BY <1>1, <1>2, <1>3, <1>4, <1>5

\* An operation is refused.
LEMMA StartRefusedKeeps == ASSUME ResultsInv, NEW r \in Request, StartRefused(r) PROVE ResultsInv'
<1> USE ClientResultsConstants DEF ResultsInv, Tx
<1>0. UNCHANGED <<resource_to_transaction, transaction_to_resource, transaction_waiters, entry,
   reqTx, guards, inflight_client_ops, shutting_down, shutdown, results, carried, inbox,
   client_transactions, client_request_ids, pending_results, delivered_clients, older, heard,
   answers, lost, resulted, missed>>
  BY DEF StartRefused, routerVars, gateVars, sessionVars, cacheVars, history
<1>1. ClientResultsTypeOK'
  BY <1>0 DEF StartRefused, ClientResultsTypeOK, StagesOK
<1>2. GateOK'
  BY <1>0 DEF StartRefused, GateOK, NoOperationAfterDrain, ClientResultsTypeOK
<1>3. StagesOK'
  BY <1>0 DEF StartRefused, StagesOK, ClientResultsTypeOK
<1>4. RouterOK'
  BY <1>0 DEF StartRefused, RouterOK, StagesOK, Joinable, ClientResultsTypeOK
<1>5. ResultsOK'
  BY <1>0 DEF StartRefused, ResultsOK, Ended, IsResult, ClientResultsTypeOK
<1>6. AnswersOK'
  BY <1>0 DEF StartRefused, AnswersOK, Finished, InInbox, IsResult, Answerless, StagesOK,
     ClientResultsTypeOK
<1>7. RegistrationsOK'
  BY <1>0 DEF RegistrationsOK, WaitersAreCorrelated, InInbox, IsResult
<1>8. QED
  BY <1>1, <1>2, <1>3, <1>4, <1>5, <1>6, <1>7

\* An operation is counted.
LEMMA AdmitBumpsKeeps == ASSUME ResultsInv, NEW r \in Request, AdmitBumps(r) PROVE ResultsInv'
<1> USE ClientResultsConstants DEF ResultsInv, Tx
<1>0. UNCHANGED <<resource_to_transaction, transaction_to_resource, transaction_waiters, entry,
   req, reqTx, shutting_down, shutdown, results, carried, inbox, client_transactions,
   client_request_ids, pending_results, delivered_clients, older, heard, answers, lost,
   resulted, missed>>
  BY DEF AdmitBumps, routerVars, gateVars, sessionVars, cacheVars, history
<1>1. ClientResultsTypeOK'
  <2>1. r \notin guards /\ IsFiniteSet(guards)
    BY FS_Subset DEF AdmitBumps, GateOK, ClientResultsTypeOK
  <2>2. inflight_client_ops' = Cardinality(guards')
    BY <2>1, FS_AddElement DEF AdmitBumps, ClientResultsTypeOK
  <2>3. guards' \subseteq Tx /\ op' \in [Tx -> {"none", "bumped", "running", "result",
           "complete", "unmap", "waiters", "over"}]
    BY DEF AdmitBumps, ClientResultsTypeOK
  <2>4. QED
    BY <1>0, <2>2, <2>3 DEF ClientResultsTypeOK
<1>2. GateOK'
  BY <1>0 DEF AdmitBumps, GateOK, NoOperationAfterDrain, ClientResultsTypeOK
<1>3. StagesOK'
  BY <1>0 DEF AdmitBumps, StagesOK, ClientResultsTypeOK
<1>4. RouterOK'
  BY <1>0 DEF AdmitBumps, RouterOK, StagesOK, Joinable, ClientResultsTypeOK
<1>5. ResultsOK'
  BY <1>0 DEF AdmitBumps, ResultsOK, Ended, IsResult, ClientResultsTypeOK
<1>6. AnswersOK'
  BY <1>0 DEF AdmitBumps, AnswersOK, Finished, InInbox, IsResult, Answerless, StagesOK,
     ClientResultsTypeOK
<1>7. RegistrationsOK'
  BY <1>0 DEF RegistrationsOK, WaitersAreCorrelated, InInbox, IsResult
<1>8. QED
  BY <1>1, <1>2, <1>3, <1>4, <1>5, <1>6, <1>7

\* An operation is spawned.
LEMMA AdmitSpawnsKeeps == ASSUME ResultsInv, NEW r \in Request, AdmitSpawns(r) PROVE ResultsInv'
<1> USE ClientResultsConstants DEF ResultsInv, Tx
<1>0. UNCHANGED <<resource_to_transaction, transaction_to_resource, transaction_waiters, entry,
   reqTx, guards, inflight_client_ops, shutting_down, shutdown, results, carried, inbox,
   client_transactions, client_request_ids, pending_results, delivered_clients, older, heard,
   answers, lost, resulted, missed>>
  BY DEF AdmitSpawns, routerVars, gateVars, sessionVars, cacheVars, history
<1>1. ClientResultsTypeOK'
  BY <1>0 DEF AdmitSpawns, ClientResultsTypeOK, StagesOK
<1>2. GateOK'
  BY <1>0 DEF AdmitSpawns, GateOK, NoOperationAfterDrain, ClientResultsTypeOK
<1>3. StagesOK'
  BY <1>0 DEF AdmitSpawns, StagesOK, ClientResultsTypeOK
<1>4. RouterOK'
  BY <1>0 DEF AdmitSpawns, RouterOK, StagesOK, Joinable, ClientResultsTypeOK
<1>5. ResultsOK'
  BY <1>0 DEF AdmitSpawns, ResultsOK, Ended, IsResult, ClientResultsTypeOK
<1>6. AnswersOK'
  BY <1>0 DEF AdmitSpawns, AnswersOK, Finished, InInbox, IsResult, Answerless, StagesOK,
     ClientResultsTypeOK
<1>7. RegistrationsOK'
  BY <1>0 DEF RegistrationsOK, WaitersAreCorrelated, InInbox, IsResult
<1>8. QED
  BY <1>1, <1>2, <1>3, <1>4, <1>5, <1>6, <1>7

\* An operation is rejected by the shutdown gate.
LEMMA AdmitRejectsKeeps == ASSUME ResultsInv, NEW r \in Request, AdmitRejects(r) PROVE ResultsInv'
<1> USE ClientResultsConstants DEF ResultsInv, Tx
<1>0. UNCHANGED <<resource_to_transaction, transaction_to_resource, transaction_waiters, entry,
   reqTx, shutting_down, shutdown, results, carried, inbox, client_transactions,
   client_request_ids, pending_results, delivered_clients, older, heard, answers, lost,
   resulted, missed>>
  BY DEF AdmitRejects, routerVars, gateVars, sessionVars, cacheVars, history
<1>1. ClientResultsTypeOK'
  <2>1. r \in guards /\ IsFiniteSet(guards)
    BY FS_Subset DEF AdmitRejects, GateOK, ClientResultsTypeOK
  <2>2. Cardinality(guards \ {r}) = Cardinality(guards) - 1
    BY <2>1, FS_RemoveElement
  <2>3. inflight_client_ops' = Cardinality(guards')
    BY <2>2 DEF AdmitRejects, ClientResultsTypeOK
  <2>4. /\ guards' \subseteq Tx
        /\ op' \in [Tx -> {"none", "bumped", "running", "result", "complete", "unmap",
                           "waiters", "over"}]
        /\ req' \in [Request -> {"open", "join", "register", "start", "done"}]
    BY DEF AdmitRejects, ClientResultsTypeOK
  <2>5. QED
    BY <1>0, <2>3, <2>4 DEF ClientResultsTypeOK
<1>2. GateOK'
  BY <1>0 DEF AdmitRejects, GateOK, NoOperationAfterDrain, ClientResultsTypeOK
<1>3. StagesOK'
  BY <1>0 DEF AdmitRejects, StagesOK, ClientResultsTypeOK
<1>4. RouterOK'
  BY <1>0 DEF AdmitRejects, RouterOK, StagesOK, Joinable, ClientResultsTypeOK
<1>5. ResultsOK'
  BY <1>0 DEF AdmitRejects, ResultsOK, Ended, IsResult, ClientResultsTypeOK
<1>6. AnswersOK'
  BY <1>0 DEF AdmitRejects, AnswersOK, Finished, InInbox, IsResult, Answerless, StagesOK,
     ClientResultsTypeOK
<1>7. RegistrationsOK'
  BY <1>0 DEF RegistrationsOK, WaitersAreCorrelated, InInbox, IsResult
<1>8. QED
  BY <1>1, <1>2, <1>3, <1>4, <1>5, <1>6, <1>7

\* An operation ends and sends its result.
LEMMA send_client_resultKeeps == ASSUME ResultsInv, NEW r \in Request,
   send_client_result(r) PROVE ResultsInv'
<1> USE ClientResultsConstants DEF ResultsInv, Tx
<1>0. UNCHANGED <<resource_to_transaction, transaction_to_resource, transaction_waiters, entry,
   req, reqTx, guards, inflight_client_ops, shutting_down, shutdown, carried, inbox,
   client_transactions, client_request_ids, pending_results, delivered_clients, older, heard,
   answers, resulted, missed>>
  BY DEF send_client_result, routerVars, gateVars, sessionVars, cacheVars, history
<1>1. ClientResultsTypeOK'
  <2>1. op' \in [Tx -> {"none", "bumped", "running", "result", "complete", "unmap",
                        "waiters", "over"}]
    BY DEF send_client_result, ClientResultsTypeOK
  <2>2. results' \in Seq(Tx) /\ Len(results') <= ResultCapacity /\ lost' \subseteq Tx
    <3>1. CASE Len(results) < ResultCapacity
      <4>1. results' = Append(results, r) /\ lost' = lost
        BY <3>1 DEF send_client_result
      <4>2. QED
        BY <3>1, <4>1 DEF ClientResultsTypeOK
    <3>2. CASE ~(Len(results) < ResultCapacity)
      <4>1. results' = results /\ lost' = lost \cup {r}
        BY <3>2 DEF send_client_result
      <4>2. QED
        BY <4>1 DEF ClientResultsTypeOK
    <3>3. QED
      BY <3>1, <3>2
  <2>3. QED
    BY <1>0, <2>1, <2>2 DEF ClientResultsTypeOK
<1>2. GateOK'
  BY <1>0 DEF send_client_result, GateOK, NoOperationAfterDrain, ClientResultsTypeOK
<1>3. StagesOK'
  BY <1>0 DEF send_client_result, StagesOK, ClientResultsTypeOK
<1>4. RouterOK'
  BY <1>0 DEF send_client_result, RouterOK, StagesOK, Joinable, ClientResultsTypeOK
<1>5. ResultsOK'
  <2>1. /\ \A t \in Tx : Ended(t) => Ended(t)'
        /\ ~Ended(r) /\ Ended(r)'
    BY DEF send_client_result, Ended, ClientResultsTypeOK
  <2>2. CASE results' = results
    <3>1. \A i \in 1..Len(results) : results[i] \in Tx
      BY DEF ClientResultsTypeOK
    <3>2. \A i \in 1..Len(inbox) : IsResult(i) => inbox[i].tx \in Tx
      BY DEF ClientResultsTypeOK, IsResult, Message
    <3>3. (carried # NoTx => carried \in Tx) /\ resulted \subseteq Tx
      BY DEF ClientResultsTypeOK
    <3>4. QED
      BY <1>0, <2>1, <2>2, <3>1, <3>2, <3>3 DEF ResultsOK, IsResult
  <2>3. CASE results' = Append(results, r)
    <3>1. /\ Len(results') = Len(results) + 1 /\ Len(results) \in Nat
          /\ results'[Len(results) + 1] = r
          /\ \A i \in 1..Len(results) : results'[i] = results[i] /\ results[i] \in Tx
      BY <2>3 DEF ClientResultsTypeOK
    <3>2. /\ r \notin resulted /\ r # carried
          /\ \A i \in 1..Len(results) : results[i] # r
          /\ \A i \in 1..Len(inbox) : IsResult(i) => inbox[i].tx # r
      BY <2>1 DEF ResultsOK, ClientResultsTypeOK
    <3>3. ASSUME NEW i \in 1..Len(results')
          PROVE  /\ Ended(results[i])' /\ results'[i] \notin resulted /\ results'[i] # carried
                 /\ \A j \in 1..Len(results') : results'[j] = results'[i] => i = j
                 /\ \A j \in 1..Len(inbox) : IsResult(j) => inbox[j].tx # results'[i]
      <4>1. CASE i = Len(results) + 1
        BY <2>1, <3>1, <3>2, <4>1
      <4>2. CASE i \in 1..Len(results)
        BY <2>1, <3>1, <3>2, <4>2 DEF ResultsOK
      <4>3. QED
        BY <3>1, <4>1, <4>2
    <3>4. \A i \in 1..Len(inbox) : IsResult(i) => inbox[i].tx \in Tx
      BY DEF ClientResultsTypeOK, IsResult, Message
    <3>5. QED
      BY <1>0, <2>1, <3>3, <3>4 DEF ResultsOK, IsResult, ClientResultsTypeOK
  <2>4. QED
    BY <2>2, <2>3 DEF send_client_result
<1>6. AnswersOK'
  BY <1>0 DEF send_client_result, AnswersOK, Finished, InInbox, IsResult, Answerless, StagesOK,
     ClientResultsTypeOK
<1>7. RegistrationsOK'
  BY <1>0 DEF RegistrationsOK, WaitersAreCorrelated, InInbox, IsResult
<1>8. QED
  BY <1>1, <1>2, <1>3, <1>4, <1>5, <1>6, <1>7

\* complete_operation removes the reverse mapping.
LEMMA CompleteReverseKeeps == ASSUME ResultsInv, NEW r \in Request,
   CompleteReverse(r) PROVE ResultsInv'
<1> USE ClientResultsConstants DEF ResultsInv, Tx
<1>0. UNCHANGED <<resource_to_transaction, transaction_waiters, entry, req, reqTx, guards,
   inflight_client_ops, shutting_down, shutdown, results, carried, inbox, client_transactions,
   client_request_ids, pending_results, delivered_clients, older, heard, answers, lost,
   resulted, missed>>
  BY DEF CompleteReverse, routerVars, gateVars, sessionVars, cacheVars, history
<1>1. ClientResultsTypeOK'
  BY <1>0 DEF CompleteReverse, ClientResultsTypeOK, StagesOK
<1>2. GateOK'
  BY <1>0 DEF CompleteReverse, GateOK, NoOperationAfterDrain, ClientResultsTypeOK
<1>3. StagesOK'
  BY <1>0 DEF CompleteReverse, StagesOK, ClientResultsTypeOK
<1>4. RouterOK'
  BY <1>0 DEF CompleteReverse, RouterOK, StagesOK, Joinable, ClientResultsTypeOK
<1>5. ResultsOK'
  BY <1>0 DEF CompleteReverse, ResultsOK, Ended, IsResult, ClientResultsTypeOK
<1>6. AnswersOK'
  BY <1>0 DEF CompleteReverse, AnswersOK, Finished, InInbox, IsResult, Answerless, StagesOK,
     ClientResultsTypeOK
<1>7. RegistrationsOK'
  BY <1>0 DEF RegistrationsOK, WaitersAreCorrelated, InInbox, IsResult
<1>8. QED
  BY <1>1, <1>2, <1>3, <1>4, <1>5, <1>6, <1>7

\* It removes the mapping of the resource.
LEMMA CompleteResourceKeeps == ASSUME ResultsInv, NEW r \in Request,
   CompleteResource(r) PROVE ResultsInv'
<1> USE ClientResultsConstants DEF ResultsInv, Tx
<1>0. UNCHANGED <<transaction_to_resource, transaction_waiters, entry, req, reqTx, guards,
   inflight_client_ops, shutting_down, shutdown, results, carried, inbox, client_transactions,
   client_request_ids, pending_results, delivered_clients, older, heard, answers, lost,
   resulted, missed>>
  BY DEF CompleteResource, routerVars, gateVars, sessionVars, cacheVars, history
<1>1. ClientResultsTypeOK'
  <2>1. /\ op' \in [Tx -> {"none", "bumped", "running", "result", "complete", "unmap",
                           "waiters", "over"}]
        /\ resource_to_transaction' \in [Resource -> Tx \cup {NoTx}]
    BY DEF CompleteResource, ClientResultsTypeOK
  <2>2. QED
    BY <1>0, <2>1 DEF ClientResultsTypeOK
<1>2. GateOK'
  BY <1>0 DEF CompleteResource, GateOK, NoOperationAfterDrain, ClientResultsTypeOK
<1>3. StagesOK'
  BY <1>0 DEF CompleteResource, StagesOK, ClientResultsTypeOK
<1>4. RouterOK'
  BY <1>0 DEF CompleteResource, RouterOK, StagesOK, Joinable, ClientResultsTypeOK
<1>5. ResultsOK'
  BY <1>0 DEF CompleteResource, ResultsOK, Ended, IsResult, ClientResultsTypeOK
<1>6. AnswersOK'
  BY <1>0 DEF CompleteResource, AnswersOK, Finished, InInbox, IsResult, Answerless, StagesOK,
     ClientResultsTypeOK
<1>7. RegistrationsOK'
  BY <1>0 DEF RegistrationsOK, WaitersAreCorrelated, InInbox, IsResult
<1>8. QED
  BY <1>1, <1>2, <1>3, <1>4, <1>5, <1>6, <1>7

\* It removes the waiters; the guard is dropped.
LEMMA CompleteWaitersKeeps == ASSUME ResultsInv, NEW r \in Request,
   CompleteWaiters(r) PROVE ResultsInv'
<1> USE ClientResultsConstants DEF ResultsInv, Tx
<1>0. UNCHANGED <<resource_to_transaction, transaction_to_resource, entry, req, reqTx,
   shutting_down, shutdown, results, carried, inbox, client_transactions, client_request_ids,
   pending_results, delivered_clients, older, heard, answers, lost, resulted, missed>>
  BY DEF CompleteWaiters, routerVars, gateVars, sessionVars, cacheVars, history
<1>1. ClientResultsTypeOK'
  <2>1. IsFiniteSet(guards)
    BY FS_Subset DEF ClientResultsTypeOK
  <2>2. r \in guards => Cardinality(guards \ {r}) = Cardinality(guards) - 1
    BY <2>1, FS_RemoveElement
  <2>3. r \notin guards => guards \ {r} = guards
    OBVIOUS
  <2>4. inflight_client_ops' = Cardinality(guards')
    BY <2>2, <2>3 DEF CompleteWaiters, ClientResultsTypeOK
  <2>5. /\ guards' \subseteq Tx
        /\ op' \in [Tx -> {"none", "bumped", "running", "result", "complete", "unmap",
                           "waiters", "over"}]
        /\ transaction_waiters' \in [Tx -> SUBSET Request]
    BY DEF CompleteWaiters, ClientResultsTypeOK
  <2>6. QED
    BY <1>0, <2>4, <2>5 DEF ClientResultsTypeOK
<1>2. GateOK'
  BY <1>0 DEF CompleteWaiters, GateOK, NoOperationAfterDrain, ClientResultsTypeOK
<1>3. StagesOK'
  BY <1>0 DEF CompleteWaiters, StagesOK, ClientResultsTypeOK
<1>4. RouterOK'
  BY <1>0 DEF CompleteWaiters, RouterOK, StagesOK, Joinable, ClientResultsTypeOK
<1>5. ResultsOK'
  BY <1>0 DEF CompleteWaiters, ResultsOK, Ended, IsResult, ClientResultsTypeOK
<1>6. AnswersOK'
  BY <1>0 DEF CompleteWaiters, AnswersOK, Finished, InInbox, IsResult, Answerless, StagesOK,
     ClientResultsTypeOK
<1>7. RegistrationsOK'
  BY <1>0 DEF RegistrationsOK, WaitersAreCorrelated, InInbox, IsResult
<1>8. QED
  BY <1>1, <1>2, <1>3, <1>4, <1>5, <1>6, <1>7

\* The result router takes a result.
LEMMA RouterTakesKeeps == ASSUME ResultsInv, RouterTakes PROVE ResultsInv'
<1> USE ClientResultsConstants DEF ResultsInv, Tx
<1>0. UNCHANGED <<resource_to_transaction, transaction_to_resource, transaction_waiters, entry,
   req, reqTx, op, guards, inflight_client_ops, shutting_down, shutdown, inbox,
   client_transactions, client_request_ids, pending_results, delivered_clients, older, heard,
   answers, lost, resulted, missed>>
  BY DEF RouterTakes, routerVars, gateVars, sessionVars, cacheVars, history
<1>1. ClientResultsTypeOK'
  BY <1>0, SMTT(30) DEF RouterTakes, ClientResultsTypeOK, StagesOK
<1>2. ResultsOK'
  BY <1>0 DEF RouterTakes, ResultsOK, Ended, IsResult, ClientResultsTypeOK
<1>3. GateOK' /\ StagesOK' /\ RouterOK' /\ RegistrationsOK' /\ AnswersOK'
  BY <1>0 DEF GateOK, NoOperationAfterDrain, StagesOK, RouterOK, Joinable, RegistrationsOK,
     WaitersAreCorrelated, InInbox, IsResult, AnswersOK, Finished, Answerless
<1>4. QED
  BY <1>1, <1>2, <1>3

\* It forwards the result to the session actor.
LEMMA RouterForwardsKeeps == ASSUME ResultsInv, RouterForwards PROVE ResultsInv'
<1> USE ClientResultsConstants DEF ResultsInv, Tx
<1>0. UNCHANGED <<resource_to_transaction, transaction_to_resource, transaction_waiters, entry,
   req, reqTx, op, guards, inflight_client_ops, shutting_down, shutdown, results,
   client_transactions, client_request_ids, pending_results, delivered_clients, older, heard,
   answers, lost, resulted, missed>>
  BY DEF RouterForwards, routerVars, gateVars, sessionVars, cacheVars, history
<1>1. ClientResultsTypeOK'
  <2> DEFINE m == [type |-> "DeliverHostResponse", tx |-> carried]
  <2>1. m \in Message
    BY DEF RouterForwards, Message, ClientResultsTypeOK
  <2>2. inbox' = Append(inbox, m) /\ Len(inbox) < SessionCapacity /\ carried' = NoTx
    BY DEF RouterForwards
  <2> HIDE DEF m
  <2>3. inbox' \in Seq(Message) /\ Len(inbox') <= SessionCapacity
    BY <2>1, <2>2 DEF ClientResultsTypeOK
  <2>4. QED
    BY <1>0, <2>2, <2>3 DEF ClientResultsTypeOK
<1>2. ResultsOK'
  <2>1. /\ Len(inbox') = Len(inbox) + 1 /\ Len(inbox) \in Nat /\ carried \in Tx
        /\ \A i \in 1..Len(inbox) : inbox'[i] = inbox[i]
        /\ inbox'[Len(inbox) + 1] = [type |-> "DeliverHostResponse", tx |-> carried]
        /\ carried' = NoTx /\ NoTx \notin Tx
    BY DEF RouterForwards, ClientResultsTypeOK
  <2>2. \A i \in 1..Len(results) : results[i] \in Tx
    BY DEF ClientResultsTypeOK
  <2>3. \A i \in 1..Len(inbox) : IsResult(i) => inbox[i].tx \in Tx
    BY DEF ClientResultsTypeOK, IsResult, Message
  <2>4. /\ \A i \in 1..Len(inbox) : IsResult(i)' = IsResult(i)
        /\ \A t : Ended(t)' = Ended(t)
    BY <1>0, <2>1 DEF IsResult, Ended
  <2>5. ASSUME NEW i \in 1..Len(results)
        PROVE  /\ Ended(results[i])' /\ results[i] \notin resulted /\ results[i] # carried'
               /\ \A j \in 1..Len(results) : results[j] = results[i] => i = j
               /\ \A j \in 1..Len(inbox') : IsResult(j)' => inbox'[j].tx # results[i]
    BY <1>0, <2>1, <2>2, <2>4 DEF ResultsOK
  <2>6. ASSUME NEW i \in 1..Len(inbox'), IsResult(i)'
        PROVE  /\ Ended(inbox[i].tx)' /\ inbox'[i].tx \notin resulted /\ inbox'[i].tx # carried'
               /\ \A j \in 1..Len(inbox') : IsResult(j)' /\ inbox'[j].tx = inbox'[i].tx => i = j
    <3>1. CASE i = Len(inbox) + 1
      BY <1>0, <2>1, <2>4, <3>1 DEF ResultsOK, RouterForwards
    <3>2. CASE i \in 1..Len(inbox)
      BY <1>0, <2>1, <2>3, <2>4, <2>6, <3>2, SMTT(30) DEF ResultsOK, RouterForwards
    <3>3. QED
      BY <2>1, <3>1, <3>2
  <2>7. QED
    BY <1>0, <2>1, <2>4, <2>5, <2>6 DEF ResultsOK
<1>3. RegistrationsOK'
  BY <1>0 DEF RouterForwards, RegistrationsOK, WaitersAreCorrelated, InInbox, IsResult,
     StagesOK, ClientResultsTypeOK
<1>4. AnswersOK'
  BY <1>0 DEF RouterForwards, AnswersOK, Finished, InInbox, IsResult, Answerless, StagesOK,
     ClientResultsTypeOK
<1>5. GateOK' /\ StagesOK' /\ RouterOK'
  BY <1>0 DEF GateOK, NoOperationAfterDrain, StagesOK, RouterOK, Joinable
<1>6. QED
  BY <1>1, <1>2, <1>3, <1>4, <1>5

\* It drops the result.
LEMMA RouterDropsKeeps == ASSUME ResultsInv, RouterDrops PROVE ResultsInv'
<1> USE ClientResultsConstants DEF ResultsInv, Tx
<1>0. UNCHANGED <<resource_to_transaction, transaction_to_resource, transaction_waiters, entry,
   req, reqTx, op, guards, inflight_client_ops, shutting_down, shutdown, results, inbox,
   client_transactions, client_request_ids, pending_results, delivered_clients, older, heard,
   answers, resulted, missed>>
  BY DEF RouterDrops, routerVars, gateVars, sessionVars, cacheVars, history
<1>1. ClientResultsTypeOK'
  BY <1>0 DEF RouterDrops, ClientResultsTypeOK, StagesOK
<1>2. ResultsOK'
  <2>1. NoTx \notin Tx /\ carried' = NoTx
    BY DEF RouterDrops
  <2>2. \A i \in 1..Len(results) : results[i] \in Tx
    BY DEF ClientResultsTypeOK
  <2>3. \A i \in 1..Len(inbox) : IsResult(i) => inbox[i].tx \in Tx
    BY DEF ClientResultsTypeOK, IsResult, Message
  <2>4. QED
    BY <1>0, <2>1, <2>2, <2>3 DEF ResultsOK, Ended, IsResult
<1>3. GateOK' /\ StagesOK' /\ RouterOK' /\ RegistrationsOK' /\ AnswersOK'
  BY <1>0 DEF GateOK, NoOperationAfterDrain, StagesOK, RouterOK, Joinable, RegistrationsOK,
     WaitersAreCorrelated, InInbox, IsResult, AnswersOK, Finished, Answerless
<1>4. QED
  BY <1>1, <1>2, <1>3

\* The session actor registers a client.
LEMMA RegisterTransactionKeeps ==
  ASSUME ResultsInv, NEW P \in SUBSET pending_results, RegisterTransaction(P) PROVE ResultsInv'
<1> USE ClientResultsConstants DEF ResultsInv, Tx
<1> DEFINE t == Head(inbox).tx
           r == Head(inbox).request
           c == ClientOf[r]
           ids == [client_request_ids[t] EXCEPT ![c] = r]
           late == CachedFor(t, c, P)
<1>0. UNCHANGED <<resource_to_transaction, transaction_to_resource, transaction_waiters, entry,
         req, reqTx, op, guards, inflight_client_ops, shutting_down, shutdown, results, carried,
         heard, lost, resulted>>
  BY DEF RegisterTransaction, SessionTakes, routerVars, gateVars
<1>1. /\ Len(inbox) \in Nat /\ 1 \in 1..Len(inbox) /\ Len(inbox') = Len(inbox) - 1
      /\ Head(inbox) = inbox[1] /\ inbox[1] \in Message /\ inbox[1].type = "RegisterTransaction"
      /\ inbox' \in Seq(Message) /\ Len(inbox') <= SessionCapacity
      /\ \A i \in 1..Len(inbox') :
            /\ inbox'[i] = inbox[i + 1] /\ i + 1 \in 1..Len(inbox) /\ i + 1 # 1
            /\ IsResult(i)' <=> IsResult(i + 1)
  BY TakesFirst DEF RegisterTransaction
<1>2. /\ t \in Tx /\ r \in Request /\ c \in Client /\ ~IsResult(1)
      /\ r \in heard /\ reqTx[r] = t /\ inbox[1].tx = t /\ inbox[1].request = r
  BY <1>1, MessageFields DEF IsResult, RegistrationsOK
<1>3. /\ pending_results' = P
      /\ older' = IF t \in P THEN Touched(P, t) ELSE older \cap (P \X P)
      /\ missed' = IF t \in resulted \ P THEN missed \cup {r} ELSE missed
  BY DEF RegisterTransaction
<1>3a. delivered_clients' \in [Tx -> SUBSET Client]
  <2> DEFINE kept == [u \in Tx |-> IF u \in P THEN delivered_clients[u] ELSE {}]
  <2>1. kept \in [Tx -> SUBSET Client]
    BY DEF ClientResultsTypeOK
  <2>2. delivered_clients' = kept \/ delivered_clients' = [kept EXCEPT ![t] = @ \cup {c}]
    BY DEF RegisterTransaction
  <2> HIDE DEF kept, t, r
  <2>3. QED
    BY <1>2, <2>1, <2>2
<1>4. /\ ids \in [Client -> Request \cup {NoRequest}] /\ ids[c] = r
      /\ \A d \in Client : d # c => ids[d] = client_request_ids[t][d]
  BY <1>2 DEF ClientResultsTypeOK
<1>5. ASSUME late
      PROVE  /\ answers' = Answered(t, {c}, ids)
             /\ client_transactions' = [client_transactions EXCEPT ![t] = @ \ {c}]
             /\ client_request_ids' = [client_request_ids EXCEPT ![t] = Without(ids, {c})]
  BY <1>1, <1>5 DEF RegisterTransaction
<1>6. ASSUME ~late
      PROVE  /\ answers' = answers
             /\ client_transactions' = [client_transactions EXCEPT ![t] = @ \cup {c}]
             /\ client_request_ids' = [client_request_ids EXCEPT ![t] = ids]
  BY <1>1, <1>6 DEF RegisterTransaction
<1>7. /\ late => answers'[r] = answers[r] + 1
      /\ ~late => answers'[r] = answers[r]
      /\ \A q \in Request : q # r => answers'[q] = answers[q]
      /\ answers' \in [Request -> Nat]
  <2>1. answers \in [Request -> Nat]
    BY DEF ClientResultsTypeOK
  <2> HIDE DEF late, ids, t, r, c
  <2>2. CASE late
    <3>1. answers' = [q \in Request |-> IF \E d \in {c} : ids[d] = q THEN answers[q] + 1 ELSE answers[q]]
      BY <1>5, <2>2 DEF Answered
    <3>2. QED
      BY <1>2, <1>4, <2>1, <2>2, <3>1
  <2>3. CASE ~late
    BY <1>2, <1>6, <2>1, <2>3
  <2>4. QED
    BY <2>2, <2>3
<1>8. late => t \in resulted
  BY DEF CachedFor, ResultsOK
<1> HIDE DEF late, ids, t, r, c
<1>9. /\ client_request_ids' \in [Tx -> [Client -> Request \cup {NoRequest}]]
      /\ client_request_ids'[t][c] = IF late THEN NoRequest ELSE r
      /\ \A u \in Tx, d \in Client : u # t \/ d # c =>
            client_request_ids'[u][d] = client_request_ids[u][d]
  <2>0. client_request_ids \in [Tx -> [Client -> Request \cup {NoRequest}]]
    BY DEF ClientResultsTypeOK
  <2>1. CASE late
    <3>1. /\ Without(ids, {c}) \in [Client -> Request \cup {NoRequest}]
          /\ Without(ids, {c})[c] = NoRequest
          /\ \A d \in Client : d # c => Without(ids, {c})[d] = client_request_ids[t][d]
      BY <1>2, <1>4 DEF Without
    <3>2. client_request_ids' = [client_request_ids EXCEPT ![t] = Without(ids, {c})]
      BY <1>5, <2>1
    <3>3. client_request_ids'[t] = Without(ids, {c}) /\ \A u \in Tx : u # t =>
             client_request_ids'[u] = client_request_ids[u]
      BY <1>2, <2>0, <3>2
    <3>4. client_request_ids' \in [Tx -> [Client -> Request \cup {NoRequest}]]
      BY <2>0, <3>1, <3>2
    <3>5. QED
      BY <1>2, <2>1, <3>1, <3>3, <3>4
  <2>2. CASE ~late
    <3>1. client_request_ids' = [client_request_ids EXCEPT ![t] = ids]
      BY <1>6, <2>2
    <3>2. client_request_ids'[t] = ids /\ \A u \in Tx : u # t =>
             client_request_ids'[u] = client_request_ids[u]
      BY <1>2, <2>0, <3>1
    <3>3. client_request_ids' \in [Tx -> [Client -> Request \cup {NoRequest}]]
      BY <1>4, <2>0, <3>1
    <3>4. QED
      BY <1>2, <1>4, <2>2, <3>2, <3>3
  <2>3. QED
    BY <2>1, <2>2
<1>10. /\ client_transactions' \in [Tx -> SUBSET Client]
       /\ c \in client_transactions'[t] <=> ~late
       /\ \A u \in Tx, d \in Client : u # t \/ d # c =>
             (d \in client_transactions'[u] <=> d \in client_transactions[u])
  <2>1. CASE late
    BY <1>2, <1>5, <2>1 DEF ClientResultsTypeOK
  <2>2. CASE ~late
    <3>1. /\ client_transactions \in [Tx -> SUBSET Client]
          /\ client_transactions' = [client_transactions EXCEPT ![t] = @ \cup {c}]
      BY <1>6, <2>2 DEF ClientResultsTypeOK
    <3>2. QED
      BY <1>2, <2>2, <3>1
  <2>3. QED
    BY <2>1, <2>2
<1>11. ASSUME NEW q, InInbox(q)' PROVE InInbox(q) /\ q # r
  <2>1. PICK i \in 1..Len(inbox') : ~IsResult(i)' /\ inbox'[i].request = q
    BY <1>11 DEF InInbox
  <2>2. ~IsResult(i + 1) /\ inbox[i + 1].request = q /\ i + 1 \in 1..Len(inbox) /\ i + 1 # 1
    BY <1>1, <2>1
  <2>3. q # r
    BY <1>1, <1>2, <2>2 DEF RegistrationsOK
  <2>4. QED
    BY <2>2, <2>3 DEF InInbox
<1>12. ClientResultsTypeOK'
  <2>1. Cardinality(P) <= MAX_PENDING_RESULTS
    <3>1. IsFiniteSet(pending_results)
      BY FS_Subset DEF ClientResultsTypeOK
    <3>2. Cardinality(P) <= Cardinality(pending_results)
          /\ Cardinality(P) \in Nat /\ Cardinality(pending_results) \in Nat
      BY <3>1, FS_Subset, FS_CardinalityType
    <3>3. QED
      BY <3>2 DEF ClientResultsTypeOK
  <2>2. older' \subseteq P \X P
    BY <1>3 DEF Touched, ClientResultsTypeOK
  <2>3. missed' \subseteq Request
    BY <1>2, <1>3 DEF ClientResultsTypeOK
  <2>4. QED
    BY <1>0, <1>1, <1>3, <1>3a, <1>7, <1>9, <1>10, <2>1, <2>2, <2>3 DEF ClientResultsTypeOK
<1>13. StagesOK'
  BY <1>0, <1>2, <1>7 DEF StagesOK
<1>14. ResultsOK'
  <2>1. \A u : Ended(u)' <=> Ended(u)
    BY <1>0 DEF Ended
  <2>2. ASSUME NEW i \in 1..Len(inbox'), IsResult(i)'
        PROVE  /\ Ended(inbox[i].tx)' /\ inbox'[i].tx \notin resulted /\ inbox'[i].tx # carried
               /\ \A j \in 1..Len(inbox') : IsResult(j)' /\ inbox'[j].tx = inbox'[i].tx => i = j
    <3>1. /\ Ended(inbox[i + 1].tx) /\ inbox[i + 1].tx \notin resulted /\ inbox[i + 1].tx # carried
          /\ \A j \in 1..Len(inbox) : IsResult(j) /\ inbox[j].tx = inbox[i + 1].tx => i + 1 = j
      BY <1>1, <2>2 DEF ResultsOK
    <3>2. QED
      BY <1>0, <1>1, <2>1, <3>1, SMTT(30)
  <2>3. ASSUME NEW i \in 1..Len(results)
        PROVE  \A j \in 1..Len(inbox') : IsResult(j)' => inbox'[j].tx # results[i]
    BY <1>1, SMTT(30) DEF ResultsOK
  <2>4. pending_results' \subseteq resulted
    BY <1>3 DEF ResultsOK
  <2>5. QED
    BY <1>0, <2>1, <2>2, <2>3, <2>4 DEF ResultsOK
<1>15. RegistrationsOK'
  <2>1. ASSUME NEW i \in 1..Len(inbox'), ~IsResult(i)'
        PROVE  /\ inbox'[i].request \in heard /\ inbox'[i].tx = reqTx[inbox'[i].request]
               /\ \A j \in 1..Len(inbox') :
                     ~IsResult(j)' /\ inbox'[j].request = inbox'[i].request => i = j
    <3>1. /\ inbox[i + 1].request \in heard /\ inbox[i + 1].tx = reqTx[inbox[i + 1].request]
          /\ \A j \in 1..Len(inbox) :
                ~IsResult(j) /\ inbox[j].request = inbox[i + 1].request => i + 1 = j
      BY <1>1, <2>1 DEF RegistrationsOK
    <3>2. ASSUME NEW j \in 1..Len(inbox'), ~IsResult(j)', inbox'[j].request = inbox'[i].request
          PROVE  i = j
      <4>1. i + 1 = j + 1
        BY <1>1, <3>1, <3>2
      <4>2. QED
        BY <1>1, <4>1
    <3>3. QED
      BY <1>1, <3>1, <3>2
  <2>2. ASSUME NEW u \in Tx, NEW d \in Client, client_request_ids'[u][d] # NoRequest
        PROVE  client_request_ids'[u][d] \in heard /\ ~InInbox(client_request_ids[u][d])'
    <3>1. CASE u = t /\ d = c
      BY <1>2, <1>9, <1>11, <2>2, <3>1
    <3>2. CASE u # t \/ d # c
      BY <1>9, <1>11, <2>2, <3>2 DEF RegistrationsOK
    <3>3. QED
      BY <3>1, <3>2
  <2>3. WaitersAreCorrelated'
    <3>1. SUFFICES ASSUME NEW u \in Tx, NEW d \in Client
                   PROVE  /\ d \in client_transactions'[u] <=> client_request_ids'[u][d] # NoRequest
                          /\ client_request_ids'[u][d] # NoRequest =>
                                /\ ClientOf[client_request_ids'[u][d]] = d
                                /\ reqTx[client_request_ids'[u][d]] = u
      BY <1>0 DEF WaitersAreCorrelated
    <3>2. CASE u = t /\ d = c
      BY <1>2, <1>9, <1>10, <3>2 DEF c
    <3>3. CASE u # t \/ d # c
      BY <1>9, <1>10, <3>3, SMTT(30) DEF RegistrationsOK, WaitersAreCorrelated
    <3>4. QED
      BY <3>2, <3>3
  <2>4. QED
    BY <1>0, <2>1, <2>2, <2>3 DEF RegistrationsOK
<1>16. AnswersOK'
  <2>1. SUFFICES ASSUME NEW q \in Request, answers'[q] # 0 PROVE answers'[q] = 1 /\ Finished(q)'
    BY DEF AnswersOK
  <2>2. CASE q # r
    <3>1. answers[q] = answers'[q] /\ answers[q] = 1 /\ Finished(q)
      BY <1>7, <2>1, <2>2 DEF AnswersOK
    <3>2. Answerless(q) => Answerless(q)'
      BY <1>9, <2>2 DEF Answerless
    <3>3. QED
      BY <1>0, <1>11, <3>1, <3>2 DEF Finished
  <2>3. CASE q = r
    <3>1. InInbox(r)
      BY <1>1, <1>2 DEF InInbox
    <3>2. answers[r] # 0 => answers[r] = 1 /\ reqTx[r] = r /\ op[r] = "none" /\ req[r] = "done"
      BY <1>2, <3>1 DEF AnswersOK, Finished
    <3>3. t \in resulted => answers[r] = 0
      BY <1>2, <3>2 DEF ResultsOK, Ended
    <3>4. CASE late
      <4>1. answers'[r] = 1 /\ t \in resulted
        BY <1>7, <1>8, <3>3, <3>4
      <4>2. Answerless(q)'
        <5>1. ASSUME NEW u \in Tx, NEW d \in Client PROVE client_request_ids'[u][d] # q
          <6>1. CASE u = t /\ d = c
            BY <1>2, <1>9, <2>3, <3>4, <6>1
          <6>2. CASE u # t \/ d # c
            BY <1>2, <1>9, <2>3, <3>1, <6>2 DEF RegistrationsOK
          <6>3. QED
            BY <6>1, <6>2
        <5>2. QED
          BY <5>1 DEF Answerless
      <4>3. QED
        BY <1>0, <1>2, <1>11, <2>3, <4>1, <4>2 DEF Finished
    <3>5. CASE ~late
      BY <1>0, <1>7, <2>1, <2>3, <3>2, <3>5 DEF Finished
    <3>6. QED
      BY <3>4, <3>5
  <2>4. QED
    BY <2>2, <2>3
<1>17. GateOK' /\ RouterOK'
  BY <1>0 DEF GateOK, NoOperationAfterDrain, RouterOK, Joinable
<1>18. QED
  BY <1>12, <1>13, <1>14, <1>15, <1>16, <1>17

\* The session actor delivers a result.
LEMMA handle_result_deliveryKeeps ==
  ASSUME ResultsInv, NEW P \in SUBSET pending_results, handle_result_delivery(P)
  PROVE  ResultsInv'
<1> USE ClientResultsConstants DEF ResultsInv, Tx
<1> DEFINE t == Head(inbox).tx
           waiting == client_transactions[t]
<1>0. UNCHANGED <<resource_to_transaction, transaction_to_resource, transaction_waiters, entry,
         req, reqTx, op, guards, inflight_client_ops, shutting_down, shutdown, results, carried,
         heard, lost, missed>>
  BY DEF handle_result_delivery, SessionTakes, routerVars, gateVars
<1>1. /\ Len(inbox) \in Nat /\ 1 \in 1..Len(inbox) /\ Len(inbox') = Len(inbox) - 1
      /\ Head(inbox) = inbox[1] /\ inbox[1] \in Message /\ inbox[1].type = "DeliverHostResponse"
      /\ inbox' \in Seq(Message) /\ Len(inbox') <= SessionCapacity
      /\ \A i \in 1..Len(inbox') :
            /\ inbox'[i] = inbox[i + 1] /\ i + 1 \in 1..Len(inbox) /\ i + 1 # 1
            /\ IsResult(i)' <=> IsResult(i + 1)
  BY TakesFirst DEF handle_result_delivery
<1>2. /\ t \in Tx /\ IsResult(1) /\ Ended(t) /\ t \notin resulted /\ t # carried
      /\ t \notin P /\ waiting \subseteq Client /\ inbox[1].tx = t
  BY <1>1, MessageFields DEF IsResult, ResultsOK, ClientResultsTypeOK
<1>3. Recipients(t, P) = waiting
  BY <1>2 DEF Recipients
<1>4. /\ answers' = Answered(t, waiting, client_request_ids[t])
      /\ resulted' = resulted \cup {t}
      /\ client_transactions' = [client_transactions EXCEPT ![t] = {}]
      /\ client_request_ids' = [client_request_ids EXCEPT ![t] = Without(@, waiting)]
  BY <1>1, <1>3 DEF handle_result_delivery
<1>5. PICK Q \in SUBSET P :
         /\ MakesRoom(P, t, Q)
         /\ pending_results' = Q \cup {t}
         /\ older' = Touched(Q \cup {t}, t)
         /\ delivered_clients' =
               [u \in Tx |-> (IF u \in Q THEN delivered_clients[u] ELSE {})
                             \cup (IF u = t THEN Recipients(t, P) ELSE {})]
  BY DEF handle_result_delivery
<1>6. /\ client_request_ids' \in [Tx -> [Client -> Request \cup {NoRequest}]]
      /\ \A d \in Client : client_request_ids'[t][d] = NoRequest
      /\ \A u \in Tx : u # t => client_request_ids'[u] = client_request_ids[u]
  <2>1. \A d \in Client : d \notin waiting => client_request_ids[t][d] = NoRequest
    BY <1>2 DEF RegistrationsOK, WaitersAreCorrelated
  <2>2. Without(client_request_ids[t], waiting) = [d \in Client |-> NoRequest]
    BY <1>2, <2>1 DEF Without
  <2>3. QED
    BY <1>2, <1>4, <2>2 DEF ClientResultsTypeOK
<1>7. /\ client_transactions' \in [Tx -> SUBSET Client]
      /\ client_transactions'[t] = {}
      /\ \A u \in Tx : u # t => client_transactions'[u] = client_transactions[u]
  BY <1>2, <1>4 DEF ClientResultsTypeOK
<1> DEFINE hit(q) == \E d \in waiting : client_request_ids[t][d] = q
<1>8. /\ answers' \in [Request -> Nat]
      /\ \A q \in Request : answers'[q] = IF hit(q) THEN answers[q] + 1 ELSE answers[q]
  BY <1>4 DEF Answered, ClientResultsTypeOK
<1>9. ASSUME NEW q \in Request, hit(q)
      PROVE  q \in heard /\ reqTx[q] = t /\ ~InInbox(q) /\ ~Answerless(q)
  BY <1>2, <1>9 DEF RegistrationsOK, WaitersAreCorrelated, Answerless
<1>10. ASSUME NEW q, InInbox(q)' PROVE InInbox(q)
  <2>1. PICK i \in 1..Len(inbox') : ~IsResult(i)' /\ inbox'[i].request = q
    BY <1>10 DEF InInbox
  <2>2. QED
    BY <1>1, <2>1 DEF InInbox
<1>11. \A u : Ended(u)' <=> Ended(u)
  BY <1>0 DEF Ended
<1> HIDE DEF t, waiting, hit
<1>12. ClientResultsTypeOK'
  <2>1. Cardinality(Q \cup {t}) <= MAX_PENDING_RESULTS
    <3>1. IsFiniteSet(pending_results)
      BY FS_Subset DEF ClientResultsTypeOK
    <3>2. /\ IsFiniteSet(P) /\ Cardinality(P) <= Cardinality(pending_results)
          /\ Cardinality(P) \in Nat /\ Cardinality(pending_results) \in Nat
      BY <3>1, FS_Subset, FS_CardinalityType
    <3>3. IsFiniteSet(Q) /\ Cardinality(Q) \in Nat /\ t \notin Q
      BY <1>2, <3>2, FS_Subset, FS_CardinalityType
    <3>4. Cardinality(Q \cup {t}) = Cardinality(Q) + 1
      BY <3>3, FS_AddElement
    <3>5. Cardinality(Q) < MAX_PENDING_RESULTS
      <4>1. CASE Cardinality(P) >= MAX_PENDING_RESULTS
        <5>1. PICK u \in OldestOf(P) : Q = P \ {u}
          BY <1>2, <1>5, <4>1 DEF MakesRoom
        <5>2. u \in P
          BY <5>1 DEF OldestOf
        <5>3. Cardinality(Q) = Cardinality(P) - 1
          BY <3>2, <5>1, <5>2, FS_RemoveElement
        <5>4. QED
          BY <3>2, <3>3, <5>3 DEF ClientResultsTypeOK
      <4>2. CASE ~(Cardinality(P) >= MAX_PENDING_RESULTS)
        <5>1. Q = P
          BY <1>5, <4>2 DEF MakesRoom
        <5>2. QED
          BY <3>2, <4>2, <5>1
      <4>3. QED
        BY <4>1, <4>2
    <3>6. QED
      BY <3>3, <3>4, <3>5
  <2>2. /\ Q \cup {t} \subseteq Tx
        /\ Touched(Q \cup {t}, t) \subseteq (Q \cup {t}) \X (Q \cup {t})
    BY <1>2 DEF Touched, ClientResultsTypeOK
  <2>3. delivered_clients' \in [Tx -> SUBSET Client] /\ resulted' \subseteq Tx
    BY <1>2, <1>3, <1>4, <1>5 DEF ClientResultsTypeOK
  <2>4. QED
    BY <1>0, <1>1, <1>5, <1>6, <1>7, <1>8, <2>1, <2>2, <2>3 DEF ClientResultsTypeOK
<1>13. StagesOK'
  BY <1>0, <1>8, <1>9 DEF StagesOK
<1>14. ResultsOK'
  <2>1. ASSUME NEW i \in 1..Len(inbox'), IsResult(i)'
        PROVE  /\ Ended(inbox[i].tx)' /\ inbox'[i].tx \notin resulted' /\ inbox'[i].tx # carried
               /\ \A j \in 1..Len(inbox') : IsResult(j)' /\ inbox'[j].tx = inbox'[i].tx => i = j
    <3>1. /\ Ended(inbox[i + 1].tx) /\ inbox[i + 1].tx \notin resulted /\ inbox[i + 1].tx # carried
          /\ \A j \in 1..Len(inbox) : IsResult(j) /\ inbox[j].tx = inbox[i + 1].tx => i + 1 = j
      BY <1>1, <2>1 DEF ResultsOK
    <3>2. inbox[i + 1].tx # t
      BY <1>1, <1>2, <3>1
    <3>3. ASSUME NEW j \in 1..Len(inbox'), IsResult(j)', inbox'[j].tx = inbox'[i].tx
          PROVE  i = j
      <4>1. i + 1 = j + 1
        BY <1>1, <3>1, <3>3
      <4>2. QED
        BY <1>1, <4>1
    <3>4. QED
      BY <1>0, <1>1, <1>4, <1>11, <3>1, <3>2, <3>3
  <2>2. ASSUME NEW i \in 1..Len(results)
        PROVE  /\ results[i] \notin resulted'
               /\ \A j \in 1..Len(inbox') : IsResult(j)' => inbox'[j].tx # results[i]
    <3>1. results[i] # t
      BY <1>1, <1>2 DEF ResultsOK
    <3>2. QED
      BY <1>1, <1>4, <3>1 DEF ResultsOK
  <2>3. /\ pending_results' \subseteq resulted'
        /\ \A u \in resulted' : Ended(u)'
        /\ carried \notin resulted' \/ carried = NoTx
    BY <1>2, <1>4, <1>5, <1>11 DEF ResultsOK
  <2>4. QED
    BY <1>0, <1>11, <2>1, <2>2, <2>3 DEF ResultsOK
<1>15. RegistrationsOK'
  <2>1. ASSUME NEW i \in 1..Len(inbox'), ~IsResult(i)'
        PROVE  /\ inbox'[i].request \in heard /\ inbox'[i].tx = reqTx[inbox'[i].request]
               /\ \A j \in 1..Len(inbox') :
                     ~IsResult(j)' /\ inbox'[j].request = inbox'[i].request => i = j
    <3>1. /\ inbox[i + 1].request \in heard /\ inbox[i + 1].tx = reqTx[inbox[i + 1].request]
          /\ \A j \in 1..Len(inbox) :
                ~IsResult(j) /\ inbox[j].request = inbox[i + 1].request => i + 1 = j
      BY <1>1, <2>1 DEF RegistrationsOK
    <3>2. ASSUME NEW j \in 1..Len(inbox'), ~IsResult(j)', inbox'[j].request = inbox'[i].request
          PROVE  i = j
      <4>1. i + 1 = j + 1
        BY <1>1, <3>1, <3>2
      <4>2. QED
        BY <1>1, <4>1
    <3>3. QED
      BY <1>1, <3>1, <3>2
  <2>2. ASSUME NEW u \in Tx, NEW d \in Client, client_request_ids'[u][d] # NoRequest
        PROVE  client_request_ids'[u][d] \in heard /\ ~InInbox(client_request_ids[u][d])'
    BY <1>6, <1>10, <2>2 DEF RegistrationsOK
  <2>3. WaitersAreCorrelated'
    BY <1>0, <1>6, <1>7 DEF RegistrationsOK, WaitersAreCorrelated
  <2>4. QED
    BY <1>0, <2>1, <2>2, <2>3 DEF RegistrationsOK
<1>16. AnswersOK'
  <2>1. SUFFICES ASSUME NEW q \in Request, answers'[q] # 0 PROVE answers'[q] = 1 /\ Finished(q)'
    BY DEF AnswersOK
  <2>2. CASE hit(q)
    <3>1. q \in heard /\ reqTx[q] = t /\ ~InInbox(q) /\ ~Answerless(q)
      BY <1>9, <2>2
    <3>2. ~Finished(q)
      BY <1>2, <3>1 DEF Finished, Ended
    <3>3. answers[q] = 0
      BY <3>2 DEF AnswersOK
    <3>4. Answerless(q)'
      <4>1. ASSUME NEW u \in Tx, NEW d \in Client PROVE client_request_ids'[u][d] # q
        BY <1>6, <3>1 DEF RegistrationsOK, WaitersAreCorrelated
      <4>2. QED
        BY <4>1 DEF Answerless
    <3>5. QED
      BY <1>0, <1>4, <1>8, <1>10, <2>2, <3>1, <3>3, <3>4 DEF Finished
  <2>3. CASE ~hit(q)
    <3>1. answers'[q] = answers[q] /\ answers[q] = 1 /\ Finished(q)
      BY <1>8, <2>1, <2>3 DEF AnswersOK
    <3>2. Answerless(q) => Answerless(q)'
      BY <1>6 DEF Answerless
    <3>3. QED
      BY <1>0, <1>4, <1>10, <3>1, <3>2 DEF Finished
  <2>4. QED
    BY <2>2, <2>3
<1>17. GateOK' /\ RouterOK'
  BY <1>0 DEF GateOK, NoOperationAfterDrain, RouterOK, Joinable
<1>18. QED
  BY <1>12, <1>13, <1>14, <1>15, <1>16, <1>17

\* The shutdown closes the gate.
LEMMA CloseAdmissionKeeps == ASSUME ResultsInv, CloseAdmission PROVE ResultsInv'
<1> USE ClientResultsConstants DEF ResultsInv, Tx
<1>0. UNCHANGED <<resource_to_transaction, transaction_to_resource, transaction_waiters, entry,
   req, reqTx, op, guards, inflight_client_ops, results, carried, inbox, client_transactions,
   client_request_ids, pending_results, delivered_clients, older, heard, answers, lost,
   resulted, missed>>
  BY DEF CloseAdmission, ShutdownStep, routerVars, gateVars, sessionVars, cacheVars, history
<1>1. ClientResultsTypeOK'
  <2>1. shutdown = "idle" /\ shutdown' = "draining" /\ shutting_down' = TRUE
    BY DEF CloseAdmission, ShutdownStep
  <2>2. QED
    BY <1>0, <2>1 DEF ClientResultsTypeOK
<1>2. GateOK'
  BY <1>0 DEF CloseAdmission, ShutdownStep, GateOK, NoOperationAfterDrain, ClientResultsTypeOK
<1>3. StagesOK' /\ RouterOK' /\ ResultsOK' /\ RegistrationsOK' /\ AnswersOK'
  BY <1>0 DEF StagesOK, RouterOK, Joinable, ResultsOK, Ended, IsResult, RegistrationsOK,
     WaitersAreCorrelated, InInbox, AnswersOK, Finished, Answerless
<1>4. QED
  BY <1>1, <1>2, <1>3

\* The drain has seen no operation in flight.
LEMMA DrainDoneKeeps == ASSUME ResultsInv, DrainDone PROVE ResultsInv'
<1> USE ClientResultsConstants DEF ResultsInv, Tx
<1>0. UNCHANGED <<resource_to_transaction, transaction_to_resource, transaction_waiters, entry,
   req, reqTx, op, guards, inflight_client_ops, shutting_down, results, carried, inbox,
   client_transactions, client_request_ids, pending_results, delivered_clients, older, heard,
   answers, lost, resulted, missed>>
  BY DEF DrainDone, ShutdownStep, routerVars, gateVars, sessionVars, cacheVars, history
<1>1. ClientResultsTypeOK'
  BY <1>0 DEF DrainDone, ShutdownStep, ClientResultsTypeOK, StagesOK
<1>2. GateOK'
  <2>1. guards = {}
    BY FS_Subset, FS_EmptySet DEF DrainDone, ClientResultsTypeOK
  <2>2. QED
    BY <1>0, <2>1 DEF DrainDone, ShutdownStep, GateOK, NoOperationAfterDrain, ClientResultsTypeOK
<1>3. StagesOK' /\ RouterOK' /\ ResultsOK' /\ RegistrationsOK' /\ AnswersOK'
  BY <1>0 DEF StagesOK, RouterOK, Joinable, ResultsOK, Ended, IsResult, RegistrationsOK,
     WaitersAreCorrelated, InInbox, AnswersOK, Finished, Answerless
<1>4. QED
  BY <1>1, <1>2, <1>3

\* The drain gives up.
LEMMA DrainTimesOutKeeps == ASSUME ResultsInv, DrainTimesOut PROVE ResultsInv'
<1> USE ClientResultsConstants DEF ResultsInv, Tx
<1>0. UNCHANGED <<resource_to_transaction, transaction_to_resource, transaction_waiters, entry,
   req, reqTx, op, guards, inflight_client_ops, shutting_down, results, carried, inbox,
   client_transactions, client_request_ids, pending_results, delivered_clients, older, heard,
   answers, lost, resulted, missed>>
  BY DEF DrainTimesOut, ShutdownStep, routerVars, gateVars, sessionVars, cacheVars, history
<1>1. ClientResultsTypeOK'
  BY <1>0 DEF DrainTimesOut, ShutdownStep, ClientResultsTypeOK, StagesOK
<1>2. GateOK'
  BY <1>0 DEF DrainTimesOut, ShutdownStep, GateOK, NoOperationAfterDrain, ClientResultsTypeOK
<1>3. StagesOK' /\ RouterOK' /\ ResultsOK' /\ RegistrationsOK' /\ AnswersOK'
  BY <1>0 DEF StagesOK, RouterOK, Joinable, ResultsOK, Ended, IsResult, RegistrationsOK,
     WaitersAreCorrelated, InInbox, AnswersOK, Finished, Answerless
<1>4. QED
  BY <1>1, <1>2, <1>3

\* The node before the first request.
LEMMA ResultsInitOK == ClientResultsInit => ResultsInv
<1> SUFFICES ASSUME ClientResultsInit PROVE ResultsInv
  OBVIOUS
<1> USE ClientResultsConstants DEF ClientResultsInit, Tx
<1>1. ClientResultsTypeOK
  <2>1. Cardinality({}) = 0
    BY FS_EmptySet
  <2>2. <<>> \in Seq(Tx) /\ <<>> \in Seq(Message) /\ Len(<<>>) = 0
    OBVIOUS
  <2>3. /\ inflight_client_ops = Cardinality(guards)
        /\ Cardinality(pending_results) <= MAX_PENDING_RESULTS
    BY <2>1
  <2>4. shutting_down = (shutdown # "idle")
    OBVIOUS
  <2>5. /\ results \in Seq(Tx) /\ Len(results) <= ResultCapacity
        /\ inbox \in Seq(Message) /\ Len(inbox) <= SessionCapacity
    BY <2>2
  <2>6. /\ client_request_ids \in [Tx -> [Client -> Request \cup {NoRequest}]]
        /\ older \subseteq pending_results \X pending_results
    OBVIOUS
  <2>7. QED
    BY <2>3, <2>4, <2>5, <2>6 DEF ClientResultsTypeOK
<1>2. GateOK /\ StagesOK /\ RouterOK
  BY DEF GateOK, NoOperationAfterDrain, StagesOK, RouterOK
<1>3. ResultsOK /\ RegistrationsOK
  BY DEF ResultsOK, RegistrationsOK, WaitersAreCorrelated
<1>4. AnswersOK
  BY DEF AnswersOK
<1>5. QED
  BY <1>1, <1>2, <1>3, <1>4 DEF ResultsInv

\* Every step of a request, an operation, the two actors or the shutdown keeps the
\* invariant.
LEMMA ResultsNextOK == ResultsInv /\ [ClientResultsNext]_vars => ResultsInv'
<1> SUFFICES ASSUME ResultsInv, [ClientResultsNext]_vars PROVE ResultsInv'
  OBVIOUS
<1>1. ASSUME NEW r \in Request, RequestStep(r) PROVE ResultsInv'
  BY <1>1, RouteNewKeeps, RouteFoundKeeps, RouteJoinKeeps, DirectTransactionKeeps,
     notify_session_actorKeeps, NotifyTimesOutKeeps, AdmitBumpsKeeps, AdmitSpawnsKeeps,
     AdmitRejectsKeeps DEF RequestStep
<1>2. ASSUME NEW r \in Request, RequestFails(r) PROVE ResultsInv'
  BY <1>2, AnsweredAtOnceKeeps, RegisterFailsKeeps, ListenerFailsKeeps, StartRefusedKeeps
  DEF RequestFails
<1>3. ASSUME NEW r \in Request, OperationStep(r) PROVE ResultsInv'
  BY <1>3, send_client_resultKeeps, CompleteReverseKeeps, CompleteResourceKeeps,
     CompleteWaitersKeeps DEF OperationStep
<1>4. ASSUME RouterStep PROVE ResultsInv'
  BY <1>4, RouterTakesKeeps, RouterForwardsKeeps, RouterDropsKeeps DEF RouterStep
<1>5. ASSUME process_message PROVE ResultsInv'
  BY <1>5, RegisterTransactionKeeps, handle_result_deliveryKeeps DEF process_message
<1>6. CASE UNCHANGED vars
  BY <1>6 DEF vars, routerVars, gateVars, sessionVars, cacheVars, history, ResultsInv,
     ClientResultsTypeOK, GateOK, NoOperationAfterDrain, StagesOK, RouterOK, Joinable, ResultsOK,
     Ended, IsResult, RegistrationsOK, WaitersAreCorrelated, InInbox, AnswersOK, Finished,
     Answerless
<1>7. QED
  BY <1>1, <1>2, <1>3, <1>4, <1>5, <1>6, CloseAdmissionKeeps, DrainDoneKeeps, DrainTimesOutKeeps
  DEF ClientResultsNext

\* The invariant holds in every reachable state.
LEMMA ResultsInvariant == ClientResultsSpec => []ResultsInv
  BY ResultsInitOK, ResultsNextOK, PTL DEF ClientResultsSpec

\* Every variable has its type; the counter of admit_client_op is the number of live
\* guards, the session actor evicts before it caches and so never exceeds MAX_PENDING_RESULTS,
\* and the channels keep to their capacities, for all of them and any number of requests.
THEOREM ClientResultsType == ClientResultsSpec => []ClientResultsTypeOK
  BY ResultsInvariant, PTL DEF ResultsInv

\* A drain that has seen no operation in flight is final: however admit_client_op and
\* ShutdownHandle interleave, no operation runs afterwards.
THEOREM DrainIsFinal == ClientResultsSpec => []NoOperationAfterDrain
<1>1. ResultsInv => NoOperationAfterDrain
  BY DEF ResultsInv, GateOK
<1>2. QED
  BY <1>1, ResultsInvariant, PTL

\* complete_operation leaves nothing of an operation in RequestRouter's maps, whatever
\* route_request does to them between its steps.
THEOREM CompletionIsClean == ClientResultsSpec => []CompletionLeavesNoTrace
<1>1. ResultsInv => CompletionLeavesNoTrace
  BY ClientResultsConstants, SMTT(30) DEF ResultsInv, RouterOK, Joinable, CompletionLeavesNoTrace, ClientResultsTypeOK, Tx
<1>2. QED
  BY <1>1, ResultsInvariant, PTL

\* No request is answered twice, by the session actor or by its own future.
THEOREM OneAnswer == ClientResultsSpec => []AnsweredAtMostOnce
<1>1. ResultsInv => AnsweredAtMostOnce
  BY DEF ResultsInv, AnswersOK, AnsweredAtMostOnce, ClientResultsTypeOK
<1>2. QED
  BY <1>1, ResultsInvariant, PTL

\* The session actor's two maps agree, and each waiting client waits under the id of a
\* request of its own that was given this transaction.
THEOREM WaitersCorrelated == ClientResultsSpec => []WaitersAreCorrelated
<1>1. ResultsInv => WaitersAreCorrelated
  BY DEF ResultsInv, RegistrationsOK
<1>2. QED
  BY <1>1, ResultsInvariant, PTL
=============================================================================
