------------------------- MODULE ConnectionManager -------------------------
(***************************************************************************)
(* The ring's connection bookkeeping: ConnectionManager in                  *)
(* ring/connection_manager.rs together with the handlers that drive it in  *)
(* node/network_bridge/p2p_protoc/connection_lifecycle.rs.                 *)
(*                                                                         *)
(* The bookkeeping is spread over structures with a lock of their own, and *)
(* several tasks take those locks one after the other: the CONNECT tasks   *)
(* (should_accept), the one p2p event loop (establishing, promoting,       *)
(* failing and closing connections), the maintenance loop and the join     *)
(* procedure (clearing and sweeping reservations) and one sleeping task    *)
(* per transient connection.  An action is what runs under one lock, or a  *)
(* run of steps no other task can tell apart.                              *)
(*                                                                         *)
(* A ring location follows from the address, so it appears only through    *)
(* Side and Distance, what the nearest-neighbour rule reads of it.         *)
(***************************************************************************)
EXTENDS Integers, FiniteSets

CONSTANTS
    Addrs,       \* the remote socket addresses
    Gateways,    \* those of the configured gateways
    Candidates,  \* those a CONNECT task evaluates
    Strangers,   \* those that may connect without having been expected
    Tasks,       \* CONNECT tasks that evaluate a candidate
    Side,        \* the side of the own location an address lies on
    Distance,    \* and how far away
    MinConns,    \* min_connections
    MaxConns,    \* max_connections
    Slack,       \* LATTICE_OVERMAX_SLACK
    Budget,      \* transient_budget
    Word,        \* one more than usize::MAX
    IsGateway,   \* this node is a gateway
    MaxTimers    \* bound: sleeping transient timers for one address

ASSUME ConstantsAssumption ==
    /\ IsFiniteSet(Addrs)
    /\ Gateways \subseteq Addrs
    /\ Candidates \subseteq Addrs
    /\ Strangers \subseteq Addrs
    /\ Distance \in [Addrs -> Nat]
    /\ MinConns \in Nat
    /\ MaxConns \in Nat \ {0}
    /\ Slack \in Nat
    /\ Budget \in Nat
    /\ Word \in Nat /\ Word > Budget
    /\ IsGateway \in BOOLEAN
    /\ MaxTimers \in Nat

VARIABLES
    pending,                  \* pending_reservations, by age
    location_for_peer,        \* the addresses that have a location
    connections_by_location,  \* the established connections
    transients,               \* transient_connections, by age
    transient_in_use,         \* the counter kept beside them
    timers,                   \* sleeping drop_transient tasks
    owed,                     \* of those, removed but not yet subtracted
    transport,                \* the event loop's own connection map
    loop,                     \* the handler the event loop is inside
    task,                     \* the CONNECT tasks
    maint,                    \* connection_maintenance
    clear                     \* a call of clear_pending_reservations_for

ring == <<pending, location_for_peer, connections_by_location>>
budget == <<transients, transient_in_use>>
vars == <<ring, budget, timers, owed, transport, loop, task, maint, clear>>

Idle == [at |-> "idle"]

-----------------------------------------------------------------------------
(* What the code reads of the bookkeeping                                  *)

\* A bucket is a list, and an address that lost its location can be pushed
\* twice: a connection is the address and a number that tells namesakes apart.
Entries(conns, a) == {c \in conns : c[1] = a}
InRing(a) == Entries(connections_by_location, a) # {}
Pushed(conns, a) ==
    conns \cup {CHOOSE c \in {a} \X (1 .. Cardinality(conns) + 1) : c \notin conns}
Removed(conns, a) ==
    IF Entries(conns, a) = {} THEN conns
    ELSE conns \ {CHOOSE c \in Entries(conns, a) : TRUE}

connection_count == Cardinality(connections_by_location)
FreshPending == Cardinality({a \in Addrs : pending[a] = "fresh"})

has_connection_or_pending(a) ==
    \/ a \in location_for_peer /\ InRing(a)
    \/ pending[a] = "fresh"

is_strictly_closer_lattice_edge(a) ==
    /\ Distance[a] # 0
    /\ \A c \in connections_by_location :
          Side[c[1]] = Side[a] => Distance[c[1]] = 0 \/ Distance[a] < Distance[c[1]]

admits_lattice_edge_over_cap(a) ==
    /\ is_strictly_closer_lattice_edge(a)
    /\ connection_count + FreshPending < MaxConns + Slack

-----------------------------------------------------------------------------
(* CONNECT tasks: should_accept                                            *)

Evaluating(t, at) == task[t].at = at

\* The counts are kept as what is asked of them later, when they may be stale.
Evaluate(t, a) ==
    /\ Evaluating(t, "idle")
    /\ a \notin location_for_peer
    /\ task' = [task EXCEPT ![t] =
          [at |-> "unknown", addr |-> a,
           first |-> connection_count = 0,
           few |-> connection_count < MinConns /\ connection_count < 3,
           room |-> FreshPending + 1 + connection_count < MaxConns]]
    /\ UNCHANGED <<ring, budget, timers, owed, transport, loop, maint, clear>>

Reserve(t) ==
    /\ Evaluating(t, "unknown")
    /\ pending' = [pending EXCEPT ![task[t].addr] = "fresh"]
    /\ task' = [task EXCEPT ![t].at = "reserved"]
    /\ UNCHANGED <<location_for_peer, connections_by_location, budget, timers, owed,
                   transport, loop, maint, clear>>

\* The Kleinberg score and the evaluator's window are left open: either
\* verdict, where the code asks them.
Verdicts(t) ==
    LET always == \/ admits_lattice_edge_over_cap(task[t].addr)
                  \/ task[t].room /\ task[t].few
                  \/ task[t].room /\ is_strictly_closer_lattice_edge(task[t].addr)
    IN  {accepted \in BOOLEAN :
            (always => accepted) /\ (accepted => task[t].room \/ always)}

\* The caller goes on: only a join request to a gateway can still undo it.
Accepted(t) == IF task[t].addr \in Gateways
               THEN [at |-> "accepted", addr |-> task[t].addr] ELSE Idle

\* The first connection is taken at once, and its location is not recorded.
AcceptFirst(t) ==
    /\ Evaluating(t, "reserved")
    /\ task[t].first
    /\ task' = [task EXCEPT ![t] = Accepted(t)]
    /\ UNCHANGED <<ring, budget, timers, owed, transport, loop, maint, clear>>

Decide(t) ==
    /\ Evaluating(t, "reserved")
    /\ ~task[t].first
    /\ \E accepted \in Verdicts(t) :
          IF accepted
          THEN /\ task' = [task EXCEPT ![t] = [at |-> "recording", addr |-> task[t].addr]]
               /\ UNCHANGED pending
          ELSE /\ task' = [task EXCEPT ![t] = Idle]
               /\ pending' = [pending EXCEPT ![task[t].addr] = "none"]
    /\ UNCHANGED <<location_for_peer, connections_by_location, budget, timers, owed,
                   transport, loop, maint, clear>>

record_pending_location(t) ==
    /\ Evaluating(t, "recording")
    /\ location_for_peer' = location_for_peer \cup {task[t].addr}
    /\ task' = [task EXCEPT ![t] = Accepted(t)]
    /\ UNCHANGED <<pending, connections_by_location, budget, timers, owed, transport,
                   loop, maint, clear>>

Dispatch(t) ==
    /\ Evaluating(t, "accepted")
    /\ task' = [task EXCEPT ![t] = Idle]
    /\ UNCHANGED <<ring, budget, timers, owed, transport, loop, maint, clear>>

\* prune_connection: location, connection and, in transit, the reservation,
\* under nested locks.  Without a location the connection is not looked for.
Prune(a, alive) ==
    /\ location_for_peer' = location_for_peer \ {a}
    /\ connections_by_location' = IF a \in location_for_peer
                                  THEN Removed(connections_by_location, a)
                                  ELSE connections_by_location
    /\ pending' = IF alive THEN pending ELSE [pending EXCEPT ![a] = "none"]

\* A join request to a gateway that cannot be sent gives its reservation back.
SendFails(t) ==
    /\ Evaluating(t, "accepted")
    /\ task[t].addr \in Gateways
    /\ Prune(task[t].addr, FALSE)
    /\ task' = [task EXCEPT ![t] = Idle]
    /\ UNCHANGED <<budget, timers, owed, transport, loop, maint, clear>>

-----------------------------------------------------------------------------
(* Transient connections                                                   *)

\* drop_transient by the event loop, the only task that reads the counter.
DropTransient(a) ==
    /\ transients' = [transients EXCEPT ![a] = "none"]
    /\ transient_in_use' = IF transients[a] = "none" THEN transient_in_use
                           ELSE (transient_in_use - 1) % Word

TtlElapses(a) ==
    /\ timers[a] > 0
    /\ timers' = [timers EXCEPT ![a] = @ - 1]
    /\ transients' = [transients EXCEPT ![a] = "none"]
    /\ owed' = IF transients[a] = "none" THEN owed ELSE owed + 1
    /\ UNCHANGED <<ring, transient_in_use, transport, loop, task, maint, clear>>

TtlSubtracts ==
    /\ owed > 0
    /\ owed' = owed - 1
    /\ transient_in_use' = (transient_in_use - 1) % Word
    /\ UNCHANGED <<ring, transients, timers, transport, loop, task, maint, clear>>

-----------------------------------------------------------------------------
(* The event loop.  One handler at a time; `loop' is where it has come to.  *)

Handling(at) == loop.at = at
GoOn(at) == loop' = [loop EXCEPT !.at = at]
Done == loop' = Idle

\* A connection is up: InboundConnection (identity known if it was expected)
\* or OutboundEstablished.
Inbound(a, known) ==
    /\ Handling("idle")
    /\ known \/ a \in Strangers
    /\ loop' = [at |-> "replace", addr |-> a, known |-> known, transient |-> FALSE]
    /\ UNCHANGED <<ring, budget, timers, owed, transport, task, maint, clear>>

OutboundEstablished(a, transient) ==
    /\ Handling("idle")
    /\ transient => a \in Gateways
    /\ loop' = [at |-> IF transient THEN "register" ELSE "replace", addr |-> a,
                known |-> TRUE, transient |-> transient]
    /\ UNCHANGED <<ring, budget, timers, owed, transport, task, maint, clear>>

\* try_register_transient: the entry first, the counter after it.  It runs
\* before a transient connection is installed ("register") and again, its
\* result ignored, for one that is not promoted ("enrol").
Refused == IF Handling("register") THEN Idle ELSE [loop EXCEPT !.at = "timer"]
Granted == IF Handling("register") THEN [loop EXCEPT !.at = "replace"]
                                   ELSE [loop EXCEPT !.at = "timer"]

try_register_transient ==
    /\ loop.at \in {"register", "enrol"}
    /\ IF transients[loop.addr] # "none"
       THEN /\ loop' = Granted
            /\ UNCHANGED transients
       ELSE IF transient_in_use >= Budget
       THEN /\ loop' = Refused
            /\ UNCHANGED transients
       ELSE /\ transients' = [transients EXCEPT ![loop.addr] = "fresh"]
            /\ loop' = [at |-> "count", addr |-> loop.addr, known |-> loop.known,
                        transient |-> loop.transient, granted |-> Granted,
                        refused |-> Refused]
    /\ UNCHANGED <<ring, transient_in_use, timers, owed, transport, task,
                   maint, clear>>

CountTransient ==
    /\ Handling("count")
    /\ transient_in_use' = (transient_in_use + 1) % Word
    /\ loop' = IF transient_in_use >= Budget THEN [loop EXCEPT !.at = "undo"]
                                             ELSE loop.granted
    /\ UNCHANGED <<ring, transients, timers, owed, transport, task, maint, clear>>

UndoTransient ==
    /\ Handling("undo")
    /\ transients' = [transients EXCEPT ![loop.addr] = "none"]
    /\ transient_in_use' = (transient_in_use - 1) % Word
    /\ loop' = loop.refused
    /\ UNCHANGED <<ring, timers, owed, transport, task, maint, clear>>

\* A connection to the same address is replaced: its transient entry is
\* dropped, and only if there was none is its ring connection pruned.
Replace ==
    /\ Handling("replace")
    /\ IF loop.addr \in transport
       THEN /\ DropTransient(loop.addr)
            /\ IF transients[loop.addr] = "none" THEN Prune(loop.addr, TRUE)
                                                 ELSE UNCHANGED ring
       ELSE UNCHANGED <<ring, budget>>
    /\ IF loop.transient /\ transient_in_use' >= Budget
       THEN /\ transport' = transport \ {loop.addr}
            /\ Done
       ELSE /\ transport' = transport \cup {loop.addr}
            /\ GoOn(IF loop.known /\ (~loop.transient \/ IsGateway)
                     THEN "promote" ELSE "keep")
    /\ UNCHANGED <<timers, owed, task, maint, clear>>

Promote ==
    /\ Handling("promote")
    /\ Prune(loop.addr, FALSE)
    /\ GoOn("gate")
    /\ UNCHANGED <<budget, timers, owed, transport, task, maint, clear>>

Keep ==
    /\ Handling("keep")
    /\ IF has_connection_or_pending(loop.addr) THEN Done ELSE GoOn("enrol")
    /\ UNCHANGED <<ring, budget, timers, owed, transport, task, maint, clear>>

SpawnTimer ==
    /\ Handling("timer")
    /\ timers' = [timers EXCEPT ![loop.addr] = IF @ < MaxTimers THEN @ + 1 ELSE @]
    /\ Done
    /\ UNCHANGED <<ring, budget, owed, transport, task, maint, clear>>

\* ConnectPeer for an address that has a transport: promote it, unless it
\* was not transient and is in the ring already.
ConnectPeer(a) ==
    /\ Handling("idle")
    /\ a \in transport
    /\ DropTransient(a)
    /\ IF transients[a] # "none" \/ ~InRing(a)
       THEN loop' = [at |-> "regate", addr |-> a]
       ELSE UNCHANGED loop
    /\ UNCHANGED <<ring, timers, owed, transport, task, maint, clear>>

\* Mutant of AtCap: reservations are counted, connections are not.
AtCap_Reserved == FreshPending >= MaxConns
AtCap == connection_count >= MaxConns

\* The lifecycle gate refuses: a new connection is dropped at once, a
\* promotion leaves the transport alone.
GateRejects ==
    /\ loop.at \in {"gate", "regate"}
    /\ AtCap /\ ~admits_lattice_edge_over_cap(loop.addr)
    /\ IF Handling("gate")
       THEN /\ Prune(loop.addr, TRUE)
            /\ transport' = transport \ {loop.addr}
       ELSE UNCHANGED <<ring, transport>>
    /\ Done
    /\ UNCHANGED <<budget, timers, owed, task, maint, clear>>

\* add_connection: the reservation goes, the location comes ...
AddLocation ==
    /\ loop.at \in {"gate", "regate"}
    /\ ~AtCap \/ admits_lattice_edge_over_cap(loop.addr)
    /\ pending' = [pending EXCEPT ![loop.addr] = "none"]
    /\ location_for_peer' = location_for_peer \cup {loop.addr}
    /\ loop' = [at |-> "insert", addr |-> loop.addr,
                previous |-> loop.addr \in location_for_peer]
    /\ UNCHANGED <<connections_by_location, budget, timers, owed, transport,
                   task, maint, clear>>

Relocated == loop.previous /\ InRing(loop.addr)
Admitted == Relocated \/ ~AtCap \/ admits_lattice_edge_over_cap(loop.addr)

\* ... then, under one write guard, the cap check and the insertion ...
InsertConnection ==
    /\ Handling("insert")
    /\ Admitted
    /\ connections_by_location' =
          Pushed(IF Relocated THEN Removed(connections_by_location, loop.addr)
                      ELSE connections_by_location, loop.addr)
    /\ DropTransient(loop.addr)
    /\ Done
    /\ UNCHANGED <<pending, location_for_peer, timers, owed, transport, task,
                   maint, clear>>

\* ... or the refusal, and then the location and reservation are taken back.
RefuseConnection ==
    /\ Handling("insert")
    /\ ~Admitted
    /\ GoOn("rollback")
    /\ UNCHANGED <<ring, budget, timers, owed, transport, task, maint, clear>>

RollBack ==
    /\ Handling("rollback")
    /\ location_for_peer' = location_for_peer \ {loop.addr}
    /\ pending' = [pending EXCEPT ![loop.addr] = "none"]
    /\ DropTransient(loop.addr)
    /\ Done
    /\ UNCHANGED <<connections_by_location, timers, owed, transport, task, maint,
                   clear>>

\* A dial that could not be queued, or failed.  It may have been started
\* before a connection from the other side came up.
DialFails(a) ==
    /\ Handling("idle")
    /\ Prune(a, FALSE)
    /\ UNCHANGED <<budget, timers, owed, transport, loop, task, maint, clear>>

\* TransportClosed, DropConnection and the zombie sweep.
Close(a) ==
    /\ Handling("idle")
    /\ a \in transport
    /\ transport' = transport \ {a}
    /\ Prune(a, TRUE)
    /\ UNCHANGED <<budget, timers, owed, loop, task, maint, clear>>

-----------------------------------------------------------------------------
(* Maintenance: connection_maintenance and the join procedure              *)

\* clear_pending_reservations_for(gateways), phase by phase.  The maintenance
\* loop calls it when it resets the backoff, the join procedure when it found
\* the node isolated some time before.
ClearReservations ==
    /\ clear.at = "idle"
    /\ pending' = [a \in Addrs |-> IF a \in Gateways THEN "none" ELSE pending[a]]
    /\ clear' = [at |-> "cleared", set |-> {a \in Gateways : pending[a] # "none"}]
    /\ UNCHANGED <<location_for_peer, connections_by_location, budget, timers, owed,
                   transport, loop, task, maint>>

ForgetLocations ==
    /\ clear.at = "cleared"
    /\ location_for_peer' = location_for_peer \ clear.set
    /\ clear' = Idle
    /\ UNCHANGED <<pending, connections_by_location, budget, timers, owed, transport,
                   loop, task, maint>>

\* cleanup_stale_reservations: phase 1 drops the expired reservations and
\* remembers the others ...
SweepReservations ==
    /\ maint.at = "idle"
    /\ pending' = [a \in Addrs |-> IF pending[a] = "stale" THEN "none" ELSE pending[a]]
    /\ maint' = [at |-> "swept", set |-> {a \in Addrs : pending[a] = "fresh"}]
    /\ UNCHANGED <<location_for_peer, connections_by_location, budget, timers, owed,
                   transport, loop, task, clear>>

\* ... phase 2 drops the locations with neither a connection nor a
\* reservation phase 1 remembered.  cleanup_expired_transients follows.
\* Mutant of SweepLocations: only the reservations are swept.
SweepLocations_Spared ==
    /\ maint.at = "swept"
    /\ maint' = Idle
    /\ UNCHANGED <<ring, budget, timers, owed, transport, loop, task, clear>>

SweepLocations ==
    LET expired == {a \in Addrs : transients[a] = "stale"}
    IN  /\ maint.at = "swept"
        /\ location_for_peer' = {a \in location_for_peer : InRing(a) \/ a \in maint.set}
        /\ transients' = [a \in Addrs |-> IF a \in expired THEN "none" ELSE transients[a]]
        /\ maint' = IF expired = {} THEN Idle
                    ELSE [at |-> "expired", count |-> Cardinality(expired)]
        /\ UNCHANGED <<pending, connections_by_location, transient_in_use, timers, owed,
                       transport, loop, task, clear>>

MaintSubtracts ==
    /\ maint.at = "expired"
    /\ transient_in_use' = (transient_in_use - maint.count) % Word
    /\ maint' = Idle
    /\ UNCHANGED <<ring, transients, timers, owed, transport, loop, task, clear>>

\* PENDING_RESERVATION_TTL, and transient_ttl, pass; not inside the few
\* instructions of a registration.
ReservationAges(a) ==
    /\ pending[a] = "fresh"
    /\ pending' = [pending EXCEPT ![a] = "stale"]
    /\ UNCHANGED <<location_for_peer, connections_by_location, budget, timers, owed,
                   transport, loop, task, maint, clear>>

TransientAges(a) ==
    /\ loop.at \notin {"count", "undo"}
    /\ transients[a] = "fresh"
    /\ transients' = [transients EXCEPT ![a] = "stale"]
    /\ UNCHANGED <<ring, transient_in_use, timers, owed, transport, loop, task,
                   maint, clear>>

-----------------------------------------------------------------------------

ConnInit ==
    /\ pending = [a \in Addrs |-> "none"]
    /\ location_for_peer = {}
    /\ connections_by_location = {}
    /\ transients = [a \in Addrs |-> "none"]
    /\ transient_in_use = 0
    /\ timers = [a \in Addrs |-> 0]
    /\ owed = 0
    /\ transport = {}
    /\ loop = Idle
    /\ task = [t \in Tasks |-> Idle]
    /\ maint = Idle
    /\ clear = Idle

TaskStep(t) == Reserve(t) \/ AcceptFirst(t) \/ Decide(t)
               \/ record_pending_location(t)
TaskReturns(t) == Dispatch(t) \/ SendFails(t)

LoopStep == try_register_transient \/ CountTransient \/ UndoTransient \/ Replace
            \/ Promote \/ Keep \/ SpawnTimer \/ GateRejects \/ AddLocation
            \/ InsertConnection \/ RefuseConnection \/ RollBack

LoopReceives ==
    \/ \E a \in Addrs, known \in BOOLEAN : Inbound(a, known)
    \/ \E a \in Addrs, transient \in BOOLEAN : OutboundEstablished(a, transient)
    \/ \E a \in Addrs : ConnectPeer(a) \/ DialFails(a) \/ Close(a)

MaintStep == SweepReservations \/ SweepLocations \/ MaintSubtracts

Ageing(a) == ReservationAges(a) \/ TransientAges(a)

ConnNext ==
    \/ \E t \in Tasks : (\E a \in Candidates : Evaluate(t, a)) \/ TaskStep(t) \/ TaskReturns(t)
    \/ LoopReceives \/ LoopStep
    \/ MaintStep
    \/ ClearReservations \/ ForgetLocations
    \/ \E a \in Addrs : Ageing(a) \/ TtlElapses(a)
    \/ TtlSubtracts

ConnSpec == ConnInit /\ [][ConnNext]_vars

\* Every task that has started a call finishes it, the maintenance loop keeps
\* going round, and time passes.  Connections, candidates and failures come
\* from outside and are owed nothing.
ConnFairness ==
    /\ \A t \in Tasks : WF_vars(TaskStep(t)) /\ WF_vars(TaskReturns(t))
    /\ WF_vars(LoopStep)
    /\ WF_vars(MaintStep)
    /\ WF_vars(ForgetLocations)
    /\ \A a \in Addrs : WF_vars(ReservationAges(a))

FairConnSpec == ConnSpec /\ ConnFairness

-----------------------------------------------------------------------------
(* Properties                                                              *)

\* add_connection: the ring never holds more connections than the cap and the
\* slack of the nearest-neighbour lattice, whatever the candidates, and
\* whatever is reserved or swept between the gate and the insertion.
CeilingHolds == connection_count <= MaxConns + Slack

\* cleanup_stale_reservations: a location no connection backs does not stay
\* for ever; while it is there should_accept refuses its address.
PhantomsAreSwept ==
    \A a \in Addrs : (a \in location_for_peer /\ ~InRing(a))
                        ~> (a \notin location_for_peer \/ InRing(a))

\* drop_connection_by_addr: once the loop is done with closing a connection
\* the ring holds no slot for it.
ClosedReleasesSlot ==
    Handling("idle") => \A a \in Addrs : InRing(a) => a \in transport
============================================================================
