---------------------- MODULE ConnectionManagerProofs ----------------------
(***************************************************************************)
(* The ceiling of the ring for every number of addresses, tasks, cap and   *)
(* slack.  Only Prune takes connections away and only InsertConnection     *)
(* adds one, after it has counted under the same write guard.              *)
(***************************************************************************)
EXTENDS ConnectionManager, FiniteSetTheorems, TLAPS

\* A finite ring is what the counting rests on.
CeilingInv == IsFiniteSet(connections_by_location) /\ CeilingHolds

\* Taking a connection away leaves a finite ring that is no larger.
LEMMA RemovedIsNoLarger ==
    ASSUME NEW conns, IsFiniteSet(conns), NEW a
    PROVE  /\ IsFiniteSet(Removed(conns, a))
           /\ Cardinality(Removed(conns, a)) \in Nat
           /\ Cardinality(Removed(conns, a)) <= Cardinality(conns)
<1>1. Removed(conns, a) \subseteq conns
  BY DEF Removed
<1>2. QED
  BY <1>1, FS_Subset, FS_CardinalityType

\* Where an entry of the address exists, exactly one is taken away.
LEMMA RemovedIsOneLess ==
    ASSUME NEW conns, IsFiniteSet(conns), NEW a, Entries(conns, a) # {}
    PROVE  Cardinality(Removed(conns, a)) + 1 <= Cardinality(conns)
<1> DEFINE c == CHOOSE e \in Entries(conns, a) : TRUE
<1>1. c \in conns
  <2>1. c \in Entries(conns, a)
    OBVIOUS
  <2>2. QED
    BY <2>1 DEF Entries
<1>2. Removed(conns, a) = conns \ {c}
  BY DEF Removed
<1>3. Cardinality(conns \ {c}) = Cardinality(conns) - 1
  BY <1>1, FS_RemoveElement
<1>4. QED
  BY <1>2, <1>3, FS_CardinalityType

\* A push adds one connection at most.
LEMMA PushedIsOneMore ==
    ASSUME NEW conns, IsFiniteSet(conns), NEW a
    PROVE  /\ IsFiniteSet(Pushed(conns, a))
           /\ Cardinality(Pushed(conns, a)) <= Cardinality(conns) + 1
<1> DEFINE c == CHOOSE e \in {a} \X (1 .. Cardinality(conns) + 1) : e \notin conns
<1>1. Pushed(conns, a) = conns \cup {c}
  BY DEF Pushed
<1>2. /\ IsFiniteSet(conns \cup {c})
      /\ \/ Cardinality(conns \cup {c}) = Cardinality(conns)
         \/ Cardinality(conns \cup {c}) = Cardinality(conns) + 1
  BY FS_AddElement
<1>3. QED
  BY <1>1, <1>2, FS_CardinalityType

\* prune_connection keeps the ceiling, whatever it is called for.
LEMMA PruneKeepsCeiling ==
    ASSUME CeilingInv, NEW a, NEW alive, Prune(a, alive)
    PROVE  CeilingInv'
<1>1. \/ connections_by_location' = connections_by_location
      \/ connections_by_location' = Removed(connections_by_location, a)
  BY DEF Prune
<1>2. /\ Cardinality(connections_by_location) \in Nat
      /\ Cardinality(connections_by_location) <= MaxConns + Slack
  BY FS_CardinalityType DEF CeilingInv, CeilingHolds, connection_count
<1>3. CASE connections_by_location' = connections_by_location
  BY <1>3 DEF CeilingInv, CeilingHolds, connection_count
<1>4. CASE connections_by_location' = Removed(connections_by_location, a)
  BY <1>2, <1>4, RemovedIsNoLarger, ConstantsAssumption
     DEF CeilingInv, CeilingHolds, connection_count
<1>5. QED
  BY <1>1, <1>3, <1>4

\* add_connection inserts below the cap, over it within the slack, or in the
\* place of an entry it has just removed.
LEMMA InsertKeepsCeiling ==
    ASSUME CeilingInv, InsertConnection
    PROVE  CeilingInv'
<1> DEFINE S == connections_by_location
           R == Removed(S, loop.addr)
<1>1. IsFiniteSet(S) /\ Cardinality(S) \in Nat /\ Cardinality(S) <= MaxConns + Slack
  BY FS_CardinalityType DEF CeilingInv, CeilingHolds, connection_count
<1>2. CASE Relocated
  <2>1. S' = Pushed(R, loop.addr)
    BY <1>2 DEF InsertConnection
  <2>2. Entries(S, loop.addr) # {}
    BY <1>2 DEF Relocated, InRing
  <2>3. IsFiniteSet(R) /\ Cardinality(R) \in Nat
    BY <1>1, RemovedIsNoLarger
  <2>4. Cardinality(R) + 1 <= Cardinality(S)
    BY <1>1, <2>2, RemovedIsOneLess
  <2>5. IsFiniteSet(S') /\ Cardinality(S') <= Cardinality(R) + 1
    BY <2>1, <2>3, PushedIsOneMore
  <2>6. Cardinality(S') \in Nat
    BY <2>5, FS_CardinalityType
  <2> HIDE DEF R, S
  <2>7. Cardinality(S') <= MaxConns + Slack
    BY <1>1, <2>3, <2>4, <2>5, <2>6, ConstantsAssumption
  <2>8. QED
    BY <2>5, <2>7 DEF S, CeilingInv, CeilingHolds, connection_count
<1>3. CASE ~Relocated
  <2>1. S' = Pushed(S, loop.addr)
    BY <1>3 DEF InsertConnection
  <2>2. ~AtCap \/ admits_lattice_edge_over_cap(loop.addr)
    BY <1>3 DEF InsertConnection, Admitted
  <2>3. FreshPending \in Nat
    <3>1. IsFiniteSet({a \in Addrs : pending[a] = "fresh"})
      BY ConstantsAssumption, FS_Subset
    <3>2. QED
      BY <3>1, FS_CardinalityType DEF FreshPending
  <2>4. Cardinality(S) + 1 <= MaxConns + Slack
    BY <1>1, <2>2, <2>3, ConstantsAssumption
       DEF AtCap, admits_lattice_edge_over_cap, connection_count
  <2>5. IsFiniteSet(S') /\ Cardinality(S') <= Cardinality(S) + 1
    BY <1>1, <2>1, PushedIsOneMore
  <2>6. Cardinality(S') \in Nat
    BY <2>5, FS_CardinalityType
  <2> HIDE DEF S
  <2>7. Cardinality(S') <= MaxConns + Slack
    BY <1>1, <2>4, <2>5, <2>6, ConstantsAssumption
  <2>8. QED
    BY <2>5, <2>7 DEF S, CeilingInv, CeilingHolds, connection_count
<1>4. QED
  BY <1>2, <1>3

\* The ring starts empty.
LEMMA CeilingInit == ConnInit => CeilingInv
BY FS_EmptySet, ConstantsAssumption
   DEF ConnInit, CeilingInv, CeilingHolds, connection_count

\* Every step either leaves the ring alone, prunes it or inserts into it.
LEMMA CeilingNext == CeilingInv /\ [ConnNext]_vars => CeilingInv'
<1> SUFFICES ASSUME CeilingInv, [ConnNext]_vars
             PROVE  CeilingInv'
  OBVIOUS
<1>0. ASSUME UNCHANGED connections_by_location
      PROVE  CeilingInv'
  BY <1>0 DEF CeilingInv, CeilingHolds, connection_count
<1>1. ASSUME NEW t \in Tasks, NEW a \in Candidates, Evaluate(t, a)
      PROVE  CeilingInv'
  BY <1>0, <1>1 DEF Evaluate, ring
<1>2. ASSUME NEW t \in Tasks, TaskStep(t)
      PROVE  CeilingInv'
  BY <1>0, <1>2 DEF TaskStep, Reserve, AcceptFirst, Decide, record_pending_location, ring
<1>3. ASSUME NEW t \in Tasks, TaskReturns(t)
      PROVE  CeilingInv'
  <2>1. CASE Dispatch(t)
    BY <1>0, <2>1 DEF Dispatch, ring
  <2>2. CASE SendFails(t)
    BY <2>2, PruneKeepsCeiling DEF SendFails
  <2>3. QED
    BY <1>3, <2>1, <2>2 DEF TaskReturns
<1>4. ASSUME LoopReceives
      PROVE  CeilingInv'
  <2>1. ASSUME NEW a \in Addrs, NEW known \in BOOLEAN, Inbound(a, known)
        PROVE  CeilingInv'
    BY <1>0, <2>1 DEF Inbound, ring
  <2>2. ASSUME NEW a \in Addrs, NEW transient \in BOOLEAN, OutboundEstablished(a, transient)
        PROVE  CeilingInv'
    BY <1>0, <2>2 DEF OutboundEstablished, ring
  <2>3. ASSUME NEW a \in Addrs, ConnectPeer(a)
        PROVE  CeilingInv'
    BY <1>0, <2>3 DEF ConnectPeer, ring
  <2>4. ASSUME NEW a \in Addrs, DialFails(a) \/ Close(a)
        PROVE  CeilingInv'
    BY <2>4, PruneKeepsCeiling DEF DialFails, Close
  <2>5. QED
    BY <1>4, <2>1, <2>2, <2>3, <2>4 DEF LoopReceives
<1>5. ASSUME LoopStep
      PROVE  CeilingInv'
  <2>1. CASE try_register_transient \/ CountTransient \/ UndoTransient \/ Keep \/ SpawnTimer
    BY <1>0, <2>1 DEF try_register_transient, CountTransient, UndoTransient, Keep,
                      SpawnTimer, ring
  <2>2. CASE Replace
    <3>1. Prune(loop.addr, TRUE) \/ UNCHANGED ring
      BY <2>2 DEF Replace
    <3>2. QED
      BY <1>0, <3>1, PruneKeepsCeiling DEF ring
  <2>3. CASE Promote
    BY <2>3, PruneKeepsCeiling DEF Promote
  <2>4. CASE GateRejects
    <3>1. Prune(loop.addr, TRUE) \/ UNCHANGED ring
      BY <2>4 DEF GateRejects
    <3>2. QED
      BY <1>0, <3>1, PruneKeepsCeiling DEF ring
  <2>5. CASE AddLocation \/ RefuseConnection \/ RollBack
    BY <1>0, <2>5 DEF AddLocation, RefuseConnection, RollBack, ring
  <2>6. CASE InsertConnection
    BY <2>6, InsertKeepsCeiling
  <2>7. QED
    BY <1>5, <2>1, <2>2, <2>3, <2>4, <2>5, <2>6 DEF LoopStep
<1>6. ASSUME MaintStep \/ ClearReservations \/ ForgetLocations
      PROVE  CeilingInv'
  BY <1>0, <1>6 DEF MaintStep, SweepReservations, SweepLocations, MaintSubtracts,
                    ClearReservations, ForgetLocations, ring
<1>7. ASSUME NEW a \in Addrs, Ageing(a) \/ TtlElapses(a)
      PROVE  CeilingInv'
  BY <1>0, <1>7 DEF Ageing, ReservationAges, TransientAges, TtlElapses, ring
<1>8. ASSUME TtlSubtracts
      PROVE  CeilingInv'
  BY <1>0, <1>8 DEF TtlSubtracts, ring
<1>9. ASSUME UNCHANGED vars
      PROVE  CeilingInv'
  BY <1>0, <1>9 DEF vars, ring
<1>10. QED
  BY <1>1, <1>2, <1>3, <1>4, <1>5, <1>6, <1>7, <1>8, <1>9 DEF ConnNext

\* add_connection's debug_assert: whatever tasks reserve, sweep and clear in
\* between, the ring stays within max_connections and the lattice slack.
THEOREM RingCeiling == ConnSpec => []CeilingHolds
<1>1. CeilingInv => CeilingHolds
  BY DEF CeilingInv
<1>2. QED
  BY <1>1, CeilingInit, CeilingNext, PTL DEF ConnSpec
============================================================================
