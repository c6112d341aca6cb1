--------------------------- MODULE OutboundFlight ---------------------------
(***************************************************************************)
(* The sending half of one connection: who adds bytes to the congestion    *)
(* controller's flight size, who takes them off, and in which order        *)
(* (transport/peer_connection.rs, peer_connection/outbound_stream.rs,      *)
(* fixed_rate/controller.rs), over the tracker of SentPacketTracker.       *)
(*                                                                         *)
(* Concurrent actors:                                                      *)
(*   - the connection's own task, which runs recv() and the control sends  *)
(*     (noop, short message): variables main, ack_info;                    *)
(*   - one spawned task per outbound stream (send_stream, pipe_stream):    *)
(*     variables task, cur, dropped.                                       *)
(* They share the tracker (one mutex, taken per call) and the controller's *)
(* atomics.  A step is one critical section, one atomic update or one      *)
(* await, so every interleaving at those points is explored.               *)
(***************************************************************************)
EXTENDS SentPacketTracker

CONSTANTS
    NoPacket,
    MAX_PACKET_SIZE,
    PacketSize,          \* plaintext bytes each packet adds to flight size
    LOSS_PAUSE_MARGIN,
    MAX_RESENDS_PER_ITERATION

ASSUME FlightAssumption ==
    /\ IsFiniteSet(Packet)
    /\ NoPacket \notin Packet
    /\ MAX_PACKET_SIZE \in Nat
    /\ PacketSize \in [Packet -> 0..MAX_PACKET_SIZE]
    /\ LOSS_PAUSE_MARGIN \in Nat
    /\ MAX_RESENDS_PER_ITERATION \in Nat \ {0}

VARIABLES
    flightsize, loss_pause_cwnd,   \* FixedRateController
    allocated,                     \* ids taken from last_packet_id
    on_wire,                       \* ids some send_to of which succeeded
    main,                          \* [pc, pkt] of the connection's task
    ack_info,                      \* packets whose on_ack is still to be called
    resend_count,                  \* packets this run of the resend arm handled
    task, cur, dropped,            \* per stream: pc, fragment in hand, bytes owed
    failed_control                 \* history: control packets whose send failed

flightVars == <<flightsize, loss_pause_cwnd>>
mainVars   == <<main, ack_info, resend_count, failed_control>>
taskVars   == <<task, cur, dropped>>
idVars     == <<allocated, on_wire>>
vars == <<trackerVars, flightVars, idVars, mainVars, taskVars>>

\* The bytes of a set of packets: the sum of their sizes, as the cardinality
\* of the set of their bytes.
ByteSet(S) == {b \in S \X (1..MAX_PACKET_SIZE) : b[2] <= PacketSize[b[1]]}
Bytes(S) == Cardinality(ByteSet(S))

At(pc) == [pc |-> pc, pkt |-> NoPacket]
AtWith(pc, p) == [pc |-> pc, pkt |-> p]

Init ==
    /\ TrackerInit
    /\ flightsize = 0 /\ loss_pause_cwnd = 0
    /\ allocated = {} /\ on_wire = {}
    /\ main = At("select") /\ ack_info = {} /\ resend_count = 0
    /\ failed_control = {}
    /\ task = [s \in Stream |-> "waiting"]
    /\ cur = [s \in Stream |-> NoPacket]
    /\ dropped = [s \in Stream |-> {}]

-----------------------------------------------------------------------------
\* FixedRateController.  Subtraction saturates.
on_send(n) == flightsize' = flightsize + n /\ UNCHANGED loss_pause_cwnd

Released_flight(n) == flightsize' = Most(flightsize - n, 0)

release_flightsize(n) == Released_flight(n) /\ UNCHANGED loss_pause_cwnd

on_ack(n) == Released_flight(n) /\ loss_pause_cwnd' = 0

on_timeout == /\ loss_pause_cwnd' = Most(flightsize, 1)
              /\ UNCHANGED flightsize

CwndAdmits(n) == loss_pause_cwnd = 0
                 \/ flightsize + n <= loss_pause_cwnd + LOSS_PAUSE_MARGIN

-----------------------------------------------------------------------------
\* The connection's task: an inbound packet with the receipts R.  Only packets
\* that were put on the wire can be acknowledged; a receipt may be repeated.
RecvReceipts(R) ==
    /\ main.pc = "select"
    /\ report_received_receipts(R)
    /\ ack_info' = Acked(R)
    /\ main' = At("acking")
    /\ UNCHANGED <<flightVars, idVars, failed_control, taskVars, resend_count>>

\* The tracker is unlocked before the controller is told of each packet.
OnAck(p) ==
    /\ main.pc = "acking" /\ p \in ack_info
    /\ on_ack(PacketSize[p])
    /\ ack_info' = ack_info \ {p}
    /\ UNCHANGED <<trackerVars, idVars, main, failed_control, taskVars, resend_count>>

AcksDone ==
    /\ main.pc = "acking" /\ ack_info = {}
    /\ main' = At("select")
    /\ UNCHANGED <<trackerVars, flightVars, idVars, ack_info, failed_control,
                   taskVars, resend_count>>

\* The resend arm of recv()'s select.  Its sleep is taken out of its slot when the select is
\* entered, dropped when another arm wins, and replaced by a fresh one (resend_yield) on the
\* next iteration; every call of recv() starts with a fresh one too.  So the arm fires when the
\* connection is quiet for that long, and nothing makes it.
ResendArm ==
    /\ main.pc = "select"
    /\ main' = At("resend")
    /\ UNCHANGED <<trackerVars, flightVars, idVars, ack_info, resend_count,
                   failed_control, taskVars>>

\* Its loop handles at most MAX_RESENDS_PER_ITERATION packets, then yields.
BreakResend == main' = At("select") /\ resend_count' = 0

CountResend ==
    IF resend_count + 1 >= MAX_RESENDS_PER_ITERATION
    THEN BreakResend
    ELSE main' = At("resend") /\ resend_count' = resend_count + 1

\* One turn of the loop: get_resend, then what its outcome asks for.
ResendTlp(p) ==
    /\ main.pc = "resend"
    /\ get_resend_tlp(p)
    /\ main' = AtWith("resending", p)
    /\ UNCHANGED <<flightVars, idVars, ack_info, resend_count, failed_control, taskVars>>

ResendRto(p) ==
    /\ main.pc = "resend"
    /\ get_resend_rto(p)
    /\ main' = AtWith("timed_out", p)
    /\ UNCHANGED <<flightVars, idVars, ack_info, resend_count, failed_control, taskVars>>

OnTimeout ==
    /\ main.pc = "timed_out"
    /\ on_timeout
    /\ main' = AtWith("resending", main.pkt)
    /\ UNCHANGED <<trackerVars, idVars, ack_info, resend_count, failed_control, taskVars>>

\* Mutant of Resent: the resend registers the packet again.
Resent_Reregisters(ok) ==
    /\ main.pc = "resending"
    /\ report_sent_packet(main.pkt, Control)
    /\ on_wire' = IF ok THEN on_wire \cup {main.pkt} ELSE on_wire
    /\ IF ok THEN CountResend ELSE BreakResend
    /\ UNCHANGED <<flightVars, allocated, ack_info, failed_control, taskVars>>

\* send_to completes, well or not: the packet's timer restarts if it is still
\* tracked.  A failed send ends the arm.
Resent(ok) ==
    /\ main.pc = "resending"
    /\ refresh_sent_packet(main.pkt)
    /\ on_wire' = IF ok THEN on_wire \cup {main.pkt} ELSE on_wire
    /\ IF ok THEN CountResend ELSE BreakResend
    /\ UNCHANGED <<flightVars, allocated, ack_info, failed_control, taskVars>>

\* recv() is one arm of the listener's select: an outbound message drops its
\* future while it awaits send_to, and the refresh never runs.
ResendCancelled ==
    /\ main.pc = "resending"
    /\ BreakResend
    /\ UNCHANGED <<trackerVars, flightVars, idVars, ack_info, failed_control,
                   taskVars>>

ResendAbandon(p) ==
    /\ main.pc = "resend"
    /\ get_resend_abandon(p)
    /\ main' = AtWith("abandoning", p)
    /\ UNCHANGED <<flightVars, idVars, ack_info, resend_count, failed_control, taskVars>>

ReleaseAbandoned ==
    /\ main.pc = "abandoning"
    /\ release_flightsize(PacketSize[main.pkt])
    /\ CountResend
    /\ UNCHANGED <<trackerVars, idVars, ack_info, failed_control, taskVars>>

\* Nothing is due: the loop ends and the arm sleeps until the next deadline.
ResendWait ==
    /\ main.pc = "resend"
    /\ get_resend_wait
    /\ BreakResend
    /\ UNCHANGED <<flightVars, idVars, ack_info, failed_control, taskVars>>

\* noop and outbound_short_message: the bytes enter flight before send_to and
\* the packet enters the tracker after it.
ControlOnSend(p) ==
    /\ main.pc = "select"
    /\ p \notin allocated
    /\ allocated' = allocated \cup {p}
    /\ on_send(PacketSize[p])
    /\ main' = AtWith("control_sending", p)
    /\ UNCHANGED <<trackerVars, on_wire, ack_info, failed_control, taskVars, resend_count>>

ControlSent ==
    /\ main.pc = "control_sending"
    /\ on_wire' = on_wire \cup {main.pkt}
    /\ main' = AtWith("control_sent", main.pkt)
    /\ UNCHANGED <<trackerVars, flightVars, allocated, ack_info, failed_control,
                   taskVars, resend_count>>

ControlRegister ==
    /\ main.pc = "control_sent"
    /\ report_sent_packet(main.pkt, Control)
    /\ main' = At("select")
    /\ UNCHANGED <<flightVars, idVars, ack_info, failed_control, taskVars, resend_count>>

\* send_to fails, or recv() is cancelled while noop awaits it: the error goes
\* to the caller (a transient failure is logged) and no byte is released.
ControlSendFailed ==
    /\ main.pc = "control_sending"
    /\ failed_control' = failed_control \cup {main.pkt}
    /\ main' = At("select")
    /\ UNCHANGED <<trackerVars, flightVars, idVars, ack_info, taskVars, resend_count>>

-----------------------------------------------------------------------------
\* Stream task s.  The window is checked, tokens are awaited, and only then do
\* the bytes enter flight.
CwndAdmitted(s, p) ==
    /\ task[s] = "waiting"
    /\ CwndAdmits(PacketSize[p])
    /\ task' = [task EXCEPT ![s] = "admitted"]
    /\ cur' = [cur EXCEPT ![s] = p]
    /\ p \notin allocated
    /\ allocated' = allocated \cup {p}
    /\ UNCHANGED <<trackerVars, flightVars, on_wire, mainVars, dropped>>

FragmentOnSend(s) ==
    /\ task[s] = "admitted"
    /\ on_send(PacketSize[cur[s]])
    /\ task' = [task EXCEPT ![s] = "sending"]
    /\ UNCHANGED <<trackerVars, idVars, mainVars, cur, dropped>>

FragmentSent(s) ==
    /\ task[s] = "sending"
    /\ on_wire' = on_wire \cup {cur[s]}
    /\ task' = [task EXCEPT ![s] = "sent"]
    /\ UNCHANGED <<trackerVars, flightVars, allocated, mainVars, cur, dropped>>

FragmentRegister(s) ==
    /\ task[s] = "sent"
    /\ report_sent_packet(cur[s], s)
    /\ task' = [task EXCEPT ![s] = "waiting"]
    /\ cur' = [cur EXCEPT ![s] = NoPacket]
    /\ UNCHANGED <<flightVars, idVars, mainVars, dropped>>

FragmentSendFailed(s) ==
    /\ task[s] = "sending"
    /\ task' = [task EXCEPT ![s] = "aborting"]
    /\ UNCHANGED <<trackerVars, flightVars, idVars, mainVars, cur, dropped>>

\* The window stayed shut for CWND_WAIT_TIMEOUT, or the upstream of a piped
\* stream stalled or failed.
StreamGivesUp(s) ==
    /\ task[s] = "waiting"
    /\ task' = [task EXCEPT ![s] = "aborting"]
    /\ UNCHANGED <<trackerVars, flightVars, idVars, mainVars, cur, dropped>>

\* Mutants: the bytes of an aborted stream are released and its packets stay
\* tracked; the bytes of the fragment in hand are not released.
AbortDropStream_KeepsTracking(s) ==
    /\ task[s] = "aborting"
    /\ dropped' = [dropped EXCEPT ![s] = Released(s)]
    /\ task' = [task EXCEPT ![s] = "releasing"]
    /\ UNCHANGED <<trackerVars, flightVars, idVars, mainVars, cur>>
AbortReleaseCurrent_Forgotten(s) ==
    /\ task[s] = "releasing_cur"
    /\ cur' = [cur EXCEPT ![s] = NoPacket]
    /\ task' = [task EXCEPT ![s] = "aborted"]
    /\ UNCHANGED <<trackerVars, flightVars, idVars, mainVars, dropped>>

\* release_aborted_stream_flightsize: drop_stream under the lock, then the
\* release; after a failed send, the bytes of the fragment in hand too.
AbortDropStream(s) ==
    /\ task[s] = "aborting"
    /\ drop_stream(s)
    /\ dropped' = [dropped EXCEPT ![s] = Released(s)]
    /\ task' = [task EXCEPT ![s] = "releasing"]
    /\ UNCHANGED <<flightVars, idVars, mainVars, cur>>

AbortRelease(s) ==
    /\ task[s] = "releasing"
    /\ release_flightsize(Bytes(dropped[s]))
    /\ dropped' = [dropped EXCEPT ![s] = {}]
    /\ task' = [task EXCEPT ![s] = IF cur[s] = NoPacket THEN "aborted"
                                                        ELSE "releasing_cur"]
    /\ UNCHANGED <<trackerVars, idVars, mainVars, cur>>

AbortReleaseCurrent(s) ==
    /\ task[s] = "releasing_cur"
    /\ release_flightsize(PacketSize[cur[s]])
    /\ cur' = [cur EXCEPT ![s] = NoPacket]
    /\ task' = [task EXCEPT ![s] = "aborted"]
    /\ UNCHANGED <<trackerVars, idVars, mainVars, dropped>>

\* All fragments were sent; their ACKs are still to come.
StreamDone(s) ==
    /\ task[s] = "waiting"
    /\ task' = [task EXCEPT ![s] = "done"]
    /\ UNCHANGED <<trackerVars, flightVars, idVars, mainVars, cur, dropped>>

Time == Tick /\ UNCHANGED <<flightVars, idVars, mainVars, taskVars>>

Resend ==
    \/ \E p \in Packet : ResendTlp(p)
    \/ \E p \in Packet : ResendRto(p)
    \/ \E p \in Packet : ResendAbandon(p)
    \/ ResendWait

MainStep ==
    \/ \E p \in Packet : OnAck(p)
    \/ AcksDone
    \/ Resend
    \/ OnTimeout
    \/ \E ok \in BOOLEAN : Resent(ok)
    \/ ResendCancelled
    \/ ReleaseAbandoned
    \/ ControlSent
    \/ ControlRegister
    \/ ControlSendFailed

TaskStep(s) ==
    \/ \E p \in Packet : CwndAdmitted(s, p)
    \/ FragmentOnSend(s)
    \/ FragmentSent(s)
    \/ FragmentRegister(s)
    \/ FragmentSendFailed(s)
    \/ StreamGivesUp(s)
    \/ AbortDropStream(s)
    \/ AbortRelease(s)
    \/ AbortReleaseCurrent(s)
    \/ StreamDone(s)

FlightNext ==
    \/ \E R \in SUBSET on_wire : RecvReceipts(R)
    \/ MainStep
    \/ ResendArm
    \/ \E p \in Packet : ControlOnSend(p)
    \/ \E s \in Stream : TaskStep(s)
    \/ Time

FlightSpec == Init /\ [][FlightNext]_vars

\* Every task that is in the middle of something goes on with it, and time passes.  Nothing is
\* said of ResendArm: inbound packets closer together than resend_yield starve it.
FlightFairness ==
    /\ WF_vars(MainStep)
    /\ \A s \in Stream : WF_vars(TaskStep(s))
    /\ WF_vars(Time)

FairFlightSpec == FlightSpec /\ FlightFairness

-----------------------------------------------------------------------------
\* What the program counters say about what is in hand.
HoldersAgree ==
    /\ ack_info # {} => main.pc = "acking"
    /\ \A s \in Stream :
         /\ task[s] \in {"admitted", "sending", "sent", "releasing_cur"} => cur[s] # NoPacket
         /\ task[s] \in {"waiting", "aborted", "done"} => cur[s] = NoPacket
         /\ task[s] # "releasing" => dropped[s] = {}

FlightTypeOK ==
    /\ TypeOK
    /\ flightsize \in Nat /\ loss_pause_cwnd \in Nat
    /\ allocated \subseteq Packet /\ on_wire \subseteq allocated
    /\ main \in [pc : {"select", "acking", "resend", "timed_out", "resending", "abandoning",
                       "control_sending", "control_sent"},
                 pkt : Packet \cup {NoPacket}]
    /\ main.pc \in {"select", "acking", "resend"} <=> main.pkt = NoPacket
    /\ main.pkt \in allocated \cup {NoPacket}
    /\ resend_count \in 0..(MAX_RESENDS_PER_ITERATION - 1)
    /\ ack_info \subseteq Packet /\ failed_control \subseteq Packet
    /\ task \in [Stream -> {"waiting", "admitted", "sending", "sent", "aborting",
                            "releasing", "releasing_cur", "aborted", "done"}]
    /\ cur \in [Stream -> Packet \cup {NoPacket}]
    /\ dropped \in [Stream -> SUBSET Packet]
    /\ HoldersAgree

\* Who answers for the bytes of a packet that is not tracked: the connection's
\* task between on_send and registration and between abandonment and release;
\* a stream task likewise, and for the packets its drop_stream took out.
MainHolds == IF main.pc \in {"abandoning", "control_sending", "control_sent"}
             THEN {main.pkt} ELSE {}
InHand(s) == {cur[s]} \ {NoPacket}
TaskHolds(s) == (IF task[s] = "admitted" THEN {} ELSE InHand(s)) \cup dropped[s]

Accounted == pending_receipts \cup ack_info \cup failed_control \cup MainHolds
                 \cup UNION {TaskHolds(s) : s \in Stream}

\* Every packet has at most one holder: it is tracked, or awaits its on_ack, or
\* is in the hands of one task.  So the three release paths exclude each other
\* although each takes the packet out of the tracker in one step and releases
\* its bytes in a later one.
SingleHolder ==
    /\ pending_receipts \cup ack_info \cup failed_control \cup MainHolds \subseteq allocated
    /\ pending_receipts \cap ack_info = {} /\ pending_receipts \cap failed_control = {}
    /\ pending_receipts \cap MainHolds = {} /\ ack_info \cap failed_control = {}
    /\ failed_control \cap MainHolds = {}
    /\ \A s \in Stream :
         /\ InHand(s) \cup dropped[s] \subseteq allocated
         /\ InHand(s) \cap dropped[s] = {}
         /\ (InHand(s) \cup dropped[s])
              \cap (pending_receipts \cup ack_info \cup failed_control \cup MainHolds) = {}
    /\ \A s, t \in Stream :
         s # t => (InHand(s) \cup dropped[s]) \cap (InHand(t) \cup dropped[t]) = {}

\* Conservation of flight size: at every point of every interleaving it is the
\* bytes of the packets that are tracked, being sent, or taken out by exactly
\* one of ACK, abandonment and stream abort and not released yet -- plus the
\* control packets whose send failed, which no path releases.  A release done
\* twice, skipped, or clipped by the saturating subtraction breaks it.
FlightConservation == flightsize = Bytes(Accounted)

\* An aborted stream holds nothing (issue #4345): no packet of it is tracked, so
\* none can be resent, abandoned or acknowledged, and released a second time.
AbortedStreamHoldsNothing ==
    \A s \in Stream : task[s] \in {"releasing", "releasing_cur", "aborted"}
                        => Owned(s) = {}

\* The debug_assert of both mid-send failure sites: the fragment whose send
\* failed, and whose bytes are released explicitly, was never registered.
FailedFragmentIsUntracked ==
    \A s \in Stream :
        task[s] \in {"aborting", "releasing", "releasing_cur"} /\ cur[s] # NoPacket
            => cur[s] \notin pending_receipts /\ cur[s] \notin dropped[s]

\* Provided the resend arm fires again and again, every byte that entered flight leaves it --
\* but for those of the control packets whose send failed: packets that are never acknowledged
\* are resent, abandoned and released, whatever the network does, and no stream is stalled for
\* ever by them.  Closely spaced inbound packets can keep the arm from firing; then nothing is
\* promised.
FlightDrains ==
    []<>(main.pc = "resend") => <>[](flightsize = Bytes(failed_control))

=============================================================================
