---------------------------- MODULE ReliableLink ----------------------------
(***************************************************************************)
(* One direction of a connection end to end: short messages of the sending *)
(* peer, the datagram network, and the recv loop of the receiving peer     *)
(* with its ReceivedPacketTracker (transport/peer_connection.rs).          *)
(*                                                                         *)
(* The network loses, duplicates, delays and reorders: wire and acks only  *)
(* grow, and any datagram of them may arrive at any time, again, or never. *)
(* The carriers of receipts are tracked and resent like any packet, which  *)
(* a growing set of batches covers.  Of the sending peer's tracker only    *)
(* what decides delivery is kept: which payload it would resend.           *)
(***************************************************************************)
EXTENDS ReceivedPacketTracker

CONSTANTS
    Oversized,                 \* messages that do not fit one packet together
                               \* with the receipts that ride on it
    MESSAGE_CONFIRMATION_TIMEOUT,
    MAX_PACKET_RETRANSMITS,
    NoPacket

ASSUME LinkAssumption ==
    /\ Oversized \subseteq Packet /\ NoPacket \notin Packet
    /\ MESSAGE_CONFIRMATION_TIMEOUT \in Nat /\ MAX_PACKET_RETRANSMITS \in Nat

VARIABLES
    \* sending peer
    sent, tracked, resends, acked, failed,
    \* network
    wire, acks,
    \* receiving peer
    \* (and the variables of ReceivedPacketTracker)
    since_report, rx,
    \* history: messages handed up, receipts taken and never put on the wire,
    \* time since the tracker last accepted each packet, and how often a copy
    \* of it was handed up since
    delivered, lost, since_accept, repeats

senderVars   == <<sent, tracked, resends, acked, failed>>
netVars      == <<wire, acks>>
historyVars  == <<delivered, lost, since_accept, repeats>>
linkVars == <<senderVars, netVars, receivedVars, since_report, rx, historyVars>>

Kind == {"data", "noop"}
Datagram == [id : Packet, kind : Kind]

Idle == [pc |-> "select", id |-> NoPacket, kind |-> "noop", result |-> "Ok",
         send_receipts |-> FALSE, batch |-> <<>>]

LinkInit ==
    /\ sent = {} /\ acked = {} /\ failed = {}
    /\ tracked = [p \in Packet |-> "none"]
    /\ resends = [p \in Packet |-> 0]
    /\ wire = {} /\ acks = {}
    /\ ReceivedInit
    /\ since_report = 0
    /\ rx = Idle
    /\ delivered = {} /\ lost = {}
    /\ since_accept = [p \in Packet |-> RETAIN_TIME + 1]
    /\ repeats = [p \in Packet |-> 0]

Elements(q) == {q[i] : i \in DOMAIN q}

-----------------------------------------------------------------------------
\* Sending peer.  outbound_short_message and packet_sending, the message and
\* its receipts in one packet: tracked if and only if send_to succeeds.
SendSingle(p) ==
    /\ p \notin sent /\ p \notin Oversized
    /\ sent' = sent \cup {p}
    /\ wire' = wire \cup {[id |-> p, kind |-> "data"]}
    /\ tracked' = [tracked EXCEPT ![p] = "data"]
    /\ UNCHANGED <<resends, acked, failed, acks, receivedVars, since_report, rx,
                   historyVars>>

SendFailed(p) ==
    /\ p \notin sent
    /\ sent' = sent \cup {p}
    /\ failed' = failed \cup {p}
    /\ UNCHANGED <<tracked, resends, acked, netVars, receivedVars, since_report,
                   rx, historyVars>>

\* The multi-packet branch: the message and the receipts' NoOp go out under the
\* same packet id, and registering the second overwrites the payload of the
\* first.  If the NoOp's send_to fails, the message stays tracked.
SendSplit(p, noop_ok) ==
    /\ p \notin sent /\ p \in Oversized
    /\ sent' = sent \cup {p}
    /\ wire' = wire \cup {[id |-> p, kind |-> "data"]}
                    \cup (IF noop_ok THEN {[id |-> p, kind |-> "noop"]} ELSE {})
    /\ tracked' = [tracked EXCEPT ![p] = IF noop_ok THEN "noop" ELSE "data"]
    /\ UNCHANGED <<resends, acked, failed, acks, receivedVars, since_report, rx,
                   historyVars>>

\* The resend loop sends the tracked payload again.
Resend(p) ==
    /\ tracked[p] # "none"
    /\ resends[p] < MAX_PACKET_RETRANSMITS
    /\ resends' = [resends EXCEPT ![p] = @ + 1]
    /\ wire' = wire \cup {[id |-> p, kind |-> tracked[p]]}
    /\ UNCHANGED <<sent, tracked, acked, failed, acks, receivedVars, since_report,
                   rx, historyVars>>

Abandon(p) ==
    /\ tracked[p] # "none"
    /\ resends[p] = MAX_PACKET_RETRANSMITS
    /\ tracked' = [tracked EXCEPT ![p] = "none"]
    /\ failed' = failed \cup {p}
    /\ UNCHANGED <<sent, resends, acked, netVars, receivedVars, since_report, rx,
                   historyVars>>

RecvReceipts(batch) ==
    /\ batch \in acks
    /\ LET known == {p \in batch : tracked[p] # "none"}
       IN  /\ acked' = acked \cup known
           /\ tracked' = [p \in Packet |-> IF p \in known THEN "none" ELSE tracked[p]]
    /\ UNCHANGED <<sent, resends, failed, netVars, receivedVars, since_report, rx,
                   historyVars>>

-----------------------------------------------------------------------------
\* Receiving peer.  A datagram arrives: whether receipts are overdue is decided
\* first, then the tracker is told of the packet.
RecvPacket(d) ==
    /\ rx.pc = "select" /\ d \in wire
    /\ LET overdue == since_report > MESSAGE_CONFIRMATION_TIMEOUT
       IN  /\ since_report' = IF overdue THEN 0 ELSE since_report
           /\ rx' = [Idle EXCEPT !.pc = "reported", !.id = d.id, !.kind = d.kind,
                                 !.result = ReportResult(d.id),
                                 !.send_receipts = overdue]
    /\ report_received_packet(d.id)
    /\ since_accept' = IF rx'.result = "AlreadyReceived" THEN since_accept
                       ELSE [since_accept EXCEPT ![d.id] = 0]
    /\ repeats' = IF rx'.result = "AlreadyReceived" THEN repeats
                  ELSE [repeats EXCEPT ![d.id] = 0]
    /\ UNCHANGED <<senderVars, netVars, delivered, lost>>

\* The match on (report_result, should_send_receipts), in the order of its arms: a copy of a
\* known packet that finds receipts overdue goes on to process_inbound like a new one.
MustFlush == rx.result = "QueueFull" \/ rx.send_receipts

\* Mutant of Flush: a duplicate is dropped after its receipts were taken.
Flush_DropsDuplicate ==
    /\ rx.pc = "reported" /\ MustFlush
    /\ rx' = IF rx.result = "AlreadyReceived" THEN Idle
             ELSE [rx EXCEPT !.pc = "acking", !.batch = pending_receipts]
    /\ get_receipts
    /\ UNCHANGED <<senderVars, netVars, since_report, historyVars>>

Flush ==
    /\ rx.pc = "reported" /\ MustFlush
    /\ rx' = [rx EXCEPT !.pc = IF pending_receipts = <<>> THEN "processing" ELSE "acking",
                        !.batch = pending_receipts]
    /\ get_receipts
    /\ UNCHANGED <<senderVars, netVars, since_report, historyVars>>

Accept ==
    /\ rx.pc = "reported" /\ ~MustFlush /\ rx.result = "Ok"
    /\ rx' = [rx EXCEPT !.pc = "processing"]
    /\ UNCHANGED <<senderVars, netVars, receivedVars, since_report, historyVars>>

\* Mutant of IgnoreDuplicate: every copy is processed.
IgnoreDuplicate_Processes ==
    /\ rx.pc = "reported" /\ ~MustFlush /\ rx.result = "AlreadyReceived"
    /\ rx' = [rx EXCEPT !.pc = "processing"]
    /\ UNCHANGED <<senderVars, netVars, receivedVars, since_report, historyVars>>

IgnoreDuplicate ==
    /\ rx.pc = "reported" /\ ~MustFlush /\ rx.result = "AlreadyReceived"
    /\ rx' = Idle
    /\ UNCHANGED <<senderVars, netVars, receivedVars, since_report, historyVars>>

\* The noop that carries the receipts is sent, or fails (logged), and the
\* packet is processed; or an outbound message wins the listener's select and
\* drops recv() while it awaits send_to, with the packet it had in hand.
AckSent ==
    /\ rx.pc = "acking"
    /\ acks' = acks \cup {Elements(rx.batch)}
    /\ rx' = [rx EXCEPT !.pc = "processing", !.batch = <<>>]
    /\ UNCHANGED <<senderVars, wire, receivedVars, since_report, historyVars>>

AckFailed ==
    /\ rx.pc = "acking"
    /\ lost' = lost \cup Elements(rx.batch)
    /\ rx' = [rx EXCEPT !.pc = "processing", !.batch = <<>>]
    /\ UNCHANGED <<senderVars, netVars, receivedVars, since_report, delivered,
                   since_accept, repeats>>

\* Mutant of RecvCancelled: the receipts are put back, the packet is not.
RecvCancelled_KeepsReceipts ==
    /\ rx.pc = "acking"
    /\ pending_receipts' = rx.batch \o pending_receipts
    /\ rx' = Idle
    /\ UNCHANGED <<senderVars, netVars, packet_id_time, time_by_packet_id,
                   since_report, historyVars>>

RecvCancelled ==
    /\ rx.pc = "acking"
    /\ lost' = lost \cup Elements(rx.batch)
    /\ rx' = Idle
    /\ UNCHANGED <<senderVars, netVars, receivedVars, since_report, delivered,
                   since_accept, repeats>>

\* process_inbound hands a message up and does nothing for a NoOp.
process_inbound ==
    /\ rx.pc = "processing"
    /\ delivered' = IF rx.kind = "data" THEN delivered \cup {rx.id} ELSE delivered
    /\ repeats' = IF rx.kind = "data" /\ rx.result = "AlreadyReceived"
                  THEN [repeats EXCEPT ![rx.id] = @ + 1] ELSE repeats
    /\ rx' = Idle
    /\ UNCHANGED <<senderVars, netVars, receivedVars, since_report, lost,
                   since_accept>>

\* The background ACK timer, and an outbound short message of this peer, take
\* the pending receipts.
TakeReceipts(pc) ==
    /\ rx.pc = "select" /\ pending_receipts # <<>>
    /\ rx' = [Idle EXCEPT !.pc = pc, !.batch = pending_receipts]
    /\ get_receipts
    /\ UNCHANGED <<senderVars, netVars, since_report, historyVars>>

AckTick == TakeReceipts("ticking")
OutboundShortMessage == TakeReceipts("replying")

CarrierSent ==
    /\ rx.pc \in {"ticking", "replying"}
    /\ acks' = acks \cup {Elements(rx.batch)}
    /\ rx' = Idle
    /\ UNCHANGED <<senderVars, wire, receivedVars, since_report, historyVars>>

\* The carrier's send fails, or recv() is cancelled in the timer's arm: the
\* batch is gone.
CarrierFailed ==
    /\ rx.pc \in {"ticking", "replying"}
    /\ lost' = lost \cup Elements(rx.batch)
    /\ rx' = Idle
    /\ UNCHANGED <<senderVars, netVars, receivedVars, since_report, delivered,
                   since_accept, repeats>>

Tick ==
    /\ Age
    /\ since_report' = IF since_report > MESSAGE_CONFIRMATION_TIMEOUT
                       THEN since_report ELSE since_report + 1
    /\ since_accept' = [p \in Packet |-> OneOlder(since_accept[p])]
    /\ UNCHANGED <<senderVars, netVars, rx, delivered, lost, repeats>>

LinkNext ==
    \/ \E p \in Packet : \/ SendSingle(p) \/ SendFailed(p) \/ Resend(p) \/ Abandon(p)
                         \/ \E ok \in BOOLEAN : SendSplit(p, ok)
    \/ \E batch \in acks : RecvReceipts(batch)
    \/ \E d \in wire : RecvPacket(d)
    \/ Flush \/ Accept \/ IgnoreDuplicate
    \/ AckSent \/ AckFailed \/ RecvCancelled \/ process_inbound
    \/ AckTick \/ OutboundShortMessage \/ CarrierSent \/ CarrierFailed
    \/ Tick

LinkSpec == LinkInit /\ [][LinkNext]_linkVars

-----------------------------------------------------------------------------

\* The duplicate window is exact: the tracker takes a packet for already received if and only
\* if it accepted it at most RETAIN_TIME ago.  It relates the deque that expires entries, the
\* map that is looked up and the history of arrivals: an id that left one structure and not the
\* other breaks it.  What recv() does with a packet so recognised is RepeatsAreRare's subject.
RetentionIsExact ==
    \A p \in Packet : p \in Known <=> since_accept[p] <= RETAIN_TIME

\* Copies of a known packet are handed up only now and then, however many the network makes or
\* the sender resends: recv() ignores a copy unless it finds receipts overdue, which happens at
\* most once in every MESSAGE_CONFIRMATION_TIMEOUT, so at most this many of them are handed up
\* between one acceptance of the packet and the next.
RepeatsAreRare ==
    \A p \in Packet : repeats[p] * (MESSAGE_CONFIRMATION_TIMEOUT + 1)
                          <= MESSAGE_CONFIRMATION_TIMEOUT + RETAIN_TIME

\* The receipt of every packet within the window is somewhere: pending, in the
\* carrier being sent, sent, or lost with a carrier whose send failed or was
\* cancelled.  No other path of the recv loop drops one.
Carried == Elements(pending_receipts) \cup Elements(rx.batch) \cup UNION acks
ReceiptIsAccountedFor == Known \subseteq Carried \cup lost

\* What process_inbound is committed to: no await lies before it.
Committed == delivered \cup
             (IF rx.pc = "processing" /\ rx.kind = "data" THEN {rx.id} ELSE {})

\* For the messages that fit one packet, whatever else is on the link, it
\* implements the abstract delivery service: in particular a message the sender
\* takes for acknowledged was delivered, although receipts are taken and sent
\* before the packet they are for is processed, and although recv() may be
\* cancelled between the two.
Fits(S) == S \ Oversized
Delivery == INSTANCE MessageDelivery WITH
                Message <- Fits(Packet), sent <- Fits(sent), acked <- Fits(acked),
                failed <- Fits(failed), delivered <- Fits(Committed)
DeliversAsPromised == Delivery!Spec

\* "Packet loss: Retransmit after timeout": what was acknowledged was delivered.
AckedIsCommitted == acked \subseteq Committed

=============================================================================
