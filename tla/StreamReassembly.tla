-------------------------- MODULE StreamReassembly --------------------------
(***************************************************************************)
(* The receiving end of a stream: the lock-free buffer its fragments are   *)
(* put in (transport/peer_connection/streaming_buffer.rs), the StreamHandle *)
(* through which an operation assembles it and a pipe forwards a fork of it *)
(* to the next hop (streaming.rs, outbound_stream.rs), and the older       *)
(* InboundStream of messages that are no operation's payload               *)
(* (inbound_stream.rs).                                                    *)
(*                                                                         *)
(* A step is one access to an atomic of the buffer, to the lock of the     *)
(* handle's SyncState or to the buffer's Event.  Reading all the slots is  *)
(* one step: without reclamation, which no caller in the repository asks   *)
(* for, a slot is never emptied.  Fragments arrive in any order, and up to *)
(* MaxRepeats times again, as the packet deduplication forgets in time.    *)
(* Timers may fire whenever they run.  A relay both pipes a stream and     *)
(* assembles it; as its readers only read the buffer, one of them at a     *)
(* time is enough.                                                         *)
(***************************************************************************)
EXTENDS Integers, FiniteSets

CONSTANTS Pusher,          \* calls of push_fragment running at once
          Base,            \* base_fragment_count: of full fragments
          MaxRepeats       \* bound on fragments that arrive again

ASSUME StreamConstants ==
    /\ IsFiniteSet(Pusher)
    /\ Base \in Nat \ {0}
    /\ MaxRepeats \in Nat

Total == Base + 1          \* total_fragments: one slot for the overflow

VARIABLES
    kind,                  \* an operation's stream, assembled here or piped
                           \* to another peer, or a message's
    sent,                  \* fragments it has: metadata in #1 may cost one more
    arrived, repeats,      \* fragments that have arrived, and again
    slots,                 \* the fragments in the buffer
    contiguous_fragments,
    push,                  \* the calls of push_fragment
    cancel,                \* of the connection's handle
    asm,                   \* StreamHandle::assemble
    pipe,                  \* pipe_stream reading a fork of the handle
    inbound,               \* InboundStream and its recv_stream task
    hasty,                 \* history: assemble gave up a stream that was there
    stale                  \* history: inbound got a fragment already appended

bufferVars == <<slots, contiguous_fragments>>
arriving == <<arrived, repeats>>
source == <<kind, sent, arriving>>
vars == <<source, bufferVars, push, cancel, asm, pipe, inbound, hasty, stale>>

cancelled == cancel # "no"
AllIn == (1..sent) \subseteq slots
Listener == {"none", "waiting", "notified"}

Idle == [pc |-> "idle", fragment |-> 0, current |-> 0]

StreamInit ==
    /\ kind \in {"assembled", "piped", "message"}
    /\ sent \in {Base, Total}
    /\ arrived = {} /\ repeats = 0
    /\ slots = {}
    /\ contiguous_fragments = 0
    /\ push = [p \in Pusher |-> Idle]
    /\ cancel = "no"
    /\ asm = [pc |-> "check", listener |-> "none"]
    /\ pipe = [pc |-> "unforked", listener |-> "none", next |-> 1, dead |-> FALSE]
    /\ inbound = [pc |-> "receiving", last |-> 0, waiting |-> {}]
    /\ hasty = FALSE /\ stale = FALSE

\* The network: f arrives, for the first time or again.
Arrives(f) ==
    /\ arrived' = arrived \cup {f}
    /\ IF f \in arrived THEN repeats < MaxRepeats /\ repeats' = repeats + 1
                        ELSE UNCHANGED repeats

-----------------------------------------------------------------------------
(***************************************************************************)
(* push_fragment.  A cancelled handle refuses the fragment, and with it is *)
(* forgotten by the connection: a later fragment starts another buffer.    *)
(***************************************************************************)
At(p, pc) == push' = [push EXCEPT ![p] = [Idle EXCEPT !.pc = pc]]
pushLeaves == <<kind, sent, asm, pipe, inbound, hasty, stale, cancel>>

push_fragment(p, f) ==
    /\ kind # "message"
    /\ push[p].pc = "idle"
    /\ ~cancelled
    /\ Arrives(f)
    /\ push' = [push EXCEPT ![p].pc = "insert", ![p].fragment = f]
    /\ UNCHANGED <<pushLeaves, bufferVars>>

\* The slot is taken by a compare-and-exchange, once ...
insert(p) ==
    /\ push[p].pc = "insert"
    /\ LET f == push[p].fragment
       IN  /\ slots' = slots \cup {f}
           /\ At(p, IF f \in slots THEN "idle" ELSE "load")
    /\ UNCHANGED <<pushLeaves, arriving, contiguous_fragments>>

\* ... then advance_frontier goes on until it meets a gap.
LoadFrontier(p) ==
    /\ push[p].pc = "load"
    /\ push' = [push EXCEPT ![p].pc = "look", ![p].current = contiguous_fragments]
    /\ UNCHANGED <<pushLeaves, arriving, bufferVars>>

LookAtNext(p) ==
    /\ push[p].pc = "look"
    /\ LET next == push[p].current + 1
       IN  IF next > Total \/ next \notin slots
           THEN At(p, "notify")
           ELSE push' = [push EXCEPT ![p].pc = "cas"]
    /\ UNCHANGED <<pushLeaves, arriving, bufferVars>>

\* Mutant of AdvanceFrontier: one fragment, without looking further.
AdvanceFrontier_Once(p) ==
    /\ push[p].pc = "cas"
    /\ contiguous_fragments' = IF contiguous_fragments = push[p].current
                               THEN push[p].current + 1 ELSE contiguous_fragments
    /\ At(p, "notify")
    /\ UNCHANGED <<pushLeaves, arriving, slots>>

AdvanceFrontier(p) ==
    /\ push[p].pc = "cas"
    /\ contiguous_fragments' = IF contiguous_fragments = push[p].current
                               THEN push[p].current + 1 ELSE contiguous_fragments
    /\ At(p, "load")
    /\ UNCHANGED <<pushLeaves, arriving, slots>>

\* Event::notify(usize::MAX), of everyone who listens.
Notified(r) == [r EXCEPT !.listener = IF @ = "waiting" THEN "notified" ELSE @]
NotifyAll == asm' = Notified(asm) /\ pipe' = Notified(pipe)

NotifyInserted(p) ==
    /\ push[p].pc = "notify"
    /\ NotifyAll
    /\ At(p, "idle")
    /\ UNCHANGED <<source, bufferVars, cancel, inbound, hasty, stale>>

-----------------------------------------------------------------------------
(***************************************************************************)
(* cancel: the connection is dropped, its sweep finds the stream idle, or  *)
(* the orphan registry collects it.                                        *)
(***************************************************************************)
SetCancelled ==
    /\ kind # "message"
    /\ cancel = "no"
    /\ cancel' = "set"
    /\ UNCHANGED <<source, bufferVars, push, asm, pipe, inbound, hasty, stale>>

NotifyCancelled ==
    /\ cancel = "set"
    /\ cancel' = "done"
    /\ NotifyAll
    /\ UNCHANGED <<source, bufferVars, push, inbound, hasty, stale>>

-----------------------------------------------------------------------------
(***************************************************************************)
(* StreamHandle::assemble.                                                 *)
(***************************************************************************)
asmLeaves == <<source, bufferVars, push, cancel, pipe, inbound, stale>>

\* Mutant of is_complete: it counts the fragments, contiguous or not.
is_complete_Counted == Cardinality(slots) >= Base

is_complete == contiguous_fragments >= Base

\* The bytes suffice only with the overflow fragment, if there is one.
buffer_assemble == is_complete /\ AllIn

AsmCheck ==
    /\ kind = "assembled"
    /\ asm.pc = "check"
    /\ asm' = [asm EXCEPT !.pc = IF cancelled THEN "cancelled" ELSE "try"]
    /\ UNCHANGED <<asmLeaves, hasty>>

AsmTry ==
    /\ asm.pc = "try"
    /\ asm' = [asm EXCEPT !.pc = IF buffer_assemble THEN "assembled" ELSE "listen"]
    /\ UNCHANGED <<asmLeaves, hasty>>

\* The listener is made after the look at the buffer.
AsmListen ==
    /\ asm.pc = "listen"
    /\ asm' = [pc |-> "wait", listener |-> "waiting"]
    /\ UNCHANGED <<asmLeaves, hasty>>

AsmWoken ==
    /\ asm.pc = "wait" /\ asm.listener = "notified"
    /\ asm' = [pc |-> "check", listener |-> "none"]
    /\ UNCHANGED <<asmLeaves, hasty>>

\* Mutant of AsmTimesOut: what came since the look is not seen.
AsmTimesOut_Final ==
    /\ asm.pc = "wait" /\ asm.listener = "waiting"
    /\ asm' = [pc |-> "inactivity", listener |-> "none"]
    /\ hasty' = (hasty \/ (AllIn /\ \A p \in Pusher : push[p].pc = "idle"))
    /\ UNCHANGED asmLeaves

\* STREAM_INACTIVITY_TIMEOUT: look again before giving up.
AsmTimesOut ==
    /\ asm.pc = "wait" /\ asm.listener = "waiting"
    /\ asm' = [pc |-> IF cancelled THEN "cancelled" ELSE "expired", listener |-> "none"]
    /\ UNCHANGED <<asmLeaves, hasty>>

\* Mutant of AsmGivesUp: it waits for another fragment instead.
AsmGivesUp_Never ==
    /\ asm.pc = "expired"
    /\ asm' = [asm EXCEPT !.pc = IF buffer_assemble THEN "assembled" ELSE "check"]
    /\ UNCHANGED <<asmLeaves, hasty>>

AsmGivesUp ==
    /\ asm.pc = "expired"
    /\ asm' = [asm EXCEPT !.pc = IF buffer_assemble THEN "assembled" ELSE "inactivity"]
    /\ hasty' = (hasty \/ (/\ ~buffer_assemble
                           /\ AllIn
                           /\ \A p \in Pusher : push[p].pc = "idle"))
    /\ UNCHANGED asmLeaves

-----------------------------------------------------------------------------
(***************************************************************************)
(* pipe_stream over StreamHandle::fork().stream(): each round is poll_next *)
(* and, if it yields, the sending of the fragment.                         *)
(***************************************************************************)
pipeLeaves == <<source, bufferVars, push, cancel, asm, inbound, hasty, stale>>
PipeAt(pc) == pipe' = [pipe EXCEPT !.pc = pc]
NextIn == pipe.next \in slots

\* The fork gets a SyncState of its own, cancelled only if the handle is.
fork ==
    /\ kind = "piped"
    /\ pipe.pc = "unforked"
    /\ pipe' = [pipe EXCEPT !.pc = "poll", !.dead = cancelled]
    /\ UNCHANGED pipeLeaves

\* Mutant of PipePoll: the fork looks at the handle it was made from.
PipePoll_Shared ==
    /\ pipe.pc = "poll"
    /\ PipeAt(CASE cancelled -> "cancelled"
                [] ~cancelled /\ pipe.next > Total -> "ended"
                [] ~cancelled /\ is_complete /\ ~NextIn -> "ended"
                [] OTHER -> "get")
    /\ UNCHANGED pipeLeaves

\* The stream ends after the last slot, or at an empty one once is_complete.
PipePoll ==
    /\ pipe.pc = "poll"
    /\ PipeAt(CASE pipe.dead -> "cancelled"
                [] ~pipe.dead /\ pipe.next > Total -> "ended"
                [] ~pipe.dead /\ is_complete /\ ~NextIn -> "ended"
                [] OTHER -> "get")
    /\ UNCHANGED pipeLeaves

\* A look at the slot; a fragment found is yielded and the listener dropped.
Looks(pc, otherwise) ==
    /\ pipe.pc = pc
    /\ pipe' = IF NextIn THEN [pipe EXCEPT !.pc = "send", !.listener = "none"]
                         ELSE [pipe EXCEPT !.pc = otherwise]
    /\ UNCHANGED pipeLeaves

PipeGet == Looks("get", "arm")

\* The listener is made before the slot is looked at again.
PipeArm ==
    /\ pipe.pc = "arm"
    /\ pipe' = [pipe EXCEPT !.pc = "recheck",
                            !.listener = IF @ = "none" THEN "waiting" ELSE @]
    /\ UNCHANGED pipeLeaves

PipeRecheck == Looks("recheck", "listen")

\* Poll the listener: notified, it is used up; else it keeps the waker.
PipeListens ==
    /\ pipe.pc = "listen"
    /\ pipe' = IF pipe.listener = "notified"
               THEN [pipe EXCEPT !.pc = "heard", !.listener = "none"]
               ELSE [pipe EXCEPT !.pc = "pending"]
    /\ UNCHANGED pipeLeaves

PipeHeard == Looks("heard", "rearm")

PipeRearm ==
    /\ pipe.pc = "rearm"
    /\ pipe' = [pipe EXCEPT !.pc = "last_look", !.listener = "waiting"]
    /\ UNCHANGED pipeLeaves

PipeLastLook == Looks("last_look", "relisten")

\* A notification since the last look uses the fresh listener up, and
\* poll_next still returns Pending.
PipeRelistens ==
    /\ pipe.pc = "relisten"
    /\ pipe' = [pipe EXCEPT !.pc = "pending",
                            !.listener = IF @ = "notified" THEN "none" ELSE @]
    /\ UNCHANGED pipeLeaves

PipeWoken ==
    /\ pipe.pc = "pending" /\ pipe.listener = "notified"
    /\ PipeAt("poll")
    /\ UNCHANGED pipeLeaves

\* The pipe's own inactivity timeout: select! polls the stream first or not.
PipeTimesOut ==
    /\ pipe.pc = "pending"
    /\ PipeAt("stalled") \/ ((NextIn \/ is_complete) /\ PipeAt("poll"))
    /\ UNCHANGED pipeLeaves

PipeSends ==
    /\ pipe.pc = "send"
    /\ pipe' = [pipe EXCEPT !.pc = "poll", !.next = @ + 1]
    /\ UNCHANGED pipeLeaves

PipeSendFails ==
    /\ pipe.pc = "send"
    /\ PipeAt("failed")
    /\ UNCHANGED pipeLeaves

-----------------------------------------------------------------------------
(***************************************************************************)
(* InboundStream::push_fragment, called by the recv_stream task in the     *)
(* order of the channel from process_inbound, and the end of that task.    *)
(***************************************************************************)
inboundLeaves == <<kind, sent, bufferVars, push, cancel, asm, pipe, hasty>>

\* pop_first gives the lowest fragment: it is appended, or put back and the
\* loop ends.
Appended(last, waiting) ==
    IF last + 1 \in waiting /\ \A f \in waiting : f > last
    THEN CHOOSE m \in waiting : (last + 1)..m \subseteq waiting /\ m + 1 \notin waiting
    ELSE last

\* Mutant of InboundPush: what waited is not looked at.
InboundPush_Alone(f) ==
    /\ kind = "message"
    /\ inbound.pc = "receiving"
    /\ Arrives(f)
    /\ stale' = (stale \/ f <= inbound.last)
    /\ LET direct == f = inbound.last + 1
           last == IF direct THEN f ELSE inbound.last
       IN  inbound' = [pc |-> IF last = sent THEN "finished" ELSE "receiving",
                       last |-> last,
                       waiting |-> IF direct THEN inbound.waiting
                                   ELSE inbound.waiting \cup {f}]
    /\ UNCHANGED inboundLeaves

InboundPush(f) ==
    /\ kind = "message"
    /\ inbound.pc = "receiving"
    /\ Arrives(f)
    /\ stale' = (stale \/ f <= inbound.last)
    /\ LET direct == f = inbound.last + 1
           kept == IF direct THEN inbound.waiting ELSE inbound.waiting \cup {f}
           last == Appended(IF direct THEN f ELSE inbound.last, kept)
       IN  inbound' = [pc |-> IF last = sent THEN "finished" ELSE "receiving",
                       last |-> last,
                       waiting |-> kept \ (inbound.last + 1)..last]
    /\ UNCHANGED inboundLeaves

\* The recv loop takes the message of the finished task and forgets the stream.
InboundDelivers ==
    /\ inbound.pc = "finished"
    /\ inbound' = [inbound EXCEPT !.pc = "delivered"]
    /\ UNCHANGED <<inboundLeaves, arriving, stale>>

\* A fragment for a task that has ended: its channel is closed, and the error
\* ends the connection.
InboundTooLate(f) ==
    /\ inbound.pc = "finished"
    /\ Arrives(f)
    /\ stale' = TRUE
    /\ inbound' = [inbound EXCEPT !.pc = "closed"]
    /\ UNCHANGED inboundLeaves

-----------------------------------------------------------------------------
PushStep(p) ==
    \/ insert(p) \/ LoadFrontier(p) \/ LookAtNext(p) \/ AdvanceFrontier(p)
    \/ NotifyInserted(p)

AsmStep == AsmCheck \/ AsmTry \/ AsmListen \/ AsmWoken \/ AsmGivesUp

PipeStep ==
    \/ fork \/ PipePoll \/ PipeGet \/ PipeArm \/ PipeRecheck \/ PipeListens
    \/ PipeHeard \/ PipeRearm \/ PipeLastLook \/ PipeRelistens \/ PipeWoken
    \/ PipeSends \/ PipeSendFails

StreamNext ==
    \/ \E p \in Pusher : PushStep(p) \/ \E f \in 1..sent : push_fragment(p, f)
    \/ SetCancelled \/ NotifyCancelled
    \/ AsmStep \/ AsmTimesOut
    \/ PipeStep \/ PipeTimesOut
    \/ \E f \in 1..sent : InboundPush(f) \/ InboundTooLate(f)
    \/ InboundDelivers

\* Tasks that are woken run, and timers fire; fragments need not arrive.
StreamFairness ==
    /\ \A p \in Pusher : WF_vars(PushStep(p))
    /\ WF_vars(AsmStep) /\ WF_vars(AsmTimesOut)
    /\ WF_vars(PipeStep) /\ WF_vars(PipeTimesOut)
    /\ WF_vars(InboundDelivers)

StreamSpec == StreamInit /\ [][StreamNext]_vars
FairStreamSpec == StreamSpec /\ StreamFairness

-----------------------------------------------------------------------------

\* The frontier never passes a gap, and it does not stop short of one: while
\* the fragment after it is in the buffer, some push_fragment is still in
\* advance_frontier, however several of them interleave.
Advancing(p) == push[p].pc \in {"load", "look", "cas"}
FrontierIsExact ==
    /\ (1..contiguous_fragments) \subseteq slots
    /\ contiguous_fragments + 1 \in slots => \E p \in Pusher : Advancing(p)

\* assemble returns data only with every fragment of the stream, the overflow
\* one included, and its inactivity timeout never gives up a stream that has
\* completely arrived, although the listener is made after the look.
AssembleIsExact ==
    /\ asm.pc = "assembled" => AllIn
    /\ ~hasty

\* Cancelling the connection's handle never stops a pipe that has forked it
\* before: the pipe goes on with what the buffer has.
ForkOutlivesCancel ==
    [][pipe.pc # "unforked" /\ pipe'.pc = "cancelled" => pipe.dead]_vars

\* A pipe that ends without an error has sent, once and in order, at least all
\* the fragments a stream without embedded metadata has.
EndedMissesOnlyOverflow == pipe.pc = "ended" => pipe.next > Base

\* InboundStream returns the message as soon as all its fragments have been
\* pushed, in any order and with repetitions, unless a fragment was pushed
\* again after it had been appended.
InboundCompletes ==
    kind = "message" /\ arrived = 1..sent /\ ~stale
        => inbound.pc \in {"finished", "delivered"}

\* An operation that assembles a stream, and the pipe of a relay, come to an
\* end even if the rest of the stream never arrives.
ReadersFinish ==
    /\ kind = "assembled" ~> asm.pc \in {"assembled", "cancelled", "inactivity"}
    /\ kind = "piped" ~> pipe.pc \in {"ended", "cancelled", "stalled", "failed"}

=============================================================================
