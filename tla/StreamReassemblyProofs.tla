----------------------- MODULE StreamReassemblyProofs -----------------------
(***************************************************************************)
(* The lock-free buffer and its readers, for any number of fragments and   *)
(* of calls of push_fragment at once.                                      *)
(*                                                                         *)
(* The frontier is exact because a call that has read it never holds more  *)
(* than its value: a call whose look fails either read the value that      *)
(* still stands, and then met the gap, or an older one, and then the slot  *)
(* it looked at is filled.  What the readers conclude follows from it.     *)
(***************************************************************************)
EXTENDS StreamReassembly, FiniteSetTheorems, TLAPS

PushPcs == {"idle", "insert", "load", "look", "cas", "notify"}
PushRecord == [pc : PushPcs, fragment : 0..Total, current : 0..Total]

BufferTyped ==
    /\ sent \in {Base, Total}
    /\ slots \subseteq 1..Total
    /\ contiguous_fragments \in 0..Total
    /\ push \in [Pusher -> PushRecord]

\* What a call of push_fragment knows at each of its steps.
CallsAreBehind ==
    \A p \in Pusher :
        /\ push[p].pc = "insert" => push[p].fragment \in 1..Total
        /\ push[p].pc \in {"look", "cas"} => push[p].current <= contiguous_fragments
        /\ push[p].pc = "cas" => push[p].current + 1 \in slots

BufferInv == BufferTyped /\ FrontierIsExact /\ CallsAreBehind

AsmPcs == {"check", "try", "listen", "wait", "expired", "assembled", "cancelled",
           "inactivity"}
PipePcs == {"unforked", "poll", "get", "arm", "recheck", "listen", "heard", "rearm",
            "last_look", "relisten", "pending", "send", "ended", "cancelled", "stalled",
            "failed"}

ReaderTyped ==
    /\ asm \in [pc : AsmPcs, listener : Listener]
    /\ pipe \in [pc : PipePcs, listener : Listener, next : Nat \ {0}, dead : BOOLEAN]

ReaderInv == ReaderTyped /\ AssembleIsExact /\ EndedMissesOnlyOverflow

buffer == <<sent, slots, contiguous_fragments, push>>

-----------------------------------------------------------------------------
\* The buffer starts empty and no one has read it.
LEMMA StreamInitOK == StreamInit => BufferInv /\ ReaderInv
<1> SUFFICES ASSUME StreamInit
             PROVE  BufferInv /\ ReaderInv
  OBVIOUS
<1>1. BufferTyped
  <2>1. Idle \in PushRecord
    BY StreamConstants DEF Idle, PushRecord, PushPcs, Total
  <2>2. QED
    BY <2>1, StreamConstants DEF StreamInit, BufferTyped, Total
<1>2. FrontierIsExact
  BY DEF StreamInit, FrontierIsExact
<1>3. CallsAreBehind
  BY DEF StreamInit, CallsAreBehind, Idle
<1>4. ReaderTyped
  BY DEF StreamInit, ReaderTyped, AsmPcs, PipePcs, Listener
<1>5. AssembleIsExact /\ EndedMissesOnlyOverflow
  BY DEF StreamInit, AssembleIsExact, EndedMissesOnlyOverflow
<1>6. QED
  BY <1>1, <1>2, <1>3, <1>4, <1>5 DEF BufferInv, ReaderInv

\* push_fragment starts a call.
LEMMA PushStarts ==
    ASSUME BufferInv, NEW p \in Pusher, NEW f \in 1..sent, push_fragment(p, f)
    PROVE  BufferInv'
<1>1. f \in 1..Total
  BY StreamConstants DEF BufferInv, BufferTyped, Total
<1>2. BufferTyped'
  <2>1. push' \in [Pusher -> PushRecord]
    <3>1. f \in 0..Total
      BY <1>1, StreamConstants DEF Total
    <3>2. QED
      BY <3>1 DEF BufferInv, BufferTyped, push_fragment, PushRecord, PushPcs
  <2>2. QED
    BY <2>1 DEF BufferInv, BufferTyped, push_fragment, pushLeaves, bufferVars, Total
<1>3. FrontierIsExact'
  BY DEF BufferInv, BufferTyped, FrontierIsExact, Advancing, push_fragment, pushLeaves,
         bufferVars, PushRecord, PushPcs
<1>4. CallsAreBehind'
  BY <1>1 DEF BufferInv, BufferTyped, CallsAreBehind, push_fragment, pushLeaves, bufferVars,
              PushRecord, PushPcs
<1>5. QED
  BY <1>2, <1>3, <1>4 DEF BufferInv

\* insert fills a slot, and then the call looks at the frontier.
LEMMA InsertKeeps ==
    ASSUME BufferInv, NEW p \in Pusher, insert(p)
    PROVE  BufferInv'
<1> DEFINE f == push[p].fragment
<1>1. f \in 1..Total
  BY DEF BufferInv, BufferTyped, CallsAreBehind, insert
<1>2. /\ slots' = slots \cup {f}
      /\ contiguous_fragments' = contiguous_fragments
      /\ sent' = sent
      /\ push' = [push EXCEPT ![p] = [Idle EXCEPT !.pc = IF f \in slots THEN "idle" ELSE "load"]]
  BY DEF insert, At, pushLeaves
<1>3. BufferTyped'
  BY <1>1, <1>2, StreamConstants
     DEF BufferInv, BufferTyped, PushRecord, PushPcs, Idle, Total
<1>4. FrontierIsExact'
  <2>1. CASE f \in slots
    BY <1>2, <2>1 DEF BufferInv, BufferTyped, FrontierIsExact, Advancing, insert, Idle,
                      PushRecord, PushPcs
  <2>2. CASE f \notin slots
    <3>1. push'[p].pc = "load"
      BY <1>2, <2>2 DEF BufferInv, BufferTyped, Idle
    <3>2. QED
      BY <1>2, <3>1 DEF BufferInv, FrontierIsExact, Advancing
  <2>3. QED
    BY <2>1, <2>2
<1>5. CallsAreBehind'
  BY <1>2 DEF BufferInv, BufferTyped, CallsAreBehind, Idle, PushRecord, PushPcs
<1>6. QED
  BY <1>3, <1>4, <1>5 DEF BufferInv

\* The load reads the frontier as it is.
LEMMA LoadKeeps ==
    ASSUME BufferInv, NEW p \in Pusher, LoadFrontier(p)
    PROVE  BufferInv'
<1>1. BufferTyped'
  BY DEF BufferInv, BufferTyped, LoadFrontier, pushLeaves, bufferVars, PushRecord, PushPcs
<1>2. FrontierIsExact'
  BY DEF BufferInv, BufferTyped, FrontierIsExact, Advancing, LoadFrontier, pushLeaves,
         bufferVars, PushRecord, PushPcs
<1>3. CallsAreBehind'
  BY DEF BufferInv, BufferTyped, CallsAreBehind, LoadFrontier, pushLeaves, bufferVars,
         PushRecord, PushPcs
<1>4. QED
  BY <1>1, <1>2, <1>3 DEF BufferInv

\* A look that fails met the gap after the frontier that stands now.
LEMMA LookKeeps ==
    ASSUME BufferInv, NEW p \in Pusher, LookAtNext(p)
    PROVE  BufferInv'
<1> DEFINE next == push[p].current + 1
<1>0. /\ slots' = slots /\ contiguous_fragments' = contiguous_fragments /\ sent' = sent
      /\ push[p].pc = "look"
      /\ push[p].current \in Nat /\ contiguous_fragments \in Nat
      /\ push[p].current <= contiguous_fragments
  BY StreamConstants
     DEF BufferInv, BufferTyped, CallsAreBehind, LookAtNext, pushLeaves, bufferVars,
         PushRecord, PushPcs, Total
<1>1. CASE next > Total \/ next \notin slots
  <2>1. push' = [push EXCEPT ![p] = [Idle EXCEPT !.pc = "notify"]]
    BY <1>1 DEF LookAtNext, At
  <2>2. contiguous_fragments + 1 \notin slots
    <3>1. next \notin slots
      BY <1>0, <1>1, StreamConstants DEF BufferInv, BufferTyped, Total
    <3>2. push[p].current = contiguous_fragments
      BY <1>0, <3>1 DEF BufferInv, FrontierIsExact
    <3>3. QED
      BY <3>1, <3>2
  <2>3. BufferTyped'
    BY <1>0, <2>1, StreamConstants
       DEF BufferInv, BufferTyped, PushRecord, PushPcs, Idle, Total
  <2>4. FrontierIsExact'
    BY <1>0, <2>2 DEF BufferInv, FrontierIsExact
  <2>5. CallsAreBehind'
    BY <1>0, <2>1 DEF BufferInv, BufferTyped, CallsAreBehind, Idle, PushRecord, PushPcs
  <2>6. QED
    BY <2>3, <2>4, <2>5 DEF BufferInv
<1>2. CASE ~(next > Total \/ next \notin slots)
  <2>1. push' = [push EXCEPT ![p].pc = "cas"]
    BY <1>2 DEF LookAtNext
  <2>2. BufferTyped'
    BY <1>0, <2>1 DEF BufferInv, BufferTyped, PushRecord, PushPcs
  <2>3. FrontierIsExact'
    BY <1>0, <2>1 DEF BufferInv, BufferTyped, FrontierIsExact, Advancing, PushRecord, PushPcs
  <2>4. CallsAreBehind'
    BY <1>0, <1>2, <2>1 DEF BufferInv, BufferTyped, CallsAreBehind, PushRecord, PushPcs
  <2>5. QED
    BY <2>2, <2>3, <2>4 DEF BufferInv
<1>3. QED
  BY <1>1, <1>2

\* The compare-and-exchange moves the frontier onto a filled slot, or fails.
LEMMA AdvanceKeeps ==
    ASSUME BufferInv, NEW p \in Pusher, AdvanceFrontier(p)
    PROVE  BufferInv'
<1>0. /\ slots' = slots /\ sent' = sent
      /\ push[p].pc = "cas"
      /\ push[p].current + 1 \in slots
      /\ push[p].current \in Nat /\ contiguous_fragments \in Nat
      /\ push' = [push EXCEPT ![p] = [Idle EXCEPT !.pc = "load"]]
  BY StreamConstants
     DEF BufferInv, BufferTyped, CallsAreBehind, AdvanceFrontier, At, pushLeaves, PushRecord,
         PushPcs, Total
<1>1. \/ contiguous_fragments' = contiguous_fragments
      \/ /\ contiguous_fragments = push[p].current
         /\ contiguous_fragments' = contiguous_fragments + 1
  BY DEF AdvanceFrontier
<1>2. /\ contiguous_fragments' \in Nat
      /\ contiguous_fragments <= contiguous_fragments'
      /\ contiguous_fragments' \in 0..Total
      /\ 1..contiguous_fragments' \subseteq slots
  BY <1>0, <1>1, StreamConstants DEF BufferInv, BufferTyped, FrontierIsExact, Total
<1>3. BufferTyped'
  BY <1>0, <1>2, StreamConstants DEF BufferInv, BufferTyped, PushRecord, PushPcs, Idle, Total
<1>4. FrontierIsExact'
  <2>1. push'[p].pc = "load"
    BY <1>0 DEF BufferInv, BufferTyped, Idle
  <2>2. QED
    BY <1>0, <1>2, <2>1 DEF FrontierIsExact, Advancing
<1>5. CallsAreBehind'
  <2>1. SUFFICES ASSUME NEW q \in Pusher
                 PROVE  /\ push'[q].pc = "insert" => push'[q].fragment \in 1..Total
                        /\ push'[q].pc \in {"look", "cas"}
                              => push'[q].current <= contiguous_fragments'
                        /\ push'[q].pc = "cas" => push'[q].current + 1 \in slots'
    BY DEF CallsAreBehind, Total
  <2>2. CASE q = p
    BY <1>0, <2>2 DEF BufferInv, BufferTyped, Idle
  <2>3. CASE q # p
    <3>1. push'[q] = push[q]
      BY <1>0, <2>3 DEF BufferInv, BufferTyped
    <3>2. push[q].current \in Nat
      BY StreamConstants DEF BufferInv, BufferTyped, PushRecord, Total
    <3>3. QED
      BY <1>0, <1>2, <3>1, <3>2 DEF BufferInv, CallsAreBehind
  <2>4. QED
    BY <2>2, <2>3
<1>6. QED
  BY <1>3, <1>4, <1>5 DEF BufferInv

\* The notification ends the call.
LEMMA NotifyKeeps ==
    ASSUME BufferInv, NEW p \in Pusher, NotifyInserted(p)
    PROVE  BufferInv'
<1>0. /\ slots' = slots /\ sent' = sent /\ contiguous_fragments' = contiguous_fragments
      /\ push[p].pc = "notify"
      /\ push' = [push EXCEPT ![p] = [Idle EXCEPT !.pc = "idle"]]
  BY DEF NotifyInserted, At, source, bufferVars
<1>1. BufferTyped'
  BY <1>0, StreamConstants DEF BufferInv, BufferTyped, PushRecord, PushPcs, Idle, Total
<1>2. FrontierIsExact'
  BY <1>0 DEF BufferInv, BufferTyped, FrontierIsExact, Advancing, Idle, PushRecord, PushPcs
<1>3. CallsAreBehind'
  BY <1>0 DEF BufferInv, BufferTyped, CallsAreBehind, Idle, PushRecord, PushPcs
<1>4. QED
  BY <1>1, <1>2, <1>3 DEF BufferInv

\* The other tasks only read the buffer.
LEMMA OthersLeaveBuffer ==
    ASSUME \/ SetCancelled \/ NotifyCancelled
           \/ AsmStep \/ AsmTimesOut
           \/ PipeStep \/ PipeTimesOut
           \/ \E f \in 1..sent : InboundPush(f) \/ InboundTooLate(f)
           \/ InboundDelivers
    PROVE  UNCHANGED buffer
BY DEF buffer, SetCancelled, NotifyCancelled, AsmStep, AsmCheck, AsmTry, AsmListen, AsmWoken,
       AsmGivesUp, AsmTimesOut, PipeStep, fork, PipePoll, PipeGet, PipeArm, PipeRecheck,
       PipeListens, PipeHeard, PipeRearm, PipeLastLook, PipeRelistens, PipeWoken, PipeSends,
       PipeSendFails, PipeTimesOut, Looks, InboundPush, InboundTooLate, InboundDelivers,
       asmLeaves, pipeLeaves, inboundLeaves, source, bufferVars

\* No step disturbs the buffer's invariant.
LEMMA BufferNext == BufferInv /\ [StreamNext]_vars => BufferInv'
<1> SUFFICES ASSUME BufferInv, [StreamNext]_vars
             PROVE  BufferInv'
  OBVIOUS
<1>1. ASSUME UNCHANGED buffer
      PROVE  BufferInv'
  BY <1>1 DEF buffer, BufferInv, BufferTyped, FrontierIsExact, CallsAreBehind, Advancing
<1>2. ASSUME NEW p \in Pusher, PushStep(p)
      PROVE  BufferInv'
  BY <1>2, InsertKeeps, LoadKeeps, LookKeeps, AdvanceKeeps, NotifyKeeps DEF PushStep
<1>3. ASSUME NEW p \in Pusher, NEW f \in 1..sent, push_fragment(p, f)
      PROVE  BufferInv'
  BY <1>3, PushStarts
<1>4. CASE UNCHANGED vars
  BY <1>1, <1>4 DEF vars, buffer, source, bufferVars
<1>5. QED
  BY <1>1, <1>2, <1>3, <1>4, OthersLeaveBuffer DEF StreamNext

-----------------------------------------------------------------------------
\* Slots are only filled, so what has been assembled stays whole.
LEMMA SlotsGrow ==
    ASSUME [StreamNext]_vars
    PROVE  slots \subseteq slots' /\ sent' = sent
<1>1. ASSUME NEW p \in Pusher, PushStep(p)
      PROVE  slots \subseteq slots' /\ sent' = sent
  BY <1>1 DEF PushStep, insert, LoadFrontier, LookAtNext, AdvanceFrontier, NotifyInserted,
              pushLeaves, bufferVars, source
<1>2. ASSUME NEW p \in Pusher, NEW f \in 1..sent, push_fragment(p, f)
      PROVE  slots \subseteq slots' /\ sent' = sent
  BY <1>2 DEF push_fragment, pushLeaves, bufferVars
<1>3. CASE UNCHANGED vars
  BY <1>3 DEF vars, source, bufferVars
<1>4. QED
  BY <1>1, <1>2, <1>3, OthersLeaveBuffer DEF StreamNext, buffer

\* Where nothing is being pushed and every fragment is in, the frontier has
\* reached the end: is_complete holds and the bytes suffice.
LEMMA AllInIsComplete ==
    ASSUME BufferInv, AllIn, \A p \in Pusher : push[p].pc = "idle"
    PROVE  buffer_assemble
<1>1. contiguous_fragments + 1 \notin slots
  BY DEF BufferInv, FrontierIsExact, Advancing
<1>2. contiguous_fragments \in Nat /\ sent \in Nat /\ Base <= sent /\ Base \in Nat
  BY StreamConstants DEF BufferInv, BufferTyped, Total
<1>3. contiguous_fragments >= sent
  BY <1>1, <1>2 DEF AllIn
<1>4. QED
  BY <1>2, <1>3 DEF buffer_assemble, is_complete

\* assemble finds the stream whole, or gives up one that is not.
LEMMA AssembleNext ==
    ASSUME BufferInv, ReaderTyped, AssembleIsExact, [StreamNext]_vars
    PROVE  AssembleIsExact'
<1>0. AllIn => AllIn'
  BY SlotsGrow DEF AllIn
<1>1. CASE AsmTry
  BY <1>0, <1>1 DEF AssembleIsExact, AsmTry, ReaderTyped, buffer_assemble, AllIn, asmLeaves,
                    source, bufferVars
<1>2. CASE AsmGivesUp
  BY <1>0, <1>2, AllInIsComplete
     DEF AssembleIsExact, AsmGivesUp, ReaderTyped, buffer_assemble
<1>3. CASE AsmCheck \/ AsmListen \/ AsmWoken \/ AsmTimesOut
  <2>1. asm'.pc # "assembled" /\ hasty' = hasty
    BY <1>3 DEF AsmCheck, AsmListen, AsmWoken, AsmTimesOut, ReaderTyped
  <2>2. QED
    BY <2>1 DEF AssembleIsExact
<1>4. CASE asm'.pc = asm.pc /\ hasty' = hasty
  BY <1>0, <1>4 DEF AssembleIsExact
<1>5. ASSUME NEW p \in Pusher, PushStep(p) \/ \E f \in 1..sent : push_fragment(p, f)
      PROVE  asm'.pc = asm.pc /\ hasty' = hasty
  BY <1>5 DEF PushStep, insert, LoadFrontier, LookAtNext, AdvanceFrontier, NotifyInserted,
              NotifyAll, Notified, push_fragment, pushLeaves, ReaderTyped
<1>6. ASSUME SetCancelled \/ NotifyCancelled
      PROVE  asm'.pc = asm.pc /\ hasty' = hasty
  BY <1>6 DEF SetCancelled, NotifyCancelled, NotifyAll, Notified, ReaderTyped
<1>7. ASSUME PipeStep \/ PipeTimesOut
      PROVE  asm'.pc = asm.pc /\ hasty' = hasty
  BY <1>7 DEF PipeStep, fork, PipePoll, PipeGet, PipeArm, PipeRecheck, PipeListens, PipeHeard,
              PipeRearm, PipeLastLook, PipeRelistens, PipeWoken, PipeSends, PipeSendFails,
              PipeTimesOut, Looks, pipeLeaves
<1>8. ASSUME (\E f \in 1..sent : InboundPush(f) \/ InboundTooLate(f)) \/ InboundDelivers
      PROVE  asm'.pc = asm.pc /\ hasty' = hasty
  BY <1>8 DEF InboundPush, InboundTooLate, InboundDelivers, inboundLeaves
<1>9. CASE UNCHANGED vars
  BY <1>4, <1>9 DEF vars
<1>10. QED
  BY <1>1, <1>2, <1>3, <1>4, <1>5, <1>6, <1>7, <1>8, <1>9 DEF StreamNext, AsmStep

\* A pipe ends only beyond the fragments every stream has.
LEMMA PollEndsLate ==
    ASSUME BufferInv, ReaderTyped, PipePoll
    PROVE  EndedMissesOnlyOverflow'
<1>0. pipe' = [pipe EXCEPT !.pc = pipe'.pc] /\ pipe'.next = pipe.next
  BY DEF PipePoll, PipeAt, ReaderTyped
<1>1. ASSUME pipe'.pc = "ended"
      PROVE  pipe.next > Total \/ (is_complete /\ ~NextIn)
  BY <1>1 DEF PipePoll, PipeAt, ReaderTyped
<1>2. ASSUME is_complete, ~NextIn
      PROVE  pipe.next > Base
  BY <1>2, StreamConstants
     DEF is_complete, NextIn, BufferInv, BufferTyped, FrontierIsExact, ReaderTyped, Total
<1>3. ASSUME pipe.next > Total
      PROVE  pipe.next > Base
  BY <1>3, StreamConstants DEF Total, ReaderTyped
<1>4. QED
  BY <1>0, <1>1, <1>2, <1>3 DEF EndedMissesOnlyOverflow

\* Every other step leaves an ended pipe where it is.
LEMMA EndedNext ==
    ASSUME BufferInv, ReaderTyped, EndedMissesOnlyOverflow, [StreamNext]_vars
    PROVE  EndedMissesOnlyOverflow'
<1>1. CASE PipePoll
  BY <1>1, PollEndsLate
<1>2. CASE \/ fork \/ PipeGet \/ PipeArm \/ PipeRecheck \/ PipeListens \/ PipeHeard
           \/ PipeRearm \/ PipeLastLook \/ PipeRelistens \/ PipeWoken \/ PipeSends
           \/ PipeSendFails \/ PipeTimesOut
  <2>1. pipe'.pc # "ended"
    BY <1>2 DEF fork, PipeGet, PipeArm, PipeRecheck, PipeListens, PipeHeard, PipeRearm,
                PipeLastLook, PipeRelistens, PipeWoken, PipeSends, PipeSendFails,
                PipeTimesOut, PipeAt, Looks, ReaderTyped
  <2>2. QED
    BY <2>1 DEF EndedMissesOnlyOverflow
<1>3. CASE pipe'.pc = pipe.pc /\ pipe'.next = pipe.next
  BY <1>3 DEF EndedMissesOnlyOverflow
<1>4. ASSUME NEW p \in Pusher, PushStep(p) \/ \E f \in 1..sent : push_fragment(p, f)
      PROVE  pipe'.pc = pipe.pc /\ pipe'.next = pipe.next
  BY <1>4 DEF PushStep, insert, LoadFrontier, LookAtNext, AdvanceFrontier, NotifyInserted,
              NotifyAll, Notified, push_fragment, pushLeaves, ReaderTyped
<1>5. ASSUME SetCancelled \/ NotifyCancelled
      PROVE  pipe'.pc = pipe.pc /\ pipe'.next = pipe.next
  BY <1>5 DEF SetCancelled, NotifyCancelled, NotifyAll, Notified, ReaderTyped
<1>6. ASSUME AsmStep \/ AsmTimesOut
      PROVE  pipe'.pc = pipe.pc /\ pipe'.next = pipe.next
  BY <1>6 DEF AsmStep, AsmCheck, AsmTry, AsmListen, AsmWoken, AsmGivesUp, AsmTimesOut,
              asmLeaves
<1>7. ASSUME (\E f \in 1..sent : InboundPush(f) \/ InboundTooLate(f)) \/ InboundDelivers
      PROVE  pipe'.pc = pipe.pc /\ pipe'.next = pipe.next
  BY <1>7 DEF InboundPush, InboundTooLate, InboundDelivers, inboundLeaves
<1>8. CASE UNCHANGED vars
  BY <1>3, <1>8 DEF vars
<1>9. QED
  BY <1>1, <1>2, <1>3, <1>4, <1>5, <1>6, <1>7, <1>8 DEF StreamNext, PipeStep

\* The records of the readers keep their fields.
LEMMA ReadersStayTyped ==
    ASSUME ReaderTyped, [StreamNext]_vars
    PROVE  ReaderTyped'
<1>1. CASE UNCHANGED <<asm, pipe>>
  BY <1>1 DEF ReaderTyped
<1>2. ASSUME NotifyAll
      PROVE  ReaderTyped'
  BY <1>2 DEF NotifyAll, Notified, ReaderTyped, AsmPcs, PipePcs, Listener
<1>3. ASSUME NEW p \in Pusher, PushStep(p) \/ \E f \in 1..sent : push_fragment(p, f)
      PROVE  ReaderTyped'
  BY <1>1, <1>2, <1>3 DEF PushStep, insert, LoadFrontier, LookAtNext, AdvanceFrontier,
                          NotifyInserted, push_fragment, pushLeaves
<1>4. ASSUME SetCancelled \/ NotifyCancelled
      PROVE  ReaderTyped'
  BY <1>1, <1>2, <1>4 DEF SetCancelled, NotifyCancelled
<1>5. ASSUME AsmStep \/ AsmTimesOut
      PROVE  ReaderTyped'
  BY <1>5 DEF AsmStep, AsmCheck, AsmTry, AsmListen, AsmWoken, AsmGivesUp, AsmTimesOut,
              asmLeaves, ReaderTyped, AsmPcs, PipePcs, Listener
<1>6. ASSUME PipeStep \/ PipeTimesOut
      PROVE  ReaderTyped'
  <2>1. CASE fork \/ PipePoll
    <3>1. CASE fork
      BY <3>1 DEF fork, pipeLeaves, ReaderTyped, AsmPcs, PipePcs, Listener, cancelled
    <3>2. CASE PipePoll
      BY <3>2 DEF PipePoll, PipeAt, pipeLeaves, ReaderTyped, PipePcs, Listener, cancelled
    <3>3. QED
      BY <2>1, <3>1, <3>2
  <2>2. CASE PipeGet \/ PipeRecheck \/ PipeHeard \/ PipeLastLook
    <3>0. CASE PipeGet
      BY <3>0 DEF PipeGet, Looks, pipeLeaves, ReaderTyped, PipePcs, Listener
    <3>1. CASE PipeRecheck
      BY <3>1 DEF PipeRecheck, Looks, pipeLeaves, ReaderTyped, PipePcs, Listener
    <3>2. CASE PipeHeard
      BY <3>2 DEF PipeHeard, Looks, pipeLeaves, ReaderTyped, PipePcs, Listener
    <3>3. CASE PipeLastLook
      BY <3>3 DEF PipeLastLook, Looks, pipeLeaves, ReaderTyped, PipePcs, Listener
    <3>4. QED
      BY <2>2, <3>0, <3>1, <3>2, <3>3
  <2>3. CASE PipeArm \/ PipeListens \/ PipeRearm \/ PipeRelistens
    <3>1. CASE PipeArm
      BY <3>1 DEF PipeArm, pipeLeaves, ReaderTyped, PipePcs, Listener
    <3>2. CASE PipeListens
      BY <3>2 DEF PipeListens, pipeLeaves, ReaderTyped, PipePcs, Listener
    <3>3. CASE PipeRearm
      BY <3>3 DEF PipeRearm, pipeLeaves, ReaderTyped, PipePcs, Listener
    <3>4. CASE PipeRelistens
      BY <3>4 DEF PipeRelistens, pipeLeaves, ReaderTyped, PipePcs, Listener
    <3>5. QED
      BY <2>3, <3>1, <3>2, <3>3, <3>4
  <2>4. CASE PipeWoken \/ PipeTimesOut \/ PipeSendFails
    <3>1. PICK pc \in PipePcs : pipe' = [pipe EXCEPT !.pc = pc] /\ asm' = asm
      BY <2>4 DEF PipeWoken, PipeTimesOut, PipeSendFails, PipeAt, pipeLeaves, PipePcs
    <3>2. QED
      BY <3>1 DEF ReaderTyped
  <2>5. CASE PipeSends
    <3>1. /\ pipe' = [pipe EXCEPT !.pc = "poll", !.next = pipe.next + 1]
          /\ asm' = asm
      BY <2>5 DEF PipeSends, pipeLeaves
    <3>2. pipe.next + 1 \in Nat \ {0} /\ "poll" \in PipePcs
      BY DEF ReaderTyped, PipePcs
    <3>3. QED
      BY <3>1, <3>2 DEF ReaderTyped
  <2>6. QED
    BY <1>6, <2>1, <2>2, <2>3, <2>4, <2>5 DEF PipeStep
<1>7. ASSUME (\E f \in 1..sent : InboundPush(f) \/ InboundTooLate(f)) \/ InboundDelivers
      PROVE  ReaderTyped'
  BY <1>1, <1>7 DEF InboundPush, InboundTooLate, InboundDelivers, inboundLeaves
<1>8. CASE UNCHANGED vars
  BY <1>1, <1>8 DEF vars
<1>9. QED
  BY <1>1, <1>3, <1>4, <1>5, <1>6, <1>7, <1>8 DEF StreamNext

-----------------------------------------------------------------------------
\* Both invariants hold in every state of every instance.
LEMMA StreamInvariant == StreamSpec => [](BufferInv /\ ReaderInv)
<1>1. BufferInv /\ ReaderInv /\ [StreamNext]_vars => (BufferInv /\ ReaderInv)'
  BY BufferNext, AssembleNext, EndedNext, ReadersStayTyped DEF ReaderInv
<1>2. QED
  BY <1>1, StreamInitOK, PTL DEF StreamSpec

\* advance_frontier: however many calls of push_fragment interleave, the
\* frontier passes no gap, and it stops short of one only while a call runs.
THEOREM FrontierCorrect == StreamSpec => []FrontierIsExact
BY StreamInvariant, PTL DEF BufferInv

\* StreamHandle::assemble returns whole streams only, and its timeout gives up
\* none that has arrived.
THEOREM AssembleCorrect == StreamSpec => []AssembleIsExact
BY StreamInvariant, PTL DEF ReaderInv

\* poll_next ends a pipe only after every fragment a stream is sure to have.
THEOREM PipeCorrect == StreamSpec => []EndedMissesOnlyOverflow
BY StreamInvariant, PTL DEF ReaderInv

\* A pipe that was stopped by a cancellation was forked from a cancelled handle.
StoppedWasDead == pipe.pc = "cancelled" => pipe.dead

\* Only a fork decides whether its pipe is dead, and only PipePoll asks.
LEMMA StoppedNext ==
    ASSUME ReaderTyped, StoppedWasDead, [StreamNext]_vars
    PROVE  /\ StoppedWasDead'
           /\ pipe.pc # "unforked" /\ pipe'.pc = "cancelled" => pipe.dead
<1>1. CASE PipePoll
  BY <1>1 DEF PipePoll, PipeAt, ReaderTyped, StoppedWasDead
<1>2. CASE \/ fork \/ PipeGet \/ PipeArm \/ PipeRecheck \/ PipeListens \/ PipeHeard
           \/ PipeRearm \/ PipeLastLook \/ PipeRelistens \/ PipeWoken \/ PipeSends
           \/ PipeSendFails \/ PipeTimesOut
  <2>1. pipe'.pc # "cancelled"
    BY <1>2 DEF fork, PipeGet, PipeArm, PipeRecheck, PipeListens, PipeHeard, PipeRearm,
                PipeLastLook, PipeRelistens, PipeWoken, PipeSends, PipeSendFails,
                PipeTimesOut, PipeAt, Looks, ReaderTyped
  <2>2. QED
    BY <2>1 DEF StoppedWasDead
<1>3. CASE pipe'.pc = pipe.pc /\ pipe'.dead = pipe.dead
  BY <1>3 DEF StoppedWasDead
<1>4. ASSUME NEW p \in Pusher, PushStep(p) \/ \E f \in 1..sent : push_fragment(p, f)
      PROVE  pipe'.pc = pipe.pc /\ pipe'.dead = pipe.dead
  BY <1>4 DEF PushStep, insert, LoadFrontier, LookAtNext, AdvanceFrontier, NotifyInserted,
              NotifyAll, Notified, push_fragment, pushLeaves, ReaderTyped
<1>5. ASSUME SetCancelled \/ NotifyCancelled
      PROVE  pipe'.pc = pipe.pc /\ pipe'.dead = pipe.dead
  BY <1>5 DEF SetCancelled, NotifyCancelled, NotifyAll, Notified, ReaderTyped
<1>6. ASSUME AsmStep \/ AsmTimesOut
      PROVE  pipe'.pc = pipe.pc /\ pipe'.dead = pipe.dead
  BY <1>6 DEF AsmStep, AsmCheck, AsmTry, AsmListen, AsmWoken, AsmGivesUp, AsmTimesOut,
              asmLeaves
<1>7. ASSUME (\E f \in 1..sent : InboundPush(f) \/ InboundTooLate(f)) \/ InboundDelivers
      PROVE  pipe'.pc = pipe.pc /\ pipe'.dead = pipe.dead
  BY <1>7 DEF InboundPush, InboundTooLate, InboundDelivers, inboundLeaves
<1>8. CASE UNCHANGED vars
  BY <1>3, <1>8 DEF vars
<1>9. QED
  BY <1>1, <1>2, <1>3, <1>4, <1>5, <1>6, <1>7, <1>8 DEF StreamNext, PipeStep

\* cancel() of the connection's handle never stops a pipe that forked it before.
THEOREM ForkCorrect == StreamSpec => ForkOutlivesCancel
<1>1. StreamInit => StoppedWasDead
  BY DEF StreamInit, StoppedWasDead
<1>2. ReaderInv /\ StoppedWasDead /\ [StreamNext]_vars => StoppedWasDead'
  BY StoppedNext DEF ReaderInv
<1>3. ReaderInv /\ StoppedWasDead /\ [StreamNext]_vars =>
        [pipe.pc # "unforked" /\ pipe'.pc = "cancelled" => pipe.dead]_vars
  BY StoppedNext DEF ReaderInv
<1>4. QED
  BY <1>1, <1>2, <1>3, StreamInvariant, PTL DEF StreamSpec, ForkOutlivesCancel

-----------------------------------------------------------------------------
\* A nonempty set of natural numbers has a least element.
LEMMA LeastOf ==
    ASSUME NEW T \in SUBSET Nat, T # {}
    PROVE  \E m \in T : \A k \in T : m <= k
<1> DEFINE F == {0..m : m \in T}
<1>1. F \subseteq FiniteSubsetsOf(Nat)
  <2>1. ASSUME NEW m \in T PROVE IsFiniteSet(0..m) /\ 0..m \in SUBSET Nat
    BY FS_Interval
  <2>2. QED
    BY <2>1 DEF FiniteSubsetsOf
<1>2. PICK S \in F : \A U \in F : <<U, S>> \notin StrictSubsetOrdering(Nat)
  <2>1. IsWellFoundedOn(StrictSubsetOrdering(Nat), FiniteSubsetsOf(Nat))
    BY FS_StrictSubsetOrderingWellFounded
  <2>2. F # {}
    OBVIOUS
  <2>3. \A R, D, G : IsWellFoundedOn(R, D) /\ G \subseteq D /\ G # {}
           => \E x \in G : \A y \in G : ~ (<<y, x>> \in R)
    BY WFMin
  <2>4. QED
    BY <1>1, <2>1, <2>2, <2>3
<1>3. PICK m \in T : S = 0..m
  OBVIOUS
<1>4. ASSUME NEW k \in T, k < m PROVE FALSE
  <2>1. 0..k \in F /\ 0..k \in SUBSET Nat /\ 0..m \in SUBSET Nat
    OBVIOUS
  <2>2. m \in 0..m /\ m \notin 0..k /\ 0..k \subseteq 0..m
    BY <1>4
  <2>3. <<0..k, 0..m>> \in StrictSubsetOrdering(Nat)
    BY <2>1, <2>2 DEF StrictSubsetOrdering
  <2>4. QED
    BY <1>2, <1>3, <2>1, <2>3
<1>5. QED
  BY <1>4

\* What waits in an InboundStream that got no fragment twice too late: fragments that have
\* arrived, none of which can be appended yet.
InboundTyped ==
    /\ sent \in Nat \ {0}
    /\ arrived \subseteq 1..sent
    /\ inbound \in [pc : {"receiving", "finished", "delivered", "closed"}, last : 0..sent,
                    waiting : SUBSET (1..sent)]
    /\ stale \in BOOLEAN
NothingIsHeldBack ==
    /\ arrived = (1..inbound.last) \cup inbound.waiting
    /\ \A f \in inbound.waiting : f > inbound.last + 1
    /\ inbound.pc = "receiving" => inbound.last < sent
    /\ inbound.pc # "closed"
InboundInv == InboundTyped /\ (kind = "message" /\ ~stale => NothingIsHeldBack)

\* The loop of pop_first stops at the first gap.
LEMMA AppendedFacts ==
    ASSUME NEW n \in Nat, NEW last \in 0..n, NEW W \in SUBSET (1..n), \A f \in W : f > last
    PROVE  /\ Appended(last, W) \in last..n
           /\ (last + 1)..Appended(last, W) \subseteq W
           /\ Appended(last, W) + 1 \notin W
<1>1. CASE last + 1 \in W
  <2> DEFINE T == {k \in (last + 1)..(n + 1) : k \notin W}
             Good(m) == (last + 1)..m \subseteq W /\ m + 1 \notin W
  <2>1. T \in SUBSET Nat /\ n + 1 \in T
    OBVIOUS
  <2>2. PICK k \in T : \A j \in T : k <= j
    BY <2>1, LeastOf
  <2>3. k \in (last + 1)..(n + 1) /\ k \notin W /\ k # last + 1
    BY <1>1, <2>2
  <2>4. ASSUME NEW j \in (last + 1)..(k - 1) PROVE j \in W
    BY <2>2, <2>3
  <2>5. k - 1 \in W /\ (k - 1) + 1 = k
    BY <2>3, <2>4
  <2>6. \E m \in W : Good(m)
    BY <2>3, <2>4, <2>5
  <2>7. Appended(last, W) = CHOOSE m \in W : Good(m)
    BY <1>1 DEF Appended
  <2>8. Appended(last, W) \in W /\ Good(Appended(last, W))
    BY <2>6, <2>7
  <2>9. ASSUME NEW r \in W PROVE r \in last..n
    OBVIOUS
  <2>10. QED
    BY <2>8, <2>9
<1>2. CASE last + 1 \notin W
  <2>1. Appended(last, W) = last
    BY <1>2 DEF Appended
  <2>2. QED
    BY <1>2, <2>1
<1>3. QED
  BY <1>1, <1>2

\* A fragment that is pushed is appended, with those that waited for it, or waits.
LEMMA InboundPushKeeps ==
    ASSUME InboundInv, NEW f \in 1..sent, InboundPush(f)
    PROVE  InboundInv'
<1> DEFINE old == inbound.last
           direct == f = old + 1
           kept == IF direct THEN inbound.waiting ELSE inbound.waiting \cup {f}
           from == IF direct THEN f ELSE old
           last == Appended(from, kept)
<1>1. /\ inbound' = [pc |-> IF last = sent THEN "finished" ELSE "receiving", last |-> last,
                     waiting |-> kept \ (old + 1)..last]
      /\ arrived' = arrived \cup {f} /\ stale' = (stale \/ f <= old)
      /\ kind' = kind /\ sent' = sent /\ kind = "message"
  BY DEF InboundPush, Arrives, inboundLeaves
<1>2. /\ sent \in Nat /\ sent # 0 /\ old \in 0..sent /\ inbound.waiting \subseteq 1..sent
      /\ arrived \subseteq 1..sent /\ stale \in BOOLEAN
  BY DEF InboundInv, InboundTyped
<1>3. from \in 0..sent /\ kept \in SUBSET (1..sent)
  BY <1>2
<1>4. last \in 0..sent
  <2>1. CASE \A g \in kept : g > from
    BY <1>2, <1>3, <2>1, AppendedFacts
  <2>2. CASE ~\A g \in kept : g > from
    BY <1>3, <2>2 DEF Appended
  <2>3. QED
    BY <2>1, <2>2
<1> HIDE DEF last
<1>5. InboundTyped'
  <2>1. kept \ (old + 1)..last \in SUBSET (1..sent)
    BY <1>3
  <2>2. QED
    BY <1>1, <1>2, <1>4, <2>1 DEF InboundTyped
<1>6. ASSUME ~stale' PROVE NothingIsHeldBack'
  <2>1. /\ f > old /\ arrived = (1..old) \cup inbound.waiting
        /\ \A g \in inbound.waiting : g > old + 1
    <3>1. ~stale /\ ~(f <= old)
      BY <1>1, <1>6
    <3>2. f > old
      BY <1>2, <3>1
    <3>3. NothingIsHeldBack
      BY <1>1, <3>1 DEF InboundInv
    <3>4. QED
      BY <3>2, <3>3 DEF NothingIsHeldBack
  <2>2. \A g \in kept : g > from
    BY <1>2, <2>1
  <2>3. last \in from..sent /\ (from + 1)..last \subseteq kept /\ last + 1 \notin kept
    BY <1>2, <1>3, <2>2, AppendedFacts DEF last
  <2>4. /\ inbound'.last = last /\ inbound'.waiting = kept \ (old + 1)..last
        /\ inbound'.pc = IF last = sent THEN "finished" ELSE "receiving"
    BY <1>1
  <2>5. inbound'.pc # "closed" /\ (inbound'.pc = "receiving" => last < sent)
    BY <1>2, <1>4, <2>4
  <2>6. CASE direct
    <3>1. \A g \in inbound'.waiting : g > last + 1
      BY <1>2, <1>3, <2>1, <2>3, <2>4, <2>6
    <3>2. (1..last) = (1..old) \cup {f} \cup (from + 1)..last
      BY <1>2, <1>4, <2>3, <2>6
    <3>3. arrived' = (1..last) \cup inbound'.waiting
      BY <1>1, <1>2, <2>1, <2>3, <2>4, <2>6, <3>2
    <3>4. QED
      BY <1>1, <2>4, <2>5, <3>1, <3>3 DEF NothingIsHeldBack
  <2>7. CASE ~direct
    <3>1. last = old /\ (old + 1)..last = {}
      <4>1. old + 1 \notin kept
        BY <1>2, <2>1, <2>7
      <4>2. last = from
        BY <2>3, <2>7, <4>1, <1>2
      <4>3. QED
        BY <1>2, <2>7, <4>2
    <3>2. inbound'.waiting = inbound.waiting \cup {f}
      BY <2>4, <2>7, <3>1
    <3>3. arrived' = (1..last) \cup inbound'.waiting
      BY <1>1, <2>1, <3>1, <3>2
    <3>4. \A g \in inbound'.waiting : g > last + 1
      BY <1>2, <2>1, <2>7, <3>1, <3>2
    <3>5. QED
      BY <1>1, <2>4, <2>5, <3>3, <3>4 DEF NothingIsHeldBack
  <2>8. QED
    BY <2>6, <2>7
<1>7. QED
  BY <1>1, <1>5, <1>6 DEF InboundInv

\* Every step keeps what is known of the InboundStream.
LEMMA InboundNext ==
    ASSUME InboundInv, [StreamNext]_vars
    PROVE  InboundInv'
<1>1. CASE UNCHANGED <<kind, sent, arrived, inbound, stale>>
  BY <1>1 DEF InboundInv, InboundTyped, NothingIsHeldBack
<1>2. CASE \E p \in Pusher : PushStep(p)
  BY <1>1, <1>2 DEF PushStep, insert, LoadFrontier, LookAtNext, AdvanceFrontier, NotifyInserted,
                    pushLeaves, arriving, source
<1>3. ASSUME NEW p \in Pusher, NEW f \in 1..sent, push_fragment(p, f) PROVE InboundInv'
  <2>1. /\ kind # "message" /\ UNCHANGED <<kind, sent, inbound, stale>>
        /\ arrived' = arrived \cup {f}
    BY <1>3 DEF push_fragment, pushLeaves, Arrives
  <2>2. QED
    BY <2>1 DEF InboundInv, InboundTyped
<1>4. CASE SetCancelled \/ NotifyCancelled \/ AsmStep \/ AsmTimesOut
  BY <1>1, <1>4 DEF SetCancelled, NotifyCancelled, AsmStep, AsmCheck, AsmTry, AsmListen, AsmWoken,
                    AsmGivesUp, AsmTimesOut, asmLeaves, arriving, source
<1>5. CASE PipeStep \/ PipeTimesOut
  <2>1. UNCHANGED pipeLeaves
    BY <1>5 DEF PipeStep, fork, PipePoll, PipeGet, PipeArm, PipeRecheck, PipeListens, PipeHeard,
                PipeRearm, PipeLastLook, PipeRelistens, PipeWoken, PipeSends, PipeSendFails,
                PipeTimesOut, Looks
  <2>2. QED
    BY <1>1, <2>1 DEF pipeLeaves, arriving, source
<1>6. ASSUME NEW f \in 1..sent, InboundPush(f) PROVE InboundInv'
  BY <1>6, InboundPushKeeps
<1>7. ASSUME NEW f \in 1..sent, InboundTooLate(f) PROVE InboundInv'
  BY <1>7 DEF InboundTooLate, inboundLeaves, Arrives, InboundInv, InboundTyped
<1>8. CASE InboundDelivers
  BY <1>8 DEF InboundDelivers, inboundLeaves, arriving, InboundInv, InboundTyped, NothingIsHeldBack
<1>9. CASE UNCHANGED vars
  BY <1>1, <1>9 DEF vars, source, arriving
<1>10. QED
  BY <1>2, <1>3, <1>4, <1>5, <1>6, <1>7, <1>8, <1>9 DEF StreamNext

\* InboundStream::push_fragment returns the message with the last fragment that was missing,
\* in whatever order they came and whichever of them were repeated while they waited: the
\* fragments that have arrived are those appended and those that wait behind a gap.
THEOREM InboundCorrect == StreamSpec => []InboundCompletes
<1>1. StreamInit => InboundInv
  <2>1. ASSUME StreamInit PROVE InboundTyped
    <3>1. sent \in Nat \ {0}
      BY <2>1, StreamConstants DEF StreamInit, Total
    <3>2. 0 \in 0..sent
      BY <3>1
    <3>3. QED
      BY <2>1, <3>1, <3>2 DEF StreamInit, InboundTyped
  <2>2. ASSUME StreamInit PROVE NothingIsHeldBack
    BY <2>2, StreamConstants DEF StreamInit, NothingIsHeldBack, Total
  <2>3. QED
    BY <2>1, <2>2 DEF InboundInv
<1>2. InboundInv /\ [StreamNext]_vars => InboundInv'
  BY InboundNext
<1>3. InboundInv => InboundCompletes
  <2>1. ASSUME InboundInv, kind = "message", arrived = 1..sent, ~stale, inbound.pc = "receiving"
        PROVE  FALSE
    <3>1. inbound.last + 1 \in 1..sent
      BY <2>1 DEF InboundInv, InboundTyped, NothingIsHeldBack
    <3>2. inbound.last + 1 \in inbound.waiting
      BY <2>1, <3>1 DEF InboundInv, InboundTyped, NothingIsHeldBack
    <3>3. QED
      BY <2>1, <3>2 DEF InboundInv, InboundTyped, NothingIsHeldBack
  <2>2. QED
    BY <2>1 DEF InboundCompletes, InboundInv, InboundTyped, NothingIsHeldBack
<1>4. QED
  BY <1>1, <1>2, <1>3, PTL DEF StreamSpec
=============================================================================
