----------------------- MODULE CommandInstanceProofs -----------------------
(***************************************************************************)
(* Proofs about the command-instance model, for every value of the        *)
(* constants that satisfies ConstAssumption: type correctness, and the     *)
(* queue's two guarantees (deferred destruction, removal of terminal       *)
(* commands only) from an inductive invariant.                             *)
(***************************************************************************)
EXTENDS CommandInstance, SequenceTheorems, TLAPS

USE ConstAssumption

PCs == {"status", "progress", "remove", "ret"}

(* The call stack helpers keep the stack a sequence of frames.             *)
LEMMA TopFrame ==
    ASSUME stack \in Seq(Frames), stack # <<>>
    PROVE  /\ Len(stack) \in 1..Len(stack)
           /\ Top \in Frames
BY DEF Top

LEMMA ContinueFrames ==
    ASSUME stack \in Seq(Frames), stack # <<>>, NEW pc \in PCs,
           NEW cb \in BOOLEAN
    PROVE  Continue(pc, cb) \in Seq(Frames)
<1>1. [stack[Len(stack)] EXCEPT !.pc = pc, !.cb = cb] \in Frames
  BY TopFrame DEF Top, Frames, PCs
<1>2. QED
  BY <1>1, TopFrame, ExceptSeq DEF Continue

LEMMA PushFrames ==
    ASSUME stack \in Seq(Frames), NEW c \in Cmds, NEW pc \in PCs,
           NEW arg \in Values, NEW cb \in BOOLEAN
    PROVE  Push(c, pc, arg, cb) \in Seq(Frames)
<1> DEFINE caller == IF stack = <<>> THEN stack
                     ELSE [stack EXCEPT ![Len(stack)].cb = FALSE]
<1>1. caller \in Seq(Frames)
  <2>1. CASE stack = <<>>
    BY <2>1
  <2>2. CASE stack # <<>>
    <3>1. [stack[Len(stack)] EXCEPT !.cb = FALSE] \in Frames
      BY <2>2, TopFrame DEF Top, Frames
    <3>2. QED
      BY <2>2, <3>1, TopFrame, ExceptSeq
  <2>3. QED
    BY <2>1, <2>2
<1>2. [cmd |-> c, pc |-> pc, arg |-> arg, cb |-> cb] \in Frames
  BY DEF Frames, PCs
<1>3. QED
  BY <1>1, <1>2, AppendProperties DEF Push

LEMMA PopFrames ==
    ASSUME stack \in Seq(Frames), stack # <<>>
    PROVE  Pop \in Seq(Frames)
BY TopFrame, SubSeqProperties DEF Pop

(* SetStatus always leaves a status, and the notification it fires is one *)
(* of the observer events.                                                 *)
LEMMA StatusHelpers ==
    ASSUME NEW from \in Statuses, NEW to \in Statuses, NEW c \in Cmds
    PROVE  /\ NewStatus(from, to) \in Statuses
           /\ StatusEvent(c, from, to) \in [cmd : Cmds, kind : EventKinds \cup {"none"}]
BY DEF NewStatus, StatusEvent, NoEvent, EventKinds

(* A request FromJson accepts names a definition and carries parameters   *)
(* that are a ValueMap.                                                    *)
LEMMA AcceptedRequest ==
    ASSUME NEW req \in Requests, FromJsonReply(req) = "ok"
    PROVE  /\ req.name \in Defs
           /\ ParamValue(req) \in Values
BY DEF FromJsonReply, ParamValue, Requests

LEMMA NoEventType ==
    NoEvent \in [cmd : Cmds, kind : EventKinds \cup {"none"}]
BY DEF NoEvent

LEMMA ReplyType ==
    ASSUME NEW req \in Requests
    PROVE  FromJsonReply(req) \in Replies
BY DEF FromJsonReply, Replies


-----------------------------------------------------------------------------
(* What the stack helpers do to the frames below the top: Push keeps each  *)
(* frame's command and resume point, Continue changes only the top one's,  *)
(* Pop drops the top.                                                      *)
LEMMA PushIndex ==
    ASSUME stack \in Seq(Frames), NEW c \in Cmds, NEW pc \in PCs,
           NEW arg \in Values, NEW cb \in BOOLEAN
    PROVE  /\ Len(Push(c, pc, arg, cb)) = Len(stack) + 1
           /\ \A i \in 1..Len(stack) :
                 /\ Push(c, pc, arg, cb)[i].cmd = stack[i].cmd
                 /\ Push(c, pc, arg, cb)[i].pc = stack[i].pc
           /\ Push(c, pc, arg, cb)[Len(stack) + 1].cmd = c
           /\ Push(c, pc, arg, cb)[Len(stack) + 1].pc = pc
<1> DEFINE caller == IF stack = <<>> THEN stack
                     ELSE [stack EXCEPT ![Len(stack)].cb = FALSE]
<1>1. /\ caller \in Seq(Frames)
      /\ Len(caller) = Len(stack)
      /\ \A i \in 1..Len(stack) : /\ caller[i].cmd = stack[i].cmd
                                  /\ caller[i].pc = stack[i].pc
  <2>1. CASE stack = <<>>
    BY <2>1
  <2>2. CASE stack # <<>>
    <3>1. [stack[Len(stack)] EXCEPT !.cb = FALSE] \in Frames
      BY <2>2, TopFrame DEF Top, Frames
    <3>2. QED
      BY <2>2, <3>1, TopFrame, ExceptSeq DEF Frames
  <2>3. QED
    BY <2>1, <2>2
<1>2. [cmd |-> c, pc |-> pc, arg |-> arg, cb |-> cb] \in Frames
  BY DEF Frames, PCs
<1> DEFINE frame == [cmd |-> c, pc |-> pc, arg |-> arg, cb |-> cb]
<1>4. Push(c, pc, arg, cb) = Append(caller, frame)
  BY DEF Push
<1> HIDE DEF caller, frame
<1>5. /\ Len(Append(caller, frame)) = Len(caller) + 1
      /\ \A i \in 1..Len(caller) : Append(caller, frame)[i] = caller[i]
      /\ Append(caller, frame)[Len(caller) + 1] = frame
  BY <1>1, <1>2, AppendProperties
<1>6. frame.cmd = c /\ frame.pc = pc
  BY DEF frame
<1>7. QED
  BY <1>1, <1>4, <1>5, <1>6

LEMMA ContinueIndex ==
    ASSUME stack \in Seq(Frames), stack # <<>>, NEW pc \in PCs,
           NEW cb \in BOOLEAN
    PROVE  /\ Len(Continue(pc, cb)) = Len(stack)
           /\ \A i \in 1..Len(stack) : Continue(pc, cb)[i].cmd = stack[i].cmd
           /\ \A i \in 1..Len(stack) - 1 : Continue(pc, cb)[i].pc = stack[i].pc
           /\ Continue(pc, cb)[Len(stack)].pc = pc
BY TopFrame DEF Continue, Frames

LEMMA NatSplit ==
    ASSUME NEW n \in Nat, 1 <= n
    PROVE  n = 1 \/ n >= 2
OBVIOUS

LEMMA PopIndex ==
    ASSUME stack \in Seq(Frames), stack # <<>>
    PROVE  /\ Len(Pop) = Len(stack) - 1
           /\ \A i \in 1..Len(stack) - 1 : Pop[i] = stack[i]
<1>1. /\ Len(stack) - 1 \in Int
      /\ \A i \in 1..Len(stack) - 1 : stack[i] \in Frames
  BY TopFrame
<1>2. /\ Len(SubSeq(stack, 1, Len(stack) - 1)) =
            IF 1 <= Len(stack) - 1 THEN Len(stack) - 1 - 1 + 1 ELSE 0
      /\ \A i \in 1..Len(stack) - 1 - 1 + 1 :
            SubSeq(stack, 1, Len(stack) - 1)[i] = stack[1 + i - 1]
  BY <1>1, SubSeqProperties
<1>3. Len(stack) \in Nat /\ 1 <= Len(stack)
  BY TopFrame
<1>4. Len(SubSeq(stack, 1, Len(stack) - 1)) = Len(stack) - 1
  <2>1. CASE Len(stack) = 1
    BY <2>1, <1>2
  <2>2. CASE Len(stack) >= 2
    BY <2>2, <1>2, <1>3
  <2>3. Len(stack) = 1 \/ Len(stack) >= 2
    BY <1>3, NatSplit, Zenon
  <2>4. QED
    BY <2>1, <2>2, <2>3, Zenon
<1>5. \A i \in 1..Len(stack) - 1 : SubSeq(stack, 1, Len(stack) - 1)[i] = stack[i]
  BY <1>2, <1>3
<1>6. QED
  BY <1>4, <1>5 DEF Pop

(* SetStatus never leaves a terminal status, and a switch to a terminal   *)
(* status leaves one, whether it succeeds, is refused or is a no-op.      *)
LEMMA TerminalStays ==
    ASSUME NEW from \in TerminalStatuses, NEW to
    PROVE  NewStatus(from, to) = from
BY DEF NewStatus, Transition, TerminalStatuses

LEMMA TerminalReached ==
    ASSUME NEW from, NEW to \in TerminalStatuses
    PROVE  NewStatus(from, to) \in TerminalStatuses
BY DEF NewStatus, Transition, TerminalStatuses

-----------------------------------------------------------------------------
(* Every step of the model keeps the state well typed.                     *)
LEMMA TypeStep == TypeOK /\ [Next]_vars => TypeOK'
  <2> SUFFICES ASSUME TypeOK, [Next]_vars PROVE TypeOK'
    OBVIOUS
  <2>1. ASSUME NEW c \in Cmds, NEW req \in Requests, Receive(c, req)
        PROVE  TypeOK'
    <3>1. CASE FromJsonReply(req) = "ok"
      BY <2>1, <3>1, AcceptedRequest, ReplyType DEF Receive, TypeOK, EventKinds
    <3>2. CASE FromJsonReply(req) # "ok"
      BY <2>1, <3>2, ReplyType, NoEventType DEF Receive, TypeOK
    <3>3. QED
      BY <3>1, <3>2
  <2>2. ASSUME NEW c \in Cmds, NEW v \in Values, SetProgress(c, v)
        PROVE  TypeOK'
    <3>1. /\ NewStatus(status[c], "inProgress") \in Statuses
          /\ StatusEvent(c, status[c], "inProgress")
                \in [cmd : Cmds, kind : EventKinds \cup {"none"}]
      BY StatusHelpers DEF TypeOK, Statuses
    <3>2. Push(c, "progress", v, Transition(status[c], "inProgress") = "switched")
            \in Seq(Frames)
      BY PushFrames DEF TypeOK, PCs
    <3>3. QED
      BY <2>2, <3>1, <3>2 DEF SetProgress, TypeOK
  <2>3. ASSUME NEW c \in Cmds, NEW v \in Values, SetResults(c, v)
        PROVE  TypeOK'
    BY <2>3, PushFrames DEF SetResults, TypeOK, PCs, NoEvent, EventKinds
  <2>4. ASSUME NEW c \in Cmds, NEW e \in ErrorArgs, SetError(c, e)
        PROVE  TypeOK'
    <3>1. /\ NewStatus(status[c], "error") \in Statuses
          /\ StatusEvent(c, status[c], "error")
                \in [cmd : Cmds, kind : EventKinds \cup {"none"}]
      BY StatusHelpers DEF TypeOK, Statuses
    <3>2. Push(c, "ret", Empty, TRUE) \in Seq(Frames)
      BY PushFrames DEF TypeOK, PCs
    <3>3. QED
      BY <2>4, <3>1, <3>2 DEF SetError, TypeOK, ErrorArgs
  <2>5. ASSUME NEW c \in Cmds, NEW e \in ErrorArgs, Abort(c, e)
        PROVE  TypeOK'
    <3>1. /\ NewStatus(status[c], "aborted") \in Statuses
          /\ StatusEvent(c, status[c], "aborted")
                \in [cmd : Cmds, kind : EventKinds \cup {"none"}]
      BY StatusHelpers DEF TypeOK, Statuses
    <3>2. Push(c, "remove", Empty, Transition(status[c], "aborted") = "switched")
            \in Seq(Frames)
      BY PushFrames DEF TypeOK, PCs
    <3>3. QED
      BY <2>5, <3>1, <3>2 DEF Abort, TypeOK, ErrorArgs
  <2>6. ASSUME NEW c \in Cmds, Pause(c)
        PROVE  TypeOK'
    BY <2>6, PushFrames DEF Pause, TypeOK, PCs, Statuses, EventKinds
  <2>7. ASSUME NEW c \in Cmds, Cancel(c)
        PROVE  TypeOK'
    <3>1. /\ NewStatus(status[c], "cancelled") \in Statuses
          /\ StatusEvent(c, status[c], "cancelled")
                \in [cmd : Cmds, kind : EventKinds \cup {"none"}]
      BY StatusHelpers DEF TypeOK, Statuses
    <3>2. Push(c, "remove", Empty, Transition(status[c], "cancelled") = "switched")
            \in Seq(Frames)
      BY PushFrames DEF TypeOK, PCs
    <3>3. QED
      BY <2>7, <3>1, <3>2 DEF Cancel, TypeOK
  <2>8. ASSUME NEW c \in Cmds, Cleanup(c)
        PROVE  TypeOK'
    BY <2>8 DEF Cleanup, TypeOK, EventKinds
  <2>9. CASE ProgressStep
    <3>1. /\ stack # <<>>
          /\ Top \in Frames
      BY <2>9, TopFrame DEF ProgressStep, TypeOK
    <3>2. Continue("ret", TRUE) \in Seq(Frames)
      BY <3>1, ContinueFrames DEF TypeOK, PCs
    <3>3. Pop \in Seq(Frames)
      BY <3>1, PopFrames DEF TypeOK
    <3>4. Top.cmd \in Cmds /\ Top.arg \in Values
      BY <3>1 DEF Frames
    <3>5. CASE Top.arg # progress[Top.cmd]
      <4>1. /\ progress' = [progress EXCEPT ![Top.cmd] = Top.arg]
            /\ event' = [cmd |-> Top.cmd, kind |-> "progress"]
            /\ stack' = Continue("ret", TRUE)
            /\ UNCHANGED <<life, cmdName, status, params, results, error,
                           doomed, reply>>
        BY <2>9, <3>5 DEF ProgressStep
      <4>2. progress' \in [Cmds -> Values]
        BY <4>1, <3>4 DEF TypeOK
      <4>3. event' \in [cmd : Cmds, kind : EventKinds \cup {"none"}]
        BY <4>1, <3>4 DEF EventKinds
      <4>4. QED
        BY <4>1, <4>2, <4>3, <3>2 DEF TypeOK
    <3>6. CASE Top.arg = progress[Top.cmd]
      BY <2>9, <3>3, <3>6, NoEventType DEF ProgressStep, TypeOK
    <3>7. QED
      BY <3>5, <3>6
  <2>10. CASE DoneStep
    <3>1. /\ stack # <<>>
          /\ Top \in Frames
      BY <2>10, TopFrame DEF DoneStep, TypeOK
    <3>2. /\ NewStatus(status[Top.cmd], "done") \in Statuses
          /\ StatusEvent(Top.cmd, status[Top.cmd], "done")
                \in [cmd : Cmds, kind : EventKinds \cup {"none"}]
      <4>1. Top.cmd \in Cmds /\ status[Top.cmd] \in Statuses
        BY <3>1 DEF Frames, TypeOK
      <4>2. "done" \in Statuses
        BY DEF Statuses
      <4>3. QED
        BY <4>1, <4>2, StatusHelpers
    <3>3. Continue("remove", Transition(status[Top.cmd], "done") = "switched")
            \in Seq(Frames)
      BY <3>1, ContinueFrames DEF TypeOK, PCs
    <3>4. QED
      BY <2>10, <3>1, <3>2, <3>3 DEF DoneStep, TypeOK, Frames
  <2>11. CASE RemoveStep
    BY <2>11, PopFrames, TopFrame DEF RemoveStep, TypeOK, Frames, NoEvent
  <2>12. CASE Return
    BY <2>12, PopFrames DEF Return, TypeOK, NoEvent
  <2>13. CASE UNCHANGED vars
    BY <2>13 DEF vars, TypeOK
  <2>14. QED
    BY <2>1, <2>2, <2>3, <2>4, <2>5, <2>6, <2>7, <2>8, <2>9, <2>10,
       <2>11, <2>12, <2>13 DEF Next, Step

(* Type correctness: every reachable state of the command instances, the *)
(* queue and the call stack of nested observer calls is well typed.       *)
THEOREM TypeCorrect == Spec => []TypeOK
<1>1. Init => TypeOK
  BY DEF Init, TypeOK, NoEvent, Replies, Statuses
<1>2. QED
  BY <1>1, TypeStep, PTL DEF Spec

-----------------------------------------------------------------------------
(* The strengthening that makes the queue's guarantees inductive: a frame *)
(* about to call RemoveFromQueue belongs to a command whose status is      *)
(* terminal already (Abort, Cancel and SetResults call it after their      *)
(* SetStatus, and a refused SetStatus means the status was terminal).      *)
RemoveFramesTerminal ==
    \A i \in 1..Len(stack) :
        stack[i].pc = "remove" => status[stack[i].cmd] \in TerminalStatuses

IInv == /\ TypeOK
        /\ DeferredDestruction
        /\ RemovedOnlyWhenTerminal
        /\ RemoveFramesTerminal

(* SetStatus on c leaves every terminal status where it was.              *)
LEMMA SetStatusKeepsTerminal ==
    ASSUME NEW st \in [Cmds -> Statuses], NEW c \in Cmds, NEW to
    PROVE  \A d \in Cmds :
               st[d] \in TerminalStatuses =>
                   [st EXCEPT ![c] = NewStatus(st[c], to)][d] = st[d]
BY TerminalStays

(* What a SetStatus step on c does to the status function: it stays a     *)
(* function to statuses, changes at most c, keeps every terminal status,  *)
(* and a terminal target leaves c terminal.                               *)
LEMMA StatusUpdate ==
    ASSUME status \in [Cmds -> Statuses], NEW c \in Cmds, NEW to \in Statuses,
           status' = [status EXCEPT ![c] = NewStatus(status[c], to)]
    PROVE  /\ status' \in [Cmds -> Statuses]
           /\ \A d \in Cmds : status[d] \in TerminalStatuses =>
                                 status'[d] = status[d]
           /\ \A d \in Cmds : status'[d] # status[d] => d = c
           /\ to \in TerminalStatuses => status'[c] \in TerminalStatuses
<1>1. NewStatus(status[c], to) \in Statuses
  BY StatusHelpers
<1>2. \A d \in Cmds : status[d] \in TerminalStatuses => status'[d] = status[d]
  BY SetStatusKeepsTerminal
<1>3. to \in TerminalStatuses => status'[c] \in TerminalStatuses
  BY TerminalReached
<1>4. QED
  BY <1>1, <1>2, <1>3

(* An operation called on a live command keeps the three conjuncts: the  *)
(* pushed frame is live, its resume point is given, and the statuses     *)
(* that were terminal stay so.                                           *)
LEMMA CallStep ==
    ASSUME IInv, NEW c \in Cmds, life[c] = "live",
           NEW pc \in PCs, NEW arg \in Values, NEW cb \in BOOLEAN,
           stack' = Push(c, pc, arg, cb),
           UNCHANGED <<life, doomed>>,
           status' \in [Cmds -> Statuses],
           \A d \in Cmds : status[d] \in TerminalStatuses =>
                              status'[d] = status[d],
           \A d \in Cmds : status'[d] # status[d] => d = c,
           pc = "remove" => status'[c] \in TerminalStatuses
    PROVE  /\ DeferredDestruction'
           /\ RemovedOnlyWhenTerminal'
           /\ RemoveFramesTerminal'
<1>1. /\ Len(stack') = Len(stack) + 1
      /\ \A i \in 1..Len(stack) : /\ stack'[i].cmd = stack[i].cmd
                                  /\ stack'[i].pc = stack[i].pc
      /\ stack'[Len(stack) + 1].cmd = c
      /\ stack'[Len(stack) + 1].pc = pc
  BY PushIndex DEF IInv, TypeOK
<1>2. Len(stack) \in Nat
  BY DEF IInv, TypeOK
<1>3. DeferredDestruction'
  BY <1>1, <1>2 DEF IInv, DeferredDestruction
<1>4. RemovedOnlyWhenTerminal'
  BY DEF IInv, RemovedOnlyWhenTerminal, TypeOK
<1>5. RemoveFramesTerminal'
  <2> SUFFICES ASSUME NEW i \in 1..Len(stack'), stack'[i].pc = "remove"
               PROVE  status'[stack'[i].cmd] \in TerminalStatuses
    BY DEF RemoveFramesTerminal
  <2>1. CASE i \in 1..Len(stack)
    <3>1. stack[i].cmd \in Cmds
      <4>1. stack[i] \in Frames
        BY <2>1, ElementOfSeq DEF IInv, TypeOK
      <4>2. QED
        BY <4>1 DEF Frames
    <3>2. QED
      BY <1>1, <2>1, <3>1 DEF IInv, RemoveFramesTerminal
  <2>2. CASE i = Len(stack) + 1
    BY <1>1, <2>2
  <2>3. QED
    BY <1>1, <1>2, <2>1, <2>2
<1>6. QED
  BY <1>3, <1>4, <1>5

(* Returning from the top frame keeps the three conjuncts; when the frame *)
(* was about to call RemoveFromQueue, its command joins the doomed set.  *)
LEMMA PopStep ==
    ASSUME IInv, stack # <<>>, stack' = Pop,
           UNCHANGED <<life, status>>,
           \/ doomed' = doomed
           \/ Top.pc = "remove" /\ doomed' = doomed \cup {Top.cmd}
    PROVE  /\ DeferredDestruction'
           /\ RemovedOnlyWhenTerminal'
           /\ RemoveFramesTerminal'
<1>1. /\ Len(stack') = Len(stack) - 1
      /\ \A i \in 1..Len(stack) - 1 : stack'[i] = stack[i]
  BY PopIndex DEF IInv, TypeOK
<1>2. /\ Len(stack) \in 1..Len(stack)
      /\ Top = stack[Len(stack)]
  BY TopFrame DEF IInv, TypeOK, Top
<1>3. life[Top.cmd] = "live"
  BY <1>2 DEF IInv, DeferredDestruction
<1>4. Top.pc = "remove" => status[Top.cmd] \in TerminalStatuses
  BY <1>2 DEF IInv, RemoveFramesTerminal
<1>5. DeferredDestruction'
  BY <1>1, <1>3 DEF IInv, DeferredDestruction
<1>6. RemovedOnlyWhenTerminal'
  BY <1>4 DEF IInv, RemovedOnlyWhenTerminal
<1>7. RemoveFramesTerminal'
  BY <1>1 DEF IInv, RemoveFramesTerminal
<1>8. QED
  BY <1>5, <1>6, <1>7

(* Resuming the top frame at a new point keeps the three conjuncts.       *)
LEMMA ContinueStep ==
    ASSUME IInv, stack # <<>>, NEW pc \in PCs, NEW cb \in BOOLEAN,
           stack' = Continue(pc, cb),
           UNCHANGED <<life, doomed>>,
           \A d \in Cmds : status[d] \in TerminalStatuses =>
                              status'[d] = status[d],
           pc = "remove" => status'[Top.cmd] \in TerminalStatuses
    PROVE  /\ DeferredDestruction'
           /\ RemovedOnlyWhenTerminal'
           /\ RemoveFramesTerminal'
<1>1. /\ Len(stack') = Len(stack)
      /\ \A i \in 1..Len(stack) : stack'[i].cmd = stack[i].cmd
      /\ \A i \in 1..Len(stack) - 1 : stack'[i].pc = stack[i].pc
      /\ stack'[Len(stack)].pc = pc
  BY ContinueIndex DEF IInv, TypeOK
<1>2. /\ Len(stack) \in Nat
      /\ Top = stack[Len(stack)]
  BY TopFrame DEF IInv, TypeOK, Top
<1>3. DeferredDestruction'
  BY <1>1 DEF IInv, DeferredDestruction
<1>4. RemovedOnlyWhenTerminal'
  BY DEF IInv, RemovedOnlyWhenTerminal, TypeOK
<1>5. RemoveFramesTerminal'
  <2> SUFFICES ASSUME NEW i \in 1..Len(stack'), stack'[i].pc = "remove"
               PROVE  status'[stack'[i].cmd] \in TerminalStatuses
    BY DEF RemoveFramesTerminal
  <2>1. stack[i].cmd \in Cmds
    <3>1. stack[i] \in Frames
      BY <1>1, ElementOfSeq DEF IInv, TypeOK
    <3>2. QED
      BY <3>1 DEF Frames
  <2>2. CASE i \in 1..Len(stack) - 1
    BY <1>1, <2>1, <2>2 DEF IInv, RemoveFramesTerminal
  <2>3. CASE i = Len(stack)
    BY <1>1, <1>2, <2>3
  <2>4. QED
    BY <1>1, <1>2, <2>2, <2>3
<1>6. QED
  BY <1>3, <1>4, <1>5

(* Every step keeps the strengthened invariant.                           *)
LEMMA IInvStep == IInv /\ [Next]_vars => IInv'
<1> SUFFICES ASSUME IInv, [Next]_vars
             PROVE  /\ DeferredDestruction'
                    /\ RemovedOnlyWhenTerminal'
                    /\ RemoveFramesTerminal'
  BY TypeStep DEF IInv
<1> USE DEF IInv
<1>1. ASSUME NEW c \in Cmds, NEW req \in Requests, Receive(c, req)
      PROVE  /\ DeferredDestruction'
             /\ RemovedOnlyWhenTerminal'
             /\ RemoveFramesTerminal'
  <2>1. /\ stack' = <<>>
        /\ UNCHANGED <<status, doomed>>
        /\ \A d \in Cmds : life'[d] = "live" \/ life'[d] = life[d]
        /\ \A d \in Cmds : life'[d] = "dead" => life[d] = "dead"
    BY <1>1 DEF Receive, TypeOK
  <2>2. QED
    BY <2>1 DEF DeferredDestruction, RemovedOnlyWhenTerminal,
                RemoveFramesTerminal, TypeOK
<1>2. ASSUME NEW c \in Cmds, NEW v \in Values, SetProgress(c, v)
      PROVE  /\ DeferredDestruction'
             /\ RemovedOnlyWhenTerminal'
             /\ RemoveFramesTerminal'
  <2>1. status' = [status EXCEPT ![c] = NewStatus(status[c], "inProgress")]
    BY <1>2 DEF SetProgress
  <2>2. /\ status' \in [Cmds -> Statuses]
        /\ \A d \in Cmds : status[d] \in TerminalStatuses =>
                              status'[d] = status[d]
        /\ \A d \in Cmds : status'[d] # status[d] => d = c
    BY <2>1, StatusUpdate DEF TypeOK, Statuses
  <2>3. /\ life[c] = "live"
        /\ stack' = Push(c, "progress", v,
                         Transition(status[c], "inProgress") = "switched")
        /\ UNCHANGED <<life, doomed>>
    BY <1>2 DEF SetProgress
  <2>4. QED
    BY <2>2, <2>3, CallStep DEF PCs
<1>3. ASSUME NEW c \in Cmds, NEW v \in Values, SetResults(c, v)
      PROVE  /\ DeferredDestruction'
             /\ RemovedOnlyWhenTerminal'
             /\ RemoveFramesTerminal'
  BY <1>3, CallStep DEF SetResults, TypeOK, PCs
<1>4. ASSUME NEW c \in Cmds, NEW e \in ErrorArgs, SetError(c, e)
      PROVE  /\ DeferredDestruction'
             /\ RemovedOnlyWhenTerminal'
             /\ RemoveFramesTerminal'
  <2>1. status' = [status EXCEPT ![c] = NewStatus(status[c], "error")]
    BY <1>4 DEF SetError
  <2>2. status' \in [Cmds -> Statuses]
    BY <1>4, TypeStep DEF TypeOK
  <2>3. \A d \in Cmds : status[d] \in TerminalStatuses => status'[d] = status[d]
    BY <2>1, SetStatusKeepsTerminal DEF TypeOK
  <2>4. CASE Transition(status[c], "error") = "switched"
    BY <1>4, <2>1, <2>2, <2>3, <2>4, CallStep DEF SetError, TypeOK, PCs
  <2>5. CASE Transition(status[c], "error") # "switched"
    <3>1. status' = status
      BY <2>1, <2>5 DEF NewStatus, TypeOK
    <3>2. UNCHANGED <<life, doomed, stack>>
      BY <1>4, <2>5 DEF SetError
    <3>3. QED
      BY <3>1, <3>2 DEF DeferredDestruction, RemovedOnlyWhenTerminal,
                        RemoveFramesTerminal
  <2>6. QED
    BY <2>4, <2>5
<1>5. ASSUME NEW c \in Cmds, NEW e \in ErrorArgs, Abort(c, e)
      PROVE  /\ DeferredDestruction'
             /\ RemovedOnlyWhenTerminal'
             /\ RemoveFramesTerminal'
  <2>1. status' = [status EXCEPT ![c] = NewStatus(status[c], "aborted")]
    BY <1>5 DEF Abort
  <2>2. /\ status' \in [Cmds -> Statuses]
        /\ \A d \in Cmds : status[d] \in TerminalStatuses =>
                              status'[d] = status[d]
        /\ \A d \in Cmds : status'[d] # status[d] => d = c
        /\ status'[c] \in TerminalStatuses
    BY <2>1, StatusUpdate DEF TypeOK, Statuses, TerminalStatuses
  <2>3. /\ life[c] = "live"
        /\ stack' = Push(c, "remove", Empty,
                         Transition(status[c], "aborted") = "switched")
        /\ UNCHANGED <<life, doomed>>
    BY <1>5 DEF Abort
  <2>4. QED
    BY <2>2, <2>3, CallStep DEF PCs
<1>6. ASSUME NEW c \in Cmds, Cancel(c)
      PROVE  /\ DeferredDestruction'
             /\ RemovedOnlyWhenTerminal'
             /\ RemoveFramesTerminal'
  <2>1. status' = [status EXCEPT ![c] = NewStatus(status[c], "cancelled")]
    BY <1>6 DEF Cancel
  <2>2. /\ status' \in [Cmds -> Statuses]
        /\ \A d \in Cmds : status[d] \in TerminalStatuses =>
                              status'[d] = status[d]
        /\ \A d \in Cmds : status'[d] # status[d] => d = c
        /\ status'[c] \in TerminalStatuses
    BY <2>1, StatusUpdate DEF TypeOK, Statuses, TerminalStatuses
  <2>3. /\ life[c] = "live"
        /\ stack' = Push(c, "remove", Empty,
                         Transition(status[c], "cancelled") = "switched")
        /\ UNCHANGED <<life, doomed>>
    BY <1>6 DEF Cancel
  <2>4. QED
    BY <2>2, <2>3, CallStep DEF PCs
<1>7. ASSUME NEW c \in Cmds, Pause(c)
      PROVE  /\ DeferredDestruction'
             /\ RemovedOnlyWhenTerminal'
             /\ RemoveFramesTerminal'
  <2>1. status[c] \notin TerminalStatuses
    BY <1>7 DEF Pause, Transition
  <2>2. status' \in [Cmds -> Statuses]
    BY <1>7, TypeStep DEF TypeOK
  <2>3. QED
    BY <1>7, <2>1, <2>2, CallStep DEF Pause, TypeOK, PCs
<1>8. ASSUME NEW c \in Cmds, Cleanup(c)
      PROVE  /\ DeferredDestruction'
             /\ RemovedOnlyWhenTerminal'
             /\ RemoveFramesTerminal'
  BY <1>8 DEF Cleanup, DeferredDestruction, RemovedOnlyWhenTerminal,
              RemoveFramesTerminal, TypeOK
<1>9. CASE ProgressStep
  <2>1. \A d \in Cmds : status[d] \in TerminalStatuses => status'[d] = status[d]
    BY <1>9 DEF ProgressStep
  <2>2. CASE Top.arg # progress[Top.cmd]
    BY <1>9, <2>1, <2>2, ContinueStep DEF ProgressStep, PCs
  <2>3. CASE Top.arg = progress[Top.cmd]
    BY <1>9, <2>3, PopStep DEF ProgressStep
  <2>4. QED
    BY <2>2, <2>3
<1>10. CASE DoneStep
  <2>1. /\ stack # <<>>
        /\ Top \in Frames
    BY <1>10, TopFrame DEF DoneStep, TypeOK
  <2>2. status' = [status EXCEPT ![Top.cmd] = NewStatus(status[Top.cmd], "done")]
    BY <1>10 DEF DoneStep
  <2>3. /\ \A d \in Cmds : status[d] \in TerminalStatuses =>
                              status'[d] = status[d]
        /\ status'[Top.cmd] \in TerminalStatuses
    <3>1. Top.cmd \in Cmds
      BY <2>1 DEF Frames
    <3>2. QED
      BY <2>2, <3>1, StatusUpdate DEF TypeOK, Statuses, TerminalStatuses
  <2>5. QED
    BY <1>10, <2>1, <2>3, ContinueStep DEF DoneStep, PCs
<1>11. CASE RemoveStep
  BY <1>11, PopStep DEF RemoveStep
<1>12. CASE Return
  BY <1>12, PopStep DEF Return
<1>13. CASE UNCHANGED vars
  BY <1>13 DEF vars, DeferredDestruction, RemovedOnlyWhenTerminal,
               RemoveFramesTerminal
<1>14. QED
  BY <1>1, <1>2, <1>3, <1>4, <1>5, <1>6, <1>7, <1>8, <1>9, <1>10,
     <1>11, <1>12, <1>13 DEF Next, Step

(* The initial state satisfies the strengthened invariant.                *)
LEMMA IInvInit == Init => IInv
BY DEF Init, IInv, TypeOK, NoEvent, Replies, Statuses, DeferredDestruction,
       RemovedOnlyWhenTerminal, RemoveFramesTerminal

(* The queue's deferred removal is safe for every number of commands and  *)
(* every nesting depth of observer calls: no instance is destroyed while  *)
(* a call on it is on the stack or while its removal is pending           *)
(* (RemoveFromQueue, CommandQueue::DelayedRemove).                        *)
THEOREM DeferredDestructionHolds == Spec => []DeferredDestruction
<1>1. IInv => DeferredDestruction
  BY DEF IInv
<1>2. QED
  BY <1>1, IInvInit, IInvStep, PTL DEF Spec

(* Abort, Cancel and SetResults call RemoveFromQueue whatever SetStatus   *)
(* returned; still the queue removes and destroys only commands whose     *)
(* status is terminal.                                                    *)
THEOREM RemovedOnlyWhenTerminalHolds == Spec => []RemovedOnlyWhenTerminal
<1>1. IInv => RemovedOnlyWhenTerminal
  BY DEF IInv
<1>2. QED
  BY <1>1, IInvInit, IInvStep, PTL DEF Spec


-----------------------------------------------------------------------------
(* The refinement mapping is the identity on life, status and parameters; *)
(* an unborn command's parameters are the empty placeholder.              *)
LEMMA LifecycleInit == Init => Lifecycle!Init
BY DEF Init, Lifecycle!Init

(* SetStatus on a live command is an Advance of the lifecycle when it     *)
(* switches, and leaves the status alone otherwise.                       *)
LEMMA StatusStepRefines ==
    ASSUME TypeOK, NEW c \in Cmds, life[c] = "live",
           NEW to \in Statuses \ {"queued"},
           status' = [status EXCEPT ![c] = NewStatus(status[c], to)],
           UNCHANGED <<life, params>>
    PROVE  [Lifecycle!Next]_Lifecycle!lifeVars
<1>1. CASE Transition(status[c], to) = "switched"
  <2>1. /\ status[c] \notin TerminalStatuses
        /\ to \notin {"queued", status[c]}
        /\ status' = [status EXCEPT ![c] = to]
    BY <1>1 DEF Transition, NewStatus
  <2>2. Lifecycle!Advance(c, to)
    BY <2>1 DEF Lifecycle!Advance, Lifecycle!TerminalStatuses, TerminalStatuses
  <2>3. QED
    BY <2>2 DEF Lifecycle!Next, Lifecycle!Statuses, Statuses
<1>2. CASE Transition(status[c], to) # "switched"
  <2>1. status' = status
    BY <1>2 DEF NewStatus, TypeOK
  <2>2. QED
    BY <2>1 DEF Lifecycle!lifeVars
<1>3. QED
  BY <1>1, <1>2

(* Every step of the command instances is a lifecycle step or a stutter.   *)
LEMMA LifecycleStep == IInv /\ [Next]_vars => [Lifecycle!Next]_Lifecycle!lifeVars
<1> SUFFICES ASSUME IInv, [Next]_vars
             PROVE  [Lifecycle!Next]_Lifecycle!lifeVars
  OBVIOUS
<1> DEFINE Stutter == UNCHANGED <<life, status, params>>
<1>0. Stutter => [Lifecycle!Next]_Lifecycle!lifeVars
  BY DEF Lifecycle!lifeVars
<1>1. ASSUME NEW c \in Cmds, NEW req \in Requests, Receive(c, req)
      PROVE  [Lifecycle!Next]_Lifecycle!lifeVars
  <2>1. CASE FromJsonReply(req) = "ok"
    <3>1. ParamValue(req) \in Values
      BY <2>1, AcceptedRequest
    <3>2. Lifecycle!Create(c, ParamValue(req))
      BY <1>1, <2>1 DEF Receive, Lifecycle!Create
    <3>3. QED
      BY <3>1, <3>2 DEF Lifecycle!Next
  <2>5. CASE FromJsonReply(req) # "ok"
    BY <1>0, <1>1, <2>5 DEF Receive
  <2>6. QED
    BY <2>1, <2>5
<1>2. ASSUME NEW c \in Cmds, NEW v \in Values, SetProgress(c, v)
      PROVE  [Lifecycle!Next]_Lifecycle!lifeVars
  BY <1>2, StatusStepRefines DEF SetProgress, IInv, Statuses
<1>3. ASSUME NEW c \in Cmds, NEW v \in Values, SetResults(c, v)
      PROVE  [Lifecycle!Next]_Lifecycle!lifeVars
  BY <1>0, <1>3 DEF SetResults
<1>4. ASSUME NEW c \in Cmds, NEW e \in ErrorArgs, SetError(c, e)
      PROVE  [Lifecycle!Next]_Lifecycle!lifeVars
  BY <1>4, StatusStepRefines DEF SetError, IInv, Statuses
<1>5. ASSUME NEW c \in Cmds, NEW e \in ErrorArgs, Abort(c, e)
      PROVE  [Lifecycle!Next]_Lifecycle!lifeVars
  BY <1>5, StatusStepRefines DEF Abort, IInv, Statuses
<1>6. ASSUME NEW c \in Cmds, Cancel(c)
      PROVE  [Lifecycle!Next]_Lifecycle!lifeVars
  BY <1>6, StatusStepRefines DEF Cancel, IInv, Statuses
<1>7. ASSUME NEW c \in Cmds, Pause(c)
      PROVE  [Lifecycle!Next]_Lifecycle!lifeVars
  <2>1. /\ status[c] \notin TerminalStatuses
        /\ "paused" # status[c]
    BY <1>7 DEF Pause, Transition
  <2>2. Lifecycle!Advance(c, "paused")
    BY <1>7, <2>1 DEF Pause, Lifecycle!Advance, Lifecycle!TerminalStatuses,
                      TerminalStatuses
  <2>3. QED
    BY <2>2 DEF Lifecycle!Next, Lifecycle!Statuses
<1>8. ASSUME NEW c \in Cmds, Cleanup(c)
      PROVE  [Lifecycle!Next]_Lifecycle!lifeVars
  <2>1. /\ life[c] = "live"
        /\ status[c] \in TerminalStatuses
    BY <1>8 DEF Cleanup, IInv, DeferredDestruction, RemovedOnlyWhenTerminal
  <2>2. Lifecycle!Destroy(c)
    BY <1>8, <2>1 DEF Cleanup, Lifecycle!Destroy, Lifecycle!TerminalStatuses,
                      TerminalStatuses
  <2>3. QED
    BY <2>2 DEF Lifecycle!Next
<1>9. CASE ProgressStep \/ RemoveStep \/ Return
  BY <1>0, <1>9 DEF ProgressStep, RemoveStep, Return
<1>10. CASE DoneStep
  <2>1. /\ stack # <<>>
        /\ Top \in Frames
        /\ Top = stack[Len(stack)]
        /\ Len(stack) \in 1..Len(stack)
    BY <1>10, TopFrame DEF DoneStep, IInv, TypeOK, Top
  <2>2. /\ Top.cmd \in Cmds
        /\ life[Top.cmd] = "live"
    BY <2>1 DEF Frames, IInv, DeferredDestruction
  <2>3. QED
    BY <1>10, <2>2, StatusStepRefines DEF DoneStep, IInv, Statuses
<1>11. CASE UNCHANGED vars
  BY <1>0, <1>11 DEF vars
<1>12. QED
  BY <1>1, <1>2, <1>3, <1>4, <1>5, <1>6, <1>7, <1>8, <1>9, <1>10, <1>11
     DEF Next, Step

(* The command instances implement the abstract command lifecycle, for    *)
(* every number of commands and every nesting depth of observer calls:    *)
(* parameters are fixed at creation, statuses never return to queued nor  *)
(* leave a terminal status, and the queue destroys only terminal commands, *)
(* although Abort, Cancel and SetResults call RemoveFromQueue whatever     *)
(* SetStatus returned.                                                     *)
THEOREM Refinement == Spec => ImplementsLifecycle
<1>1. Spec => []IInv
  BY IInvInit, IInvStep, PTL DEF Spec
<1>2. QED
  BY <1>1, LifecycleInit, LifecycleStep, PTL
     DEF Spec, ImplementsLifecycle, Lifecycle!Spec

=============
