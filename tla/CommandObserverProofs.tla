------------------------ MODULE CommandObserverProofs ----------------------
(***************************************************************************)
(* Proofs of the two action properties about what observers see: every     *)
(* change of status, progress or results is notified exactly once, and,    *)
(* when observers only read, a terminal command never changes status or    *)
(* progress again.                                                         *)
(***************************************************************************)
EXTENDS CommandInstanceProofs

USE ConstAssumption

(* The step formula of NotifyIffChanged.                                   *)
ChangesNotified ==
    \A c \in Cmds :
         /\ (status'[c] # status[c]) <=> event' = [cmd |-> c, kind |-> "status"]
         /\ (progress'[c] # progress[c]) <=> event' = [cmd |-> c, kind |-> "progress"]
         /\ (results'[c] # results[c]) <=> event' = [cmd |-> c, kind |-> "results"]

(* SetStatus(to) on c notifies OnStatusChanged for c exactly when it       *)
(* switches, and then the status of c, and nothing else, has changed.      *)
LEMMA StatusNotified ==
    ASSUME status \in [Cmds -> Statuses], NEW c \in Cmds, NEW to,
           status' = [status EXCEPT ![c] = NewStatus(status[c], to)],
           event' = StatusEvent(c, status[c], to),
           progress' = progress, results' = results
    PROVE  ChangesNotified
<1>1. CASE Transition(status[c], to) = "switched"
  <2>1. /\ status'[c] = to
        /\ to # status[c]
        /\ \A d \in Cmds \ {c} : status'[d] = status[d]
        /\ event' = [cmd |-> c, kind |-> "status"]
    BY <1>1 DEF NewStatus, StatusEvent, Transition
  <2>2. QED
    BY <2>1 DEF ChangesNotified
<1>2. CASE Transition(status[c], to) # "switched"
  <2>1. status' = status /\ event' = NoEvent
    BY <1>2 DEF NewStatus, StatusEvent
  <2>2. QED
    BY <2>1 DEF ChangesNotified, NoEvent
<1>3. QED
  BY <1>1, <1>2

(* A step that changes none of status, progress and results and fires no  *)
(* change notification.                                                    *)
LEMMA QuietStep ==
    ASSUME status' = status, progress' = progress, results' = results,
           event'.kind \notin {"status", "progress", "results"}
    PROVE  ChangesNotified
BY DEF ChangesNotified

(* Every step of the model notifies exactly the changes it makes.          *)
LEMMA NotifyStep == TypeOK /\ [Next]_vars => [ChangesNotified]_vars
<1> SUFFICES ASSUME TypeOK, [Next]_vars PROVE [ChangesNotified]_vars
  OBVIOUS
<1>1. ASSUME NEW c \in Cmds, NEW req \in Requests, Receive(c, req)
      PROVE  ChangesNotified
  BY <1>1, QuietStep DEF Receive, NoEvent
<1>2. ASSUME NEW c \in Cmds, NEW v \in Values, SetProgress(c, v)
      PROVE  ChangesNotified
  BY <1>2, StatusNotified DEF SetProgress, TypeOK
<1>3. ASSUME NEW c \in Cmds, NEW v \in Values, SetResults(c, v)
      PROVE  ChangesNotified
  <2>1. /\ results' = [results EXCEPT ![c] = v]
        /\ event' = IF v # results[c] THEN [cmd |-> c, kind |-> "results"]
                                      ELSE NoEvent
        /\ status' = status /\ progress' = progress
    BY <1>3 DEF SetResults
  <2>2. QED
    BY <2>1 DEF ChangesNotified, NoEvent, TypeOK
<1>4. ASSUME NEW c \in Cmds, NEW e \in ErrorArgs, SetError(c, e)
      PROVE  ChangesNotified
  BY <1>4, StatusNotified DEF SetError, TypeOK
<1>5. ASSUME NEW c \in Cmds, NEW e \in ErrorArgs, Abort(c, e)
      PROVE  ChangesNotified
  BY <1>5, StatusNotified DEF Abort, TypeOK
<1>6. ASSUME NEW c \in Cmds, Pause(c)
      PROVE  ChangesNotified
  <2>1. /\ status' = [status EXCEPT ![c] = NewStatus(status[c], "paused")]
        /\ event' = StatusEvent(c, status[c], "paused")
    BY <1>6 DEF Pause, NewStatus, StatusEvent
  <2>2. QED
    BY <1>6, <2>1, StatusNotified DEF Pause, TypeOK
<1>7. ASSUME NEW c \in Cmds, Cancel(c)
      PROVE  ChangesNotified
  BY <1>7, StatusNotified DEF Cancel, TypeOK
<1>8. ASSUME NEW c \in Cmds, Cleanup(c)
      PROVE  ChangesNotified
  BY <1>8, QuietStep DEF Cleanup
<1>9. CASE ProgressStep
  <2>1. Top.cmd \in Cmds
    BY <1>9, TopFrame DEF ProgressStep, TypeOK, Frames
  <2>2. CASE Top.arg # progress[Top.cmd]
    <3>1. /\ progress' = [progress EXCEPT ![Top.cmd] = Top.arg]
          /\ event' = [cmd |-> Top.cmd, kind |-> "progress"]
          /\ status' = status /\ results' = results
      BY <1>9, <2>2 DEF ProgressStep
    <3>2. QED
      BY <2>1, <2>2, <3>1 DEF ChangesNotified, TypeOK
  <2>3. CASE Top.arg = progress[Top.cmd]
    BY <1>9, <2>3, QuietStep DEF ProgressStep, NoEvent
  <2>4. QED
    BY <2>2, <2>3
<1>10. CASE DoneStep
  <2>1. Top.cmd \in Cmds
    BY <1>10, TopFrame DEF DoneStep, TypeOK, Frames
  <2>2. QED
    BY <1>10, <2>1, StatusNotified DEF DoneStep, TypeOK
<1>11. CASE RemoveStep
  BY <1>11, QuietStep DEF RemoveStep, NoEvent
<1>12. CASE Return
  BY <1>12, QuietStep DEF Return, NoEvent
<1>13. CASE UNCHANGED vars
  BY <1>13
<1>14. QED
  BY <1>1, <1>2, <1>3, <1>4, <1>5, <1>6, <1>7, <1>8, <1>9, <1>10,
     <1>11, <1>12, <1>13 DEF Next, Step

(* Observer contract (NotifyIffChanged): in every behaviour, with          *)
(* observers that may call back into any command to any depth, each step   *)
(* fires OnStatusChanged, OnProgressChanged or OnResultsChanged for a      *)
(* command exactly when it changes that command's status, progress or     *)
(* results.                                                                *)
THEOREM NotifyExactly == Spec => NotifyIffChanged
<1>1. []TypeOK /\ [][Next]_vars => [][ChangesNotified]_vars
  BY NotifyStep, PTL
<1>2. QED
  BY <1>1, TypeCorrect, PTL DEF Spec, NotifyIffChanged, ChangesNotified

-----------------------------------------------------------------------------
(* The nesting bound: a call starts on an empty stack or from a callback   *)
(* of the top frame while the stack is shorter than MaxDepth.              *)
StackBounded == Len(stack) <= MaxDepth

LEMMA CallDepth ==
    ASSUME TypeOK, StackBounded, CanCall, NEW c \in Cmds, NEW pc \in PCs,
           NEW arg \in Values, NEW cb \in BOOLEAN
    PROVE  Len(Push(c, pc, arg, cb)) <= MaxDepth
<1>1. Len(Push(c, pc, arg, cb)) = Len(stack) + 1
  BY PushIndex DEF TypeOK
<1>2. CASE stack = <<>>
  BY <1>1, <1>2
<1>3. CASE stack # <<>>
  BY <1>1, <1>3 DEF CanCall, TypeOK
<1>4. QED
  BY <1>2, <1>3

LEMMA DepthStep == TypeOK /\ StackBounded /\ [Next]_vars => StackBounded'
<1> SUFFICES ASSUME TypeOK, StackBounded, [Next]_vars PROVE StackBounded'
  OBVIOUS
<1>1. ASSUME NEW c \in Cmds, NEW req \in Requests, Receive(c, req)
      PROVE  StackBounded'
  BY <1>1 DEF Receive, StackBounded
<1>2. ASSUME NEW c \in Cmds, NEW v \in Values, SetProgress(c, v)
      PROVE  StackBounded'
  BY <1>2, CallDepth DEF SetProgress, StackBounded, PCs
<1>3. ASSUME NEW c \in Cmds, NEW v \in Values, SetResults(c, v)
      PROVE  StackBounded'
  BY <1>3, CallDepth DEF SetResults, StackBounded, PCs
<1>4. ASSUME NEW c \in Cmds, NEW e \in ErrorArgs, SetError(c, e)
      PROVE  StackBounded'
  BY <1>4, CallDepth DEF SetError, StackBounded, PCs, TypeOK
<1>5. ASSUME NEW c \in Cmds, NEW e \in ErrorArgs, Abort(c, e)
      PROVE  StackBounded'
  BY <1>5, CallDepth DEF Abort, StackBounded, PCs, TypeOK
<1>6. ASSUME NEW c \in Cmds, Pause(c)
      PROVE  StackBounded'
  BY <1>6, CallDepth DEF Pause, StackBounded, PCs, TypeOK
<1>7. ASSUME NEW c \in Cmds, Cancel(c)
      PROVE  StackBounded'
  BY <1>7, CallDepth DEF Cancel, StackBounded, PCs, TypeOK
<1>8. ASSUME NEW c \in Cmds, Cleanup(c)
      PROVE  StackBounded'
  BY <1>8 DEF Cleanup, StackBounded
<1>9. ASSUME stack # <<>>, NEW pc \in PCs, NEW cb \in BOOLEAN,
             stack' = Continue(pc, cb)
      PROVE  StackBounded'
  BY <1>9, ContinueIndex DEF TypeOK, StackBounded
<1>10. ASSUME stack # <<>>, stack' = Pop
       PROVE  StackBounded'
  BY <1>10, PopIndex DEF TypeOK, StackBounded
<1>11. CASE ProgressStep
  BY <1>11, <1>9, <1>10 DEF ProgressStep, PCs
<1>12. CASE DoneStep
  BY <1>12, <1>9 DEF DoneStep, PCs
<1>13. QED
  BY <1>1, <1>2, <1>3, <1>4, <1>5, <1>6, <1>7, <1>8, <1>10, <1>11, <1>12
     DEF Next, Step, RemoveStep, Return, vars, StackBounded

-----------------------------------------------------------------------------
(* With read-only observers (MaxDepth = 1, the transport of the spec), a   *)
(* frame of SetProgress about to compare progress_ belongs to a command    *)
(* in kInProgress: its SetStatus(kInProgress) succeeded and nothing can    *)
(* run before the comparison.                                              *)
ProgressFramesInProgress ==
    \A i \in 1..Len(stack) :
        stack[i].pc = "progress" => status[stack[i].cmd] = "inProgress"

ROInv == TypeOK /\ StackBounded /\ ProgressFramesInProgress

(* With MaxDepth = 1 an operation can only be called on an empty stack.    *)
LEMMA OnlyTopLevel ==
    ASSUME MaxDepth = 1, TypeOK, StackBounded, CanCall
    PROVE  stack = <<>>
BY EmptySeq DEF CanCall, StackBounded, TypeOK

(* A call made with MaxDepth = 1 leaves a single frame on the stack.       *)
LEMMA FreshCall ==
    ASSUME MaxDepth = 1, ROInv, CanCall, NEW c \in Cmds, NEW pc \in PCs,
           NEW arg \in Values, NEW cb \in BOOLEAN,
           stack' = Push(c, pc, arg, cb),
           pc = "progress" => status'[c] = "inProgress"
    PROVE  ProgressFramesInProgress'
<1>1. stack = <<>>
  BY OnlyTopLevel DEF ROInv
<1>2. /\ Len(stack') = 1
      /\ stack'[1].cmd = c
      /\ stack'[1].pc = pc
  BY <1>1, PushIndex DEF ROInv, TypeOK
<1>3. QED
  BY <1>2 DEF ProgressFramesInProgress

(* With MaxDepth = 1 a non-empty stack holds exactly one frame.          *)
LEMMA SingleFrame ==
    ASSUME MaxDepth = 1, stack \in Seq(Frames), StackBounded, stack # <<>>
    PROVE  Len(stack) = 1
<1>1. Len(stack) \in Nat \ {0}
  BY EmptySeq
<1>2. Len(stack) <= 1
  BY DEF StackBounded
<1>3. \A n \in Nat \ {0} : n <= 1 => n = 1
  OBVIOUS
<1>4. QED
  BY <1>1, <1>2, <1>3, Zenon

(* The top frame of a one-frame stack resumes elsewhere than "progress",  *)
(* or returns.                                                             *)
LEMMA LeaveProgress ==
    ASSUME MaxDepth = 1, ROInv, stack # <<>>,
           \/ \E pc \in PCs \ {"progress"}, cb \in BOOLEAN :
                 stack' = Continue(pc, cb)
           \/ stack' = Pop
    PROVE  ProgressFramesInProgress'
<1>1. Len(stack) = 1
  BY SingleFrame DEF ROInv, TypeOK
<1>2. CASE \E pc \in PCs \ {"progress"}, cb \in BOOLEAN : stack' = Continue(pc, cb)
  <2>1. PICK pc \in PCs \ {"progress"}, cb \in BOOLEAN : stack' = Continue(pc, cb)
    BY <1>2
  <2>2. Len(stack') = 1 /\ stack'[1].pc = pc
    BY <1>1, <2>1, ContinueIndex DEF ROInv, TypeOK
  <2>3. QED
    BY <2>1, <2>2 DEF ProgressFramesInProgress
<1>3. CASE stack' = Pop
  BY <1>1, <1>3, PopIndex DEF ROInv, TypeOK, ProgressFramesInProgress
<1>4. QED
  BY <1>2, <1>3

(* With read-only observers every step keeps ROInv.                       *)
LEMMA ROInvStep ==
    ASSUME MaxDepth = 1
    PROVE  ROInv /\ [Next]_vars => ROInv'
<1> SUFFICES ASSUME ROInv, [Next]_vars PROVE ROInv'
  OBVIOUS
<1>1. TypeOK' /\ StackBounded'
  BY TypeStep, DepthStep DEF ROInv
<1> SUFFICES ProgressFramesInProgress'
  BY <1>1 DEF ROInv
<1>2. ASSUME NEW c \in Cmds, NEW req \in Requests, Receive(c, req)
      PROVE  ProgressFramesInProgress'
  BY <1>2 DEF Receive, ProgressFramesInProgress
<1>3. ASSUME NEW c \in Cmds, NEW v \in Values, SetProgress(c, v)
      PROVE  ProgressFramesInProgress'
  <2>1. status'[c] = "inProgress"
    BY <1>3 DEF SetProgress, NewStatus, Transition, ROInv, TypeOK
  <2>2. QED
    BY <1>3, <2>1, FreshCall DEF SetProgress, PCs
<1>4. ASSUME NEW c \in Cmds, NEW v \in Values, SetResults(c, v)
      PROVE  ProgressFramesInProgress'
  BY <1>4, FreshCall DEF SetResults, PCs
<1>5. ASSUME NEW c \in Cmds, NEW e \in ErrorArgs, SetError(c, e)
      PROVE  ProgressFramesInProgress'
  <2>1. stack = <<>>
    BY <1>5, OnlyTopLevel DEF SetError, ROInv
  <2>2. CASE Transition(status[c], "error") = "switched"
    BY <1>5, <2>2, FreshCall DEF SetError, PCs
  <2>3. CASE Transition(status[c], "error") # "switched"
    BY <1>5, <2>1, <2>3 DEF SetError, ProgressFramesInProgress
  <2>4. QED
    BY <2>2, <2>3
<1>6. ASSUME NEW c \in Cmds, NEW e \in ErrorArgs, Abort(c, e)
      PROVE  ProgressFramesInProgress'
  BY <1>6, FreshCall DEF Abort, PCs
<1>7. ASSUME NEW c \in Cmds, Pause(c)
      PROVE  ProgressFramesInProgress'
  BY <1>7, FreshCall DEF Pause, PCs
<1>8. ASSUME NEW c \in Cmds, Cancel(c)
      PROVE  ProgressFramesInProgress'
  BY <1>8, FreshCall DEF Cancel, PCs
<1>9. ASSUME NEW c \in Cmds, Cleanup(c)
      PROVE  ProgressFramesInProgress'
  BY <1>9 DEF Cleanup, ProgressFramesInProgress
<1>10. CASE ProgressStep
  <2>1. "ret" \in PCs \ {"progress"}
    BY DEF PCs
  <2>2. QED
    BY <1>10, <2>1, LeaveProgress DEF ProgressStep
<1>11. CASE DoneStep
  <2>1. "remove" \in PCs \ {"progress"}
    BY DEF PCs
  <2>2. QED
    BY <1>11, <2>1, LeaveProgress DEF DoneStep
<1>12. CASE RemoveStep
  BY <1>12, LeaveProgress DEF RemoveStep
<1>13. CASE Return
  BY <1>13, LeaveProgress DEF Return
<1>14. CASE UNCHANGED vars
  BY <1>14 DEF vars, ROInv, ProgressFramesInProgress
<1>15. QED
  BY <1>2, <1>3, <1>4, <1>5, <1>6, <1>7, <1>8, <1>9, <1>10, <1>11,
     <1>12, <1>13, <1>14 DEF Next, Step

(* The step formula of TerminalFinality.                                  *)
FinalStep ==
    \A c \in Cmds :
         status[c] \in TerminalStatuses =>
             /\ status'[c] = status[c]
             /\ progress'[c] = progress[c]

(* At any nesting depth, no step moves a terminal status: every status    *)
(* change goes through SetStatus, which refuses to leave one.             *)
LEMMA StatusFinal ==
    ASSUME TypeOK, [Next]_vars, NEW d \in Cmds, status[d] \in TerminalStatuses
    PROVE  status'[d] = status[d]
<1>1. ASSUME NEW c \in Cmds, NEW to,
             status' = [status EXCEPT ![c] = NewStatus(status[c], to)]
      PROVE  status'[d] = status[d]
  <2>1. CASE d = c
    <3>1. NewStatus(status[d], to) = status[d]
      BY TerminalStays
    <3>2. QED
      BY <1>1, <2>1, <3>1 DEF TypeOK
  <2>2. CASE d # c
    BY <1>1, <2>2 DEF TypeOK
  <2>3. QED
    BY <2>1, <2>2
<1>2. ASSUME NEW c \in Cmds, Pause(c)
      PROVE  status'[d] = status[d]
  BY <1>2 DEF Pause, Transition, TerminalStatuses, TypeOK
<1>3. CASE DoneStep
  <2>1. Top.cmd \in Cmds
    BY <1>3, TopFrame DEF DoneStep, TypeOK, Frames
  <2>2. QED
    BY <1>3, <2>1, <1>1 DEF DoneStep
<1>4. ASSUME NEW c \in Cmds, NEW v \in Values, SetProgress(c, v)
      PROVE  status'[d] = status[d]
  BY <1>4, <1>1 DEF SetProgress
<1>5. ASSUME NEW c \in Cmds, NEW e \in ErrorArgs, SetError(c, e) \/ Abort(c, e)
      PROVE  status'[d] = status[d]
  BY <1>5, <1>1 DEF SetError, Abort
<1>6. ASSUME NEW c \in Cmds, Cancel(c)
      PROVE  status'[d] = status[d]
  BY <1>6, <1>1 DEF Cancel
<1>7. CASE status' = status
  BY <1>7
<1>8. QED
  BY <1>2, <1>3, <1>4, <1>5, <1>6, <1>7
     DEF Next, Step, vars, Receive, SetResults, Cleanup, ProgressStep,
         RemoveStep, Return

(* With read-only observers, progress_ changes only in SetProgress's      *)
(* comparison step, whose command is in kInProgress, never terminal.      *)
LEMMA ProgressFinal ==
    ASSUME MaxDepth = 1, ROInv, [Next]_vars, NEW d \in Cmds,
           status[d] \in TerminalStatuses
    PROVE  progress'[d] = progress[d]
<1>1. CASE ProgressStep
  <2>1. /\ Len(stack) \in 1..Len(stack)
        /\ Top = stack[Len(stack)]
    BY <1>1, TopFrame DEF ProgressStep, ROInv, TypeOK, Top
  <2>2. status[Top.cmd] = "inProgress"
    BY <1>1, <2>1 DEF ProgressStep, ROInv, ProgressFramesInProgress
  <2>3. Top.cmd # d
    BY <2>2 DEF TerminalStatuses
  <2>4. \/ progress' = [progress EXCEPT ![Top.cmd] = Top.arg]
        \/ progress' = progress
    BY <1>1 DEF ProgressStep
  <2>5. QED
    BY <2>3, <2>4 DEF ROInv, TypeOK
<1>2. CASE ~ProgressStep
  BY <1>2 DEF Next, Step, vars, Receive, SetProgress, SetResults, SetError,
              Abort, Pause, Cancel, Cleanup, DoneStep, RemoveStep, Return
<1>3. QED
  BY <1>1, <1>2

(* Terminal finality with the spec's read-only observers (MaxDepth = 1):  *)
(* once a command is done, cancelled, aborted or expired, no step changes  *)
(* its status or its progress.  SetStatus refuses to leave a terminal      *)
(* status, and SetProgress writes progress_ only after its own switch to  *)
(* kInProgress succeeded.  With observers that call back (MaxDepth = 2)    *)
(* the property fails: see the run reentrant_finality.                    *)
THEOREM ReadOnlyFinality ==
    ASSUME MaxDepth = 1
    PROVE  Spec => TerminalFinality
<1>1. Init => ROInv
  BY DEF Init, ROInv, TypeOK, NoEvent, Replies, Statuses, StackBounded,
         ProgressFramesInProgress
<1>2. ROInv /\ [Next]_vars => ROInv'
  BY ROInvStep
<1>3. ROInv /\ [Next]_vars => [FinalStep]_vars
  BY StatusFinal, ProgressFinal DEF FinalStep, ROInv
<1>4. QED
  BY <1>1, <1>2, <1>3, PTL DEF Spec, TerminalFinality, FinalStep

=============================================================================
