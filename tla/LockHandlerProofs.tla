------------------------- MODULE LockHandlerProofs -------------------------
(***************************************************************************)
(* Proofs about the lock daemon on top of the command instances, for      *)
(* every value of the constants that satisfies ConstAssumption and        *)
(* LockAssumption: type correctness, and that every command whose handler *)
(* has run is answered once the call stack is empty.                      *)
(***************************************************************************)
EXTENDS LockHandler, CommandInstanceProofs

USE ConstAssumption, LockAssumption

(* A live command whose handler has run and which is not terminal yet is  *)
(* inside Complete: a frame of SetResults, before its SetStatus(kDone),    *)
(* is on the stack.                                                        *)
HandlerInFlight ==
    \A c \in Cmds :
        life[c] = "live" /\ c \notin pending /\ status[c] \notin TerminalStatuses
            => \E i \in 1..Len(stack) : stack[i].cmd = c /\ stack[i].pc = "status"

LInv == /\ IInv
        /\ LockTypeOK
        /\ HandlerInFlight


(* The commands that have a SetResults frame before its SetStatus.        *)
InFlight(st) == {st[i].cmd : i \in {j \in 1..Len(st) : st[j].pc = "status"}}

-----------------------------------------------------------------------------
(* A call keeps every frame below it.                                      *)
LEMMA PushKeepsInFlight ==
    ASSUME stack \in Seq(Frames), NEW c \in Cmds, NEW pc \in PCs,
           NEW arg \in Values, NEW cb \in BOOLEAN
    PROVE  /\ InFlight(stack) \subseteq InFlight(Push(c, pc, arg, cb))
           /\ pc = "status" => c \in InFlight(Push(c, pc, arg, cb))
<1>1. Len(stack) \in Nat
  OBVIOUS
<1>2. QED
  BY <1>1, PushIndex DEF InFlight

(* Returning from a frame other than a SetResults one keeps the rest.      *)
LEMMA PopKeepsInFlight ==
    ASSUME stack \in Seq(Frames), stack # <<>>, Top.pc # "status"
    PROVE  InFlight(stack) \subseteq InFlight(Pop)
<1>1. /\ Len(stack) \in Nat
      /\ Len(stack) >= 1
      /\ Top = stack[Len(stack)]
  BY TopFrame DEF Top
<1>2. /\ Len(Pop) = Len(stack) - 1
      /\ \A i \in 1..Len(stack) - 1 : Pop[i] = stack[i]
  BY PopIndex
<1>3. \A i \in 1..Len(stack) : stack[i].pc = "status" => i \in 1..Len(stack) - 1
  BY <1>1
<1>4. QED
  BY <1>2, <1>3 DEF InFlight

(* Resuming the top frame keeps the frames of the other commands.          *)
LEMMA ContinueKeepsInFlight ==
    ASSUME stack \in Seq(Frames), stack # <<>>, NEW pc \in PCs,
           NEW cb \in BOOLEAN
    PROVE  /\ InFlight(stack) \ {Top.cmd} \subseteq InFlight(Continue(pc, cb))
           /\ Top.pc # "status" =>
                 InFlight(stack) \subseteq InFlight(Continue(pc, cb))
<1>1. /\ Len(stack) \in Nat
      /\ Top = stack[Len(stack)]
  BY TopFrame DEF Top
<1>2. /\ Len(Continue(pc, cb)) = Len(stack)
      /\ \A i \in 1..Len(stack) : Continue(pc, cb)[i].cmd = stack[i].cmd
      /\ \A i \in 1..Len(stack) - 1 : Continue(pc, cb)[i].pc = stack[i].pc
  BY ContinueIndex
<1>3. \A i \in 1..Len(stack) : stack[i].cmd # Top.cmd => i \in 1..Len(stack) - 1
  BY <1>1
<1>4. Top.pc # "status" =>
        \A i \in 1..Len(stack) : stack[i].pc = "status" => i \in 1..Len(stack) - 1
  BY <1>1
<1>5. QED
  BY <1>2, <1>3, <1>4 DEF InFlight

(* HandlerInFlight restated with InFlight.                                 *)
LEMMA InFlightDef ==
    HandlerInFlight <=>
        \A c \in Cmds :
            life[c] = "live" /\ c \notin pending /\ status[c] \notin TerminalStatuses
                => c \in InFlight(stack)
BY DEF HandlerInFlight, InFlight


(* A step that changes only the observer notification keeps IInv.         *)
LEMMA EventOnlyStep ==
    ASSUME IInv, UNCHANGED coreButEvent, event' = NoEvent
    PROVE  IInv'
BY NoEventType DEF IInv, TypeOK, DeferredDestruction, RemovedOnlyWhenTerminal,
                   RemoveFramesTerminal, coreButEvent

(* The lock variables stay well typed.                                    *)
LEMMA LockVarsStep ==
    ASSUME LockTypeOK, TypeOK', [LockNext]_allVars
    PROVE  LockTypeOK'
<1>1. CASE \E c \in Cmds : OnLockSetConfig(c)
  BY <1>1 DEF OnLockSetConfig, LockTypeOK, TypeOK
<1>2. CASE ~\E c \in Cmds : OnLockSetConfig(c)
  BY <1>2 DEF LockNext, ReceiveCommand, CancelCommand, DestroyCommand,
              StackStep, LockTypeOK, allVars, lockVars
<1>3. QED
  BY <1>1, <1>2


(* Every step of the lock daemon keeps HandlerInFlight.                   *)
LEMMA InFlightStep ==
    ASSUME LInv, IInv', [LockNext]_allVars
    PROVE  HandlerInFlight'
<1> DEFINE Owed(d) == life'[d] = "live" /\ d \notin pending'
                      /\ status'[d] \notin TerminalStatuses
<1> SUFFICES ASSUME NEW d \in Cmds, Owed(d)
             PROVE  d \in InFlight(stack')
  BY DEF HandlerInFlight, InFlight, Owed
<1>0. /\ TypeOK /\ TypeOK'
      /\ \A c \in Cmds : life[c] = "live" /\ c \notin pending
                          /\ status[c] \notin TerminalStatuses
                            => c \in InFlight(stack)
  BY InFlightDef DEF LInv, IInv
<1>1. ASSUME NEW c \in Cmds, NEW req \in Requests, ReceiveCommand(c, req)
      PROVE  d \in InFlight(stack')
  <2>1. /\ stack' = stack /\ status' = status
        /\ pending' = IF FromJsonReply(req) = "ok" THEN pending \cup {c}
                                                   ELSE pending
        /\ FromJsonReply(req) # "ok" => life' = life
    BY <1>1 DEF ReceiveCommand, Receive
  <2>5. life'[d] = "live" => life[d] = "live" \/ d = c
    <3>1. CASE FromJsonReply(req) = "ok"
      <4>1. life' = [life EXCEPT ![c] = "live"]
        BY <1>1, <3>1 DEF ReceiveCommand, Receive
      <4>2. QED
        BY <4>1, <1>0 DEF TypeOK
    <3>2. CASE FromJsonReply(req) # "ok"
      BY <2>1, <3>2
    <3>3. QED
      BY <3>1, <3>2
  <2>2. d # c \/ FromJsonReply(req) # "ok"
    BY <2>1
  <2>3. life[d] = "live" /\ d \notin pending
    BY <2>1, <2>2, <2>5
  <2>4. QED
    BY <2>1, <2>3, <1>0
<1>2. ASSUME NEW c \in Cmds, CancelCommand(c)
      PROVE  d \in InFlight(stack')
  <2>1. /\ status' = [status EXCEPT ![c] = NewStatus(status[c], "cancelled")]
        /\ stack' = Push(c, "remove", Empty,
                         Transition(status[c], "cancelled") = "switched")
        /\ UNCHANGED <<life, pending>>
    BY <1>2 DEF CancelCommand, Cancel, lockVars
  <2>2. /\ status'[c] \in TerminalStatuses
        /\ \A e \in Cmds : status'[e] # status[e] => e = c
    BY <2>1, <1>0, StatusUpdate DEF TypeOK, Statuses, TerminalStatuses
  <2>3. d \in InFlight(stack)
    BY <2>1, <2>2, <1>0
  <2>4. QED
    BY <2>1, <2>3, <1>0, PushKeepsInFlight DEF TypeOK, PCs
<1>3. ASSUME NEW c \in Cmds, OnLockSetConfig(c)
      PROVE  d \in InFlight(stack')
  <2>1. /\ stack = <<>>
        /\ c \in pending
        /\ pending' = pending \ {c}
    BY <1>3 DEF OnLockSetConfig
  <2>2. InFlight(stack) = {}
    BY <2>1 DEF InFlight
  <2>3. CASE life[c] # "live"
    <3>1. UNCHANGED <<life, status>>
      BY <1>3, <2>3 DEF OnLockSetConfig, coreButEvent
    <3>2. QED
      BY <1>0, <2>1, <2>2, <2>3, <3>1
  <2>4. CASE life[c] = "live" /\ params[c] \in LockStates
    <3>1. SetResults(c, Empty)
      BY <1>3, <2>4, <1>0 DEF OnLockSetConfig, Complete, TypeOK
    <3>2. /\ UNCHANGED <<life, status>>
          /\ stack' = Push(c, "status", Empty, Empty # results[c])
      BY <3>1 DEF SetResults
    <3>3. c \in InFlight(stack')
      BY <3>2, <1>0, PushKeepsInFlight DEF TypeOK, PCs
    <3>4. QED
      BY <1>0, <2>1, <2>2, <3>2, <3>3
  <2>5. CASE life[c] = "live" /\ params[c] \notin LockStates
    <3>1. Abort(c, InvalidParam)
      BY <1>3, <2>5 DEF OnLockSetConfig
    <3>2. /\ status' = [status EXCEPT ![c] = NewStatus(status[c], "aborted")]
          /\ UNCHANGED life
      BY <3>1 DEF Abort
    <3>3. /\ status'[c] \in TerminalStatuses
          /\ \A e \in Cmds : status'[e] # status[e] => e = c
      BY <3>2, <1>0, StatusUpdate DEF TypeOK, Statuses, TerminalStatuses
    <3>4. QED
      BY <1>0, <2>1, <2>2, <3>2, <3>3
  <2>6. QED
    BY <2>3, <2>4, <2>5
<1>4. ASSUME NEW c \in Cmds, DestroyCommand(c)
      PROVE  d \in InFlight(stack')
  <2>1. /\ life' = [life EXCEPT ![c] = "dead"]
        /\ UNCHANGED <<status, stack, pending>>
    BY <1>4 DEF DestroyCommand, Cleanup, lockVars
  <2>2. QED
    BY <2>1, <1>0 DEF TypeOK
<1>5. CASE StackStep
  <2>0. /\ UNCHANGED pending
        /\ Step
    BY <1>5 DEF StackStep, lockVars
  <2>1. /\ UNCHANGED <<life, pending>>
        /\ stack # <<>>
        /\ Top \in Frames
    <3>1. UNCHANGED life /\ stack # <<>>
      BY <2>0 DEF Step, ProgressStep, DoneStep, RemoveStep, Return
    <3>2. QED
      BY <2>0, <3>1, <1>0, TopFrame DEF TypeOK
  <2>2. CASE ProgressStep \/ RemoveStep \/ Return
    <3>1. /\ status' = status
          /\ Top.pc # "status"
          /\ \/ stack' = Pop
             \/ stack' = Continue("ret", TRUE)
      BY <2>2 DEF ProgressStep, RemoveStep, Return
    <3>2. d \in InFlight(stack)
      BY <2>1, <3>1, <1>0
    <3>3. QED
      BY <2>1, <3>1, <3>2, <1>0, PopKeepsInFlight, ContinueKeepsInFlight
         DEF TypeOK, PCs
  <2>3. CASE DoneStep
    <3>1. /\ status' = [status EXCEPT ![Top.cmd] = NewStatus(status[Top.cmd], "done")]
          /\ stack' = Continue("remove",
                               Transition(status[Top.cmd], "done") = "switched")
      BY <2>3 DEF DoneStep
    <3>2. /\ status'[Top.cmd] \in TerminalStatuses
          /\ \A e \in Cmds : status'[e] # status[e] => e = Top.cmd
      BY <2>1, <3>1, <1>0, StatusUpdate DEF TypeOK, Statuses, TerminalStatuses,
                                            Frames
    <3>3. d \in InFlight(stack) \ {Top.cmd}
      BY <2>1, <3>2, <1>0
    <3>4. QED
      BY <2>1, <3>1, <3>3, <1>0, ContinueKeepsInFlight DEF TypeOK, PCs
  <2>4. QED
    BY <2>0, <2>2, <2>3 DEF Step
<1>6. CASE UNCHANGED allVars
  BY <1>6, <1>0 DEF allVars, vars, lockVars
<1>7. QED
  BY <1>1, <1>2, <1>3, <1>4, <1>5, <1>6 DEF LockNext


(* Every step of the lock daemon is a step of the command instances, or   *)
(* changes only the notification (a handler call on a destroyed command). *)
LEMMA CoreIInvStep ==
    ASSUME LInv, [LockNext]_allVars
    PROVE  IInv'
<1>0. IInv /\ TypeOK
  BY DEF LInv, IInv
<1>1. ASSUME NEW c \in Cmds, OnLockSetConfig(c)
      PROVE  IInv'
  <2>1. CASE life[c] # "live"
    BY <1>0, <1>1, <2>1, EventOnlyStep DEF OnLockSetConfig
  <2>2. CASE life[c] = "live" /\ params[c] \in LockStates
    <3>1. SetResults(c, Empty)
      BY <1>0, <1>1, <2>2 DEF OnLockSetConfig, Complete, TypeOK
    <3>2. QED
      BY <1>0, <3>1, IInvStep DEF Next
  <2>3. CASE life[c] = "live" /\ params[c] \notin LockStates
    <3>1. Abort(c, InvalidParam)
      BY <1>1, <2>3 DEF OnLockSetConfig
    <3>2. QED
      BY <1>0, <3>1, IInvStep, LockAssumption DEF Next, ErrorArgs
  <2>4. QED
    BY <2>1, <2>2, <2>3
<1>2. ASSUME NEW c \in Cmds, NEW req \in Requests, ReceiveCommand(c, req)
      PROVE  IInv'
  BY <1>0, <1>2, IInvStep DEF ReceiveCommand, Next
<1>3. ASSUME NEW c \in Cmds, CancelCommand(c) \/ DestroyCommand(c)
      PROVE  IInv'
  BY <1>0, <1>3, IInvStep DEF CancelCommand, DestroyCommand, Next
<1>4. CASE StackStep
  BY <1>0, <1>4, IInvStep DEF StackStep, Next
<1>5. CASE UNCHANGED allVars
  BY <1>0, <1>5, IInvStep DEF allVars
<1>6. QED
  BY <1>1, <1>2, <1>3, <1>4, <1>5 DEF LockNext

(* LInv is inductive.                                                      *)
LEMMA LInvStep == LInv /\ [LockNext]_allVars => LInv'
<1> SUFFICES ASSUME LInv, [LockNext]_allVars PROVE LInv'
  OBVIOUS
<1>1. IInv'
  BY CoreIInvStep
<1>2. LockTypeOK'
  BY <1>1, LockVarsStep DEF LInv, IInv
<1>3. HandlerInFlight'
  BY <1>1, InFlightStep
<1>4. QED
  BY <1>1, <1>2, <1>3 DEF LInv

LEMMA LInvInit == LockInit => LInv
<1> SUFFICES ASSUME LockInit PROVE LInv
  OBVIOUS
<1>1. IInv
  BY IInvInit DEF LockInit
<1>2. QED
  BY <1>1 DEF LockInit, LInv, LockTypeOK, IInv, LockStates, HandlerInFlight,
              Init

(* The lock daemon's state stays well typed: lock_state_ and the published *)
(* "lock.lockedState" are always LockState values, for every number of     *)
(* commands and every depth of observer calls.                             *)
THEOREM LockTypeCorrect == LockSpec => []LockTypeOK
<1>1. LInv => LockTypeOK
  BY DEF LInv
<1>2. QED
  BY <1>1, LInvInit, LInvStep, PTL DEF LockSpec

(* OnLockSetConfig answers every command it runs on: once the call stack  *)
(* is empty, a live command whose handler has run is done, aborted or     *)
(* cancelled, whether it completed, was refused, or was cancelled by an   *)
(* observer callback nested inside the handler's own call.                 *)
THEOREM HandlerAnswers == LockSpec => []AnsweredAfterHandler
<1>1. LInv => AnsweredAfterHandler
  <2> SUFFICES ASSUME LInv, stack = <<>>, NEW c \in Cmds,
                      life[c] = "live", c \notin pending
               PROVE  status[c] \in TerminalStatuses
    BY DEF AnsweredAfterHandler
  <2>1. InFlight(stack) = {}
    BY DEF InFlight
  <2>2. QED
    BY <2>1, InFlightDef DEF LInv
<1>2. QED
  BY <1>1, LInvInit, LInvStep, PTL DEF LockSpec

=============================================================================
