---------------------------- MODULE LockHandler ----------------------------
(***************************************************************************)
(* The example lock daemon (examples/daemon/lock/lock.cc) on top of the   *)
(* command instances: LockHandler::OnLockSetConfig is the handler of      *)
(* "lock.setConfig".  The queue's Add hands it a weak pointer to the new  *)
(* command and calls it synchronously, inside the task that added the     *)
(* command: no other task (a cancel from the transport, the queue's       *)
(* cleanup) runs between Add and the handler.  The handler keeps          *)
(* lock_state_ and publishes it as the device state property              *)
(* "lock.lockedState".                                                    *)
(*                                                                         *)
(* A parameter ValueMap is abstracted to the string its "lockedState"     *)
(* property holds (Empty: no such property).                              *)
(***************************************************************************)
EXTENDS CommandInstance

CONSTANTS
    InvalidParam   \* the "invalid_parameter_value" error the handler aborts with

(* Register defines lock.setConfig without a results schema, so the      *)
(* empty results object of Complete({}) is always accepted.               *)
ASSUME LockAssumption ==
    /\ InvalidParam \in Errors
    /\ \A d \in Defs : Empty \in ResultsSchema[d]

(* LockState and the EnumToString map kLockMapMethod.                      *)
LockStates == {"locked", "unlocked", "partiallyLocked"}

VARIABLES
    lockState,     \* LockHandler::lock_state_
    lockedState,   \* the device state property "lock.lockedState"
    pending        \* the command Add is handing to its handler right now

lockVars == <<lockState, lockedState, pending>>
allVars == <<vars, lockVars>>

coreButEvent == <<life, cmdName, status, params, progress, results, error,
                  doomed, stack, reply>>

-----------------------------------------------------------------------------
(* Register: the state definitions and SetStatePropertiesFromJson put the *)
(* lock in "locked", as lock_state_'s initializer does.                   *)
LockInit ==
    /\ Init
    /\ lockState = "locked"
    /\ lockedState = "locked"
    /\ pending = {}

(* The task that adds a command is over only once its handler has run.    *)
AddDone == pending = {}

(* A request arrives; an accepted command is added to the queue, which    *)
(* then calls the handler registered for its name.                        *)
ReceiveCommand(c, req) ==
    /\ AddDone
    /\ Receive(c, req)
    /\ pending' = IF FromJsonReply(req) = "ok" THEN pending \cup {c}
                                               ELSE pending
    /\ UNCHANGED <<lockState, lockedState>>

(* The transport cancels a command (a cloud or local cancel request).     *)
CancelCommand(c) ==
    /\ AddDone
    /\ Cancel(c)
    /\ UNCHANGED lockVars

(* cmd->Complete({}, nullptr): SetResults with an empty results object.   *)
(* A results schema that refuses {} makes it return false, untouched.     *)
Complete(c) ==
    IF Empty \in ResultsSchema[cmdName[c]]
    THEN SetResults(c, Empty)
    ELSE /\ event' = NoEvent
         /\ UNCHANGED coreButEvent

(* Mutant: the handler completes only when the lock state changed.        *)
OnLockSetConfigCompleteInside(c) ==
    /\ stack = <<>>
    /\ c \in pending
    /\ pending' = pending \ {c}
    /\ IF life[c] # "live"
       THEN /\ event' = NoEvent
            /\ UNCHANGED <<coreButEvent, lockState, lockedState>>
       ELSE IF params[c] \in LockStates
       THEN IF params[c] # lockState
            THEN /\ lockState' = params[c]
                 /\ lockedState' = params[c]
                 /\ Complete(c)
            ELSE /\ event' = NoEvent
                 /\ UNCHANGED <<coreButEvent, lockState, lockedState>>
       ELSE /\ Abort(c, InvalidParam)
            /\ UNCHANGED <<lockState, lockedState>>

(* LockHandler::OnLockSetConfig, called by Add: return if the command is *)
(* gone (the weak pointer does not lock; Add's own call always finds it   *)
(* alive); with a "lockedState" that names a LockState,   *)
(* switch lock_state_ and publish it (UpdateLockState) if it differs,     *)
(* then Complete; otherwise Abort with invalid_parameter_value.           *)
OnLockSetConfig(c) ==
    /\ stack = <<>>
    /\ c \in pending
    /\ pending' = pending \ {c}
    /\ IF life[c] # "live"
       THEN /\ event' = NoEvent
            /\ UNCHANGED <<coreButEvent, lockState, lockedState>>
       ELSE IF params[c] \in LockStates
       THEN /\ lockState' = params[c]
            /\ lockedState' = IF params[c] # lockState THEN params[c]
                                                       ELSE lockedState
            /\ Complete(c)
       ELSE /\ Abort(c, InvalidParam)
            /\ UNCHANGED <<lockState, lockedState>>

(* The queue's cleanup task destroys a removed command.                    *)
DestroyCommand(c) ==
    /\ AddDone
    /\ Cleanup(c)
    /\ UNCHANGED lockVars

(* The rest of a call on the stack, including the observers' returns.     *)
StackStep ==
    /\ Step
    /\ UNCHANGED lockVars

LockNext ==
    \/ \E c \in Cmds, req \in Requests : ReceiveCommand(c, req)
    \/ \E c \in Cmds : CancelCommand(c) \/ OnLockSetConfig(c)
                       \/ DestroyCommand(c)
    \/ StackStep

(* Code on the stack, and Add's call of the handler, run to completion     *)
(* (WF); the task runner eventually runs the queue's cleanup task, even    *)
(* while other tasks keep it busy (SF).                                    *)
LockSpec == LockInit /\ [][LockNext]_allVars
LockFairSpec ==
    /\ LockSpec
    /\ WF_allVars(StackStep)
    /\ \A c \in Cmds : WF_allVars(OnLockSetConfig(c)) /\ SF_allVars(DestroyCommand(c))

-----------------------------------------------------------------------------
LockTypeOK ==
    /\ TypeOK
    /\ lockState \in LockStates
    /\ lockedState \in LockStates
    /\ pending \subseteq Cmds

(* Every command the handler has run on is answered: once its task and   *)
(* everything it called have returned, a command that is still in the    *)
(* queue is done, aborted or cancelled, never left queued for the cloud   *)
(* to wait on (OnLockSetConfig ends in Complete or Abort on every path).  *)
AnsweredAfterHandler ==
    stack = <<>> =>
        \A c \in Cmds :
            (life[c] = "live" /\ c \notin pending) =>
                status[c] \in TerminalStatuses

(* No command is leaked: every command the queue accepts is eventually    *)
(* destroyed, whether the handler completes it or aborts it.              *)
CommandsReclaimed ==
    \A c \in Cmds : life[c] = "live" ~> life[c] = "dead"

=============================================================================
