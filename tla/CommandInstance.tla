-------------------------- MODULE CommandInstance --------------------------
(***************************************************************************)
(* The life of libweave command instances: creation from a request        *)
(* (CommandInstance::FromJson followed by the queue's Add), the status     *)
(* state machine driven by SetProgress, SetResults, SetError, Pause, Abort *)
(* and Cancel (command_instance.cc), the observer notifications each of    *)
(* them fires, and the queue's deferred removal (DelayedRemove, then the   *)
(* cleanup task that destroys the instance).                               *)
(*                                                                         *)
(* Everything runs on one task runner, but an observer is called           *)
(* synchronously from inside an operation and may call back into any      *)
(* command.  An operation is therefore split at each FOR_EACH_OBSERVER:    *)
(* the part before the first notification happens with the call, each     *)
(* later part is a step of a frame on the explicit call stack `stack`.     *)
(* A nested call may start only while the top frame is inside an observer *)
(* callback (cb = TRUE); a new task (a request, a handler's call, the      *)
(* cleanup task) only when the stack is empty.                             *)
(***************************************************************************)
EXTENDS Naturals, Sequences

CONSTANTS
    Cmds,          \* the command instances (model values)
    Values,        \* typed ValueMaps that some schema of the dictionary accepts
    Empty,         \* the empty ValueMap: initial progress_ and results_
    Errors,        \* errors a handler records with SetError or Abort
    NoError,       \* error_ == nullptr
    Names,         \* command names a request may carry
    NoName,        \* a request without a string "name"
    Defs,          \* the names the CommandDictionary defines
    ParamSchema,   \* [Defs -> SUBSET Values]: parameters the definition accepts
    ProgressSchema,\* [Defs -> SUBSET Values]: progress the definition accepts
    ResultsSchema, \* [Defs -> SUBSET Values]: results the definition accepts
    Absent,        \* a request without a "parameters" property
    NotObject,     \* a "parameters" property that is not a JSON object
    MaxDepth       \* bound on nested calls made from observer callbacks

ASSUME ConstAssumption ==
    /\ Cmds # {}
    /\ Empty \in Values
    /\ NoError \notin Errors
    /\ NoName \notin Names
    /\ Defs \subseteq Names /\ Defs # {}
    /\ ParamSchema \in [Defs -> SUBSET Values]
    /\ ProgressSchema \in [Defs -> SUBSET Values]
    /\ ResultsSchema \in [Defs -> SUBSET Values]
    /\ Absent \notin Values /\ NotObject \notin Values /\ Absent # NotObject
    /\ MaxDepth \in Nat \ {0}

(* CommandStatus and the EnumToString map kMapStatus.                      *)
Statuses == {"queued", "inProgress", "paused", "error",
             "done", "cancelled", "aborted", "expired"}

(* The statuses SetStatus refuses to leave.                                *)
TerminalStatuses == {"done", "cancelled", "aborted", "expired"}

(* A request document as far as FromJson looks at it.                     *)
Requests == [object : BOOLEAN, name : Names \cup {NoName},
             params : Values \cup {Absent, NotObject}]

(* What FromJson reports: "ok" or the code of the outermost error.         *)
Replies == {"none", "ok", "objectExpected", "propertyMissing",
            "invalidCommandName", "commandFailed"}

(* Observer notifications: Observer::OnStatusChanged, OnProgressChanged,   *)
(* OnResultsChanged, OnCommandDestroyed, and the queue's command-added.    *)
EventKinds == {"status", "progress", "results", "destroyed", "added"}
NoEvent == [cmd |-> CHOOSE c \in Cmds : TRUE, kind |-> "none"]

(* A frame of the call stack: the command, where the operation resumes,   *)
(* the validated argument it still holds, and whether its observers are   *)
(* being called right now.  "status": SetResults before SetStatus(kDone); *)
(* "progress": SetProgress before comparing with progress_; "remove":     *)
(* before RemoveFromQueue; "ret": only the return is left.                *)
Frames == [cmd : Cmds, pc : {"status", "progress", "remove", "ret"},
           arg : Values, cb : BOOLEAN]

VARIABLES
    life,      \* "unborn", "live" (owned by the queue) or "dead" (destroyed)
    cmdName,   \* name_
    status,    \* status_
    params,    \* parameters_
    progress,  \* progress_
    results,   \* results_
    error,     \* error_
    doomed,    \* the queue's pending delayed removals
    stack,     \* the synchronous call stack, top at the end
    event,     \* the observer notification fired by the last step
    reply      \* what the last FromJson reported to the transport

vars == <<life, cmdName, status, params, progress, results, error,
          doomed, stack, event, reply>>

-----------------------------------------------------------------------------
(* Mutant: SetStatus without the kAborted case among the terminal ones.  *)
TransitionAbortNotFinal(from, to) ==
    CASE to = from                                   -> "noop"
      [] to = "queued" \/ from \in TerminalStatuses \ {"aborted"} -> "rejected"
      [] OTHER                                       -> "switched"

(* Mutant: SetStatus without the `status == status_` early return.        *)
TransitionNoSameCheck(from, to) ==
    CASE to = "queued" \/ from \in TerminalStatuses  -> "rejected"
      [] OTHER                                       -> "switched"

(* CommandInstance::SetStatus: the outcome of switching from `from` to    *)
(* `to`.  A same-status switch succeeds before the kQueued check is made. *)
Transition(from, to) ==
    CASE to = from                                   -> "noop"
      [] to = "queued" \/ from \in TerminalStatuses  -> "rejected"
      [] OTHER                                       -> "switched"

(* The status after SetStatus(to).                                         *)
NewStatus(from, to) ==
    IF Transition(from, to) = "switched" THEN to ELSE from

(* The notification SetStatus(to) fires on c.                             *)
StatusEvent(c, from, to) ==
    IF Transition(from, to) = "switched"
    THEN [cmd |-> c, kind |-> "status"] ELSE NoEvent

(* ToJson: the document the transport serializes for c (the id is left    *)
(* out: it never changes).  "error" is present only while error_ is set.  *)
ToJson(c) ==
    LET doc == [name |-> cmdName[c], parameters |-> params[c],
                progress |-> progress[c], results |-> results[c],
                state |-> status[c]]
    IN  IF error[c] = NoError THEN doc
        ELSE [k \in DOMAIN doc \cup {"error"} |->
                 IF k = "error" THEN error[c] ELSE doc[k]]

(* FromJson and GetCommandParameters: the "parameters" object, or the     *)
(* empty placeholder when the property is absent.                         *)
ParamValue(req) == IF req.params = Absent THEN Empty ELSE req.params

(* Mutant: FromJson without the GetCommandParameters check.               *)
FromJsonReplyNoParamCheck(req) ==
    CASE ~req.object                                 -> "objectExpected"
      [] req.name = NoName                           -> "propertyMissing"
      [] req.name \notin Defs                        -> "invalidCommandName"
      [] OTHER                                       -> "ok"

(* FromJson: the first failing check, in the order the code makes them.   *)
FromJsonReply(req) ==
    CASE ~req.object                                 -> "objectExpected"
      [] req.name = NoName                           -> "propertyMissing"
      [] req.name \notin Defs                        -> "invalidCommandName"
      [] req.params = NotObject                      -> "commandFailed"
      [] ParamValue(req) \notin ParamSchema[req.name] -> "commandFailed"
      [] OTHER                                       -> "ok"

Top == stack[Len(stack)]

(* A call may start on an empty stack (a new task) or from inside an      *)
(* observer callback of the top frame.                                    *)
CanCall == IF stack = <<>> THEN TRUE ELSE Len(stack) < MaxDepth /\ Top.cb

(* Call an operation on c.  An observer callback makes at most one call:  *)
(* the caller's callback is over once the call is made.                   *)
Push(c, pc, arg, cb) ==
    Append(IF stack = <<>> THEN stack
           ELSE [stack EXCEPT ![Len(stack)].cb = FALSE],
           [cmd |-> c, pc |-> pc, arg |-> arg, cb |-> cb])

Pop == SubSeq(stack, 1, Len(stack) - 1)

(* Replace the top frame's resume point.                                  *)
Continue(pc, cb) ==
    [stack EXCEPT ![Len(stack)] = [@ EXCEPT !.pc = pc, !.cb = cb]]

-----------------------------------------------------------------------------
Init ==
    /\ life = [c \in Cmds |-> "unborn"]
    /\ cmdName = [c \in Cmds |-> CHOOSE d \in Defs : TRUE]
    /\ status = [c \in Cmds |-> "queued"]
    /\ params = [c \in Cmds |-> Empty]
    /\ progress = [c \in Cmds |-> Empty]
    /\ results = [c \in Cmds |-> Empty]
    /\ error = [c \in Cmds |-> NoError]
    /\ doomed = {}
    /\ stack = <<>>
    /\ event = NoEvent
    /\ reply = "none"

(* The transport hands a request to FromJson; on success the new instance *)
(* (status kQueued, empty progress and results) is added to the queue.    *)
Receive(c, req) ==
    /\ stack = <<>>
    /\ life[c] = "unborn"
    /\ reply' = FromJsonReply(req)
    /\ IF FromJsonReply(req) = "ok"
       THEN /\ life' = [life EXCEPT ![c] = "live"]
            /\ cmdName' = [cmdName EXCEPT ![c] = req.name]
            /\ params' = [params EXCEPT ![c] = ParamValue(req)]
            /\ event' = [cmd |-> c, kind |-> "added"]
       ELSE /\ event' = NoEvent
            /\ UNCHANGED <<life, cmdName, params>>
    /\ UNCHANGED <<status, progress, results, error, doomed, stack>>

(* Mutant: SetProgress ignoring what SetStatus(kInProgress) returned.     *)
SetProgressIgnoringStatus(c, p) ==
    /\ CanCall
    /\ life[c] = "live"
    /\ p \in ProgressSchema[cmdName[c]]
    /\ status' = [status EXCEPT ![c] = NewStatus(@, "inProgress")]
    /\ event' = StatusEvent(c, status[c], "inProgress")
    /\ stack' = Push(c, "progress", p,
                     Transition(status[c], "inProgress") = "switched")
    /\ UNCHANGED <<life, cmdName, params, progress, results, error,
                   doomed, reply>>

(* SetProgress with a progress document the schema accepts: SetStatus    *)
(* (kInProgress) first, "even if progress unchanged"; a refused switch    *)
(* returns false with nothing changed.                                    *)
SetProgress(c, p) ==
    /\ CanCall
    /\ life[c] = "live"
    /\ p \in ProgressSchema[cmdName[c]]
    /\ Transition(status[c], "inProgress") # "rejected"
    /\ status' = [status EXCEPT ![c] = NewStatus(@, "inProgress")]
    /\ event' = StatusEvent(c, status[c], "inProgress")
    /\ stack' = Push(c, "progress", p,
                     Transition(status[c], "inProgress") = "switched")
    /\ UNCHANGED <<life, cmdName, params, progress, results, error,
                   doomed, reply>>

(* SetProgress after SetStatus: replace progress_ if it differs.          *)
ProgressStep ==
    /\ stack # <<>>
    /\ Top.pc = "progress"
    /\ LET c == Top.cmd IN
       IF Top.arg # progress[c]
       THEN /\ progress' = [progress EXCEPT ![c] = Top.arg]
            /\ event' = [cmd |-> c, kind |-> "progress"]
            /\ stack' = Continue("ret", TRUE)
       ELSE /\ event' = NoEvent
            /\ stack' = Pop
            /\ UNCHANGED progress
    /\ UNCHANGED <<life, cmdName, status, params, results, error,
                   doomed, reply>>

(* SetResults with a results document the schema accepts: results_ is    *)
(* replaced (and observers told) before the status is even looked at.    *)
SetResults(c, r) ==
    /\ CanCall
    /\ life[c] = "live"
    /\ r \in ResultsSchema[cmdName[c]]
    /\ results' = [results EXCEPT ![c] = r]
    /\ event' = IF r # results[c] THEN [cmd |-> c, kind |-> "results"]
                                  ELSE NoEvent
    /\ stack' = Push(c, "status", r, r # results[c])
    /\ UNCHANGED <<life, cmdName, status, params, progress, error,
                   doomed, reply>>

(* Mutant: SetResults that forgets RemoveFromQueue after SetStatus.        *)
DoneStepNoRemove ==
    /\ stack # <<>>
    /\ Top.pc = "status"
    /\ LET c == Top.cmd IN
       /\ status' = [status EXCEPT ![c] = NewStatus(@, "done")]
       /\ event' = StatusEvent(c, status[c], "done")
       /\ stack' = Continue("ret", Transition(status[c], "done") = "switched")
    /\ UNCHANGED <<life, cmdName, params, progress, results, error,
                   doomed, reply>>

(* SetResults, then SetStatus(kDone), whatever its outcome.               *)
DoneStep ==
    /\ stack # <<>>
    /\ Top.pc = "status"
    /\ LET c == Top.cmd IN
       /\ status' = [status EXCEPT ![c] = NewStatus(@, "done")]
       /\ event' = StatusEvent(c, status[c], "done")
       /\ stack' = Continue("remove", Transition(status[c], "done") = "switched")
    /\ UNCHANGED <<life, cmdName, params, progress, results, error,
                   doomed, reply>>

(* Mutant: RemoveFromQueue that has the queue destroy the command at once *)
(* (a plain Remove instead of DelayedRemove).                             *)
RemoveStepImmediate ==
    /\ stack # <<>>
    /\ Top.pc = "remove"
    /\ life' = [life EXCEPT ![Top.cmd] = "dead"]
    /\ doomed' = doomed \ {Top.cmd}
    /\ stack' = Pop
    /\ event' = [cmd |-> Top.cmd, kind |-> "destroyed"]
    /\ UNCHANGED <<cmdName, status, params, progress, results, error, reply>>

(* RemoveFromQueue: queue_->DelayedRemove(GetID()), then return.          *)
RemoveStep ==
    /\ stack # <<>>
    /\ Top.pc = "remove"
    /\ doomed' = doomed \cup {Top.cmd}
    /\ stack' = Pop
    /\ event' = NoEvent
    /\ UNCHANGED <<life, cmdName, status, params, progress, results, error,
                   reply>>

(* The Error* argument of SetError and Abort: an error, or nullptr, which  *)
(* clears error_.                                                          *)
ErrorArgs == Errors \cup {NoError}

(* SetError: error_ is replaced, then SetStatus(kError).                  *)
SetError(c, e) ==
    /\ CanCall
    /\ life[c] = "live"
    /\ error' = [error EXCEPT ![c] = e]
    /\ status' = [status EXCEPT ![c] = NewStatus(@, "error")]
    /\ event' = StatusEvent(c, status[c], "error")
    /\ stack' = IF Transition(status[c], "error") = "switched"
                THEN Push(c, "ret", Empty, TRUE) ELSE stack
    /\ UNCHANGED <<life, cmdName, params, progress, results, doomed, reply>>

(* Pause: SetStatus(kPaused); only a switch changes anything.             *)
Pause(c) ==
    /\ CanCall
    /\ life[c] = "live"
    /\ Transition(status[c], "paused") = "switched"
    /\ status' = [status EXCEPT ![c] = "paused"]
    /\ event' = [cmd |-> c, kind |-> "status"]
    /\ stack' = Push(c, "ret", Empty, TRUE)
    /\ UNCHANGED <<life, cmdName, params, progress, results, error,
                   doomed, reply>>

(* Abort: error_ is replaced, SetStatus(kAborted), then RemoveFromQueue   *)
(* whatever SetStatus returned.                                           *)
Abort(c, e) ==
    /\ CanCall
    /\ life[c] = "live"
    /\ error' = [error EXCEPT ![c] = e]
    /\ status' = [status EXCEPT ![c] = NewStatus(@, "aborted")]
    /\ event' = StatusEvent(c, status[c], "aborted")
    /\ stack' = Push(c, "remove", Empty,
                     Transition(status[c], "aborted") = "switched")
    /\ UNCHANGED <<life, cmdName, params, progress, results, doomed, reply>>

(* Mutant: Cancel that forgets RemoveFromQueue.                           *)
CancelNoRemove(c) ==
    /\ CanCall
    /\ life[c] = "live"
    /\ Transition(status[c], "cancelled") = "switched"
    /\ status' = [status EXCEPT ![c] = "cancelled"]
    /\ event' = [cmd |-> c, kind |-> "status"]
    /\ stack' = Push(c, "ret", Empty, TRUE)
    /\ UNCHANGED <<life, cmdName, params, progress, results, error,
                   doomed, reply>>

(* Cancel: SetStatus(kCancelled), then RemoveFromQueue.                   *)
Cancel(c) ==
    /\ CanCall
    /\ life[c] = "live"
    /\ status' = [status EXCEPT ![c] = NewStatus(@, "cancelled")]
    /\ event' = StatusEvent(c, status[c], "cancelled")
    /\ stack' = Push(c, "remove", Empty,
                     Transition(status[c], "cancelled") = "switched")
    /\ UNCHANGED <<life, cmdName, params, progress, results, error,
                   doomed, reply>>

(* The observers of the top frame return and the operation returns.       *)
Return ==
    /\ stack # <<>>
    /\ Top.pc = "ret"
    /\ stack' = Pop
    /\ event' = NoEvent
    /\ UNCHANGED <<life, cmdName, status, params, progress, results, error,
                   doomed, reply>>

(* The queue's cleanup task, run by the task runner between tasks: it     *)
(* removes a doomed instance, whose destructor fires OnCommandDestroyed.  *)
Cleanup(c) ==
    /\ stack = <<>>
    /\ c \in doomed
    /\ doomed' = doomed \ {c}
    /\ life' = [life EXCEPT ![c] = "dead"]
    /\ event' = [cmd |-> c, kind |-> "destroyed"]
    /\ UNCHANGED <<cmdName, status, params, progress, results, error,
                   stack, reply>>

(* Work of the frame on top of the stack.                                  *)
Step == ProgressStep \/ DoneStep \/ RemoveStep \/ Return

Next ==
    \/ \E c \in Cmds, req \in Requests : Receive(c, req)
    \/ \E c \in Cmds, v \in Values : SetProgress(c, v) \/ SetResults(c, v)
    \/ \E c \in Cmds, e \in ErrorArgs : SetError(c, e) \/ Abort(c, e)
    \/ \E c \in Cmds : Pause(c) \/ Cancel(c) \/ Cleanup(c)
    \/ Step

(* Code on the stack runs to completion (WF); the task runner eventually   *)
(* runs the posted cleanup task although new tasks keep being posted (SF). *)
Spec == Init /\ [][Next]_vars
FairSpec == Spec /\ WF_vars(Step) /\ \A c \in Cmds : SF_vars(Cleanup(c))

-----------------------------------------------------------------------------
TypeOK ==
    /\ life \in [Cmds -> {"unborn", "live", "dead"}]
    /\ cmdName \in [Cmds -> Defs]
    /\ status \in [Cmds -> Statuses]
    /\ params \in [Cmds -> Values]
    /\ progress \in [Cmds -> Values]
    /\ results \in [Cmds -> Values]
    /\ error \in [Cmds -> Errors \cup {NoError}]
    /\ doomed \subseteq Cmds
    /\ stack \in Seq(Frames)
    /\ event \in [cmd : Cmds, kind : EventKinds \cup {"none"}]
    /\ reply \in Replies

(* Deferred destruction (RemoveFromQueue, CommandQueue::DelayedRemove):    *)
(* no instance is destroyed while a call on it is still on the stack, so  *)
(* the code after a terminal SetStatus, and observers reading the command  *)
(* from OnStatusChanged, never touch a destroyed command; and an instance  *)
(* waiting for removal is still alive.                                    *)
DeferredDestruction ==
    /\ \A i \in 1..Len(stack) : life[stack[i].cmd] = "live"
    /\ \A c \in doomed : life[c] = "live"

(* The queue only ever removes a command that has reached a terminal       *)
(* status: RemoveFromQueue is called by SetResults, Abort and Cancel       *)
(* whether or not their SetStatus succeeded, so this holds only because a  *)
(* refused switch means the status was terminal already, and stays so.     *)
RemovedOnlyWhenTerminal ==
    \A c \in Cmds :
        (c \in doomed \/ life[c] = "dead") => status[c] \in TerminalStatuses

(* Terminal finality: once a live command is done, cancelled, aborted or   *)
(* expired, no step changes its status or its progress (SetStatus refuses,  *)
(* and SetProgress asks SetStatus before touching progress_).              *)
TerminalFinality ==
    [][\A c \in Cmds :
         status[c] \in TerminalStatuses =>
             /\ status'[c] = status[c]
             /\ progress'[c] = progress[c]]_vars

(* Observer contract: a step notifies OnStatusChanged, OnProgressChanged or *)
(* OnResultsChanged for a command exactly when it changes that command's    *)
(* status, progress or results: no change goes unreported, and a no-op     *)
(* (same status, equal ValueMap) notifies nobody.                          *)
NotifyIffChanged ==
    [][\A c \in Cmds :
         /\ (status'[c] # status[c]) <=> event' = [cmd |-> c, kind |-> "status"]
         /\ (progress'[c] # progress[c]) <=> event' = [cmd |-> c, kind |-> "progress"]
         /\ (results'[c] # results[c]) <=> event' = [cmd |-> c, kind |-> "results"]]_vars

(* The transport keeps its copy of a command current from the observer    *)
(* notifications (spec, section 6): every step that changes what ToJson   *)
(* returns for a live command fires a notification for that command.      *)
(* SetError on a command already in kError, and Abort on a terminal one,   *)
(* replace error_ while SetStatus stays silent.                            *)
DocumentChangeAnnounced ==
    [][\A c \in Cmds :
         life[c] = "live" /\ ToJson(c)' # ToJson(c) =>
             event'.cmd = c /\ event'.kind \in {"status", "progress", "results"}]_vars

(* Every command that reaches a terminal status is eventually destroyed by *)
(* the queue: none is leaked.                                              *)
TerminalReclaimed ==
    \A c \in Cmds : status[c] \in TerminalStatuses ~> life[c] = "dead"

(* The spec's terminal finality also promises that results stay unchanged *)
(* once a command is terminal; SetResults replaces results_ before it asks *)
(* SetStatus(kDone), which then refuses.                                   *)
ResultsFrozenAfterTerminal ==
    [][\A c \in Cmds :
         status[c] \in TerminalStatuses => results'[c] = results[c]]_vars

-----------------------------------------------------------------------------
(* The abstract lifecycle, with the command's life, status and parameters *)
(* as they are: the rest of the state is implementation.                  *)
Lifecycle == INSTANCE CommandLifecycle

(* The command instances implement the abstract lifecycle: every step of   *)
(* FromJson, the six operations, their observers' reentrant calls and the  *)
(* queue's cleanup task is a lifecycle step or leaves life, status and     *)
(* parameters alone; in particular RemoveFromQueue, called whatever        *)
(* SetStatus returned, never lets the queue destroy a non-terminal command. *)
ImplementsLifecycle == Lifecycle!Spec

=============================================================================
