# TLA+ models of the libweave command core

This directory holds TLA+ specifications of the command-execution core of libweave (`src/libweave`) and of the example lock daemon (`src/examples/daemon/lock/lock.cc`). It also holds the TLC configurations that model-check them and TLAPS proofs of their main safety properties. `PROJECT.json` lists the components, the runs, the mutants, the source lines each definition models, the findings, the hazards and the theorems.

## The system and its parts

| Part | Source | What it does | Modelled in |
|---|---|---|---|
| CommandInstance | `command_instance.cc`, `command.h`, and the header text inside `device_manager.cc` (lines 120–262) | One command: its name, parameters, progress, results, error and status. The status state machine `SetStatus`, and the operations that drive it: `SetProgress`, `SetResults`, `SetError`, `Pause`, `Abort`, `Cancel`. `FromJson` builds an instance from a request. | `CommandInstance` |
| CommandQueue | not under `src/` | Owns the instances. `Add` stores a new one and dispatches it to the handler registered for its name. `DelayedRemove` schedules its destruction for after the current call. | `CommandInstance` (`Cleanup`) and `LockHandler` (`ReceiveCommand`), modelled from the spec |
| CommandDictionary / schemas | not under `src/` | Validate parameters, progress and results. | abstract sets of accepted values (`ParamSchema`, `ProgressSchema`, `ResultsSchema`) |
| Lock daemon | `lock.cc` | `LockHandler::OnLockSetConfig` handles `lock.setConfig`: it updates `lock_state_`, publishes it as the state property `lock.lockedState`, and then calls `Complete` or `Abort`. | `LockHandler` |
| DeviceManager, XmppChannel, StatePackage, UTF helpers, unit-test helpers | `device_manager.cc`, `xmpp_channel.h`, `unnamed/part_00x` | Start-up wiring, transport, the state store, string utilities and test code. | not modelled (see below) |

Everything runs on one task runner. There is no concurrency in the threading sense; the hard part is **reentrancy**. Every `FOR_EACH_OBSERVER` in `command_instance.cc` calls the observers synchronously (the transport, which serializes the command). An observer may call back into any command. `RemoveFromQueue` only *schedules* destruction, because the operation that reached a terminal status, and its observers, still use the instance after the call.

## Modules

- **`CommandInstance.tla`**: the core module.
  - **Constants:** the command instances `Cmds` (model values), the abstract ValueMaps `Values` with the empty one `Empty`, the errors `Errors`, the request names `Names` and the defined names `Defs`, the three schemas, and the nesting bound `MaxDepth`.
  - **Variables:**

    | Variable | Code |
    |---|---|
    | `life` | `unborn`, `live` (owned by the queue), or `dead` (destroyed) |
    | `cmdName` | `name_` |
    | `status` | `status_` |
    | `params` | `parameters_` |
    | `progress` | `progress_` |
    | `results` | `results_` |
    | `error` | `error_` |
    | `doomed` | the queue's pending delayed removals |
    | `stack` | the synchronous call stack |
    | `event` | the notification fired by the last step |
    | `reply` | what the last `FromJson` reported |

  - **Splitting at notifications:** an operation is split at each notification. The part before the first `FOR_EACH_OBSERVER` is the action named after the operation (`SetProgress`, `SetResults`, `SetError`, `Pause`, `Abort`, `Cancel`). The rest is a frame pushed on `stack`, and the frame's later parts are the actions in the next table. A frame records `cb = TRUE` while its observers are being called. A nested call may start only then (`CanCall`), and it ends that callback (`Push` clears the caller's `cb`), so each callback makes at most one call.

    | Action | Part of the operation |
    |---|---|
    | `ProgressStep` | `SetProgress` after `SetStatus` (lines 130–133) |
    | `DoneStep` | `SetResults`'s `SetStatus(kDone)` (line 154) |
    | `RemoveStep` | `RemoveFromQueue` (lines 334–337) |
    | `Return` | the return |

    A new task (`Receive`, a top-level operation, `Cleanup`) starts only on an empty stack.
  - **`Receive`:** models `FromJson` followed by the queue's `Add`. `FromJsonReply` returns the first failing check in the code's order: object expected, name missing, unknown name, `parameters` not an object, parameters refused by the schema.
  - **`SetError` and `Abort`:** their error argument ranges over `ErrorArgs`, the errors plus `NoError`: the code's `nullptr` clears `error_`.
  - **`Transition`:** the outcome of `SetStatus`. The same-status check comes first, then the `kQueued` check, then the terminal statuses.
  - **`Cleanup`:** the queue's cleanup task. It destroys a doomed instance, whose destructor fires `OnCommandDestroyed`.
- **`MCCommandInstance.tla`**: the TLC instance, with 2 commands, one definition `d1`, an unknown name `u1`, two ValueMaps `v0` (empty) and `v1`, and two errors.
- **`LockHandler.tla`**: the lock daemon composed with `CommandInstance` (EXTENDS).
  - **New variables:** `lockState` (`lock_state_`), `lockedState` (the published state property) and `pending` (the command `Add` is handing to its handler right now). `CommandQueue::Add` calls the registered handler synchronously, so `AddDone` (`pending` empty) guards every new task: no task starts between `Add` and the handler. Only observer callbacks nested inside the handler's `Complete` or `Abort` (depth 2) can cancel a command while the handler is still on the stack.
  - **Actions:**

    | Action | Models |
    |---|---|
    | `ReceiveCommand` | a request plus `Add`, which then calls the handler |
    | `CancelCommand` | a cancel from the transport |
    | `OnLockSetConfig` | the whole handler: the weak-pointer check, the `lockedState` lookup, the switch and `UpdateLockState`, then `Complete` or `Abort` |
    | `DestroyCommand` | the queue's cleanup task |
    | `StackStep` | the rest of a call on the stack |

    `Complete` is `SetResults({})`. The lock daemon calls `cmd->Complete`, which `command.h` at this revision does not declare yet: its TODO says `SetResults` is to be renamed `Complete`.
- **`MCLockHandler.tla`**: the lock daemon's dictionary. `lock.setConfig` takes `lockedState` in {locked, unlocked}, and progress and results are `{}` only. There are 2 commands.
- **`CommandLifecycle.tla`**: the abstract specification of what the command core promises about one command (spec sections 3, 4.3 and 4.5), with no call stack, observers or queue bookkeeping.
  - **Variables:** `life`, `status` and `params` only.
  - **Actions:** `Create` (accepted with parameters that then never change), `Advance` (a live, non-terminal command moves to a new status other than queued) and `Destroy` (only a terminal command).
  - **Refinement:** `CommandInstance` ends with `Lifecycle == INSTANCE CommandLifecycle`. The mapping is the identity on the three shared variables, and every other variable is hidden. `ImplementsLifecycle == Lifecycle!Spec` is the property that the detailed model implements the abstract one. `Receive` maps to `Create` when the request is accepted, any `SetStatus` that changes the status maps to `Advance`, `Cleanup` maps to `Destroy`, and every other step is a stutter.
- **`ToJson`** (in `CommandInstance.tla`): the JSON document a transport reads for a command, that is its name, parameters, progress, results and state, plus `error` when one is set.
- **`CommandInstanceProofs.tla`**: TLAPS proofs about `CommandInstance`.
- **`CommandObserverProofs.tla`**: TLAPS proofs of the two observer action properties, `NotifyIffChanged` and `TerminalFinality`. It EXTENDS `CommandInstanceProofs`.
- **`LockHandlerProofs.tla`**: TLAPS proofs about `LockHandler`. It EXTENDS `CommandInstanceProofs` and reuses its invariant.

## Runs

| Run | Config | Expect | Checks | What it shows |
|---|---|---|---|---|
| lifecycle | `MCCommandInstance.cfg` (MaxDepth 1) | pass, 59,009 states | TypeOK, RemovedOnlyWhenTerminal, TerminalFinality, NotifyIffChanged, TerminalReclaimed | With observers that only read (the spec's transport), every operation in every order keeps the queue's guarantees. A terminal command never changes status or progress. Exactly the changes are notified. Every terminal command is eventually destroyed. |
| reentrant | `MCReentrant.cfg` (MaxDepth 2) | pass, 337,905 states | the same without TerminalFinality, plus DeferredDestruction | The same properties hold when an observer calls back into either command, and no frame or pending removal refers to a destroyed command. DeferredDestruction is checked only here: at depth 1 no frame can outlive its own call. |
| lifecycle_refinement | `MCLifecycle.cfg` (MaxDepth 2) | pass, 337,905 states | ImplementsLifecycle | With re-entrant observers, every behaviour of the command model is one of `CommandLifecycle`. |
| results_frozen | `MCResultsFrozen.cfg` | violation | ResultsFrozenAfterTerminal | `SetResults` on an aborted command still replaces its results (finding 1). |
| reentrant_finality | `MCReentrantFinality.cfg` | violation | TerminalFinality | An observer that aborts from `SetProgress`'s `OnStatusChanged` makes `SetProgress` write progress into an aborted command (finding 2). |
| document_announced | `MCDocumentAnnounced.cfg` | violation | DocumentChangeAnnounced | A second `SetError` changes the command's JSON document with no notification (finding 3). |
| lock_daemon | `MCLockHandler.cfg` (MaxDepth 2) | pass, 243 states | LockTypeOK, AnsweredAfterHandler, CommandsReclaimed | With the handler run inside `Add` and observers that may cancel or destroy from within its `Complete` or `Abort`, every handled command is answered and none is leaked. |

Every property of a passing run has a mutant in `PROJECT.json`: a plausible bug in the mapped code, written as an operator right before the definition it replaces, which TLC shows to violate the property. Each mutant breaks something different:

| Mutant | Bug |
|---|---|
| `TransitionAbortNotFinal` | `kAborted` missing from the terminal cases (also killed in lifecycle_refinement: an aborted command advances, which `CommandLifecycle` forbids) |
| `TransitionNoSameCheck` | no same-status early return |
| `FromJsonReplyNoParamCheck` | `GetCommandParameters` skipped |
| `SetProgressIgnoringStatus` | `SetStatus`'s result ignored |
| `CancelNoRemove` | `RemoveFromQueue` missing in `Cancel` |
| `DoneStepNoRemove` | `RemoveFromQueue` missing in `SetResults` |
| `RemoveStepImmediate` | RemoveFromQueue has the queue destroy the command at once (Remove, not DelayedRemove); killed in the reentrant run, where an observer frame of the command is still below |
| `OnLockSetConfigCompleteInside` | `Complete` only when the lock state changed |

**Bounds.**
- **Two commands:** enough for one command to be touched from the other's observer, and for one command to be destroyed while the other is still in use.
- **Two values and two errors:** enough for "changed" and "unchanged" updates and for an error to be overwritten.
- **Depth 1 and depth 2:** depth 1 is the spec's read-only observers; depth 2 lets an observer call an operation that itself notifies.
- **Why deeper nesting is not needed:** it only repeats the depth-2 pattern. `CommandInstanceProofs` proves the two queue guarantees for every depth.
- **Deadlock:** not checked (`CHECK_DEADLOCK FALSE`) because the pool of model commands is finite. Once every command is destroyed, the device really does idle.

**Fairness.**
- **Weak fairness on the stack steps:** code on the call stack runs to completion, because nothing in it blocks.
- **Strong fairness on the cleanup task:** the task runner eventually runs every posted task. A posted task is enabled only while the stack is empty, and other calls may keep interrupting, so weak fairness would not be enough.
- **Weak fairness on the lock handler:** it is the rest of `Add`'s own task. Once `Add` has returned from `FromJson` nothing else can run first, so the handler stays enabled until it runs.
- **Nothing is assumed of the clients:** no one is required to call any operation.

## Findings

1. **Results change after a terminal status** (`command_instance.cc:149`). `SetResults` replaces `results_` and notifies `OnResultsChanged` *before* `SetStatus(kDone)` refuses on a terminal command. The spec's terminal finality (section 8) promises the results stay unchanged.
2. **Progress written into a terminal command under reentrancy** (`command_instance.cc:130`). `SetProgress` checks the transition, switches to `kInProgress` and notifies. An observer may then abort or cancel the command, and `SetProgress` goes on to write `progress_`. With read-only observers (run lifecycle) this cannot happen.
3. **An error change is never announced** (`command_instance.cc:161`, also `:298`). `SetError` writes `error_` and relies on `SetStatus(kError)` to notify. On a command already in `kError`, `SetStatus` returns at its same-status check, so the new error appears in `ToJson` and no observer hears of it. `Abort` on a terminal command likewise replaces `error_` silently. A transport that mirrors the document from notifications (spec sections 2 and 6) keeps a stale copy. TLC finds: receive, `SetError(e1)`, return, `SetError(e2)`.

Other code/spec differences, noted and not run:
- **`SetStatus(kQueued)` on a queued command succeeds:** the same-status check comes first. `SetStatus` is private and no caller passes `kQueued`, so this cannot happen; it is not listed as a hazard.
- **`error_` is never cleared:** a command resumed after `SetError` and then completed still carries the old error in `ToJson`. Neither the spec nor the code says what a completed command should report.

## Proofs (`CommandInstanceProofs.tla`, `CommandObserverProofs.tla` and `LockHandlerProofs.tla`, checked by `tlapm`)

The proofs hold for every value of the constants that satisfies `ConstAssumption`:
- any non-empty set of commands;
- any values, errors, names and schemas;
- any nesting depth `MaxDepth >= 1`.

- `TypeCorrect`: `Spec => []TypeOK`. It rests on the lemmas `TypeStep` (one step per action) and on `PushFrames`, `ContinueFrames`, `PopFrames`, `StatusHelpers`, `AcceptedRequest`, `ReplyType` and `NoEventType`, about the helpers.
- `DeferredDestructionHolds`: `Spec => []DeferredDestruction`.
- `RemovedOnlyWhenTerminalHolds`: `Spec => []RemovedOnlyWhenTerminal`.
- `Refinement`: `Spec => ImplementsLifecycle`. The initial states map to `CommandLifecycle`'s (`LifecycleInit`). Under `IInv` every step is a step of `CommandLifecycle` or leaves `life`, `status` and `params` unchanged (`LifecycleStep`, one case per action). The lemma `StatusUpdate` packages what an update by `NewStatus` does: it keeps the type, keeps every terminal status, touches only the one command, and leaves that command terminal when the target is terminal. `Cleanup` maps to `Destroy` because `IInv` says a doomed command is terminal (`RemovedOnlyWhenTerminal`). This is why the refinement needs the invariant.
- `LockTypeCorrect`: `LockSpec => []LockTypeOK`.
- `HandlerAnswers`: `LockSpec => []AnsweredAfterHandler`.
- `NotifyExactly`: `Spec => NotifyIffChanged`, at every nesting depth. It needs only `TypeOK`, since each step is checked on its own. `StatusNotified` shows that a `SetStatus` step notifies exactly when it switches. `QuietStep` covers the steps that change neither status, progress nor results and fire no change event. `NotifyStep` has one case per action.
- `ReadOnlyFinality`: `ASSUME MaxDepth = 1 PROVE Spec => TerminalFinality`. These are the spec's read-only observers, which the run lifecycle checks. The hypothesis is needed: at depth 2 the property is false (finding 2, run reentrant_finality).
  - **Inductive invariant:** `ROInv == TypeOK /\ StackBounded /\ ProgressFramesInProgress`.
  - **`StackBounded`** (`Len(stack) <= MaxDepth`) holds at every depth (`DepthStep`). With `MaxDepth = 1` it means an operation is called only on an empty stack (`OnlyTopLevel`) and the stack holds at most one frame (`SingleFrame`).
  - **`ProgressFramesInProgress`:** a frame of `SetProgress` about to compare `progress_` belongs to a command in `kInProgress`. Its own `SetStatus(kInProgress)` succeeded, and no callback can run before the comparison. `FreshCall` and `LeaveProgress` carry it across a call and across the frame's own steps.
  - **The step:** `StatusFinal` (at every depth, no step moves a terminal status) and `ProgressFinal` (only the comparison step writes `progress_`, on a command in `kInProgress`) give the step formula. Both invariants were checked with TLC at depth 1 before they were proved. At depth 2, TLC finds `ProgressFramesInProgress` false, along the trace of finding 2.

The lock proofs assume `LockAssumption`: `InvalidParam` is an error, and the empty ValueMap is accepted as results by every definition. `Register` defines `lock.setConfig` without a results schema (lock.cc 54–63), so `Complete({})` always passes validation.
- **The strengthening for the lock:** `LInv == IInv /\ LockTypeOK /\ HandlerInFlight`.
- **`HandlerInFlight`:** a live command whose handler has run (`c \notin pending`) and that is not terminal has a frame on the stack whose next step is `SetStatus` (pc `"status"`): the frame of the `Complete` or `Abort` that `OnLockSetConfig` called.
- **Why it is needed:** `AnsweredAfterHandler` alone is not inductive, because between `OnLockSetConfig` and the frame's `SetStatus` the command is still queued with a non-empty stack. `HandlerInFlight` is what the frame's `SetStatus` step discharges when the stack empties.
- **The frame lemmas:** `PushKeepsInFlight`, `PopKeepsInFlight` and `ContinueKeepsInFlight` say which commands keep a `"status"` frame across a push, a pop or a resume.

**Why the two safety invariants need strengthening.** Neither is inductive alone. `RemoveStep` dooms the command of the top frame, and nothing in the two properties says that command is terminal. The strengthening is `IInv == TypeOK /\ DeferredDestruction /\ RemovedOnlyWhenTerminal /\ RemoveFramesTerminal`, where `RemoveFramesTerminal` says that every frame about to call `RemoveFromQueue` belongs to a command whose status is already terminal. This holds because:
- `Abort`, `Cancel` and `SetResults`'s `SetStatus` either switch to a terminal status or are refused, and a refusal means the status was terminal already (lemma `TerminalReached`);
- `SetStatus` never leaves a terminal status (lemma `TerminalStays`).

`IInv` was checked with TLC on the depth-2 instance before it was proved.

**Proof structure.** The step proof `IInvStep` has one case per action. It uses three lemmas for what a step does to the stack: `CallStep` for a push, `PopStep` for a return, and `ContinueStep` for resuming the top frame. These in turn rest on the index lemmas `PushIndex`, `PopIndex` and `ContinueIndex`.

**Left to TLC.** The liveness properties `TerminalReclaimed` and `CommandsReclaimed` are checked only by TLC: liveness under fairness, and the ENABLED it needs, are out of the prover's reach. Every safety invariant and action property of a passing run has a theorem. The properties of the violation runs (`ResultsFrozenAfterTerminal`, `DocumentChangeAnnounced`, and `TerminalFinality` at depth 2) are false, and TLC shows their counterexamples.

An earlier version of `CommandInstanceProofs.tla` had a separator line starting with `====`, which ended the module early. Everything after it, including the `IInv` proofs, was then ignored. The line is fixed, and `tlapm --summary` now counts 557 obligations, all proved.

## Not modelled

- **Command ids, origin, `ToJson` and `AddObserver`/`RemoveObserver`:**
  - ids are abstracted to the identity of a model value, relying on the queue's unique ids;
  - `ToJson` is modelled (as the document a transport reads), but only the action property `DocumentChangeAnnounced` uses it;
  - one observer set that never changes is assumed. The observer list type (`base::ObserverList`) is not in the repository, so adding or removing an observer during a callback is not modelled.
- **The schema and TypedValue conversion, and dictionary loading:** not under `src/`. A schema is the set of values it accepts.
- **The `command_definition_ == nullptr` paths:** `ReportDestroyedError` is unreachable, because the constructor `CHECK`s the definition.
- **`DeviceManager::Start` and `OnWiFiBootstrapStateChanged`:** these are wiring and a configuration write, with no interaction with the command core. When the bootstrap callback fires depends on `WifiBootstrapManager`, and that class is not in the repository, so a model of the callback would guess its own input.
- **`XmppChannel` and `StatePackage`:** headers only.
- **The asynchronous handler call in `AddCommandHandler`:** registering a handler when commands of that name already exist posts a call for each of them. The lock daemon registers its handler before any command can arrive, so every call goes through `Add`'s synchronous path, and the weak-pointer check in `OnLockSetConfig` (`lock.cc:71`) never fails in this daemon.
- **The header of the data members:** the `CommandInstance` members that `vars` maps to are declared in the copy of the old `command_instance.h` text found in `device_manager.cc` (lines 233 to 253), the only declaration under `src/`.
- **The UTF-8 helpers:** third-party-macro string code outside the core.
- **The unit-test helpers.**
