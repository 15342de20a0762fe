-------------------------- MODULE CommandLifecycle -------------------------
(***************************************************************************)
(* What the command core promises about one command's life, without the   *)
(* call stack, the observers or the queue's bookkeeping (spec, sections 3, *)
(* 4.3 and 4.5): a command is created once with its parameters, which      *)
(* never change; its status moves among queued, inProgress, paused and     *)
(* error, never back to queued, and once terminal never moves again; the   *)
(* queue destroys a command only once it is terminal.                      *)
(***************************************************************************)
CONSTANTS Cmds, Values

VARIABLES life, status, params

Statuses == {"queued", "inProgress", "paused", "error",
             "done", "cancelled", "aborted", "expired"}
TerminalStatuses == {"done", "cancelled", "aborted", "expired"}

lifeVars == <<life, status, params>>

Init ==
    /\ life = [c \in Cmds |-> "unborn"]
    /\ status = [c \in Cmds |-> "queued"]
    /\ params \in [Cmds -> Values]

(* A request is accepted: the command enters the queue, queued, with the   *)
(* parameters it keeps for the rest of its life.                           *)
Create(c, p) ==
    /\ life[c] = "unborn"
    /\ life' = [life EXCEPT ![c] = "live"]
    /\ params' = [params EXCEPT ![c] = p]
    /\ UNCHANGED status

(* A status change of a live, non-terminal command to a new status other  *)
(* than queued.                                                            *)
Advance(c, s) ==
    /\ life[c] = "live"
    /\ status[c] \notin TerminalStatuses
    /\ s \notin {"queued", status[c]}
    /\ status' = [status EXCEPT ![c] = s]
    /\ UNCHANGED <<life, params>>

(* The queue destroys a terminal command.                                  *)
Destroy(c) ==
    /\ life[c] = "live"
    /\ status[c] \in TerminalStatuses
    /\ life' = [life EXCEPT ![c] = "dead"]
    /\ UNCHANGED <<status, params>>

Next ==
    \/ \E c \in Cmds, p \in Values : Create(c, p)
    \/ \E c \in Cmds, s \in Statuses : Advance(c, s)
    \/ \E c \in Cmds : Destroy(c)

Spec == Init /\ [][Next]_lifeVars

=============================================================================
