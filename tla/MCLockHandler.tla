--------------------------- MODULE MCLockHandler ---------------------------
(* The lock daemon's dictionary: "lock.setConfig" with parameters          *)
(* {lockedState: enum ["locked", "unlocked"]}, no progress and no results  *)
(* (only {} , here "v0", conforms), plus an unknown name.  A parameter     *)
(* value is the lockedState string; "partiallyLocked" is a LockState the   *)
(* schema refuses.                                                         *)
EXTENDS LockHandler

MCLockParamSchema == [d \in {"lock.setConfig"} |-> {"locked", "unlocked"}]
MCLockEmptySchema == [d \in {"lock.setConfig"} |-> {"v0"}]

=============================================================================
