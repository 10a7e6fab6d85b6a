-------------------------- MODULE OperationContract --------------------------
(***************************************************************************)
(* What the operation runtime promises its callers (OperationRuntime::wait *)
(* and observe_operation, operation/driver.rs and interaction_retry.rs):   *)
(* an operation is open until exactly one outcome settles it for good; it  *)
(* may be parked for an explicit retry and come back; and whatever the     *)
(* completion bus announces is the outcome that settled it.                *)
(***************************************************************************)
CONSTANT Ops

VARIABLES
  status,   \* "open", "awaiting" or the outcome
  heard     \* outcomes announced on the completion bus

Outcomes == {"succeeded", "failed", "stuck"}

Init ==
  /\ status = [o \in Ops |-> "open"]
  /\ heard = [o \in Ops |-> {}]

\* One outcome is committed and announced.
Settle(o, p) ==
  /\ status[o] = "open"
  /\ status' = [status EXCEPT ![o] = p]
  /\ heard' = [heard EXCEPT ![o] = @ \cup {p}]

\* The external effect is unconfirmed; only the caller may rearm it.
Await(o) ==
  /\ status[o] = "open"
  /\ status' = [status EXCEPT ![o] = "awaiting"]
  /\ UNCHANGED heard

Press(o) ==
  /\ status[o] = "awaiting"
  /\ status' = [status EXCEPT ![o] = "open"]
  /\ UNCHANGED heard

Next ==
  \E o \in Ops : Await(o) \/ Press(o) \/ \E p \in Outcomes : Settle(o, p)

Spec == Init /\ [][Next]_<<status, heard>>
=============================================================================
