------------------------------ MODULE TaskGate ------------------------------
(***************************************************************************)
(* The gate of one task: the scheduler's gate drives, the task-verify      *)
(* operations they submit, and the re-run (`regate`) a Planner may request *)
(* (scheduler/mod.rs drive_gate, operation/task_verify_adapter/,           *)
(* gate_ops.rs, calm-truth task.rs and task_regate.rs).                    *)
(*                                                                         *)
(*   task      the row: status, gate_attempt (the highest number it has    *)
(*             reserved), the class of its failure, the attempt of its     *)
(*             gate_result_json and whether that verdict passed            *)
(*   ops       the operations #g1, #g2, ... of the task. `facts` is what   *)
(*             collect read before its Git sample, `proc` the gate's       *)
(*             execution, `pure` whether it saw nothing but the candidate  *)
(*   delivery  the Git delivery that makes the candidate                   *)
(*   tree      whether the checkout holds the candidate                    *)
(*   run       the worker's last gate run before it reported               *)
(*   drives    gate drives; a drive takes its copy of the row before it    *)
(*             takes the in-flight key, so the copy may be old             *)
(*                                                                         *)
(* How an operation is claimed, re-driven and stuck is the subject of      *)
(* OperationRuntime; how its execution is released and settled, of         *)
(* OwnedExecution. Here an operation has one driver at a time.             *)
(***************************************************************************)
EXTENDS Integers, FiniteSets, FiniteSetsExt

CONSTANTS
  Drives,       \* gate drives that may be under way at once
  MaxAttempt,   \* bound: the highest #gN
  MaxRegates,   \* bound: re-runs
  MaxFaults     \* bound: crashes, failed steps and checkout edits

ASSUME GateAssumption ==
  /\ IsFiniteSet(Drives)
  /\ MaxAttempt \in Nat \ {0}
  /\ MaxRegates \in Nat
  /\ MaxFaults \in Nat

VARIABLES task, ops, delivery, tree, stale, run, drives, floor, regates, faults

vars == <<task, ops, delivery, tree, stale, run, drives, floor, regates, faults>>

Attempts == 1 .. MaxAttempt

\* Row classes the gate itself writes (regate's GATE_FAILURE_CLASSES); a timeout is
\* treated like a red gate everywhere and is not told apart from it.
GateFailures == {"gate-red", "gate-infra", "gate-target-mismatch"}

Terminal == {"succeeded", "failed", "stuck"}

NoFacts == [attempt |-> -1, stale |-> FALSE, clean |-> FALSE]

NoOp == [phase |-> "none", facts |-> NoFacts, result |-> "none", proc |-> "none",
         pure |-> TRUE]

IdleDrive == [pc |-> "idle", seen |-> 0, op |-> 0]

\* One type invariant: the shape of the row, the operations and the drives.
TypeOK ==
  /\ task \in [status : {"verifying", "done", "failed"}, attempt : 0 .. MaxAttempt + 1,
               class : GateFailures \cup {"none", "delivery-failed"},
               verdict : 0 .. MaxAttempt]
  /\ ops \in [Attempts ->
       [phase : Terminal \cup {"none", "pending", "prepared", "parked", "compensating"},
        facts : [attempt : -1 .. MaxAttempt + 1, stale : BOOLEAN, clean : BOOLEAN],
        result : GateFailures \cup {"none", "pass"},
        proc : {"none", "running", "settled"}, pure : BOOLEAN]]
  /\ delivery \in {"pending", "candidate", "failed"}
  /\ tree \in {"candidate", "other"}
  /\ stale \in BOOLEAN
  /\ run \in {"none", "failed", "passed", "other"}
  /\ drives \in [Drives -> [pc : {"idle", "listed", "submit", "wait", "reconcile"},
                            seen : 0 .. MaxAttempt + 1, op : 0 .. MaxAttempt]]
  /\ floor \in 0 .. MaxAttempt + 1
  /\ regates \in 0 .. MaxRegates
  /\ faults \in 0 .. MaxFaults

\* The worker's report left the row verifying, with its delivery unsettled. Its
\* last run is over: the delivery waits for that.
Init ==
  /\ task = [status |-> "verifying", attempt |-> 0, class |-> "none", verdict |-> 0]
  /\ ops = [n \in Attempts |-> NoOp]
  /\ delivery = "pending" /\ tree = "candidate" /\ stale = FALSE
  /\ run \in {"none", "failed", "passed", "other"}
  /\ drives = [d \in Drives |-> IdleDrive]
  /\ floor = 0 /\ regates = 0 /\ faults = 0

-----------------------------------------------------------------------------
(* The row's guarded writes.                                               *)

\* The row with the verdict `result` of attempt n.
Judged(n, result) ==
  [task EXCEPT !.status = IF result = "pass" THEN "done" ELSE "failed",
               !.class = IF result = "pass" THEN "none" ELSE result,
               !.verdict = n]

MutJudgeUnguarded(guard) == TRUE

\* A row that is not verifying at `guard` is left as it is.
GuardHits(guard) == task.status = "verifying" /\ task.attempt = guard

ApplyGateResult(n, guard, result) ==
  task' = IF GuardHits(guard) THEN Judged(n, result) ELSE task

DeliverySettles ==
  /\ delivery = "pending"
  /\ \/ delivery' = "candidate" /\ UNCHANGED task
     \/ /\ delivery' = "failed"
        /\ task' = IF task.status = "verifying"
                   THEN [task EXCEPT !.status = "failed", !.class = "delivery-failed"]
                   ELSE task
  /\ UNCHANGED <<ops, tree, stale, run, drives, floor, regates, faults>>

-----------------------------------------------------------------------------
(* What the gate operations of the task allow.                             *)

MutClearByPhase(ns) == \A n \in ns : ops[n].phase \in {"none", "succeeded", "failed"}

\* classify_gate_ops: over, and with a process proven stopped.
Clear(ns) ==
  \A n \in ns : \/ ops[n].phase = "none"
                \/ /\ ops[n].phase \in {"succeeded", "failed"}
                   /\ ops[n].proc # "running"

Submitted == {n \in Attempts : ops[n].phase # "none"}

PriorSettled(n) == Clear(1 .. (n - 1))

-----------------------------------------------------------------------------
(* A gate drive.                                                           *)

\* A pass or a sweep lists the verifying row and spawns a drive with its copy.
List(d) ==
  /\ drives[d].pc = "idle"
  /\ task.status = "verifying"
  /\ drives' = [drives EXCEPT ![d] = [pc |-> "listed", seen |-> task.attempt, op |-> 0]]
  /\ UNCHANGED <<task, ops, delivery, tree, stale, run, floor, regates, faults>>

InFlight(d) == drives[d].pc \in {"submit", "wait", "reconcile"}

\* drive_gate: single flight, then the current attempt's operation if it has one.
Enter(d) ==
  LET seen == drives[d].seen IN
  /\ drives[d].pc = "listed"
  /\ drives' = [drives EXCEPT ![d] =
       IF \E e \in Drives : InFlight(e) THEN IdleDrive
       ELSE IF seen \in Submitted THEN [@ EXCEPT !.pc = "wait", !.op = seen]
       ELSE [@ EXCEPT !.pc = "submit"]]
  /\ UNCHANGED <<task, ops, delivery, tree, stale, run, floor, regates, faults>>

\* admit_gate refused: the delivery made no candidate.
NotAdmitted(d) ==
  /\ drives[d].pc = "submit"
  /\ delivery = "failed"
  /\ drives' = [drives EXCEPT ![d] = IdleDrive]
  /\ UNCHANGED <<task, ops, delivery, tree, stale, run, floor, regates, faults>>

\* #g(gate_attempt + 1), one operation however many drives submit it.
Submit(d) ==
  LET n == drives[d].seen + 1 IN
  /\ drives[d].pc = "submit"
  /\ delivery = "candidate"
  /\ n \in Attempts
  /\ ops' = IF n \in Submitted THEN ops ELSE [ops EXCEPT ![n].phase = "pending"]
  /\ drives' = [drives EXCEPT ![d] = [@ EXCEPT !.pc = "wait", !.op = n]]
  /\ UNCHANGED <<task, delivery, tree, stale, run, floor, regates, faults>>

Wait(d) ==
  /\ drives[d].pc = "wait"
  /\ ops[drives[d].op].phase \in Terminal
  /\ drives' = [drives EXCEPT ![d].pc = "reconcile"]
  /\ UNCHANGED <<task, ops, delivery, tree, stale, run, floor, regates, faults>>

\* What a finished operation says; one that never reached a verdict is infra.
OutcomeOf(n) ==
  IF ops[n].phase = "succeeded" THEN ops[n].result ELSE "gate-infra"

MutReconcileNoPreBump(n) ==
  ApplyGateResult(n, n, OutcomeOf(n))

\* reconcile_gate_outcome, with its arm for an operation that failed before the bump.
CopyOutcome(n) ==
  IF ~GuardHits(n) /\ ops[n].phase \in {"failed", "stuck"}
  THEN ApplyGateResult(n, n - 1, OutcomeOf(n))
  ELSE ApplyGateResult(n, n, OutcomeOf(n))

Reconcile(d) ==
  /\ drives[d].pc = "reconcile"
  /\ CopyOutcome(drives[d].op)
  /\ drives' = [drives EXCEPT ![d] = IdleDrive]
  /\ UNCHANGED <<ops, delivery, tree, stale, run, floor, regates, faults>>

-----------------------------------------------------------------------------
(* A task-verify operation.                                                *)

\* read_facts' refusals, the same before the sample and at the commit.
Refused(n) == stale \/ ~PriorSettled(n) \/ task.status # "verifying"

\* The facts, then the Git sample outside the writer.
Collect(n) ==
  /\ ops[n].phase = "pending"
  /\ ops[n].facts = NoFacts
  /\ ops' = IF Refused(n)
            THEN [ops EXCEPT ![n].phase = "failed"]
            ELSE [ops EXCEPT ![n].facts =
                   [attempt |-> task.attempt, stale |-> stale, clean |-> tree = "candidate"]]
  /\ UNCHANGED <<task, delivery, tree, stale, run, drives, floor, regates, faults>>

\* A sample that failed, or any other error, fails the operation before its bump.
PrepareFails(n) ==
  /\ ops[n].phase = "pending"
  /\ faults < MaxFaults
  /\ faults' = faults + 1
  /\ ops' = [ops EXCEPT ![n].phase = "failed", ![n].facts = NoFacts]
  /\ UNCHANGED <<task, delivery, tree, stale, run, drives, floor, regates>>

\* The row is not the one the facts were read from: read them again.
Stale(n) ==
  /\ ops[n].facts # NoFacts
  /\ task.status # "verifying" \/ ops[n].facts.attempt # task.attempt \/ stale
  /\ ops' = [ops EXCEPT ![n].facts = NoFacts]
  /\ UNCHANGED <<task, delivery, tree, stale, run, drives, floor, regates, faults>>

\* The last run of the worker stands for the first gate of the attempt.
Reusable(n) == n = 1 /\ run = "passed"

\* The verdict apply writes with the bump: a refused target or a reused run.
PreparedVerdict(n) ==
  IF ~ops[n].facts.clean THEN "gate-target-mismatch"
  ELSE IF Reusable(n) THEN "pass" ELSE "none"

\* apply: the bump, the target and a prepared verdict in one transaction. A lost
\* bump fails the operation.
Apply(n) ==
  /\ ops[n].facts # NoFacts
  /\ task.status = "verifying" /\ task.attempt = ops[n].facts.attempt /\ ~stale
  /\ \/ /\ task.attempt # n - 1 \/ Refused(n)
        /\ ops' = [ops EXCEPT ![n].phase = "failed", ![n].facts = NoFacts]
        /\ UNCHANGED task
     \/ /\ task.attempt = n - 1 /\ ~Refused(n)
        /\ ops' = [ops EXCEPT ![n].phase = "prepared", ![n].result = PreparedVerdict(n),
                              ![n].pure = tree = "candidate",
                              ![n].facts = NoFacts]
        /\ task' = IF PreparedVerdict(n) = "none" THEN [task EXCEPT !.attempt = n]
                   ELSE [Judged(n, PreparedVerdict(n)) EXCEPT !.attempt = n]
  /\ UNCHANGED <<delivery, tree, stale, run, drives, floor, regates, faults>>

\* A prepared verdict spawns nothing and ends the operation.
SpawnNoOp(n) ==
  /\ ops[n].phase = "prepared"
  /\ ops[n].result # "none"
  /\ ops' = [ops EXCEPT ![n].phase = "succeeded"]
  /\ UNCHANGED <<task, delivery, tree, stale, run, drives, floor, regates, faults>>

\* The execution is admitted, its record committed with it.
Admit(n) ==
  /\ ops[n].phase = "prepared" /\ ops[n].result = "none" /\ ops[n].proc = "none"
  /\ ops' = IF PriorSettled(n) /\ ~stale
            THEN [ops EXCEPT ![n].proc = "running", ![n].pure = tree = "candidate"]
            ELSE [ops EXCEPT ![n].phase = "compensating"]
  /\ UNCHANGED <<task, delivery, tree, stale, run, drives, floor, regates, faults>>

Park(n) ==
  /\ ops[n].phase = "prepared" /\ ops[n].proc # "none"
  /\ ops' = [ops EXCEPT ![n].phase = "parked"]
  /\ UNCHANGED <<task, delivery, tree, stale, run, drives, floor, regates, faults>>

\* The spawn step fails, perhaps after the admission landed.
SpawnFails(n) ==
  /\ ops[n].phase = "prepared" /\ ops[n].result = "none"
  /\ faults < MaxFaults
  /\ faults' = faults + 1
  /\ ops' = [ops EXCEPT ![n].phase = "compensating"]
  /\ UNCHANGED <<task, delivery, tree, stale, run, drives, floor, regates>>

\* The gate's process ends and its execution settles.
ProcessSettles(n) ==
  /\ ops[n].proc = "running"
  /\ ops' = [ops EXCEPT ![n].proc = "settled"]
  /\ UNCHANGED <<task, delivery, tree, stale, run, drives, floor, regates, faults>>

MutFinalizeUnsampled == {"pass", "gate-red", "gate-infra"}

\* finalize: the verdict of the exit, kept only if the checkout is still the candidate.
Finalized ==
  IF tree = "candidate" THEN {"pass", "gate-red", "gate-infra"}
  ELSE {"gate-target-mismatch", "gate-infra"}

\* The operation's completion and the row's verdict in one transaction.
Complete(n) ==
  /\ ops[n].phase = "parked" /\ ops[n].proc = "settled"
  /\ \E result \in Finalized :
       /\ ops' = [ops EXCEPT ![n].phase = "succeeded", ![n].result = result]
       /\ ApplyGateResult(n, n, result)
  /\ UNCHANGED <<delivery, tree, stale, run, drives, floor, regates, faults>>

\* fail_task_gate_infra writes the row first, in a transaction of its own.
CompensateRow(n) ==
  /\ ops[n].phase = "compensating" /\ ops[n].result = "none"
  /\ ops' = [ops EXCEPT ![n].result = "gate-infra"]
  /\ ApplyGateResult(n, n, "gate-infra")
  /\ UNCHANGED <<delivery, tree, stale, run, drives, floor, regates, faults>>

Compensated(n) ==
  /\ ops[n].phase = "compensating" /\ ops[n].result # "none"
  /\ ops' = [ops EXCEPT ![n].phase = "failed"]
  /\ UNCHANGED <<task, delivery, tree, stale, run, drives, floor, regates, faults>>

\* The compensation step failed until the runtime gave up on it.
Sticks(n) ==
  /\ ops[n].phase = "compensating" /\ ops[n].result = "none"
  /\ faults < MaxFaults
  /\ faults' = faults + 1
  /\ ops' = [ops EXCEPT ![n].phase = "stuck"]
  /\ UNCHANGED <<task, delivery, tree, stale, run, drives, floor, regates>>

-----------------------------------------------------------------------------
(* The Planner, the checkout and the server.                               *)

MutReserveHighest ==
  Max({task.attempt, task.verdict} \cup Submitted)

\* A number no operation of the task has, nor will be given by an old drive.
Reserved ==
  Max({task.attempt, task.verdict} \cup Submitted) + 1

\* regate_in_tx. The checkout's occupancy and later deliveries are other tasks'.
Regate ==
  /\ regates < MaxRegates
  /\ Reserved < MaxAttempt
  /\ task.status = "failed" /\ task.class \in GateFailures /\ task.verdict # 0
  /\ ~stale
  /\ delivery = "candidate"
  /\ Clear(Attempts)
  /\ task' = [status |-> "verifying", attempt |-> Reserved, class |-> "none", verdict |-> 0]
  /\ floor' = Max({task.verdict} \cup Submitted)
  /\ regates' = regates + 1
  /\ UNCHANGED <<ops, delivery, tree, stale, run, drives, faults>>

\* A document the task's context named has changed.
ContextStale ==
  /\ ~stale /\ faults < MaxFaults
  /\ stale' = TRUE /\ faults' = faults + 1
  /\ UNCHANGED <<task, ops, delivery, tree, run, drives, floor, regates>>

\* Somebody edits the checkout, under whatever gate is reading it.
Edit ==
  /\ tree = "candidate" /\ delivery = "candidate" /\ faults < MaxFaults
  /\ tree' = "other" /\ faults' = faults + 1
  /\ ops' = [n \in Attempts |->
       IF ops[n].proc = "running" THEN [ops[n] EXCEPT !.pure = FALSE] ELSE ops[n]]
  /\ UNCHANGED <<task, delivery, stale, run, drives, floor, regates>>

\* The edit is undone. A change made and undone between the two samples of a
\* gate cannot be seen by it, so it is undone only between gates.
Restore ==
  /\ tree = "other"
  /\ \A n \in Attempts : /\ ops[n].phase \in {"none"} \cup Terminal
                         /\ ops[n].proc # "running"
  /\ tree' = "candidate"
  /\ UNCHANGED <<task, ops, delivery, stale, run, drives, floor, regates, faults>>

\* The server dies: drives and collected facts go, rows and processes stay.
Crash ==
  /\ faults < MaxFaults
  /\ faults' = faults + 1
  /\ drives' = [d \in Drives |-> IdleDrive]
  /\ ops' = [n \in Attempts |-> [ops[n] EXCEPT !.facts = NoFacts]]
  /\ UNCHANGED <<task, delivery, tree, stale, run, floor, regates>>

DriveStep(d) ==
  List(d) \/ Enter(d) \/ NotAdmitted(d) \/ Submit(d) \/ Wait(d) \/ Reconcile(d)

OpStep(n) ==
  \/ Collect(n) \/ Stale(n) \/ Apply(n) \/ SpawnNoOp(n) \/ Admit(n) \/ Park(n)
  \/ ProcessSettles(n) \/ Complete(n) \/ CompensateRow(n) \/ Compensated(n)

OpFault(n) == PrepareFails(n) \/ SpawnFails(n) \/ Sticks(n)

Next ==
  \/ DeliverySettles
  \/ \E d \in Drives : DriveStep(d)
  \/ \E n \in Attempts : OpStep(n) \/ OpFault(n)
  \/ Regate \/ ContextStale \/ Edit \/ Restore \/ Crash

Spec == Init /\ [][Next]_vars

\* The sweep lists the row for ever; a drive and an operation that can go on do
\* (an operation that lost its driver is recovered); deliveries settle and gate
\* processes end, by their timeout if need be.
Fairness ==
  /\ WF_vars(DeliverySettles)
  /\ \A d \in Drives : WF_vars(DriveStep(d))
  /\ \A n \in Attempts : WF_vars(OpStep(n))

LiveSpec == Spec /\ Fairness

-----------------------------------------------------------------------------
(* Properties.                                                             *)

\* At most one gate process of the task is at work in its checkout, whatever
\* was submitted twice, failed half way or re-run (require_prior_settled and
\* regate's reading of gate_ops.rs).
OneGateProcess ==
  Cardinality({n \in Attempts : ops[n].proc = "running"}) <= 1

\* After a re-run the row never takes a verdict from a gate that ran before it:
\* late drives, late observers and late compensations of the old numbers miss
\* (the reserved number of task_regate_tx).
VerdictIsFresh == task.verdict # 0 => task.verdict > floor

\* A done task's candidate passed a gate that saw nothing but the candidate, or
\* a run of the worker's on that very commit (the two samples of target.rs and
\* reuse.rs).
DoneIsEarned ==
  task.status = "done" =>
    LET op == ops[task.verdict] IN
    \/ op.phase = "succeeded" /\ op.result = "pass" /\ op.proc = "settled" /\ op.pure
    \/ task.verdict = 1 /\ op.result = "pass" /\ run = "passed" /\ op.proc = "none"

\* A verdict stands until a re-run is asked for: nobody writes another over it
\* (the guard of task_apply_gate_result_tx), and a done task is never re-run.
VerdictStands ==
  [][task.status # "verifying" =>
       \/ UNCHANGED task
       \/ task.status = "failed" /\ task'.status = "verifying" /\ regates' = regates + 1]_vars

\* A verifying row gets an answer, even from an operation that failed before it
\* bumped the row or stuck (reconcile_gate_outcome's pre-bump arm).
VerifyingEnds == task.status = "verifying" ~> task.status # "verifying"

\* A verdict comes from one gate process, of this re-run, that saw the candidate
\* and nothing else (drive_gate, regate_in_tx, target.rs).
VerdictIsSound == TypeOK /\ OneGateProcess /\ VerdictIsFresh /\ DoneIsEarned
=============================================================================
