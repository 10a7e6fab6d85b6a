--------------------------- MODULE TaskGate_proofs ---------------------------
(***************************************************************************)
(* Proofs about TaskGate, for any number of drives, attempts, re-runs and  *)
(* faults. None of the parts of VerdictIsSound is inductive: that one gate *)
(* runs rests on the row's attempt number, which every operation at work   *)
(* has bumped, and that a verdict is earned on what a passing operation    *)
(* has seen, whether or not the row took its verdict.                      *)
(***************************************************************************)
EXTENDS TaskGate, FiniteSetTheorems, WellFoundedInduction, TLAPS

TaskType ==
  [status : {"verifying", "done", "failed"}, attempt : 0 .. MaxAttempt + 1,
   class : GateFailures \cup {"none", "delivery-failed"}, verdict : 0 .. MaxAttempt]

OpType ==
  [phase : Terminal \cup {"none", "pending", "prepared", "parked", "compensating"},
   facts : [attempt : -1 .. MaxAttempt + 1, stale : BOOLEAN, clean : BOOLEAN],
   result : GateFailures \cup {"none", "pass"},
   proc : {"none", "running", "settled"}, pure : BOOLEAN]

DriveType ==
  [pc : {"idle", "listed", "submit", "wait", "reconcile"},
   seen : 0 .. MaxAttempt + 1, op : 0 .. MaxAttempt]

\* The operation has bumped the row and is not over, or its process is not.
Active(x) == x.phase \in {"prepared", "parked", "compensating"} \/ x.proc = "running"

\* A passing operation saw the candidate alone, or took over the worker's run.
PassEarned(n, x) ==
  \/ x.phase = "succeeded" /\ x.proc = "settled" /\ x.pure
  \/ x.phase \in {"prepared", "succeeded"} /\ n = 1 /\ run = "passed" /\ x.proc = "none"

\* What the operation x with the number n holds in each of its phases.
OpOK(n, x) ==
  /\ x.facts # NoFacts => x.phase = "pending"
  /\ x.phase \in {"none", "pending"} => x.result = "none" /\ x.proc = "none"
  /\ x.phase = "prepared" /\ x.result # "none" => x.proc = "none"
  /\ x.phase = "parked" => x.result = "none" /\ x.proc # "none"
  /\ x.phase = "succeeded" => x.result # "none"
  /\ x.result = "pass" => PassEarned(n, x)
  /\ x.phase \in {"prepared", "parked"} /\ x.proc # "none" /\ tree = "candidate" => x.pure

OpsOK == \A n \in Attempts : OpOK(n, ops[n])

\* An operation at work is one the row counts, and the only one.
OneActive ==
  /\ \A n \in Attempts : Active(ops[n]) => n <= task.attempt
  /\ \A n, m \in Attempts : Active(ops[n]) /\ Active(ops[m]) => n = m

\* What the row says of its verdict and of the numbers before a re-run.
RowOK ==
  /\ floor = 0 \/ floor < task.attempt
  /\ VerdictIsFresh
  /\ task.status = "done" => task.verdict \in Attempts /\ ops[task.verdict].result = "pass"

\* A drive that waits has an operation.
DriveOK == \A d \in Drives : drives[d].pc \in {"wait", "reconcile"} => drives[d].op \in Attempts

\* The inductive invariant.
Inv == TypeOK /\ OpsOK /\ OneActive /\ RowOK /\ DriveOK

-----------------------------------------------------------------------------
(* Facts about the operators.                                              *)

\* A nonempty set of naturals has a least element.
LEMMA LeastNat ==
  ASSUME NEW T \in SUBSET Nat, T # {}
  PROVE  \E x \in T : \A y \in T : x <= y
<1> DEFINE R == {q \in Nat \X Nat : q[1] < q[2]}
<1>1. IsWellFoundedOn(R, Nat)
  BY NatLessThanWellFounded DEF OpToRel
<1>2. PICK x \in T : \A y \in T : <<y, x>> \notin R
  <2> HIDE DEF R
  <2>. QED  BY <1>1, WFMin
<1>3. ASSUME NEW y \in T PROVE x <= y
  <2>1. x \in Nat /\ y \in Nat /\ ~(y < x)
    BY <1>2
  <2>. QED  BY <2>1
<1>. QED
  BY <1>3

\* Max of a nonempty bounded set of naturals is its greatest element.
LEMMA MaxIsGreatest ==
  ASSUME NEW N \in Nat, NEW S \in SUBSET (0 .. N), S # {}
  PROVE  Max(S) \in S /\ \A y \in S : y <= Max(S)
<1> DEFINE T == {k \in Nat : \A y \in S : y <= k}
<1>1. N \in T /\ T \in SUBSET Nat
  OBVIOUS
<1>2. PICK m \in T : \A k \in T : m <= k
  <2> HIDE DEF T
  <2>. QED  BY <1>1, LeastNat
<1>3. m \in Nat /\ \A y \in S : y <= m /\ y \in Nat
  OBVIOUS
<1>4. m \in S
  <2> SUFFICES ASSUME m \notin S PROVE FALSE
    OBVIOUS
  <2>1. PICK y \in S : TRUE
    OBVIOUS
  <2>2. m - 1 \in Nat
    <3>1. y \in Nat /\ y <= m /\ y # m
      BY <1>3
    <3>. QED  BY <1>3, <3>1
  <2>3. ASSUME NEW z \in S PROVE z <= m - 1
    <3>1. z \in Nat /\ z <= m /\ z # m
      BY <1>3
    <3>. QED  BY <1>3, <3>1
  <2>4. m - 1 \in T
    BY <2>2, <2>3
  <2>5. m <= m - 1
    BY <1>2, <2>4
  <2>. QED  BY <1>3, <2>5
<1>5. \E x \in S : \A y \in S : x >= y
  BY <1>3, <1>4
<1>6. Max(S) \in S /\ \A y \in S : Max(S) >= y
  BY <1>5 DEF Max
<1>. QED
  BY <1>6

\* The number a re-run reserves is above every number of the task.
LEMMA ReservedIsNew ==
  ASSUME TypeOK
  PROVE  /\ Reserved \in Nat /\ task.attempt < Reserved /\ task.verdict < Reserved
         /\ \A n \in Submitted : n < Reserved
<1> DEFINE S == {task.attempt, task.verdict} \cup Submitted
<1>1. MaxAttempt + 1 \in Nat /\ S \in SUBSET (0 .. MaxAttempt + 1) /\ S # {}
  BY GateAssumption DEF TypeOK, Submitted, Attempts
<1>2. task.attempt \in S /\ task.verdict \in S /\ Submitted \subseteq S /\ Reserved = Max(S) + 1
  BY DEF Reserved
<1> HIDE DEF S
<1>3. Max(S) \in S /\ \A y \in S : y <= Max(S)
  BY <1>1, MaxIsGreatest
<1>4. Max(S) \in Nat /\ \A y \in S : y \in Nat
  <2>1. \A y \in S : y \in 0 .. MaxAttempt + 1
    BY <1>1
  <2>2. \A y \in S : y \in Nat
    BY <2>1
  <2>. QED  BY <1>3, <2>2
<1>5. \A y \in S : y < Reserved
  BY <1>2, <1>3, <1>4
<1>. QED
  BY <1>2, <1>4, <1>5

\* The floor a re-run leaves is below the number it reserves.
LEMMA FloorIsOld ==
  ASSUME TypeOK
  PROVE  LET f == Max({task.verdict} \cup Submitted)
         IN f \in 0 .. MaxAttempt /\ f < Reserved
<1> DEFINE S == {task.verdict} \cup Submitted
<1>1. MaxAttempt \in Nat /\ S \in SUBSET (0 .. MaxAttempt) /\ S # {}
  BY GateAssumption DEF TypeOK, Submitted, Attempts
<1>2. \A y \in S : y < Reserved
  BY ReservedIsNew
<1> HIDE DEF S
<1>3. Max(S) \in S
  BY <1>1, MaxIsGreatest
<1>4. Max(S) \in 0 .. MaxAttempt /\ Max(S) < Reserved
  BY <1>1, <1>2, <1>3
<1>. QED
  BY <1>4 DEF S

-----------------------------------------------------------------------------
(* What the steps have in common.                                          *)

LEMMA Typed ==
  TypeOK <=> /\ task \in TaskType /\ ops \in [Attempts -> OpType]
             /\ delivery \in {"pending", "candidate", "failed"}
             /\ tree \in {"candidate", "other"} /\ stale \in BOOLEAN
             /\ run \in {"none", "failed", "passed", "other"}
             /\ drives \in [Drives -> DriveType]
             /\ floor \in 0 .. MaxAttempt + 1 /\ regates \in 0 .. MaxRegates
             /\ faults \in 0 .. MaxFaults
BY DEF TypeOK, TaskType, OpType, DriveType

LEMMA TypedNext ==
  TypeOK' <=> /\ task' \in TaskType /\ ops' \in [Attempts -> OpType]
              /\ delivery' \in {"pending", "candidate", "failed"}
              /\ tree' \in {"candidate", "other"} /\ stale' \in BOOLEAN
              /\ run' \in {"none", "failed", "passed", "other"}
              /\ drives' \in [Drives -> DriveType]
              /\ floor' \in 0 .. MaxAttempt + 1 /\ regates' \in 0 .. MaxRegates
              /\ faults' \in 0 .. MaxFaults
BY DEF TypeOK, TaskType, OpType, DriveType

\* The row's change in a step that bumps nothing: none, a failure, or the
\* verdict of an operation above the floor that passed if the row is done.
RowMoves ==
  /\ task'.attempt = task.attempt
  /\ \/ task' = task
     \/ task'.status # "done" /\ task'.verdict = task.verdict
     \/ /\ task'.verdict \in Attempts /\ task'.verdict > floor
        /\ task'.status = "done" => ops'[task'.verdict].result = "pass"

\* A step in which no operation starts its work.
LEMMA PlainStep ==
  ASSUME Inv, TypeOK', OpsOK', DriveOK', UNCHANGED floor, RowMoves,
         \A n \in Attempts : Active(ops'[n]) => Active(ops[n]),
         \A n \in Attempts : ops[n].result = "pass" => ops'[n].result = "pass"
  PROVE  Inv'
<1>1. OneActive'
  BY DEF Inv, OneActive, RowMoves, Active
<1>2. RowOK'
  BY DEF Inv, RowOK, RowMoves, VerdictIsFresh
<1>. QED
  BY <1>1, <1>2 DEF Inv

\* One operation moves on.
LEMMA OpMoves ==
  ASSUME Inv, NEW n \in Attempts, NEW x \in OpType, ops' = [ops EXCEPT ![n] = x],
         UNCHANGED <<tree, run>>, OpOK(n, x)
  PROVE  /\ ops' \in [Attempts -> OpType] /\ OpsOK' /\ ops'[n] = x
         /\ \A m \in Attempts : m # n => ops'[m] = ops[m]
<1>1. ops \in [Attempts -> OpType]
  BY Typed DEF Inv
<1>2. ops' \in [Attempts -> OpType] /\ ops'[n] = x /\ \A m \in Attempts : m # n => ops'[m] = ops[m]
  BY <1>1
<1>3. \A m \in Attempts : OpOK(m, ops'[m])
  BY <1>2 DEF Inv, OpsOK
<1>4. OpsOK'
  BY <1>3 DEF OpsOK, OpOK, PassEarned
<1>. QED
  BY <1>2, <1>4

\* The guarded verdict: the row is left as it is, or takes a number above the floor.
LEMMA GuardedVerdict ==
  ASSUME Inv, NEW n \in Attempts, NEW g \in {n, n - 1}, NEW r \in GateFailures \cup {"pass"},
         ApplyGateResult(n, g, r)
  PROVE  /\ task' \in TaskType /\ task'.attempt = task.attempt
         /\ \/ task' = task
            \/ /\ task'.verdict = n /\ n > floor
               /\ task'.status = "done" => r = "pass"
<1>1. task \in TaskType /\ floor \in Nat /\ n \in Nat \ {0}
  BY Typed, GateAssumption DEF Inv, Attempts
<1>2. CASE ~GuardHits(g)
  BY <1>1, <1>2 DEF ApplyGateResult
<1>3. CASE GuardHits(g)
  <2>1. task' = Judged(n, r)
    BY <1>3 DEF ApplyGateResult
  <2>2. /\ Judged(n, r) \in TaskType /\ Judged(n, r).attempt = task.attempt /\ Judged(n, r).verdict = n
        /\ Judged(n, r).status = "done" => r = "pass"
    <3>1. n \in 0 .. MaxAttempt
      BY DEF Attempts
    <3>. QED  BY <1>1, <3>1 DEF Judged, TaskType, GateFailures
  <2>3. n > floor
    <3>1. floor = 0 \/ floor < task.attempt
      BY DEF Inv, RowOK
    <3>2. task.attempt = g /\ task.attempt \in Nat
      BY <1>1, <1>3, GateAssumption DEF GuardHits, TaskType
    <3>. QED  BY <1>1, <3>1, <3>2
  <2>. QED  BY <2>1, <2>2, <2>3
<1>. QED
  BY <1>2, <1>3

-----------------------------------------------------------------------------
(* The drives.                                                             *)

\* A step of a drive that neither submits nor copies.
LEMMA DriveMoves ==
  ASSUME Inv, drives' \in [Drives -> DriveType], DriveOK',
         UNCHANGED <<task, ops, delivery, tree, stale, run, floor, regates, faults>>
  PROVE  Inv'
<1>1. TypeOK'
  BY Typed, TypedNext DEF Inv
<1>2. OpsOK' /\ RowMoves
  BY DEF Inv, OpsOK, OpOK, PassEarned, RowMoves
<1>. QED
  BY <1>1, <1>2, PlainStep

\* A drive with a record of its own.
LEMMA OneDrive ==
  ASSUME Inv, NEW d \in Drives, NEW x \in DriveType, drives' = [drives EXCEPT ![d] = x],
         x.pc \in {"wait", "reconcile"} => x.op \in Attempts
  PROVE  drives' \in [Drives -> DriveType] /\ DriveOK'
<1>1. drives \in [Drives -> DriveType]
  BY Typed DEF Inv
<1>. QED
  BY <1>1 DEF Inv, DriveOK

LEMMA IdleDriveType == IdleDrive \in DriveType /\ IdleDrive.pc = "idle"
BY GateAssumption DEF IdleDrive, DriveType

LEMMA DriveStepInv ==
  ASSUME Inv, NEW d \in Drives, List(d) \/ Enter(d) \/ NotAdmitted(d) \/ Wait(d) PROVE Inv'
<1>1. task \in TaskType /\ drives[d] \in DriveType /\ MaxAttempt \in Nat
  BY Typed, GateAssumption DEF Inv
<1>2. UNCHANGED <<task, ops, delivery, tree, stale, run, floor, regates, faults>>
  BY DEF List, Enter, NotAdmitted, Wait
<1>3. CASE List(d)
  <2> DEFINE x == [pc |-> "listed", seen |-> task.attempt, op |-> 0]
  <2>1. x \in DriveType
    BY <1>1 DEF TaskType, DriveType
  <2>. QED
    BY <1>2, <1>3, <2>1, OneDrive, DriveMoves DEF List
<1>4. CASE Enter(d)
  <2>1. CASE drives' = [drives EXCEPT ![d] = IdleDrive]
    BY <1>2, <2>1, IdleDriveType, OneDrive, DriveMoves
  <2>2. CASE drives[d].seen \in Submitted
             /\ drives' = [drives EXCEPT ![d] = [drives[d] EXCEPT !.pc = "wait", !.op = drives[d].seen]]
    <3> DEFINE x == [drives[d] EXCEPT !.pc = "wait", !.op = drives[d].seen]
    <3>1. drives[d].seen \in Attempts /\ drives[d].seen \in 0 .. MaxAttempt
      BY <2>2 DEF Submitted, Attempts
    <3>2. x \in DriveType /\ x.op = drives[d].seen
      BY <1>1, <3>1 DEF DriveType
    <3>. QED
      BY <1>2, <2>2, <3>1, <3>2, OneDrive, DriveMoves
  <2>3. CASE drives' = [drives EXCEPT ![d] = [drives[d] EXCEPT !.pc = "submit"]]
    <3>1. [drives[d] EXCEPT !.pc = "submit"] \in DriveType /\ [drives[d] EXCEPT !.pc = "submit"].pc = "submit"
      BY <1>1 DEF DriveType
    <3>. QED
      BY <1>2, <2>3, <3>1, OneDrive, DriveMoves
  <2>. QED
    BY <1>4, <2>1, <2>2, <2>3 DEF Enter
<1>5. CASE NotAdmitted(d)
  BY <1>2, <1>5, IdleDriveType, OneDrive, DriveMoves DEF NotAdmitted
<1>6. CASE Wait(d)
  <2> DEFINE x == [drives[d] EXCEPT !.pc = "reconcile"]
  <2>1. x \in DriveType /\ x.op = drives[d].op
    BY <1>1 DEF DriveType
  <2>2. drives[d].op \in Attempts
    BY <1>6 DEF Wait, Inv, DriveOK
  <2>3. drives' = [drives EXCEPT ![d] = x]
    BY <1>6 DEF Wait
  <2>. QED
    BY <1>2, <2>1, <2>2, <2>3, OneDrive, DriveMoves
<1>. QED
  BY <1>3, <1>4, <1>5, <1>6

LEMMA SubmitStep == ASSUME Inv, NEW d \in Drives, Submit(d) PROVE Inv'
<1> DEFINE n == drives[d].seen + 1
           y == [drives[d] EXCEPT !.pc = "wait", !.op = n]
           x == [ops[n] EXCEPT !.phase = "pending"]
<1>1. TypeOK /\ ops \in [Attempts -> OpType] /\ drives[d] \in DriveType /\ n \in Attempts
      /\ UNCHANGED <<task, delivery, tree, stale, run, floor, regates, faults>>
  BY Typed DEF Inv, Submit
<1>2. n \in 0 .. MaxAttempt /\ drives' = [drives EXCEPT ![d] = y]
  BY <1>1 DEF Attempts, Submit
<1> HIDE DEF n
<1>3. y \in DriveType /\ y.op = n
  BY <1>1, <1>2 DEF DriveType
<1>4. drives' \in [Drives -> DriveType] /\ DriveOK'
  BY <1>1, <1>2, <1>3, OneDrive
<1>5. CASE ops' = ops
  <2>1. TypeOK'
    BY <1>1, <1>4, <1>5, Typed, TypedNext
  <2>2. OpsOK' /\ RowMoves
    BY <1>1, <1>5 DEF Inv, OpsOK, OpOK, PassEarned, RowMoves
  <2>. QED
    BY <1>1, <1>4, <1>5, <2>1, <2>2, PlainStep
<1>6. CASE n \notin Submitted /\ ops' = [ops EXCEPT ![n] = x]
  <2>1. ops[n].phase = "none" /\ ops[n] \in OpType /\ OpOK(n, ops[n])
    BY <1>1, <1>6 DEF Submitted, Inv, OpsOK
  <2>2. x \in OpType /\ x.phase = "pending" /\ x.facts = ops[n].facts /\ x.result = ops[n].result
        /\ x.proc = ops[n].proc
    BY <2>1 DEF OpType
  <2> HIDE DEF x
  <2>3. OpOK(n, x) /\ ~Active(x) /\ ops[n].result # "pass"
    BY <2>1, <2>2 DEF OpOK, Active
  <2>4. /\ ops' \in [Attempts -> OpType] /\ OpsOK' /\ ops'[n] = x
        /\ \A m \in Attempts : m # n => ops'[m] = ops[m]
    BY <1>1, <1>6, <2>2, <2>3, OpMoves
  <2>5. TypeOK'
    BY <1>1, <1>4, <2>4, Typed, TypedNext
  <2>6. RowMoves
    BY <1>1 DEF RowMoves
  <2>7. /\ \A m \in Attempts : Active(ops'[m]) => Active(ops[m])
        /\ \A m \in Attempts : ops[m].result = "pass" => ops'[m].result = "pass"
    BY <2>3, <2>4
  <2>. QED
    BY <1>1, <1>4, <2>4, <2>5, <2>6, <2>7, PlainStep
<1>. QED
  BY <1>5, <1>6 DEF Submit, n

LEMMA ReconcileStep == ASSUME Inv, NEW d \in Drives, Reconcile(d) PROVE Inv'
<1>1. TypeOK /\ ops \in [Attempts -> OpType] /\ drives[d].op \in Attempts
      /\ UNCHANGED <<ops, delivery, tree, stale, run, floor, regates, faults>>
  BY Typed DEF Inv, Reconcile, DriveOK
<1>2. PICK n \in Attempts : n = drives[d].op
  BY <1>1
<1>3. ops[n] \in OpType /\ OpOK(n, ops[n])
  BY <1>1 DEF Inv, OpsOK
<1>4. OutcomeOf(n) \in GateFailures \cup {"pass"} /\ (OutcomeOf(n) = "pass" => ops[n].result = "pass")
  BY <1>3 DEF OutcomeOf, OpOK, OpType, GateFailures
<1>5. \E g \in {n, n - 1} : ApplyGateResult(n, g, OutcomeOf(n))
  BY <1>2 DEF Reconcile, CopyOutcome
<1>6. /\ task' \in TaskType /\ task'.attempt = task.attempt
      /\ \/ task' = task
         \/ /\ task'.verdict = n /\ n > floor
            /\ task'.status = "done" => OutcomeOf(n) = "pass"
  BY <1>4, <1>5, GuardedVerdict
<1>7. drives' \in [Drives -> DriveType] /\ DriveOK'
  BY IdleDriveType, OneDrive DEF Reconcile
<1>8. TypeOK'
  BY <1>1, <1>6, <1>7, Typed, TypedNext
<1>9. OpsOK'
  BY <1>1 DEF Inv, OpsOK, OpOK, PassEarned
<1>10. RowMoves
  BY <1>1, <1>4, <1>6 DEF RowMoves
<1>. QED
  BY <1>1, <1>7, <1>8, <1>9, <1>10, PlainStep

-----------------------------------------------------------------------------
(* The operations.                                                         *)

\* An operation that goes on with the work it has, or ends it.
LEMMA OpGoesOn ==
  ASSUME Inv, NEW n \in Attempts, NEW x \in OpType, ops' = [ops EXCEPT ![n] = x], OpOK(n, x),
         Active(x) => Active(ops[n]), ops[n].result = "pass" => x.result = "pass",
         UNCHANGED <<delivery, tree, stale, run, drives, floor, regates>>,
         faults' \in 0 .. MaxFaults, task' \in TaskType, RowMoves
  PROVE  Inv'
<1>1. /\ ops' \in [Attempts -> OpType] /\ OpsOK' /\ ops'[n] = x
      /\ \A m \in Attempts : m # n => ops'[m] = ops[m]
  BY OpMoves
<1>2. TypeOK'
  BY <1>1, Typed, TypedNext DEF Inv
<1>3. DriveOK'
  BY DEF Inv, DriveOK
<1>4. /\ \A m \in Attempts : Active(ops'[m]) => Active(ops[m])
      /\ \A m \in Attempts : ops[m].result = "pass" => ops'[m].result = "pass"
  BY <1>1
<1>. QED
  BY <1>1, <1>2, <1>3, <1>4, PlainStep

\* A failed step counts as a fault.
LEMMA FaultCounts ==
  ASSUME Inv, UNCHANGED faults \/ (faults < MaxFaults /\ faults' = faults + 1)
  PROVE  faults' \in 0 .. MaxFaults
<1>1. faults \in 0 .. MaxFaults
  BY Typed DEF Inv
<1>. QED
  BY <1>1, GateAssumption

LEMMA BeforeTheBump ==
  ASSUME Inv, NEW n \in Attempts, Collect(n) \/ PrepareFails(n) \/ Stale(n) PROVE Inv'
<1>1. /\ ops \in [Attempts -> OpType] /\ ops[n] \in OpType /\ OpOK(n, ops[n]) /\ task \in TaskType
      /\ tree \in {"candidate", "other"} /\ stale \in BOOLEAN
  BY Typed DEF Inv, OpsOK
<1>2. ops[n].phase = "pending" /\ ops[n].result = "none" /\ ops[n].proc = "none"
  BY <1>1 DEF OpOK, Collect, PrepareFails, Stale
<1>3. UNCHANGED <<task, delivery, tree, stale, run, drives, floor, regates>> /\ RowMoves
  BY DEF Collect, PrepareFails, Stale, RowMoves
<1>4. faults' \in 0 .. MaxFaults
  BY FaultCounts DEF Collect, PrepareFails, Stale
<1>5. \E x \in OpType : /\ ops' = [ops EXCEPT ![n] = x]
                        /\ x.phase \in {"pending", "failed"} /\ x.result = "none" /\ x.proc = "none"
                        /\ x.facts # NoFacts => x.phase = "pending"
  <2>1. NoFacts \in [attempt : -1 .. MaxAttempt + 1, stale : BOOLEAN, clean : BOOLEAN]
    BY GateAssumption DEF NoFacts
  <2>2. CASE ops' = [ops EXCEPT ![n].phase = "failed", ![n].facts = NoFacts]
    <3> DEFINE x == [ops[n] EXCEPT !.phase = "failed", !.facts = NoFacts]
    <3>1. x \in OpType /\ x.phase = "failed" /\ x.result = "none" /\ x.proc = "none" /\ x.facts = NoFacts
      BY <1>1, <1>2, <2>1 DEF OpType, Terminal
    <3>2. ops' = [ops EXCEPT ![n] = x]
      BY <2>2
    <3>. QED  BY <3>1, <3>2
  <2>3. CASE ops[n].facts = NoFacts /\ ops' = [ops EXCEPT ![n].phase = "failed"]
    <3> DEFINE x == [ops[n] EXCEPT !.phase = "failed"]
    <3>1. x \in OpType /\ x.phase = "failed" /\ x.result = "none" /\ x.proc = "none" /\ x.facts = NoFacts
      BY <1>1, <1>2, <2>3 DEF OpType, Terminal
    <3>2. ops' = [ops EXCEPT ![n] = x]
      BY <2>3
    <3>. QED  BY <3>1, <3>2
  <2>4. ASSUME NEW f \in [attempt : -1 .. MaxAttempt + 1, stale : BOOLEAN, clean : BOOLEAN],
               ops' = [ops EXCEPT ![n].facts = f]
        PROVE  \E x \in OpType : /\ ops' = [ops EXCEPT ![n] = x]
                                 /\ x.phase \in {"pending", "failed"} /\ x.result = "none" /\ x.proc = "none"
                                 /\ x.facts # NoFacts => x.phase = "pending"
    <3> DEFINE x == [ops[n] EXCEPT !.facts = f]
    <3>1. x \in OpType /\ x.phase = "pending" /\ x.result = "none" /\ x.proc = "none"
      BY <1>1, <1>2 DEF OpType
    <3>2. ops' = [ops EXCEPT ![n] = x]
      BY <2>4
    <3>. QED  BY <3>1, <3>2
  <2>5. [attempt |-> task.attempt, stale |-> stale, clean |-> tree = "candidate"]
          \in [attempt : -1 .. MaxAttempt + 1, stale : BOOLEAN, clean : BOOLEAN]
    BY <1>1, GateAssumption DEF TaskType
  <2>. QED
    BY <2>1, <2>2, <2>3, <2>4, <2>5 DEF Collect, PrepareFails, Stale
<1>6. PICK x \in OpType : /\ ops' = [ops EXCEPT ![n] = x]
                          /\ x.phase \in {"pending", "failed"} /\ x.result = "none" /\ x.proc = "none"
                          /\ x.facts # NoFacts => x.phase = "pending"
  BY <1>5
<1>7. OpOK(n, x) /\ ~Active(x) /\ ops[n].result # "pass"
  BY <1>2, <1>6 DEF OpOK, Active
<1>. QED
  BY <1>1, <1>3, <1>4, <1>6, <1>7, OpGoesOn

\* The bump: the numbers before it are over, and no later one has bumped the row.
LEMMA ApplyStep == ASSUME Inv, NEW n \in Attempts, Apply(n) PROVE Inv'
<1>1. /\ ops \in [Attempts -> OpType] /\ ops[n] \in OpType /\ OpOK(n, ops[n]) /\ task \in TaskType
      /\ tree \in {"candidate", "other"} /\ TypeOK
      /\ UNCHANGED <<delivery, tree, stale, run, drives, floor, regates, faults>>
  BY Typed DEF Inv, OpsOK, Apply
<1>2. ops[n].phase = "pending" /\ ops[n].result = "none" /\ ops[n].proc = "none" /\ task.status = "verifying"
  BY <1>1 DEF OpOK, Apply
<1>3. NoFacts \in [attempt : -1 .. MaxAttempt + 1, stale : BOOLEAN, clean : BOOLEAN]
  BY GateAssumption DEF NoFacts
<1>4. CASE task' = task /\ ops' = [ops EXCEPT ![n].phase = "failed", ![n].facts = NoFacts]
  <2> DEFINE x == [ops[n] EXCEPT !.phase = "failed", !.facts = NoFacts]
  <2>1. x \in OpType /\ x.phase = "failed" /\ x.result = "none" /\ x.proc = "none" /\ x.facts = NoFacts
    BY <1>1, <1>2, <1>3 DEF OpType, Terminal
  <2>2. ops' = [ops EXCEPT ![n] = x]
    BY <1>4
  <2> HIDE DEF x
  <2>3. OpOK(n, x) /\ ~Active(x) /\ ops[n].result # "pass" /\ RowMoves
    BY <1>2, <1>4, <2>1 DEF OpOK, Active, RowMoves
  <2>4. faults' \in 0 .. MaxFaults
    BY <1>1, Typed
  <2>. QED
    BY <1>1, <1>4, <2>1, <2>2, <2>3, <2>4, OpGoesOn
<1>5. CASE /\ task.attempt = n - 1 /\ ~Refused(n)
           /\ ops' = [ops EXCEPT ![n].phase = "prepared", ![n].result = PreparedVerdict(n),
                                 ![n].pure = tree = "candidate", ![n].facts = NoFacts]
           /\ task' = IF PreparedVerdict(n) = "none" THEN [task EXCEPT !.attempt = n]
                      ELSE [Judged(n, PreparedVerdict(n)) EXCEPT !.attempt = n]
  <2> DEFINE v == PreparedVerdict(n)
             b == (tree = "candidate")
             x == [ops[n] EXCEPT !.phase = "prepared", !.result = v, !.pure = b, !.facts = NoFacts]
  <2>1. v \in GateFailures \cup {"none", "pass"} /\ (v = "pass" => n = 1 /\ run = "passed")
    BY DEF PreparedVerdict, Reusable, GateFailures
  <2>2. b \in BOOLEAN
    OBVIOUS
  <2>3. ops' = [ops EXCEPT ![n] = x]
    BY <1>5
  <2>4. n \in 1 .. MaxAttempt /\ n \in Nat \ {0} /\ n \in 0 .. MaxAttempt + 1 /\ n \in 0 .. MaxAttempt /\ MaxAttempt \in Nat
    BY GateAssumption DEF Attempts
  <2>5. /\ task' \in TaskType /\ task'.attempt = n
        /\ v = "none" => task'.verdict = task.verdict /\ task'.status = "verifying"
        /\ v # "none" => task'.verdict = n /\ (task'.status = "done" => v = "pass")
    <3>1. CASE v = "none"
      BY <1>1, <1>2, <1>5, <2>4, <3>1 DEF TaskType
    <3>2. CASE v # "none"
      <4>1. v \in GateFailures \cup {"pass"} /\ task' = [Judged(n, v) EXCEPT !.attempt = n]
        BY <1>5, <2>1, <3>2
      <4> HIDE DEF v
      <4>2. /\ Judged(n, v) \in TaskType /\ Judged(n, v).verdict = n
            /\ Judged(n, v).status = "done" => v = "pass"
        BY <1>1, <2>4, <4>1 DEF Judged, TaskType, GateFailures
      <4>. QED
        BY <2>4, <3>2, <4>1, <4>2 DEF TaskType
    <3>. QED  BY <3>1, <3>2
  <2> HIDE DEF v, b
  <2>6. /\ x \in OpType /\ x.phase = "prepared" /\ x.result = v /\ x.proc = "none" /\ x.facts = NoFacts
    BY <1>1, <1>2, <1>3, <2>1, <2>2 DEF OpType
  <2> HIDE DEF x
  <2>7. OpOK(n, x)
    BY <2>1, <2>6 DEF OpOK, PassEarned
  <2>8. /\ ops' \in [Attempts -> OpType] /\ OpsOK' /\ ops'[n] = x
        /\ \A m \in Attempts : m # n => ops'[m] = ops[m]
    BY <1>1, <2>3, <2>6, <2>7, OpMoves
  <2>9. TypeOK' /\ DriveOK'
    BY <1>1, <2>5, <2>8, Typed, TypedNext DEF Inv, DriveOK
  <2>10. ASSUME NEW m \in Attempts, m # n PROVE ~Active(ops[m])
    <3>1. m \in Nat
      BY GateAssumption DEF Attempts
    <3>2. CASE m < n
      <4>1. m \in 1 .. (n - 1)
        BY <2>4, <3>2 DEF Attempts
      <4>2. \/ ops[m].phase = "none"
            \/ ops[m].phase \in {"succeeded", "failed"} /\ ops[m].proc # "running"
        BY <1>5, <4>1 DEF Refused, PriorSettled, Clear
      <4>3. OpOK(m, ops[m])
        BY DEF Inv, OpsOK
      <4>. QED  BY <4>2, <4>3 DEF Active, OpOK
    <3>3. CASE m > n
      <4>1. ~(m <= task.attempt)
        BY <1>5, <2>4, <3>1, <3>3
      <4>. QED  BY <4>1 DEF Inv, OneActive
    <3>. QED  BY <2>4, <2>10, <3>1, <3>2, <3>3
  <2>11. OneActive'
    <3>1. \A m \in Attempts : Active(ops'[m]) => m = n
      BY <2>8, <2>10
    <3>. QED
      BY <2>4, <2>5, <3>1 DEF OneActive, Active
  <2>12. RowOK'
    <3>1. floor = 0 \/ floor < task.attempt
      BY DEF Inv, RowOK
    <3>2. floor \in Nat /\ task.attempt \in Nat /\ floor < n /\ floor' = floor
      BY <1>1, <1>5, <2>4, <3>1, Typed, GateAssumption DEF TaskType
    <3>3. VerdictIsFresh'
      BY <2>5, <3>2 DEF Inv, RowOK, VerdictIsFresh
    <3>4. task'.status = "done" => task'.verdict = n /\ ops'[n].result = "pass"
      BY <2>5, <2>6, <2>8
    <3>. QED
      BY <2>5, <3>2, <3>3, <3>4 DEF RowOK
  <2>. QED
    BY <2>8, <2>9, <2>11, <2>12 DEF Inv
<1>. QED
  BY <1>4, <1>5 DEF Apply

\* A step of an operation that has bumped the row and leaves the row alone.
LEMMA AfterTheBump ==
  ASSUME Inv, NEW n \in Attempts,
         SpawnNoOp(n) \/ Admit(n) \/ Park(n) \/ SpawnFails(n) \/ ProcessSettles(n)
         \/ Compensated(n) \/ Sticks(n)
  PROVE  Inv'
<1>1. /\ ops \in [Attempts -> OpType] /\ ops[n] \in OpType /\ OpOK(n, ops[n]) /\ task \in TaskType
      /\ tree \in {"candidate", "other"}
  BY Typed DEF Inv, OpsOK
<1>2. ops[n].facts = NoFacts /\ Active(ops[n])
  BY <1>1 DEF OpOK, Active, SpawnNoOp, Admit, Park, SpawnFails, ProcessSettles, Compensated, Sticks
<1>3. UNCHANGED <<task, delivery, tree, stale, run, drives, floor, regates>> /\ RowMoves
  BY DEF SpawnNoOp, Admit, Park, SpawnFails, ProcessSettles, Compensated, Sticks, RowMoves
<1>4. faults' \in 0 .. MaxFaults
  BY FaultCounts DEF SpawnNoOp, Admit, Park, SpawnFails, ProcessSettles, Compensated, Sticks
<1>5. ASSUME NEW p \in {"succeeded", "parked", "compensating", "failed", "stuck"},
             ops' = [ops EXCEPT ![n].phase = p],
             \/ p = "succeeded" /\ ops[n].phase = "prepared" /\ ops[n].result # "none"
             \/ p = "parked" /\ ops[n].phase = "prepared" /\ ops[n].proc # "none"
             \/ p = "compensating" /\ ops[n].phase = "prepared" /\ ops[n].result = "none"
             \/ p \in {"failed", "stuck"} /\ ops[n].phase = "compensating"
      PROVE  Inv'
  <2> DEFINE x == [ops[n] EXCEPT !.phase = p]
  <2>1. /\ x \in OpType /\ x.phase = p /\ x.result = ops[n].result /\ x.proc = ops[n].proc
        /\ x.facts = ops[n].facts /\ x.pure = ops[n].pure
    BY <1>1 DEF OpType, Terminal
  <2>2. ops' = [ops EXCEPT ![n] = x]
    BY <1>5
  <2> HIDE DEF x
  <2>3. OpOK(n, x)
    <3>1. CASE p = "succeeded"
      BY <1>1, <1>2, <1>5, <2>1, <3>1 DEF OpOK, PassEarned
    <3>2. CASE p = "parked"
      BY <1>1, <1>2, <1>5, <2>1, <3>2 DEF OpOK, PassEarned
    <3>3. CASE p = "compensating"
      BY <1>1, <1>2, <1>5, <2>1, <3>3 DEF OpOK, PassEarned
    <3>4. CASE p \in {"failed", "stuck"}
      BY <1>1, <1>2, <1>5, <2>1, <3>4 DEF OpOK, PassEarned
    <3>. QED  BY <3>1, <3>2, <3>3, <3>4
  <2>. QED
    BY <1>1, <1>2, <1>3, <1>4, <2>1, <2>2, <2>3, OpGoesOn
<1>6. CASE Admit(n) /\ PriorSettled(n) /\ ~stale
  <2> DEFINE b == (tree = "candidate")
             x == [ops[n] EXCEPT !.proc = "running", !.pure = b]
  <2>1. b \in BOOLEAN /\ ops' = [ops EXCEPT ![n] = x]
    BY <1>6 DEF Admit
  <2>2. /\ x \in OpType /\ x.phase = ops[n].phase /\ x.result = ops[n].result /\ x.proc = "running"
        /\ x.facts = ops[n].facts /\ x.pure = b
    BY <1>1, <2>1 DEF OpType
  <2> HIDE DEF x
  <2>3. OpOK(n, x)
    BY <1>2, <1>6, <2>2 DEF OpOK, PassEarned, Admit
  <2>. QED
    BY <1>1, <1>2, <1>3, <1>4, <2>1, <2>2, <2>3, OpGoesOn
<1>7. CASE ProcessSettles(n)
  <2> DEFINE x == [ops[n] EXCEPT !.proc = "settled"]
  <2>1. /\ x \in OpType /\ x.phase = ops[n].phase /\ x.result = ops[n].result /\ x.proc = "settled"
        /\ x.facts = ops[n].facts /\ x.pure = ops[n].pure
    BY <1>1 DEF OpType
  <2>2. ops' = [ops EXCEPT ![n] = x] /\ ops[n].proc = "running"
    BY <1>7 DEF ProcessSettles
  <2> HIDE DEF x
  <2>3. OpOK(n, x)
    BY <1>1, <1>2, <2>1, <2>2 DEF OpOK, PassEarned
  <2>. QED
    BY <1>1, <1>2, <1>3, <1>4, <2>1, <2>2, <2>3, OpGoesOn
<1>8. CASE Admit(n) /\ ~(PriorSettled(n) /\ ~stale)
  BY <1>5, <1>8 DEF Admit
<1>9. CASE SpawnNoOp(n)
  BY <1>5, <1>9 DEF SpawnNoOp
<1>10. CASE Park(n)
  BY <1>5, <1>10 DEF Park
<1>11. CASE SpawnFails(n)
  BY <1>5, <1>11 DEF SpawnFails
<1>12. CASE Compensated(n)
  BY <1>5, <1>12 DEF Compensated
<1>13. CASE Sticks(n)
  BY <1>5, <1>13 DEF Sticks
<1>. QED
  BY <1>6, <1>7, <1>8, <1>9, <1>10, <1>11, <1>12, <1>13

\* The verdict of a finished gate, and the one a compensation writes.
LEMMA VerdictStep ==
  ASSUME Inv, NEW n \in Attempts, Complete(n) \/ CompensateRow(n) PROVE Inv'
<1>1. /\ ops \in [Attempts -> OpType] /\ ops[n] \in OpType /\ OpOK(n, ops[n]) /\ task \in TaskType
      /\ tree \in {"candidate", "other"} /\ faults \in 0 .. MaxFaults
  BY Typed DEF Inv, OpsOK
<1>2. ops[n].facts = NoFacts /\ Active(ops[n]) /\ ops[n].result # "pass"
      /\ UNCHANGED <<delivery, tree, stale, run, drives, floor, regates, faults>>
  BY <1>1 DEF OpOK, Active, Complete, CompensateRow
<1>3. \E p \in {"succeeded", "compensating"}, r \in GateFailures \cup {"pass"} :
        /\ ops' = [ops EXCEPT ![n].phase = p, ![n].result = r]
        /\ ApplyGateResult(n, n, r)
        /\ p = "succeeded" => ops[n].phase = "parked" /\ ops[n].proc = "settled"
                              /\ (r = "pass" => tree = "candidate")
        /\ p = "compensating" => r # "pass"
  <2>1. CASE Complete(n)
    <3>1. PICK r \in Finalized : /\ ops' = [ops EXCEPT ![n].phase = "succeeded", ![n].result = r]
                                 /\ ApplyGateResult(n, n, r)
      BY <2>1 DEF Complete
    <3>2. r \in GateFailures \cup {"pass"} /\ (r = "pass" => tree = "candidate")
      BY <3>1 DEF Finalized, GateFailures
    <3>. QED  BY <2>1, <3>1, <3>2 DEF Complete
  <2>2. CASE CompensateRow(n)
    <3>1. ops' = [ops EXCEPT ![n].phase = "compensating", ![n].result = "gate-infra"]
      <4>1. [ops[n] EXCEPT !.result = "gate-infra"]
              = [ops[n] EXCEPT !.phase = "compensating", !.result = "gate-infra"]
        BY <1>1, <2>2 DEF CompensateRow, OpType
      <4>. QED  BY <1>1, <2>2, <4>1 DEF CompensateRow
    <3>. QED  BY <2>2, <3>1 DEF CompensateRow, GateFailures
  <2>. QED  BY <2>1, <2>2
<1>4. PICK p \in {"succeeded", "compensating"}, r \in GateFailures \cup {"pass"} :
        /\ ops' = [ops EXCEPT ![n].phase = p, ![n].result = r]
        /\ ApplyGateResult(n, n, r)
        /\ p = "succeeded" => ops[n].phase = "parked" /\ ops[n].proc = "settled"
                              /\ (r = "pass" => tree = "candidate")
        /\ p = "compensating" => r # "pass"
  BY <1>3
<1> DEFINE x == [ops[n] EXCEPT !.phase = p, !.result = r]
<1>5. /\ x \in OpType /\ x.phase = p /\ x.result = r /\ x.proc = ops[n].proc
      /\ x.facts = ops[n].facts /\ x.pure = ops[n].pure
  BY <1>1 DEF OpType, Terminal
<1>6. ops' = [ops EXCEPT ![n] = x]
  BY <1>4
<1> HIDE DEF x
<1>7. OpOK(n, x)
  <2>1. r # "none"
    BY DEF GateFailures
  <2>2. CASE p = "succeeded"
    BY <1>1, <1>2, <1>4, <1>5, <2>1, <2>2 DEF OpOK, PassEarned
  <2>3. CASE p = "compensating"
    BY <1>2, <1>4, <1>5, <2>1, <2>3 DEF OpOK, PassEarned
  <2>. QED  BY <2>2, <2>3
<1>8. /\ task' \in TaskType /\ task'.attempt = task.attempt
      /\ task' = task \/ (task'.verdict = n /\ n > floor /\ (task'.status = "done" => r = "pass"))
  BY <1>4, GuardedVerdict
<1>9. ops'[n] = x
  BY <1>1, <1>6
<1>10. RowMoves
  BY <1>5, <1>8, <1>9 DEF RowMoves
<1>. QED
  BY <1>1, <1>2, <1>5, <1>6, <1>7, <1>8, <1>10, OpGoesOn

-----------------------------------------------------------------------------
(* The delivery, the Planner, the checkout and the server.                 *)

\* A step that leaves the operations and the drives alone and bumps nothing.
LEMMA QuietStep ==
  ASSUME Inv, TypeOK', RowMoves, UNCHANGED <<ops, tree, run, drives, floor>> PROVE Inv'
<1>1. OpsOK' /\ DriveOK'
  BY DEF Inv, OpsOK, OpOK, PassEarned, DriveOK
<1>. QED
  BY <1>1, PlainStep

LEMMA DeliveryStep == ASSUME Inv, DeliverySettles PROVE Inv'
<1>1. task \in TaskType /\ UNCHANGED <<ops, tree, stale, run, drives, floor, regates, faults>>
  BY Typed DEF Inv, DeliverySettles
<1>2. task' \in TaskType /\ RowMoves /\ delivery' \in {"candidate", "failed"}
  <2>1. CASE task' = task
    BY <1>1, <2>1 DEF DeliverySettles, RowMoves
  <2>2. CASE task' = [task EXCEPT !.status = "failed", !.class = "delivery-failed"]
    <3>1. /\ task' \in TaskType /\ task'.status = "failed" /\ task'.verdict = task.verdict
          /\ task'.attempt = task.attempt
      BY <1>1, <2>2 DEF TaskType
    <3>. QED  BY <3>1 DEF DeliverySettles, RowMoves
  <2>. QED  BY <2>1, <2>2 DEF DeliverySettles
<1>3. TypeOK'
  BY <1>1, <1>2, Typed, TypedNext DEF Inv
<1>. QED
  BY <1>1, <1>2, <1>3, QuietStep

\* A re-run finds nothing at work and takes a number above every other.
LEMMA RegateStep == ASSUME Inv, Regate PROVE Inv'
<1>1. TypeOK /\ UNCHANGED <<ops, delivery, tree, stale, run, drives, faults>>
  BY DEF Inv, Regate
<1>2. Reserved \in Nat /\ floor' \in 0 .. MaxAttempt /\ floor' < Reserved /\ Reserved < MaxAttempt
  BY <1>1, ReservedIsNew, FloorIsOld DEF Regate
<1>3. /\ task' \in TaskType /\ task'.attempt = Reserved /\ task'.status = "verifying"
      /\ task'.verdict = 0
  <2>1. Reserved \in 0 .. MaxAttempt + 1 /\ 0 \in 0 .. MaxAttempt
    BY <1>2, GateAssumption
  <2>. QED  BY <2>1 DEF Regate, TaskType
<1>4. floor' \in 0 .. MaxAttempt + 1 /\ regates' \in 0 .. MaxRegates
  <2>1. regates \in 0 .. MaxRegates
    BY <1>1, Typed
  <2>. QED  BY <1>2, <2>1, GateAssumption DEF Regate
<1>5. TypeOK'
  BY <1>1, <1>3, <1>4, Typed, TypedNext
<1>6. OpsOK' /\ DriveOK'
  BY <1>1 DEF Inv, OpsOK, OpOK, PassEarned, DriveOK
<1>7. ASSUME NEW n \in Attempts PROVE ~Active(ops[n])
  <2>1. OpOK(n, ops[n])
    BY DEF Inv, OpsOK
  <2>2. ops[n].phase = "none" \/ (ops[n].phase \in {"succeeded", "failed"} /\ ops[n].proc # "running")
    BY DEF Regate, Clear
  <2>. QED  BY <2>1, <2>2 DEF OpOK, Active
<1>8. OneActive'
  BY <1>1, <1>7 DEF OneActive, Active
<1>9. RowOK'
  BY <1>2, <1>3 DEF RowOK, VerdictIsFresh
<1>. QED
  BY <1>5, <1>6, <1>8, <1>9 DEF Inv

LEMMA ContextStep == ASSUME Inv, ContextStale PROVE Inv'
<1>1. UNCHANGED <<task, ops, delivery, tree, run, drives, floor, regates>> /\ stale' = TRUE
  BY DEF ContextStale
<1>2. faults' \in 0 .. MaxFaults
  BY FaultCounts DEF ContextStale
<1>3. TypeOK' /\ RowMoves
  BY <1>1, <1>2, Typed, TypedNext DEF Inv, RowMoves
<1>. QED
  BY <1>1, <1>3, QuietStep

\* What an edit, its undoing or a crash leaves of an operation.
LEMMA AllOps ==
  ASSUME Inv, ops' \in [Attempts -> OpType], OpsOK', TypeOK', DriveOK',
         UNCHANGED <<task, floor>>,
         \A n \in Attempts : ops'[n].phase = ops[n].phase /\ ops'[n].proc = ops[n].proc
                             /\ ops'[n].result = ops[n].result
  PROVE  Inv'
<1>1. RowMoves
  BY DEF RowMoves
<1>2. \A n \in Attempts : Active(ops'[n]) => Active(ops[n])
  BY DEF Active
<1>. QED
  BY <1>1, <1>2, PlainStep

LEMMA EditStep == ASSUME Inv, Edit PROVE Inv'
<1>1. ops \in [Attempts -> OpType] /\ tree' = "other"
      /\ UNCHANGED <<task, delivery, stale, run, drives, floor, regates>>
  BY Typed DEF Inv, Edit
<1>2. ASSUME NEW n \in Attempts
      PROVE  /\ ops'[n] \in OpType /\ ops'[n].phase = ops[n].phase /\ ops'[n].proc = ops[n].proc
             /\ ops'[n].result = ops[n].result /\ ops'[n].facts = ops[n].facts
             /\ ops[n].proc # "running" => ops'[n].pure = ops[n].pure
  <2>1. ops[n] \in OpType
    BY <1>1
  <2>2. ops'[n] = IF ops[n].proc = "running" THEN [ops[n] EXCEPT !.pure = FALSE] ELSE ops[n]
    BY DEF Edit
  <2>. QED  BY <2>1, <2>2 DEF OpType
<1>3. ops' \in [Attempts -> OpType]
  <2>1. ops' = [n \in Attempts |-> ops'[n]]
    BY DEF Edit
  <2>. QED  BY <1>2, <2>1
<1>4. OpsOK'
  <2> SUFFICES ASSUME NEW n \in Attempts PROVE OpOK(n, ops[n])'
    BY DEF OpsOK
  <2>1. OpOK(n, ops[n])
    BY DEF Inv, OpsOK
  <2>2. ops[n].result = "pass" => ops[n].proc # "running"
    BY <2>1 DEF OpOK, PassEarned
  <2>. QED  BY <1>1, <1>2, <2>1, <2>2 DEF OpOK, PassEarned
<1>5. faults' \in 0 .. MaxFaults
  BY FaultCounts DEF Edit
<1>6. TypeOK' /\ DriveOK'
  BY <1>1, <1>3, <1>5, Typed, TypedNext DEF Inv, DriveOK
<1>. QED
  BY <1>1, <1>2, <1>3, <1>4, <1>6, AllOps

LEMMA RestoreStep == ASSUME Inv, Restore PROVE Inv'
<1>1. tree' = "candidate" /\ UNCHANGED <<task, ops, delivery, stale, run, drives, floor, regates, faults>>
      /\ \A n \in Attempts : ops[n].phase \in {"none"} \cup Terminal
  BY DEF Restore
<1>2. TypeOK' /\ DriveOK' /\ ops' \in [Attempts -> OpType]
  BY <1>1, Typed, TypedNext DEF Inv, DriveOK
<1>3. OpsOK'
  <2> SUFFICES ASSUME NEW n \in Attempts PROVE OpOK(n, ops[n])'
    BY DEF OpsOK
  <2>1. OpOK(n, ops[n]) /\ ops[n].phase \notin {"prepared", "parked"}
    BY <1>1 DEF Inv, OpsOK, Terminal
  <2>. QED  BY <1>1, <2>1 DEF OpOK, PassEarned
<1>. QED
  BY <1>1, <1>2, <1>3, AllOps

LEMMA CrashStep == ASSUME Inv, Crash PROVE Inv'
<1>1. ops \in [Attempts -> OpType]
      /\ UNCHANGED <<task, delivery, tree, stale, run, floor, regates>>
  BY Typed DEF Inv, Crash
<1>2. NoFacts \in [attempt : -1 .. MaxAttempt + 1, stale : BOOLEAN, clean : BOOLEAN]
  BY GateAssumption DEF NoFacts
<1>3. ASSUME NEW n \in Attempts
      PROVE  /\ ops'[n] \in OpType /\ ops'[n].phase = ops[n].phase /\ ops'[n].proc = ops[n].proc
             /\ ops'[n].result = ops[n].result /\ ops'[n].facts = NoFacts
             /\ ops'[n].pure = ops[n].pure
  <2>1. ops[n] \in OpType
    BY <1>1
  <2>2. ops'[n] = [ops[n] EXCEPT !.facts = NoFacts]
    BY DEF Crash
  <2>. QED  BY <1>2, <2>1, <2>2 DEF OpType
<1>4. ops' \in [Attempts -> OpType]
  <2>1. ops' = [n \in Attempts |-> ops'[n]]
    BY DEF Crash
  <2>. QED  BY <1>3, <2>1
<1>5. OpsOK'
  <2> SUFFICES ASSUME NEW n \in Attempts PROVE OpOK(n, ops[n])'
    BY DEF OpsOK
  <2>1. OpOK(n, ops[n])
    BY DEF Inv, OpsOK
  <2>. QED  BY <1>1, <1>3, <2>1 DEF OpOK, PassEarned
<1>6. faults' \in 0 .. MaxFaults
  BY FaultCounts DEF Crash
<1>7. drives' \in [Drives -> DriveType] /\ DriveOK'
  BY IdleDriveType DEF Crash, DriveOK
<1>8. TypeOK'
  BY <1>1, <1>4, <1>6, <1>7, Typed, TypedNext DEF Inv
<1>. QED
  BY <1>1, <1>3, <1>4, <1>5, <1>7, <1>8, AllOps

-----------------------------------------------------------------------------
(* The theorems.                                                           *)

LEMMA InitInv == ASSUME Init PROVE Inv
<1>1. NoFacts \in [attempt : -1 .. MaxAttempt + 1, stale : BOOLEAN, clean : BOOLEAN]
  BY GateAssumption DEF NoFacts
<1>2. NoOp \in OpType /\ NoOp.phase = "none" /\ NoOp.facts = NoFacts /\ NoOp.result = "none"
      /\ NoOp.proc = "none"
  BY <1>1 DEF NoOp, OpType
<1>3. 0 \in 0 .. MaxAttempt /\ 0 \in 0 .. MaxAttempt + 1 /\ 0 \in 0 .. MaxRegates /\ 0 \in 0 .. MaxFaults
  BY GateAssumption
<1>4. task \in TaskType /\ task.status = "verifying" /\ task.verdict = 0 /\ floor = 0
  BY <1>3 DEF Init, TaskType
<1>5. TypeOK
  BY <1>2, <1>3, <1>4, IdleDriveType, Typed DEF Init
<1>6. \A n \in Attempts : ops[n] = NoOp
  BY DEF Init
<1>7. OpsOK /\ OneActive
  BY <1>2, <1>6 DEF OpsOK, OpOK, OneActive, Active
<1>8. RowOK
  BY <1>4 DEF RowOK, VerdictIsFresh
<1>9. DriveOK
  BY IdleDriveType DEF Init, DriveOK
<1>. QED
  BY <1>5, <1>7, <1>8, <1>9 DEF Inv

LEMMA NextInv == ASSUME Inv, [Next]_vars PROVE Inv'
<1>1. CASE UNCHANGED vars
  <2>1. RowMoves /\ UNCHANGED <<ops, tree, run, drives, floor>>
    BY <1>1 DEF vars, RowMoves
  <2>2. TypeOK'
    BY <1>1, Typed, TypedNext DEF Inv, vars
  <2>. QED  BY <2>1, <2>2, QuietStep
<1>2. ASSUME NEW d \in Drives, DriveStep(d) PROVE Inv'
  BY <1>2, DriveStepInv, SubmitStep, ReconcileStep DEF DriveStep
<1>3. ASSUME NEW n \in Attempts, OpStep(n) \/ OpFault(n) PROVE Inv'
  BY <1>3, BeforeTheBump, ApplyStep, AfterTheBump, VerdictStep DEF OpStep, OpFault
<1>. QED
  BY <1>1, <1>2, <1>3, DeliveryStep, RegateStep, ContextStep, EditStep, RestoreStep, CrashStep DEF Next

\* The inductive invariant holds in every reachable state.
THEOREM Invariance == Spec => []Inv
<1>1. Init => Inv
  BY InitInv
<1>2. Inv /\ [Next]_vars => Inv'
  BY NextInv
<1>. QED
  BY <1>1, <1>2, PTL DEF Spec

\* At most one gate process is at work in the checkout, a verdict is of this
\* re-run, and a done task's candidate passed a gate that saw nothing but the
\* candidate or a run of the worker's on it (drive_gate, regate_in_tx, target.rs).
THEOREM GateVerdictIsSound == Spec => []VerdictIsSound
<1>1. ASSUME Inv PROVE VerdictIsSound
  <2> DEFINE R == {n \in Attempts : ops[n].proc = "running"}
  <2>1. \A n, m \in R : n = m
    BY <1>1 DEF Inv, OneActive, Active
  <2>2. Cardinality(R) \in {0, 1}
    <3> HIDE DEF R
    <3>1. CASE R = {}
      BY <3>1, FS_EmptySet
    <3>2. CASE R # {}
      <4>1. PICK n : R = {n}
        BY <2>1, <3>2
      <4>. QED  BY <4>1, FS_Singleton
    <3>. QED  BY <3>1, <3>2
  <2>3. OneGateProcess
    BY <2>2 DEF OneGateProcess
  <2>4. DoneIsEarned
    <3> SUFFICES ASSUME task.status = "done"
                 PROVE  \/ /\ ops[task.verdict].phase = "succeeded" /\ ops[task.verdict].result = "pass"
                           /\ ops[task.verdict].proc = "settled" /\ ops[task.verdict].pure
                        \/ /\ task.verdict = 1 /\ ops[task.verdict].result = "pass" /\ run = "passed"
                           /\ ops[task.verdict].proc = "none"
      BY DEF DoneIsEarned
    <3>1. task.verdict \in Attempts /\ ops[task.verdict].result = "pass"
      BY <1>1 DEF Inv, RowOK
    <3>2. OpOK(task.verdict, ops[task.verdict])
      BY <1>1, <3>1 DEF Inv, OpsOK
    <3>. QED  BY <3>1, <3>2 DEF OpOK, PassEarned
  <2>. QED
    BY <1>1, <2>3, <2>4 DEF VerdictIsSound, Inv, RowOK
<1>. QED
  BY <1>1, Invariance, PTL

\* A verdict stands until a re-run is asked for, and a done task is never re-run
\* (the guard of task_apply_gate_result_tx and regate_in_tx).
THEOREM VerdictsStand == Spec => VerdictStands
<1>1. ASSUME Inv, [Next]_vars, task.status # "verifying"
      PROVE  \/ UNCHANGED task
             \/ task.status = "failed" /\ task'.status = "verifying" /\ regates' = regates + 1
  <2>1. CASE Regate
    <3>1. task' = [status |-> "verifying", attempt |-> Reserved, class |-> "none", verdict |-> 0]
          /\ task.status = "failed" /\ regates' = regates + 1
      BY <2>1 DEF Regate
    <3>. QED  BY <3>1
  <2>2. CASE UNCHANGED vars
    BY <2>2 DEF vars
  <2>3. CASE DeliverySettles
    BY <1>1, <2>3 DEF DeliverySettles
  <2>4. CASE ContextStale \/ Edit \/ Restore \/ Crash
    BY <2>4 DEF ContextStale, Edit, Restore, Crash
  <2>5. ASSUME NEW d \in Drives, DriveStep(d) PROVE UNCHANGED task
    BY <1>1, <2>5 DEF DriveStep, List, Enter, NotAdmitted, Submit, Wait, Reconcile, CopyOutcome,
                      ApplyGateResult, GuardHits
  <2>6. ASSUME NEW n \in Attempts, OpFault(n) PROVE UNCHANGED task
    BY <2>6 DEF OpFault, PrepareFails, SpawnFails, Sticks
  <2>7. ASSUME NEW n \in Attempts, OpStep(n) PROVE UNCHANGED task
    BY <1>1, <2>7 DEF OpStep, Collect, Stale, Apply, SpawnNoOp, Admit, Park, ProcessSettles, Complete,
                      CompensateRow, Compensated, ApplyGateResult, GuardHits
  <2>. QED
    BY <1>1, <2>1, <2>2, <2>3, <2>4, <2>5, <2>6, <2>7 DEF Next
<1>2. Inv /\ [Next]_vars =>
        [task.status # "verifying" =>
           \/ UNCHANGED task
           \/ task.status = "failed" /\ task'.status = "verifying" /\ regates' = regates + 1]_vars
  BY <1>1
<1>. QED
  BY <1>2, Invariance, PTL DEF Spec, VerdictStands

=============================================================================
