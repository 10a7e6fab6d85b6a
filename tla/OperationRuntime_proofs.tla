----------------------- MODULE OperationRuntime_proofs -----------------------
(***************************************************************************)
(* The safety of the operation runtime, for any operations, adapters,      *)
(* sweepers and number of faults, and of keyed submission, which puts the  *)
(* rows there that the runtime drives.                                     *)
(***************************************************************************)
EXTENDS OperationRuntime, KeyedSubmission, FiniteSetTheorems, WellFoundedInduction, TLAPS

-----------------------------------------------------------------------------
(* The writes of the repository.                                           *)

Rows == RowType({})

\* What each repository write does to the fields the invariants speak of.
LEMMA RowWrites ==
  ASSUME NEW r \in Rows
  PROVE  /\ \A t \in Tokens : /\ Leased(r, t) \in Rows /\ RetryClaimed(r, t) \in Rows
                              /\ RetryPressed(r, t) \in Rows
         /\ \A p \in Phases : EnterPhase(r, p) \in Rows /\ Settle(r, p) \in Rows
         /\ EnterCompensating(r) \in Rows /\ EnterParked(r) \in Rows
         /\ Unleased(r) \in Rows /\ DeferUnclaimed(r) \in Rows /\ ReleasePending(r) \in Rows
         /\ \A q \in {"driver", "scheduler"} : Defer(r, q) \in Rows
         /\ \A d \in SUBSET Steps : RecordSteps(r, d) \in Rows
<1> USE RowAssumption DEF Rows, RowType, Phases, DrivablePhases, TerminalPhases
<1>1. ASSUME NEW t \in Tokens
      PROVE  Leased(r, t) \in Rows /\ RetryClaimed(r, t) \in Rows
  BY DEF Leased, RetryClaimed
<1>2. ASSUME NEW t \in Tokens PROVE RetryPressed(r, t) \in Rows
  <2>1. r.attempt + 1 \in Nat /\ "app_server_interact" \in Phases
    OBVIOUS
  <2> HIDE DEF Phases
  <2>. QED
    BY <2>1 DEF RetryPressed, Leased
<1>3. ASSUME NEW p \in Phases PROVE EnterPhase(r, p) \in Rows /\ Settle(r, p) \in Rows
  <2> HIDE DEF Phases
  <2>. QED
    BY DEF EnterPhase, Unleased, Settle
<1>4. EnterCompensating(r) \in Rows
  BY DEF EnterCompensating, EnterPhase, Unleased
<1>5. EnterParked(r) \in Rows
  BY DEF EnterParked, EnterPhase, Unleased
<1>6. Unleased(r) \in Rows
  BY DEF Unleased
<1>7. DeferUnclaimed(r) \in Rows
  BY DEF DeferUnclaimed, Unleased
<1>8. ReleasePending(r) \in Rows
  BY <1>6 DEF ReleasePending
<1>9. ASSUME NEW q \in {"driver", "scheduler"} PROVE Defer(r, q) \in Rows
  BY ZenonT(40) DEF Defer
<1>10. ASSUME NEW d \in SUBSET Steps PROVE RecordSteps(r, d) \in Rows
  BY DEF RecordSteps
<1>. QED
  BY <1>1, <1>2, <1>3, <1>4, <1>5, <1>6, <1>7, <1>8, <1>9, <1>10

\* The fields a claim leaves alone, and the ones a write clears.
LEMMA RowFields ==
  ASSUME NEW r \in Rows
  PROVE  /\ \A t \in Tokens :
              /\ Leased(r, t).phase = r.phase /\ Leased(r, t).owner = t
              /\ Leased(r, t).attempt = r.attempt /\ Leased(r, t).done = r.done
              /\ Leased(r, t).retryOwner = r.retryOwner
              /\ RetryClaimed(r, t).retryOwner = "scheduler"
              /\ RetryClaimed(r, t).phase = r.phase /\ RetryClaimed(r, t).owner = t
              /\ RetryClaimed(r, t).done = r.done
              /\ RetryClaimed(r, t).attempt = r.attempt
              /\ RetryPressed(r, t).phase = "app_server_interact"
              /\ RetryPressed(r, t).owner = t /\ RetryPressed(r, t).done = r.done
              /\ RetryPressed(r, t).attempt = r.attempt + 1
         /\ \A p \in Phases :
              /\ EnterPhase(r, p).phase = p /\ EnterPhase(r, p).attempt = r.attempt
              /\ Settle(r, p).phase = p /\ Settle(r, p).attempt = r.attempt
         /\ Unleased(r).phase = r.phase /\ Unleased(r).attempt = r.attempt
         /\ Unleased(r).done = r.done /\ Unleased(r).owner = NoOwner
         /\ Unleased(r).retryOwner = r.retryOwner
         /\ EnterCompensating(r).phase = "compensating"
         /\ EnterCompensating(r).attempt = r.attempt
         /\ EnterParked(r).phase = "parked" /\ EnterParked(r).attempt = r.attempt
         /\ DeferUnclaimed(r).phase = r.phase /\ DeferUnclaimed(r).attempt = r.attempt
         /\ DeferUnclaimed(r).done = r.done /\ DeferUnclaimed(r).owner = NoOwner
         /\ DeferUnclaimed(r).retryOwner = "scheduler"
         /\ ReleasePending(r).phase = r.phase /\ ReleasePending(r).attempt = r.attempt
         /\ ReleasePending(r).done = r.done
         /\ ReleasePending(r).owner \in {r.owner, NoOwner}
         /\ ReleasePending(r).retryOwner = r.retryOwner
         /\ \A q : /\ Defer(r, q).phase = r.phase /\ Defer(r, q).attempt = r.attempt
                   /\ Defer(r, q).retryOwner = q
         /\ \A d : /\ RecordSteps(r, d).phase = r.phase
                   /\ RecordSteps(r, d).attempt = r.attempt
                   /\ RecordSteps(r, d).retryOwner = r.retryOwner
                   /\ RecordSteps(r, d).owner = r.owner
                   /\ RecordSteps(r, d).done = d
  BY DEF Rows, RowType, Leased, Unleased, EnterPhase, EnterCompensating, EnterParked,
         Settle, DeferUnclaimed, RetryClaimed, RetryPressed, ReleasePending, Defer,
         RecordSteps

\* new_id is fresh.
LEMMA NewIdFresh == HasNewId => NewId \in Tokens /\ NewId \notin InUse
  BY DEF HasNewId, NewId

\* apply_compensation_steps picks a step of the plan that is not completed.
LEMMA NextStepIsOpen ==
  ASSUME NEW c, Steps \ c.done # {}
  PROVE  NextStep(c) \in Steps \ c.done
<1> DEFINE T == Steps \ c.done
           R == {q \in Nat \X Nat : q[1] < q[2]}
<1>1. T \subseteq Nat
  BY RowAssumption DEF Steps
<1>2. IsWellFoundedOn(R, Nat)
  BY NatLessThanWellFounded DEF OpToRel
<1>3. PICK x \in T : \A y \in T : <<y, x>> \notin R
  <2> HIDE DEF T, R
  <2>. QED
    BY <1>1, <1>2, WFMin DEF T
<1>4. \A y \in T : x <= y
  <2> SUFFICES ASSUME NEW y \in T PROVE x <= y
    OBVIOUS
  <2>1. x \in Nat /\ y \in Nat /\ <<y, x>> \notin R
    BY <1>1, <1>3
  <2>2. ~(y < x)
    BY <2>1
  <2>. QED
    BY <2>1, <2>2
<1>. QED
  BY <1>4 DEF NextStep, Min

-----------------------------------------------------------------------------
(* The inductive invariant.                                                *)

Working == {"effect", "write", "step"}

\* The turn has a claim in hand exactly while it works on one, all its claims
\* are of phases a driver may work on, and no two of one operation.
TurnOK ==
  /\ IF turn.pc \in Working THEN turn.cur \in Claims ELSE turn.cur = NoClaim
  /\ turn.pc = "step" => Steps \ turn.cur.done # {}
  /\ turn.pc = "write" /\ turn.res = "awaiting" => turn.cur.phase = "app_server_interact"
  /\ turn.pc = "write" /\ turn.cur.phase = "compensating" => turn.res \in {"advance", "fatal"}
  /\ turn.mode \in {"task", "exec"} => turn.op \in Ops
  /\ turn.mode # "drive" => turn.queue = {}
  /\ \A c \in turn.queue : c.phase \in DrivablePhases
  /\ \A c, d \in turn.queue : c.op = d.op => c = d
  /\ turn.pc \in Working => /\ turn.cur.phase \in DrivablePhases
                            /\ \A c \in turn.queue : c.op # turn.cur.op

\* The row of a claim c is in the phase it was claimed in, no step is recorded
\* that c does not know of, and if c is still the claim on a pending row of the
\* scheduler, then the turn is one of the scheduler's.
ClaimHolds(c) ==
  /\ row[c.op].phase = c.phase
  /\ row[c.op].done \subseteq c.done
  /\ c.phase = "pending" /\ row[c.op].owner = c.owner /\ row[c.op].retryOwner = "scheduler"
       => turn.mode = "task"

\* Nobody moves a row the turn holds a claim of, with or without a live lease.
HandOK ==
  /\ \A c \in turn.queue : ClaimHolds(c)
  /\ turn.pc \in Working => ClaimHolds(turn.cur)

\* A sweeper at work has an operation.
SweepOK == \A s \in Sweepers : sweep[s].pc # "idle" => sweep[s].op \in Ops

\* A row nobody may claim carries no lease; a deadline belongs to a row that
\* is or was parked; a parked row can be recovered.
RowInv(r) ==
  /\ Settled(r) \/ r.phase = "awaiting_retry" => r.owner = NoOwner /\ r.lease = "none"
  /\ r.deadline # "none" => r.phase \in {"parked", "compensating"}
  /\ r.phase = "parked" => r.artifacts = "recorded" /\ r.deadline # "none"

RowsOK == \A o \in Ops : RowInv(row[o])

\* The phases after which no process is spawned for the row.
PastSpawning == {"parked", "compensating"} \cup TerminalPhases

\* A sweeper's operation is not spawned any more, and its process is gone when
\* the sweeper is about to settle it.
GoneOK ==
  \A s \in Sweepers : sweep[s].pc # "idle" =>
    /\ row[sweep[s].op].phase \in PastSpawning
    /\ sweep[s].pc \in {"complete", "fail"} => proc[sweep[s].op] # "running"

IInv == TypeOK /\ TurnOK /\ SweepOK /\ RowsOK /\ HandOK /\ GoneOK

-----------------------------------------------------------------------------
(* What a step may do to the rows and the announced outcomes.              *)

\* From r to q, in one phase, no completed step is forgotten and a pending row
\* of the scheduler stays the scheduler's.
Keeps(r, q) ==
  /\ r.phase = "compensating" => r.done \subseteq q.done
  /\ r.phase = "pending" /\ r.retryOwner = "scheduler" => q.retryOwner = "scheduler"

\* A pending row of the scheduler is deferred or moved by a turn of its own.
SchedulersOwn(r, q) ==
  r.phase = "pending" /\ r.retryOwner = "scheduler" =>
    turn.mode = "task" /\ (q.phase = "pending" => q.retryOwner = "scheduler")

\* A compensating row can only settle, a parked one also be compensated, and it
\* settles after its process.
Winds(o, r, q) ==
  /\ r.phase = "compensating" => Settled(q)
  /\ r.phase = "parked" => q.phase = "compensating" \/ (Settled(q) /\ proc'[o] # "running")

\* Row x keeps its phase; if it is settled or awaits a retry, it is untouched.
Quiet(x) ==
  /\ row'[x] \in Rows /\ RowInv(row'[x])
  /\ row'[x].phase = row[x].phase /\ row'[x].attempt = row[x].attempt
  /\ Settled(row[x]) \/ row[x].phase = "awaiting_retry" => row'[x] = row[x]
  /\ Keeps(row[x], row'[x])
  /\ told'[x] = told[x]

\* Row o, not settled, goes to another phase; an outcome is announced.
Moves(o) ==
  /\ row'[o] \in Rows /\ RowInv(row'[o])
  /\ ~Settled(row[o])
  /\ IF row[o].phase = "awaiting_retry"
       THEN /\ row'[o].phase = "app_server_interact" /\ row'[o].attempt = row[o].attempt + 1
            /\ won'[o] = won[o] \cup {row[o].attempt}
       ELSE row'[o].attempt = row[o].attempt
  /\ SchedulersOwn(row[o], row'[o]) /\ Winds(o, row[o], row'[o])
  /\ told'[o] = IF Settled(row'[o]) THEN told[o] \cup {row'[o].phase} ELSE told[o]

RowStep ==
  /\ row' = [x \in Ops |-> row'[x]] /\ told' = [x \in Ops |-> told'[x]]
  /\ \/ \A x \in Ops : Quiet(x)
     \/ \E o \in Ops : Moves(o) /\ \A x \in Ops \ {o} : Quiet(x)

\* Nothing written, nothing announced.
LEMMA NoWrite == IInv /\ UNCHANGED <<row, told>> => RowStep
  BY DEF IInv, TypeOK, RowsOK, RowStep, Quiet, Keeps, Rows

\* A claim, a lease or a note written to a row that is neither settled nor
\* waiting for a retry.
LEMMA QuietWrite ==
  ASSUME IInv, NEW o \in Ops, NEW q \in Rows, RowInv(q),
         q.phase = row[o].phase, q.attempt = row[o].attempt,
         ~Settled(row[o]), row[o].phase # "awaiting_retry", Keeps(row[o], q),
         row' = [row EXCEPT ![o] = q], told' = told
  PROVE  RowStep
<1>1. \A x \in Ops \ {o} : Quiet(x)
  BY DEF IInv, TypeOK, RowsOK, Quiet, Keeps, Rows
<1>2. Quiet(o)
  BY DEF IInv, TypeOK, Quiet, Rows
<1>3. row' = [x \in Ops |-> row'[x]] /\ told' = [x \in Ops |-> told'[x]]
  BY DEF IInv, TypeOK
<1>. QED
  BY <1>1, <1>2, <1>3 DEF RowStep

\* One row goes to another phase.
LEMMA PhaseWrite ==
  ASSUME IInv, NEW o \in Ops, NEW q \in Rows, RowInv(q),
         ~Settled(row[o]), row[o].phase # "awaiting_retry",
         q.attempt = row[o].attempt, SchedulersOwn(row[o], q), Winds(o, row[o], q),
         row' = [row EXCEPT ![o] = q],
         told' = IF Settled(q) THEN [told EXCEPT ![o] = @ \cup {q.phase}] ELSE told
  PROVE  RowStep
<1>1. \A x \in Ops \ {o} : Quiet(x)
  BY DEF IInv, TypeOK, RowsOK, Quiet, Keeps, Rows
<1>2. Moves(o)
  BY DEF IInv, TypeOK, Moves, Rows
<1>3. row' = [x \in Ops |-> row'[x]] /\ told' = [x \in Ops |-> told'[x]]
  BY DEF IInv, TypeOK
<1>. QED
  BY <1>1, <1>2, <1>3 DEF RowStep

\* A live claim is on a row that is neither settled nor waiting for a retry.
LEMMA LiveIsOpen ==
  ASSUME NEW r, RowInv(r), NEW c, LiveClaim(r, c)
  PROVE  ~Settled(r) /\ r.phase # "awaiting_retry" /\ r.phase = c.phase
  BY DEF RowInv, LiveClaim

\* settle_claimed, set_phase and the other claimed writes of a turn.
LEMMA TurnWrite ==
  ASSUME IInv, turn.pc \in Working, NEW q \in Rows, RowInv(q),
         q.attempt = CurRow.attempt, ClaimedWrite(q),
         Cur.phase = "compensating" => Settled(q),
         q.phase = "pending" /\ turn.mode = "task" => q.retryOwner = "scheduler",
         told' = IF LiveClaim(CurRow, Cur) /\ Settled(q)
                   THEN [told EXCEPT ![Cur.op] = @ \cup {q.phase}] ELSE told
  PROVE  RowStep
<1>1. Cur.op \in Ops /\ Cur \in Claims
  BY DEF IInv, TurnOK, Cur, Claims
<1>2. CASE LiveClaim(CurRow, Cur)
  <2>1. ~Settled(row[Cur.op]) /\ row[Cur.op].phase # "awaiting_retry"
    BY <1>1, <1>2, LiveIsOpen DEF IInv, RowsOK, CurRow
  <2>2. row' = [row EXCEPT ![Cur.op] = q]
    BY <1>2 DEF ClaimedWrite
  <2>3. told' = IF Settled(q) THEN [told EXCEPT ![Cur.op] = @ \cup {q.phase}] ELSE told
    BY <1>2
  <2>4. /\ CurRow.phase = Cur.phase /\ CurRow.owner = Cur.owner
        /\ Cur.phase \in DrivablePhases /\ ClaimHolds(Cur)
    BY <1>2 DEF IInv, TurnOK, HandOK, LiveClaim, Cur
  <2>5. SchedulersOwn(row[Cur.op], q)
    BY <2>4 DEF SchedulersOwn, ClaimHolds, CurRow
  <2>6. Winds(Cur.op, row[Cur.op], q)
    BY <2>4 DEF Winds, CurRow, DrivablePhases
  <2>. QED
    BY <1>1, <2>1, <2>2, <2>3, <2>5, <2>6, PhaseWrite DEF CurRow
<1>3. CASE ~LiveClaim(CurRow, Cur)
  BY <1>3, NoWrite DEF ClaimedWrite
<1>. QED
  BY <1>2, <1>3

\* The repository writes keep the row invariant.
LEMMA RowKeeps ==
  ASSUME NEW r \in Rows, RowInv(r)
  PROVE  /\ ~Settled(r) /\ r.phase # "awaiting_retry" =>
              /\ \A t \in Tokens : RowInv(Leased(r, t)) /\ RowInv(RetryClaimed(r, t))
              /\ \A q : RowInv(Defer(r, q))
         /\ RowInv(Unleased(r)) /\ RowInv(DeferUnclaimed(r)) /\ RowInv(ReleasePending(r))
         /\ \A d : RowInv(RecordSteps(r, d))
         /\ RowInv(EnterCompensating(r))
         /\ r.artifacts = "recorded" => RowInv(EnterParked(r))
         /\ \A p \in TerminalPhases : RowInv(Settle(r, p))
         /\ r.phase \notin {"parked", "compensating"} =>
              \A p \in Phases \ {"parked"} : RowInv(EnterPhase(r, p))
         /\ r.phase \notin {"parked", "compensating"} =>
              \A t \in Tokens : RowInv(RetryPressed(r, t))
<1> USE DEF Rows, RowType, RowInv, Settled, TerminalPhases
<1>1. ~Settled(r) /\ r.phase # "awaiting_retry" =>
              /\ \A t \in Tokens : RowInv(Leased(r, t)) /\ RowInv(RetryClaimed(r, t))
              /\ \A q : RowInv(Defer(r, q))
  BY DEF Leased, RetryClaimed, Defer
<1>2. RowInv(Unleased(r)) /\ RowInv(DeferUnclaimed(r)) /\ RowInv(ReleasePending(r))
  BY DEF Unleased, DeferUnclaimed, ReleasePending
<1>3. \A d : RowInv(RecordSteps(r, d))
  BY DEF RecordSteps
<1>4. RowInv(EnterCompensating(r)) /\ (r.artifacts = "recorded" => RowInv(EnterParked(r)))
  BY DEF EnterCompensating, EnterParked, EnterPhase, Unleased
<1>5. \A p \in TerminalPhases : RowInv(Settle(r, p))
  BY DEF Settle, EnterPhase, Unleased
<1>6. r.phase \notin {"parked", "compensating"} =>
        \A p \in Phases \ {"parked"} : RowInv(EnterPhase(r, p))
  BY DEF EnterPhase, Unleased
<1>7. r.phase \notin {"parked", "compensating"} =>
              \A t \in Tokens : RowInv(RetryPressed(r, t))
  BY DEF RetryPressed, Leased
<1>. QED
  BY <1>1, <1>2, <1>3, <1>4, <1>5, <1>6, <1>7

\* A lease taken on a row that is open.
LEMMA LeaseWrite ==
  ASSUME NEW r \in Rows, RowInv(r), ~Settled(r), r.phase # "awaiting_retry", NEW t \in Tokens
  PROVE  /\ Leased(r, t) \in Rows /\ RowInv(Leased(r, t))
         /\ Leased(r, t).phase = r.phase /\ Leased(r, t).attempt = r.attempt
         /\ Keeps(r, Leased(r, t))
<1>1. Leased(r, t) \in Rows
  BY RowWrites
<1>2. RowInv(Leased(r, t))
  BY RowKeeps
<1>3. Keeps(r, Leased(r, t))
  BY RowFields DEF Keeps
<1>. QED
  BY <1>1, <1>2, <1>3, RowFields

\* A lease given up, a backoff released or a deferral noted on a row that is open.
LEMMA NoteWrite ==
  ASSUME NEW r \in Rows, RowInv(r)
  PROVE  \A q \in {Unleased(r), DeferUnclaimed(r), ReleasePending(r)} :
           /\ q \in Rows /\ RowInv(q) /\ q.phase = r.phase /\ q.attempt = r.attempt
           /\ Keeps(r, q)
<1>1. Unleased(r) \in Rows /\ DeferUnclaimed(r) \in Rows /\ ReleasePending(r) \in Rows
  BY RowWrites
<1>2. RowInv(Unleased(r)) /\ RowInv(DeferUnclaimed(r)) /\ RowInv(ReleasePending(r))
  BY RowKeeps
<1>3. Keeps(r, Unleased(r)) /\ Keeps(r, DeferUnclaimed(r)) /\ Keeps(r, ReleasePending(r))
  BY RowFields DEF Keeps
<1>4. /\ Unleased(r).phase = r.phase /\ Unleased(r).attempt = r.attempt
      /\ DeferUnclaimed(r).phase = r.phase /\ DeferUnclaimed(r).attempt = r.attempt
      /\ ReleasePending(r).phase = r.phase /\ ReleasePending(r).attempt = r.attempt
  BY RowFields
<1>. QED
  BY <1>1, <1>2, <1>3, <1>4

\* Every action's writes: at most one row changes its phase, a settled one never.
LEMMA NextRowStep == IInv /\ Next => RowStep
<1> SUFFICES ASSUME IInv, Next PROVE RowStep
  OBVIOUS
<1> USE DEF Rows
<1>a. /\ row \in [Ops -> Rows] /\ told \in [Ops -> SUBSET TerminalPhases]
      /\ \A o \in Ops : row[o] \in Rows /\ RowInv(row[o])
  BY DEF IInv, TypeOK, RowsOK
<1>b. HasNewId => NewId \in Tokens
  BY NewIdFresh
<1> HIDE DEF Rows
<1>1. CASE ClaimBatch
  <2> DEFINE batch == {o \in Ops : Drivable(row[o])}
  <2>1. /\ row' = [o \in Ops |-> IF o \in batch THEN Leased(row[o], NewId) ELSE row[o]]
        /\ told' = told /\ NewId \in Tokens
    BY <1>1, <1>b DEF ClaimBatch
  <2>2. ASSUME NEW x \in Ops PROVE Quiet(x)
    <3>1. CASE x \in batch
      <4>1. ~Settled(row[x]) /\ row[x].phase # "awaiting_retry"
        BY <3>1 DEF Drivable, DrivablePhases, Settled, TerminalPhases
      <4>2. row'[x] = Leased(row[x], NewId) /\ told'[x] = told[x]
        BY <2>1, <3>1
      <4>. QED
        BY <1>a, <2>1, <4>1, <4>2, LeaseWrite DEF Quiet
    <3>2. CASE x \notin batch
      BY <1>a, <2>1, <3>2 DEF Quiet, Keeps
    <3>. QED
      BY <3>1, <3>2
  <2>. QED
    BY <1>a, <2>1, <2>2 DEF RowStep
<1>2. ASSUME NEW o \in Ops, TaskBusy(o) PROVE RowStep
  <2>1. row[o].phase = "pending"
    BY <1>2 DEF TaskBusy, Unclaimed
  <2>2. row' = [row EXCEPT ![o] = DeferUnclaimed(row[o])] /\ told' = told
    BY <1>2 DEF TaskBusy
  <2>. QED
    BY <1>a, <2>1, <2>2, QuietWrite, NoteWrite DEF Settled, TerminalPhases
<1>3. CASE ExactClaim
  <2> DEFINE o == turn.op
             adopt == turn.mode = "task" /\ turn.visited = {} /\ PendingRetryable(row[o])
             q == IF adopt THEN RetryClaimed(row[o], NewId) ELSE Leased(row[o], NewId)
  <2>1. o \in Ops /\ NewId \in Tokens
    BY <1>3, <1>b DEF ExactClaim, IInv, TurnOK
  <2>2. ~Settled(row[o]) /\ row[o].phase # "awaiting_retry"
    BY <1>3 DEF ExactClaim, PendingRetryable, Drivable, DrivablePhases, Settled, TerminalPhases
  <2>3. row' = [row EXCEPT ![o] = q] /\ told' = told
    BY <1>3 DEF ExactClaim
  <2>4. q \in Rows /\ RowInv(q) /\ q.phase = row[o].phase /\ q.attempt = row[o].attempt
    <3>1. row[o] \in Rows /\ RowInv(row[o])
      BY <1>a, <2>1
    <3>2. RetryClaimed(row[o], NewId) \in Rows /\ RowInv(RetryClaimed(row[o], NewId))
      BY <2>1, <2>2, <3>1, RowWrites, RowKeeps
    <3>3. /\ RetryClaimed(row[o], NewId).phase = row[o].phase
          /\ RetryClaimed(row[o], NewId).attempt = row[o].attempt
      BY <2>1, <3>1, RowFields
    <3>. QED
      BY <2>1, <2>2, <3>1, <3>2, <3>3, LeaseWrite
  <2>5. Keeps(row[o], q)
    BY <1>a, <2>1, RowFields DEF Keeps
  <2> HIDE DEF o, q
  <2>. QED
    BY <2>1, <2>2, <2>3, <2>4, <2>5, QuietWrite
<1>4. CASE ExactUnclaimable
  <2>1. turn.op \in Ops
    BY <1>4 DEF ExactUnclaimable, IInv, TurnOK
  <2>2. CASE row' = row
    BY <1>4, <2>2, NoWrite DEF ExactUnclaimable
  <2>3. CASE Unclaimed(row[turn.op]) /\ row' = [row EXCEPT ![turn.op] = DeferUnclaimed(row[turn.op])]
    <3>1. row[turn.op].phase = "pending" /\ told' = told
      BY <1>4, <2>3 DEF ExactUnclaimable, Unclaimed
    <3>. QED
      BY <1>a, <2>1, <2>3, <3>1, QuietWrite, NoteWrite DEF Settled, TerminalPhases
  <2>. QED
    BY <1>4, <2>2, <2>3 DEF ExactUnclaimable
<1>5. ASSUME NEW o \in Ops, NEW a \in 0 .. MaxAttempts, PressRetry(o, a) PROVE RowStep
  <2> DEFINE q == RetryPressed(row[o], NewId)
  <2>1. /\ NewId \in Tokens /\ row[o].phase = "awaiting_retry"
        /\ row' = [row EXCEPT ![o] = q] /\ told' = told
        /\ won'[o] = won[o] \cup {row[o].attempt}
    BY <1>5, <1>b DEF PressRetry, RetryWon, IInv, TypeOK
  <2>2. /\ q \in Rows /\ RowInv(q) /\ q.phase = "app_server_interact"
        /\ q.attempt = row[o].attempt + 1
    BY <1>a, <2>1, RowWrites, RowFields, RowKeeps, ZenonT(40)
  <2> HIDE DEF q
  <2>3. Moves(o)
    BY <1>a, <2>1, <2>2 DEF Moves, Settled, TerminalPhases, SchedulersOwn, Winds
  <2>4. ASSUME NEW x \in Ops \ {o} PROVE Quiet(x)
    BY <1>a, <2>1 DEF Quiet, Keeps
  <2>. QED
    BY <1>a, <2>1, <2>3, <2>4 DEF RowStep
<1>6. ASSUME NEW o \in Ops, BootRecover(o) PROVE RowStep
  <2>1. CASE BootDrivable(row[o])
    <3>1. /\ NewId \in Tokens /\ row' = [row EXCEPT ![o] = Leased(row[o], NewId)]
          /\ told' = told
      BY <1>6, <1>b, <2>1 DEF BootRecover
    <3>2. ~Settled(row[o]) /\ row[o].phase # "awaiting_retry"
      BY <2>1 DEF BootDrivable, DrivablePhases, Settled, TerminalPhases
    <3>. QED
      BY <1>a, <3>1, <3>2, QuietWrite, LeaseWrite
  <2>2. CASE ~BootDrivable(row[o])
    BY <1>6, <2>2, NoWrite DEF BootRecover
  <2>. QED
    BY <2>1, <2>2
<1>7. CASE SpawnParked
  <2> DEFINE o == Cur.op
             q == [row[o] EXCEPT !.artifacts = "recorded"]
  <2>1. o \in Ops
    BY <1>7 DEF SpawnParked, IInv, TurnOK, Working, Claims, Cur
  <2>2. CASE row' = row
    BY <1>7, <2>2, NoWrite DEF SpawnParked
  <2>3. CASE LiveClaim(row[o], Cur) /\ row' = [row EXCEPT ![o].artifacts = "recorded"]
    <3>1. ~Settled(row[o]) /\ row[o].phase # "awaiting_retry"
      BY <1>a, <2>1, <2>3, LiveIsOpen
    <3>2. /\ q \in Rows /\ RowInv(q) /\ q.phase = row[o].phase /\ q.attempt = row[o].attempt
          /\ Keeps(row[o], q)
      BY <1>a, <2>1, <3>1 DEF Rows, RowType, RowInv, Settled, Keeps
    <3>3. row' = [row EXCEPT ![o] = q] /\ told' = told
      BY <1>7, <1>a, <2>1, <2>3 DEF SpawnParked
    <3> HIDE DEF q, o
    <3>. QED
      BY <2>1, <3>1, <3>2, <3>3, QuietWrite
  <2>4. (row' = row) \/ (LiveClaim(row[o], Cur) /\ row' = [row EXCEPT ![o].artifacts = "recorded"])
    <3>1. PICK kept \in BOOLEAN :
            /\ kept => LiveClaim(row[o], Cur)
            /\ row' = [row EXCEPT ![o].artifacts = IF kept THEN "recorded" ELSE @]
      BY <1>7 DEF SpawnParked, CurRow, Cur
    <3>2. CASE kept
      BY <3>1, <3>2
    <3>3. CASE ~kept
      BY <1>a, <2>1, <3>1, <3>3 DEF Rows, RowType
    <3>. QED
      BY <3>2, <3>3
  <2>. QED
    BY <2>2, <2>3, <2>4
<1>8. CASE \/ WriteAdvance \/ WriteFailure \/ WriteCompensating \/ WriteAwaiting
          \/ WriteParked \/ WriteDeferral
  <2>0. turn.pc = "write" /\ Cur.op \in Ops
    BY <1>8 DEF WriteAdvance, WriteFailure, WriteCompensating, WriteAwaiting, WriteParked,
       WriteDeferral, IInv, TurnOK, Working, Claims, Cur
  <2>a. turn.pc \in Working /\ CurRow \in Rows /\ RowInv(CurRow) /\ Cur.phase \in DrivablePhases
    BY <1>a, <2>0 DEF Working, CurRow, IInv, TurnOK, Cur
  <2>b. LiveClaim(CurRow, Cur) => CurRow.phase = Cur.phase
    BY DEF LiveClaim
  <2>c. Cur.phase = "compensating" => turn.res \in {"advance", "fatal"}
    BY <2>0 DEF IInv, TurnOK, Cur
  <2>1. ASSUME NEW p \in TerminalPhases, ClaimedSettle(p) PROVE RowStep
    <3>1. /\ Settle(CurRow, p) \in Rows /\ RowInv(Settle(CurRow, p))
          /\ Settle(CurRow, p).phase = p /\ Settle(CurRow, p).attempt = CurRow.attempt
      BY <2>a, RowWrites, RowFields, RowKeeps DEF Phases
    <3>2. Settled(Settle(CurRow, p)) /\ p # "pending"
      BY <3>1 DEF Settled, TerminalPhases
    <3>. QED
      BY <2>a, <2>1, <3>1, <3>2, TurnWrite DEF ClaimedSettle
  <2>2. CASE WriteAdvance
    <3> DEFINE p == NextPhase(Cur.op, Cur.phase)
    <3>1. CASE p \in TerminalPhases
      BY <2>1, <2>2, <3>1 DEF WriteAdvance
    <3>2. CASE p \notin TerminalPhases
      <4>1. /\ p \in Phases \ {"parked", "pending"}
            /\ Cur.phase \notin {"parked", "compensating"}
        BY <2>a, <3>2 DEF NextPhase, Phases, DrivablePhases, TerminalPhases
      <4>2. CASE LiveClaim(CurRow, Cur)
        <5>1. /\ EnterPhase(CurRow, p) \in Rows /\ RowInv(EnterPhase(CurRow, p))
              /\ EnterPhase(CurRow, p).phase = p
              /\ EnterPhase(CurRow, p).attempt = CurRow.attempt
          BY <2>a, <2>b, <4>1, <4>2, RowWrites, RowFields, RowKeeps
        <5>2. ~Settled(EnterPhase(CurRow, p))
          BY <3>2, <5>1 DEF Settled
        <5>3. ClaimedWrite(EnterPhase(CurRow, p)) /\ told' = told
          BY <2>2, <3>2 DEF WriteAdvance
        <5>. QED
          BY <2>a, <4>1, <5>1, <5>2, <5>3, TurnWrite
      <4>3. CASE ~LiveClaim(CurRow, Cur)
        BY <2>2, <3>2, <4>3, NoWrite DEF WriteAdvance, ClaimedWrite
      <4>. QED
        BY <4>2, <4>3
    <3>. QED
      BY <3>1, <3>2
  <2>3. CASE WriteFailure
    BY <2>1, <2>3 DEF WriteFailure, TerminalPhases
  <2>4. CASE WriteCompensating
    <3>1. /\ EnterCompensating(CurRow) \in Rows /\ RowInv(EnterCompensating(CurRow))
          /\ EnterCompensating(CurRow).phase = "compensating"
          /\ EnterCompensating(CurRow).attempt = CurRow.attempt
      BY <2>a, RowWrites, RowFields, RowKeeps
    <3>2. ~Settled(EnterCompensating(CurRow))
      BY <3>1 DEF Settled, TerminalPhases
    <3>3. Cur.phase # "compensating"
      BY <2>c, <2>4 DEF WriteCompensating
    <3>. QED
      BY <2>a, <2>4, <3>1, <3>2, <3>3, TurnWrite DEF WriteCompensating
  <2>5. CASE WriteAwaiting
    <3> DEFINE q == EnterPhase(CurRow, "awaiting_retry")
    <3>1. CASE LiveClaim(CurRow, Cur)
      <4>1. CurRow.phase = "app_server_interact" /\ "awaiting_retry" \in Phases \ {"parked"}
        BY <2>0, <2>b, <2>5, <3>1 DEF WriteAwaiting, IInv, TurnOK, Cur, Phases
      <4>2. q \in Rows /\ RowInv(q) /\ q.phase = "awaiting_retry" /\ q.attempt = CurRow.attempt
        BY <2>a, <4>1, RowWrites, RowFields, RowKeeps, ZenonT(40)
      <4>3. ~Settled(q)
        BY <4>2 DEF Settled, TerminalPhases
      <4>4. ClaimedWrite(q) /\ told' = told
        BY <2>5 DEF WriteAwaiting
      <4> HIDE DEF q
      <4>. QED
        BY <2>a, <2>b, <3>1, <4>1, <4>2, <4>3, <4>4, TurnWrite
    <3>2. CASE ~LiveClaim(CurRow, Cur)
      BY <2>5, <3>2, NoWrite DEF WriteAwaiting, ClaimedWrite
    <3>. QED
      BY <3>1, <3>2
  <2>6. CASE WriteParked
    <3> DEFINE q == IF CurRow.artifacts = "recorded" THEN EnterParked(CurRow)
                    ELSE EnterCompensating(CurRow)
    <3>1. /\ q \in Rows /\ RowInv(q) /\ q.attempt = CurRow.attempt
          /\ q.phase \in {"parked", "compensating"}
      BY <2>a, RowWrites, RowFields, RowKeeps
    <3>2. ~Settled(q)
      BY <3>1 DEF Settled, TerminalPhases
    <3>3. ClaimedWrite(q) /\ told' = told
      BY <2>6 DEF WriteParked
    <3>4. Cur.phase # "compensating"
      BY <2>c, <2>6 DEF WriteParked
    <3> HIDE DEF q
    <3>. QED
      BY <2>a, <3>1, <3>2, <3>3, <3>4, TurnWrite
  <2>7. CASE WriteDeferral
    <3> DEFINE retryOwner == IF turn.mode = "task" THEN "scheduler" ELSE "driver"
               q == IF turn.res = "stale" /\ retryOwner = "driver"
                      THEN CurRow ELSE Defer(CurRow, retryOwner)
    <3>1. ClaimedWrite(q) /\ told' = told
      BY <2>7 DEF WriteDeferral
    <3>2. CASE LiveClaim(CurRow, Cur)
      <4>1. ~Settled(CurRow) /\ CurRow.phase # "awaiting_retry"
        BY <2>a, <3>2, LiveIsOpen
      <4> DEFINE Good(x) == /\ x \in Rows /\ RowInv(x)
                            /\ x.attempt = CurRow.attempt /\ x.phase = CurRow.phase
      <4>2. Good(q)
        <5>1. CASE q = CurRow
          BY <2>a, <5>1
        <5>2. ASSUME NEW w \in {"driver", "scheduler"}, q = Defer(CurRow, w)
              PROVE  Good(q)
          <6>1. Defer(CurRow, w) \in Rows /\ RowInv(Defer(CurRow, w))
            BY <2>a, <4>1, RowWrites, RowKeeps
          <6>. QED
            BY <2>a, <5>2, <6>1, RowFields
        <5>. QED
          BY <5>1, <5>2
      <4>3. ~Settled(q)
        BY <4>1, <4>2 DEF Settled
      <4>4. Cur.phase # "compensating"
        BY <2>c, <2>7 DEF WriteDeferral
      <4>5. turn.mode = "task" => q.retryOwner = "scheduler"
        BY <2>a, RowFields
      <4> HIDE DEF q
      <4>. QED
        BY <2>a, <3>1, <4>2, <4>3, <4>4, <4>5, TurnWrite
    <3>3. CASE ~LiveClaim(CurRow, Cur)
      BY <3>1, <3>3, NoWrite DEF ClaimedWrite
    <3>. QED
      BY <3>2, <3>3
  <2>. QED
    BY <1>8, <2>2, <2>3, <2>4, <2>5, <2>6, <2>7
<1>9. CASE StepWrite
  <2> DEFINE d == Cur.done \cup {NextStep(Cur)}
             q == RecordSteps(CurRow, d)
  <2>1. /\ Cur \in Claims /\ Cur.op \in Ops /\ Steps \ Cur.done # {}
        /\ CurRow \in Rows /\ RowInv(CurRow)
    BY <1>a, <1>9 DEF StepWrite, IInv, TurnOK, Working, Claims, Cur, CurRow
  <2>2. CASE row' = row
    BY <1>9, <2>2, NoWrite DEF StepWrite
  <2>3. CASE LiveClaim(CurRow, Cur) /\ row' = [row EXCEPT ![Cur.op] = q]
    <3>1. ~Settled(CurRow) /\ CurRow.phase # "awaiting_retry" /\ told' = told
      BY <1>9, <2>1, <2>3, LiveIsOpen DEF StepWrite
    <3>2. d \in SUBSET Steps /\ CurRow.done \subseteq d
      <4>1. d \in SUBSET Steps
        BY <2>1, NextStepIsOpen DEF Claims
      <4>2. ClaimHolds(Cur)
        BY <1>9 DEF StepWrite, IInv, HandOK, Working, Cur
      <4>. QED
        BY <4>1, <4>2 DEF ClaimHolds, CurRow
    <3> HIDE DEF d
    <3>3. q \in Rows /\ RowInv(q) /\ q.phase = CurRow.phase /\ q.attempt = CurRow.attempt
      <4>1. q \in Rows
        BY <2>1, <3>2, RowWrites
      <4>2. RowInv(q)
        BY <2>1, RowKeeps
      <4>. QED
        BY <2>1, <4>1, <4>2, RowFields
    <3>4. Keeps(CurRow, q)
      BY <2>1, <3>2, RowFields DEF Keeps
    <3> HIDE DEF q
    <3>. QED
      BY <2>1, <2>3, <3>1, <3>3, <3>4, QuietWrite DEF CurRow
  <2>. QED
    BY <1>9, <2>2, <2>3 DEF StepWrite, CurRow
<1>10. ASSUME NEW o \in Ops, WakerRelease(o) PROVE RowStep
  <2>1. row' = [row EXCEPT ![o] = ReleasePending(row[o])] /\ told' = told
    BY <1>10 DEF WakerRelease
  <2>2. CASE Unclaimed(row[o])
    <3>1. ~Settled(row[o]) /\ row[o].phase # "awaiting_retry"
      BY <2>2 DEF Unclaimed, Settled, TerminalPhases
    <3>. QED
      BY <1>a, <2>1, <3>1, QuietWrite, NoteWrite
  <2>3. CASE ~Unclaimed(row[o])
    BY <1>a, <2>1, <2>3, NoWrite DEF ReleasePending
  <2>. QED
    BY <2>2, <2>3
<1>11. ASSUME NEW o \in Ops, NEW p \in TerminalPhases, CompleteParked(o, p),
              row[o].phase = "parked" => proc'[o] # "running"
       PROVE  RowStep
  <2>1. CASE row[o].phase = "parked"
    <3> DEFINE q == Settle(row[o], p)
    <3>1. q \in Rows /\ RowInv(q) /\ q.phase = p /\ q.attempt = row[o].attempt
      BY <1>a, RowWrites, RowFields, RowKeeps DEF Phases
    <3>2. ~Settled(row[o]) /\ row[o].phase # "awaiting_retry" /\ Settled(q)
      BY <2>1, <3>1 DEF Settled, TerminalPhases
    <3>3. row' = [row EXCEPT ![o] = q] /\ told' = [told EXCEPT ![o] = @ \cup {q.phase}]
      BY <1>11, <2>1, <3>1 DEF CompleteParked
    <3>4. SchedulersOwn(row[o], q) /\ Winds(o, row[o], q)
      BY <1>11, <2>1, <3>2 DEF SchedulersOwn, Winds
    <3> HIDE DEF q
    <3>. QED
      BY <3>1, <3>2, <3>3, <3>4, PhaseWrite
  <2>2. CASE row[o].phase # "parked"
    BY <1>11, <2>2, NoWrite DEF CompleteParked
  <2>. QED
    BY <2>1, <2>2
<1>12. ASSUME NEW o \in Ops, Observe(o) PROVE RowStep
  <2>1. proc'[o] # "running"
    BY <1>12 DEF Observe
  <2>. QED
    BY <1>11, <1>12, <2>1 DEF Observe, TerminalPhases
<1>13. ASSUME NEW o \in Ops, DeadlinePasses(o) PROVE RowStep
  <2> DEFINE q == [row[o] EXCEPT !.deadline = "past"]
  <2>1. /\ row[o].deadline = "ahead" /\ told' = told
        /\ row' = [row EXCEPT ![o] = q]
    BY <1>13, <1>a DEF DeadlinePasses
  <2>2. row[o].phase \in {"parked", "compensating"}
    BY <1>a, <2>1 DEF RowInv
  <2>3. q \in Rows /\ RowInv(q) /\ q.phase = row[o].phase /\ q.attempt = row[o].attempt
    BY <1>a, <2>1, <2>2 DEF Rows, RowType, RowInv, Settled, TerminalPhases
  <2>4. Keeps(row[o], q)
    BY <1>a DEF Keeps, Rows, RowType
  <2> HIDE DEF q
  <2>. QED
    BY <2>1, <2>2, <2>3, <2>4, QuietWrite DEF Settled, TerminalPhases
<1>14. ASSUME NEW o \in Ops, LeaseExpires(o) \/ LeaseLost(o) PROVE RowStep
  <2> DEFINE q == [row[o] EXCEPT !.lease = "expired"]
  <2>1. /\ row[o].lease = "live" /\ told' = told
        /\ row' = [row EXCEPT ![o] = q]
    BY <1>14, <1>a DEF LeaseExpires, LeaseLost
  <2>2. ~Settled(row[o]) /\ row[o].phase # "awaiting_retry"
    BY <1>a, <2>1 DEF RowInv
  <2>3. q \in Rows /\ RowInv(q) /\ q.phase = row[o].phase /\ q.attempt = row[o].attempt
    BY <1>a, <2>1, <2>2 DEF Rows, RowType, RowInv, Settled
  <2>4. Keeps(row[o], q)
    BY <1>a DEF Keeps, Rows, RowType
  <2> HIDE DEF q
  <2>. QED
    BY <2>1, <2>2, <2>3, <2>4, QuietWrite
<1>15. ASSUME NEW s \in Sweepers, ProbeLeaves(s) PROVE RowStep
  <2> DEFINE o == sweep[s].op
  <2>1. o \in Ops
    BY <1>15 DEF ProbeLeaves, IInv, SweepOK
  <2>2. CASE row[o].phase = "parked" /\ row' = [row EXCEPT ![o] = Unleased(row[o])]
    <3>1. ~Settled(row[o]) /\ row[o].phase # "awaiting_retry" /\ told' = told
      BY <1>15, <2>2 DEF ProbeLeaves, Settled, TerminalPhases
    <3> HIDE DEF o
    <3>. QED
      BY <1>a, <2>1, <2>2, <3>1, QuietWrite, NoteWrite
  <2>3. CASE row' = row
    BY <1>15, <2>3, NoWrite DEF ProbeLeaves
  <2>. QED
    BY <1>15, <2>2, <2>3 DEF ProbeLeaves
<1>16. ASSUME NEW s \in Sweepers, SweepClaim(s) PROVE RowStep
  <2> DEFINE o == sweep[s].op
  <2>1. o \in Ops /\ NewId \in Tokens
    BY <1>16, <1>b DEF SweepClaim, IInv, SweepOK
  <2>2. CASE row[o].phase = "parked" /\ row' = [row EXCEPT ![o] = Leased(row[o], NewId)]
    <3>1. ~Settled(row[o]) /\ row[o].phase # "awaiting_retry" /\ told' = told
      BY <1>16, <2>2 DEF SweepClaim, Settled, TerminalPhases
    <3> HIDE DEF o
    <3>. QED
      BY <1>a, <2>1, <2>2, <3>1, QuietWrite, LeaseWrite
  <2>3. CASE row' = row
    BY <1>16, <2>3, NoWrite DEF SweepClaim
  <2>. QED
    BY <1>16, <2>2, <2>3 DEF SweepClaim, ParkedClaimable
<1>17. ASSUME NEW s \in Sweepers, SweepComplete(s) PROVE RowStep
  <2>1. sweep[s].op \in Ops /\ sweep[s].outcome \in TerminalPhases
    BY <1>17 DEF SweepComplete, IInv, SweepOK, TypeOK, Sweeps
  <2>2. proc'[sweep[s].op] # "running"
    BY <1>17 DEF SweepComplete, IInv, GoneOK
  <2>. QED
    BY <1>11, <1>17, <2>1, <2>2 DEF SweepComplete
<1>18. ASSUME NEW s \in Sweepers, SweepFail(s) PROVE RowStep
  <2> DEFINE o == sweep[s].op
             q == Settle(row[o], "failed")
  <2>1. o \in Ops /\ "failed" \in TerminalPhases
    BY <1>18 DEF SweepFail, IInv, SweepOK, TerminalPhases
  <2>2. CASE SweepLive(s)
    <3>1. ~Settled(row[o]) /\ row[o].phase # "awaiting_retry"
      BY <1>a, <2>1, <2>2, LiveIsOpen DEF SweepLive
    <3>2. q \in Rows /\ RowInv(q) /\ q.phase = "failed" /\ q.attempt = row[o].attempt
      <4>1. "failed" \in Phases
        BY <2>1 DEF Phases
      <4>2. q \in Rows
        BY <1>a, <2>1, <4>1, RowWrites
      <4>3. RowInv(q)
        BY <1>a, <2>1, RowKeeps
      <4>. QED
        BY <1>a, <2>1, <4>1, <4>2, <4>3, RowFields
    <3>3. row' = [row EXCEPT ![o] = q] /\ told' = [told EXCEPT ![o] = @ \cup {q.phase}]
      BY <1>18, <2>2, <3>2 DEF SweepFail
    <3>4. Settled(q)
      BY <2>1, <3>2 DEF Settled
    <3>5. row[o].phase = "parked" /\ proc'[o] # "running"
      BY <1>18, <2>2 DEF SweepFail, SweepLive, LiveClaim, IInv, GoneOK
    <3>6. SchedulersOwn(row[o], q) /\ Winds(o, row[o], q)
      BY <3>4, <3>5 DEF SchedulersOwn, Winds
    <3> HIDE DEF o, q
    <3>. QED
      BY <2>1, <3>1, <3>2, <3>3, <3>4, <3>6, PhaseWrite
  <2>3. CASE ~SweepLive(s)
    BY <1>18, <2>3, NoWrite DEF SweepFail
  <2>. QED
    BY <2>2, <2>3
<1>19. ASSUME NEW s \in Sweepers, SweepCompensate(s) PROVE RowStep
  <2> DEFINE o == sweep[s].op
             q == EnterCompensating(row[o])
  <2>1. o \in Ops
    BY <1>19 DEF SweepCompensate, IInv, SweepOK
  <2>2. CASE SweepLive(s)
    <3>1. ~Settled(row[o]) /\ row[o].phase # "awaiting_retry"
      BY <1>a, <2>1, <2>2, LiveIsOpen DEF SweepLive
    <3>2. q \in Rows /\ RowInv(q) /\ q.phase = "compensating" /\ q.attempt = row[o].attempt
      BY <1>a, <2>1, RowWrites, RowFields, RowKeeps
    <3>3. row' = [row EXCEPT ![o] = q] /\ told' = told
      BY <1>19, <2>2 DEF SweepCompensate
    <3>4. ~Settled(q)
      BY <3>2 DEF Settled, TerminalPhases
    <3>5. row[o].phase = "parked"
      BY <2>2 DEF SweepLive, LiveClaim
    <3>6. SchedulersOwn(row[o], q) /\ Winds(o, row[o], q)
      BY <3>2, <3>5 DEF SchedulersOwn, Winds
    <3> HIDE DEF o, q
    <3>. QED
      BY <2>1, <3>1, <3>2, <3>3, <3>4, <3>6, PhaseWrite
  <2>3. CASE ~SweepLive(s)
    BY <1>19, <2>3, NoWrite DEF SweepCompensate
  <2>. QED
    BY <2>2, <2>3
<1>20. CASE UNCHANGED <<row, told>>
  BY <1>20, NoWrite
<1>. QED
  BY <1>1, <1>2, <1>3, <1>4, <1>5, <1>6, <1>7, <1>8, <1>9, <1>10, <1>12, <1>13, <1>14,
     <1>15, <1>16, <1>17, <1>18, <1>19, <1>20
     DEF Next, DriveStep, SweepStep, DriveBegin, DriveEnd, StartOne, TaskBegin,
         ExecBegin, ExactObserved, Prepare, Effect, StepEffect, StepsDone,
         WakerRegister, TrackTaken, TrackFreed, ProcExit, SweepBegin, VerifyBegin,
         CancelBegin, ProbeAnswers, SweepFetch, Enforce, TurnDropped, SweepDropped,
         Crash, SweepOnly, DriverOnly

-----------------------------------------------------------------------------
(* The holder of the drive mutex.                                          *)

TurnGood == turn \in Turns /\ TurnOK

\* The mutex is released.
LEMMA TurnIdles == turn' = IdleTurn => TurnGood' /\ HandOK'
  BY DEF IdleTurn, TurnGood, HandOK, Turns, TurnOK, Working, Modes, Results

\* The turn goes on with the claim it works on.
LEMMA TurnGoesOn ==
  ASSUME IInv, turn.pc \in Working, NEW pc \in Working, NEW res \in Results,
         turn' = [turn EXCEPT !.pc = pc, !.res = res],
         pc = "step" => Steps \ turn.cur.done # {},
         pc = "write" /\ res = "awaiting" => turn.cur.phase = "app_server_interact",
         pc = "write" /\ turn.cur.phase = "compensating" => res \in {"advance", "fatal"}
  PROVE  TurnGood'
<1>1. turn' \in Turns
  BY DEF IInv, TypeOK, Turns, Working
<1>2. TurnOK'
  BY DEF IInv, TypeOK, TurnOK, Turns, Working
<1>. QED
  BY <1>1, <1>2 DEF TurnGood

\* The turn is done with the claim it worked on.
LEMMA TurnMovesOn == IInv /\ turn' = AfterOne(turn) => TurnGood'
<1> SUFFICES ASSUME IInv, turn' = AfterOne(turn) PROVE TurnGood'
  OBVIOUS
<1>1. CASE turn' = IdleTurn
  BY <1>1, TurnIdles
<1>2. ASSUME NEW pc \in {"claim", "next"},
             turn' = [turn EXCEPT !.cur = NoClaim, !.res = "advance", !.pc = pc]
      PROVE  TurnGood'
  <2>1. turn' \in Turns
    BY <1>2 DEF IInv, TypeOK, Turns, Results
  <2>2. TurnOK'
    BY <1>2 DEF IInv, TypeOK, TurnOK, Turns, Working
  <2>. QED
    BY <2>1, <2>2 DEF TurnGood
<1>. QED
  BY <1>1, <1>2 DEF AfterOne

\* A claim of a row as it was leased.
LEMMA ClaimIsTyped ==
  ASSUME NEW o \in Ops, NEW r \in Rows, r.owner \in Tokens
  PROVE  /\ ClaimOf(o, r) \in Claims
         /\ ClaimOf(o, r).op = o /\ ClaimOf(o, r).phase = r.phase
         /\ ClaimOf(o, r).owner = r.owner /\ ClaimOf(o, r).done = r.done
  BY DEF ClaimOf, Claims, Rows, RowType

\* The turn starts work on a claim of its own, with no other left.
LEMMA TurnTakes ==
  ASSUME IInv, NEW c \in Claims, c.phase \in DrivablePhases,
         turn'.pc = "effect", turn'.cur = c, turn'.queue = {}, turn' \in Turns,
         turn'.mode \in {"task", "exec"} => turn'.op \in Ops
  PROVE  TurnGood'
  BY DEF TurnGood, TurnOK, Working

\* Every action keeps the turn in order.
LEMMA NextTurn == IInv /\ Next => TurnGood'
<1> SUFFICES ASSUME IInv, Next PROVE TurnGood'
  OBVIOUS
<1>a. turn \in Turns /\ TurnOK /\ \A o \in Ops : row[o] \in Rows
  BY DEF IInv, TypeOK, Rows
<1>b. HasNewId => NewId \in Tokens
  BY NewIdFresh
<1>1. CASE DriveBegin
  BY <1>1 DEF DriveBegin, TurnGood, TurnOK, IdleTurn, Turns, Modes, Results, Working
<1>2. ASSUME NEW o \in Ops, TaskBegin(o) \/ ExecBegin(o) PROVE TurnGood'
  BY <1>2 DEF TaskBegin, ExecBegin, TurnGood, TurnOK, IdleTurn, Turns, Modes, Results, Working
<1>3. CASE DriveEnd \/ ExactObserved \/ ExactUnclaimable \/ TurnDropped \/ Crash
  BY <1>3, TurnIdles DEF DriveEnd, ExactObserved, ExactUnclaimable, TurnDropped, Crash
<1>4. CASE ClaimBatch
  <2> DEFINE batch == {o \in Ops : Drivable(row[o])}
             q == {ClaimOf(o, Leased(row[o], NewId)) : o \in batch}
  <2>1. /\ turn' = [turn EXCEPT !.pc = "next", !.queue = q]
        /\ turn.pc = "claim" /\ turn.mode = "drive" /\ NewId \in Tokens
    BY <1>4, <1>b DEF ClaimBatch
  <2>2. ASSUME NEW o \in batch
        PROVE  /\ ClaimOf(o, Leased(row[o], NewId)) \in Claims
               /\ ClaimOf(o, Leased(row[o], NewId)).op = o
               /\ ClaimOf(o, Leased(row[o], NewId)).phase \in DrivablePhases
    <3>1. Leased(row[o], NewId) \in Rows
      BY <1>a, <2>1, RowWrites
    <3>2. Leased(row[o], NewId).owner = NewId /\ Leased(row[o], NewId).phase = row[o].phase
      BY <1>a, <2>1, RowFields
    <3>. QED
      BY <2>1, <3>1, <3>2, ClaimIsTyped DEF Drivable
  <2>3. /\ q \subseteq Claims /\ \A c \in q : c.phase \in DrivablePhases
        /\ \A c, d \in q : c.op = d.op => c = d
    BY <2>2
  <2> HIDE DEF q
  <2>4. turn' \in Turns
    BY <1>a, <2>1, <2>3 DEF Turns
  <2>5. TurnOK'
    BY <1>a, <2>1, <2>3 DEF Turns, TurnOK, Working
  <2>. QED
    BY <2>4, <2>5 DEF TurnGood
<1>5. CASE StartOne
  <2>1. PICK c \in turn.queue :
          turn' = [turn EXCEPT !.pc = "effect", !.cur = c, !.queue = @ \ {c}]
    BY <1>5 DEF StartOne
  <2>2. turn' \in Turns
    BY <1>a, <2>1 DEF Turns
  <2>3. TurnOK'
    BY <1>a, <2>1 DEF Turns, TurnOK, Working
  <2>. QED
    BY <2>2, <2>3 DEF TurnGood
<1>6. CASE ExactClaim
  <2> DEFINE o == turn.op
             adopt == turn.mode = "task" /\ turn.visited = {} /\ PendingRetryable(row[o])
             q == IF adopt THEN RetryClaimed(row[o], NewId) ELSE Leased(row[o], NewId)
  <2>1. /\ o \in Ops /\ NewId \in Tokens /\ turn.queue = {}
        /\ turn.mode \in {"task", "exec"}
    BY <1>6, <1>a, <1>b DEF ExactClaim, TurnOK
  <2>2. row[o].phase \in DrivablePhases
    BY <1>6 DEF ExactClaim, PendingRetryable, Drivable, DrivablePhases
  <2>3. q \in Rows /\ q.phase = row[o].phase /\ q.owner = NewId
    <3>1. RetryClaimed(row[o], NewId) \in Rows /\ Leased(row[o], NewId) \in Rows
      BY <1>a, <2>1, RowWrites
    <3>. QED
      BY <1>a, <2>1, <3>1, RowFields
  <2>4. CASE turn' = IdleTurn
    BY <2>4, TurnIdles
  <2>5. CASE turn' = [turn EXCEPT !.pc = "effect", !.cur = ClaimOf(o, q),
                                  !.visited = @ \cup {row[o].phase}]
    <3> HIDE DEF q
    <3>1. ClaimOf(o, q) \in Claims /\ ClaimOf(o, q).phase \in DrivablePhases
      BY <2>1, <2>2, <2>3, ClaimIsTyped
    <3>2. turn' \in Turns
      BY <1>a, <2>2, <2>5, <3>1 DEF Turns, Phases
    <3>. QED
      BY <1>a, <2>1, <2>5, <3>1, <3>2, TurnTakes DEF Turns
  <2>. QED
    BY <1>6, <2>4, <2>5 DEF ExactClaim
<1>7. ASSUME NEW o \in Ops, NEW a \in 0 .. MaxAttempts, PressRetry(o, a) PROVE TurnGood'
  <2> DEFINE q == RetryPressed(row[o], NewId)
  <2>1. /\ NewId \in Tokens
        /\ turn' = [IdleTurn EXCEPT !.pc = "effect", !.mode = "retry", !.op = o,
                                    !.cur = ClaimOf(o, q)]
    BY <1>7, <1>b DEF PressRetry
  <2>2. q \in Rows /\ q.owner \in Tokens /\ q.phase \in DrivablePhases
    <3>1. q \in Rows
      BY <1>a, <2>1, RowWrites
    <3>. QED
      BY <1>a, <2>1, <3>1, RowFields DEF DrivablePhases
  <2> HIDE DEF q
  <2>3. ClaimOf(o, q) \in Claims /\ ClaimOf(o, q).phase \in DrivablePhases
    BY <2>2, ClaimIsTyped
  <2>4. turn' \in Turns
    BY <2>1, <2>3 DEF Turns, IdleTurn, Modes, Results
  <2>. QED
    BY <2>1, <2>3, <2>4, TurnTakes DEF IdleTurn
<1>8. ASSUME NEW o \in Ops, BootRecover(o) PROVE TurnGood'
  <2>1. CASE turn' = turn
    BY <1>a, <2>1 DEF TurnGood, TurnOK
  <2>2. CASE turn' # turn
    <3> DEFINE q == Leased(row[o], NewId)
    <3>1. /\ NewId \in Tokens /\ row[o].phase \in DrivablePhases
          /\ turn' = [IdleTurn EXCEPT !.pc = "effect", !.mode = "boot", !.op = o,
                                      !.cur = ClaimOf(o, q)]
      BY <1>8, <1>b, <2>2 DEF BootRecover, BootDrivable
    <3>2. q \in Rows /\ q.owner \in Tokens /\ q.phase \in DrivablePhases
      <4>1. q \in Rows
        BY <1>a, <3>1, RowWrites
      <4>. QED
        BY <1>a, <3>1, <4>1, RowFields
    <3> HIDE DEF q
    <3>3. ClaimOf(o, q) \in Claims /\ ClaimOf(o, q).phase \in DrivablePhases
      BY <3>2, ClaimIsTyped
    <3>4. turn' \in Turns
      BY <3>1, <3>3 DEF Turns, IdleTurn, Modes, Results
    <3>. QED
      BY <3>1, <3>3, <3>4, TurnTakes DEF IdleTurn
  <2>. QED
    BY <2>1, <2>2
<1>9. CASE Prepare
  BY <1>9, TurnGoesOn DEF Prepare, Working, Results, Cur
<1>10. CASE Effect
  <2>1. PICK res \in Answers(Cur.op, Cur.phase) : turn' = [turn EXCEPT !.pc = "write", !.res = res]
    BY <1>10 DEF Effect
  <2>2. res \in Results /\ (res = "awaiting" => turn.cur.phase = "app_server_interact")
    BY <2>1 DEF Answers, Results, Cur
  <2>. QED
    BY <1>10, <2>1, <2>2, TurnGoesOn DEF Effect, Working, Cur
<1>11. CASE SpawnParked
  <2>1. PICK res \in {"error", "parked"} : turn' = [turn EXCEPT !.pc = "write", !.res = res]
    BY <1>11 DEF SpawnParked
  <2>. QED
    BY <1>11, <2>1, TurnGoesOn DEF SpawnParked, Working, Results, Cur
<1>12. CASE WriteAdvance \/ WriteFailure \/ WriteCompensating \/ WriteAwaiting \/ WriteParked
            \/ WriteDeferral
  BY <1>12, TurnMovesOn DEF WriteAdvance, WriteFailure, WriteCompensating, WriteAwaiting,
     WriteParked, WriteDeferral, ClaimedSettle, ClaimedWrite
<1>13. CASE StepEffect
  BY <1>13, TurnGoesOn DEF StepEffect, Working, Results, Cur
<1>14. CASE StepWrite
  <2> DEFINE d == Cur.done \cup {NextStep(Cur)}
  <2>1. /\ turn.pc = "step" /\ turn.pc \in Working /\ Cur \in Claims
        /\ Steps \ Cur.done # {}
    BY <1>14, <1>a DEF StepWrite, TurnOK, Working, Cur
  <2>2. d \in SUBSET Steps
    BY <2>1, NextStepIsOpen DEF Claims
  <2>3. CASE turn' = [turn EXCEPT !.pc = "effect", !.cur.done = d]
    <3> HIDE DEF d
    <3> DEFINE c == [turn.cur EXCEPT !.done = d]
    <3>1. c \in Claims /\ c.op = turn.cur.op /\ c.phase = turn.cur.phase
      BY <2>1, <2>2 DEF Claims, Cur
    <3>2. turn' = [turn EXCEPT !.pc = "effect", !.cur = c]
      BY <1>a, <2>3 DEF Turns
    <3> HIDE DEF c
    <3>3. turn' \in Turns
      BY <1>a, <3>1, <3>2 DEF Turns
    <3>4. TurnOK'
      BY <1>a, <2>1, <3>1, <3>2 DEF Turns, TurnOK, Working, Cur
    <3>. QED
      BY <3>3, <3>4 DEF TurnGood
  <2>4. ASSUME NEW res \in {"fatal", "advance"}, turn' = [turn EXCEPT !.pc = "write", !.res = res]
        PROVE  TurnGood'
    BY <2>1, <2>4, TurnGoesOn DEF Working, Results
  <2>. QED
    BY <1>14, <2>3, <2>4 DEF StepWrite
<1>15. CASE StepsDone
  BY <1>15, TurnGoesOn DEF StepsDone, Working, Results, Cur
<1>16. CASE turn' = turn
  BY <1>a, <1>16 DEF TurnGood, TurnOK
<1>. QED
  BY <1>1, <1>2, <1>3, <1>4, <1>5, <1>6, <1>7, <1>8, <1>9, <1>10, <1>11, <1>12, <1>13,
     <1>14, <1>15, <1>16
     DEF Next, DriveStep, SweepStep, TaskBusy, WakerRegister, WakerRelease,
         TrackTaken, TrackFreed, Observe, ProcExit, DeadlinePasses, LeaseExpires,
         LeaseLost, SweepBegin, VerifyBegin, CancelBegin, ProbeLeaves, ProbeAnswers,
         SweepClaim, SweepFetch, Enforce, SweepComplete, SweepFail, SweepCompensate,
         SweepDropped, SweepOnly, DriverOnly

\* Row o keeps its phase and its steps, and the claim on it is left alone or
\* cleared.
Undisturbed(o) ==
  /\ row'[o].phase = row[o].phase /\ row'[o].done = row[o].done
  /\ \/ row'[o].owner = NoOwner
     \/ row'[o].owner = row[o].owner /\ row'[o].retryOwner = row[o].retryOwner

\* Actors without the mutex leave a drivable row and its claim alone.
LEMMA HandKept ==
  ASSUME IInv, turn'.queue = turn.queue, turn'.mode = turn.mode,
         turn'.pc \in Working <=> turn.pc \in Working, turn'.cur = turn.cur,
         \A o \in Ops : row[o].phase \in DrivablePhases => Undisturbed(o)
  PROVE  HandOK'
<1>1. ASSUME NEW c \in Claims, c.phase \in DrivablePhases, ClaimHolds(c)
      PROVE  /\ row'[c.op].phase = c.phase /\ row'[c.op].done \subseteq c.done
             /\ c.phase = "pending" /\ row'[c.op].owner = c.owner
                /\ row'[c.op].retryOwner = "scheduler" => turn'.mode = "task"
  <2>1. c.op \in Ops /\ c.owner # NoOwner /\ Undisturbed(c.op)
    BY <1>1, RowAssumption DEF Claims, ClaimHolds
  <2>. QED
    BY <1>1, <2>1 DEF ClaimHolds, Undisturbed
<1>2. \A c \in turn.queue : c \in Claims /\ c.phase \in DrivablePhases /\ ClaimHolds(c)
  BY DEF IInv, TypeOK, TurnOK, HandOK, Turns
<1>3. turn.pc \in Working =>
        turn.cur \in Claims /\ turn.cur.phase \in DrivablePhases /\ ClaimHolds(turn.cur)
  BY DEF IInv, TurnOK, HandOK
<1>. QED
  BY <1>1, <1>2, <1>3 DEF HandOK, ClaimHolds

\* A write of the turn leaves the rows of its other claims alone.
LEMMA HandShrinks ==
  ASSUME IInv, turn.pc \in Working, turn' = AfterOne(turn),
         \A o \in Ops \ {Cur.op} : row'[o] = row[o]
  PROVE  HandOK'
<1>1. /\ turn'.pc \notin Working /\ turn'.queue \subseteq turn.queue
      /\ turn'.queue # {} => turn'.mode = turn.mode
  BY DEF AfterOne, IdleTurn, Working, IInv, TypeOK, Turns
<1>2. ASSUME NEW c \in turn'.queue
      PROVE  ClaimHolds(c) /\ row'[c.op] = row[c.op] /\ turn'.mode = turn.mode
  BY <1>1, <1>2 DEF IInv, TypeOK, TurnOK, HandOK, Turns, Claims, Cur
<1>. QED
  BY <1>1, <1>2 DEF HandOK, ClaimHolds

\* No action moves a row the turn holds a claim of, but the turn itself.
LEMMA NextHand == IInv /\ Next => HandOK'
<1> SUFFICES ASSUME IInv, Next PROVE HandOK'
  OBVIOUS
<1>a. /\ row \in [Ops -> Rows] /\ \A o \in Ops : row[o] \in Rows
      /\ turn \in Turns /\ TurnOK /\ HandOK
  BY DEF IInv, TypeOK, Rows
<1>b. HasNewId => NewId \in Tokens
  BY NewIdFresh
<1>c. ASSUME turn' = turn,
             \A o \in Ops : row[o].phase \in DrivablePhases => Undisturbed(o)
      PROVE  HandOK'
  BY <1>c, HandKept
<1>1. CASE turn' = IdleTurn
  BY <1>1, TurnIdles
<1>2. CASE DriveBegin
  BY <1>2 DEF DriveBegin, IdleTurn, HandOK, Working
<1>3. ASSUME NEW o \in Ops, TaskBegin(o) \/ ExecBegin(o) PROVE HandOK'
  BY <1>3 DEF TaskBegin, ExecBegin, IdleTurn, HandOK, Working
<1>4. CASE ClaimBatch
  <2> DEFINE batch == {o \in Ops : Drivable(row[o])}
  <2>1. /\ row' = [o \in Ops |-> IF o \in batch THEN Leased(row[o], NewId) ELSE row[o]]
        /\ turn' = [turn EXCEPT !.pc = "next",
                      !.queue = {ClaimOf(o, Leased(row[o], NewId)) : o \in batch}]
        /\ NewId \in Tokens
    BY <1>4, <1>b DEF ClaimBatch
  <2>2. ASSUME NEW o \in batch
        PROVE  LET c == ClaimOf(o, Leased(row[o], NewId))
               IN  /\ row'[c.op].phase = c.phase /\ row'[c.op].done \subseteq c.done
                   /\ c.phase = "pending" => row'[c.op].retryOwner = "driver"
    <3>1. row'[o] = Leased(row[o], NewId) /\ row[o] \in Rows
      BY <1>a, <2>1
    <3>2. row[o].phase = "pending" => row[o].retryOwner = "driver"
      BY DEF Drivable, DriverMayClaim
    <3>. QED
      BY <2>1, <3>1, <3>2, RowFields DEF ClaimOf
  <2>3. turn'.pc = "next" /\ turn'.queue = {ClaimOf(o, Leased(row[o], NewId)) : o \in batch}
    BY <1>a, <2>1 DEF Turns
  <2>. QED
    BY <2>2, <2>3 DEF HandOK, ClaimHolds, Working
<1>5. CASE StartOne
  <2>1. PICK c \in turn.queue :
          turn' = [turn EXCEPT !.pc = "effect", !.cur = c, !.queue = @ \ {c}]
    BY <1>5 DEF StartOne
  <2>. QED
    BY <1>5, <1>a, <2>1 DEF StartOne, Turns, HandOK, ClaimHolds
<1>6. CASE ExactClaim /\ turn' # IdleTurn
  <2> DEFINE o == turn.op
             adopt == turn.mode = "task" /\ turn.visited = {} /\ PendingRetryable(row[o])
             q == IF adopt THEN RetryClaimed(row[o], NewId) ELSE Leased(row[o], NewId)
  <2>1. /\ o \in Ops /\ turn.queue = {} /\ row' = [row EXCEPT ![o] = q]
        /\ turn' = [turn EXCEPT !.pc = "effect", !.cur = ClaimOf(o, q),
                                !.visited = @ \cup {row[o].phase}]
    BY <1>6, <1>a DEF ExactClaim, TurnOK
  <2>2. q.phase = "pending" /\ q.retryOwner = "scheduler" => turn.mode = "task"
    <3>1. CASE adopt
      BY <3>1
    <3>2. CASE ~adopt
      <4>1. DriverMayClaim(row[o]) /\ q = Leased(row[o], NewId) /\ NewId \in Tokens
        BY <1>6, <1>b, <3>2 DEF ExactClaim, Drivable
      <4>. QED
        BY <1>a, <2>1, <4>1, RowFields DEF DriverMayClaim
    <3>. QED
      BY <3>1, <3>2
  <2> HIDE DEF q
  <2>3. /\ turn'.queue = {} /\ turn'.cur = ClaimOf(o, q) /\ row'[o] = q
        /\ turn'.mode = turn.mode
    BY <1>a, <2>1 DEF Turns
  <2>. QED
    BY <2>2, <2>3 DEF HandOK, ClaimHolds, ClaimOf
<1>7. ASSUME NEW o \in Ops, NEW a \in 0 .. MaxAttempts, PressRetry(o, a) PROVE HandOK'
  <2> DEFINE q == RetryPressed(row[o], NewId)
  <2>1. /\ row' = [row EXCEPT ![o] = q]
        /\ turn' = [IdleTurn EXCEPT !.pc = "effect", !.mode = "retry", !.op = o,
                                    !.cur = ClaimOf(o, q)]
    BY <1>7 DEF PressRetry
  <2>2. q.phase = "app_server_interact"
    BY <1>7, <1>a, <1>b, RowFields DEF PressRetry
  <2> HIDE DEF q
  <2>. QED
    BY <1>a, <2>1, <2>2 DEF IdleTurn, HandOK, ClaimHolds, ClaimOf
<1>8. ASSUME NEW o \in Ops, BootRecover(o) PROVE HandOK'
  <2>1. CASE BootDrivable(row[o])
    <3> DEFINE q == Leased(row[o], NewId)
    <3>1. /\ row' = [row EXCEPT ![o] = q]
          /\ turn' = [IdleTurn EXCEPT !.pc = "effect", !.mode = "boot", !.op = o,
                                      !.cur = ClaimOf(o, q)]
      BY <1>8, <2>1 DEF BootRecover
    <3>2. q.phase = "pending" => q.retryOwner = "driver"
      <4>1. DriverMayClaim(row[o]) /\ NewId \in Tokens
        BY <1>8, <1>b, <2>1 DEF BootRecover, BootDrivable
      <4>. QED
        BY <1>a, <4>1, RowFields DEF DriverMayClaim
    <3> HIDE DEF q
    <3>. QED
      BY <1>a, <3>1, <3>2 DEF IdleTurn, HandOK, ClaimHolds, ClaimOf
  <2>2. CASE ~BootDrivable(row[o])
    BY <1>8, <1>c, <2>2 DEF BootRecover, Undisturbed
  <2>. QED
    BY <2>1, <2>2
<1>9. CASE Prepare \/ Effect \/ StepEffect \/ StepsDone
  <2>1. PICK pc \in Working, res \in Results : turn' = [turn EXCEPT !.pc = pc, !.res = res]
    BY <1>9 DEF Prepare, Effect, StepEffect, StepsDone, Answers, Working, Results
  <2>2. row' = row /\ turn.pc \in Working
    BY <1>9 DEF Prepare, Effect, StepEffect, StepsDone, Working
  <2>. QED
    BY <1>a, <2>1, <2>2, HandKept DEF Turns, Undisturbed
<1>10. CASE SpawnParked
  <2>1. PICK res \in {"error", "parked"} : turn' = [turn EXCEPT !.pc = "write", !.res = res]
    BY <1>10 DEF SpawnParked
  <2>2. PICK v : row' = [row EXCEPT ![Cur.op].artifacts = v]
    BY <1>10 DEF SpawnParked
  <2>3. turn.pc \in Working /\ \A o \in Ops : Undisturbed(o)
    BY <1>10, <1>a, <2>2 DEF SpawnParked, Working, Rows, RowType, Undisturbed
  <2>. QED
    BY <1>a, <2>1, <2>3, HandKept DEF Turns, Working
<1>11. CASE \/ WriteAdvance \/ WriteFailure \/ WriteCompensating \/ WriteAwaiting
            \/ WriteParked \/ WriteDeferral
  <2>1. PICK q : ClaimedWrite(q)
    BY <1>11 DEF WriteAdvance, WriteFailure, WriteCompensating, WriteAwaiting,
       WriteParked, WriteDeferral, ClaimedSettle
  <2>2. turn.pc \in Working
    BY <1>11 DEF WriteAdvance, WriteFailure, WriteCompensating, WriteAwaiting,
       WriteParked, WriteDeferral, Working
  <2>3. turn' = AfterOne(turn) /\ \A o \in Ops \ {Cur.op} : row'[o] = row[o]
    BY <1>a, <2>1 DEF ClaimedWrite
  <2>. QED
    BY <2>2, <2>3, HandShrinks
<1>12. CASE StepWrite
  <2> DEFINE d == Cur.done \cup {NextStep(Cur)}
  <2>1. /\ turn.pc \in Working /\ Cur \in Claims
    BY <1>12, <1>a DEF StepWrite, TurnOK, Working, Cur
  <2>3. CASE row' = [row EXCEPT ![Cur.op] = RecordSteps(row[Cur.op], d)]
             /\ turn' = [turn EXCEPT !.pc = "effect", !.cur.done = d]
    <3> HIDE DEF d
    <3>1. Cur.op \in Ops /\ ClaimHolds(Cur)
      BY <1>a, <2>1 DEF HandOK, Claims, Cur
    <3>2. /\ turn'.queue = turn.queue /\ turn'.mode = turn.mode
          /\ turn'.cur = [Cur EXCEPT !.done = d]
      BY <1>a, <2>1, <2>3 DEF Turns, Cur
    <3>3. \A c \in turn.queue : ClaimHolds(c) /\ row'[c.op] = row[c.op]
      BY <1>a, <2>1, <2>3, <3>1 DEF HandOK, TurnOK, Turns, Claims, Cur
    <3>4. /\ row'[Cur.op].phase = CurRow.phase /\ row'[Cur.op].done = d
          /\ row'[Cur.op].owner = CurRow.owner /\ row'[Cur.op].retryOwner = CurRow.retryOwner
      BY <1>a, <2>3, <3>1, RowFields DEF CurRow
    <3>5. /\ turn'.cur.op = Cur.op /\ turn'.cur.phase = Cur.phase
          /\ turn'.cur.owner = Cur.owner /\ turn'.cur.done = d
      BY <2>1, <3>2 DEF Claims
    <3>. QED
      BY <3>1, <3>2, <3>3, <3>4, <3>5 DEF HandOK, ClaimHolds, CurRow
  <2>4. ASSUME NEW res, row' = row, turn' = [turn EXCEPT !.pc = "write", !.res = res]
        PROVE  HandOK'
    BY <1>a, <2>1, <2>4, HandKept DEF Turns, Working, Undisturbed
  <2>. QED
    BY <1>12, <2>3, <2>4 DEF StepWrite
<1>13. ASSUME NEW o \in Ops, TaskBusy(o) PROVE HandOK'
  BY <1>13, <1>a, <1>c, RowFields DEF TaskBusy, Undisturbed
<1>14. ASSUME NEW o \in Ops, WakerRelease(o) PROVE HandOK'
  BY <1>14, <1>a, <1>c, RowFields DEF WakerRelease, Undisturbed
<1>15. ASSUME NEW o \in Ops, NEW p \in TerminalPhases, CompleteParked(o, p), turn' = turn
       PROVE  HandOK'
  BY <1>15, <1>a, <1>c DEF CompleteParked, DrivablePhases, Undisturbed
<1>16. ASSUME NEW o \in Ops, Observe(o) PROVE HandOK'
  BY <1>15, <1>16 DEF Observe, TerminalPhases
<1>17. ASSUME NEW o \in Ops, DeadlinePasses(o) \/ LeaseExpires(o) \/ LeaseLost(o) PROVE HandOK'
  BY <1>17, <1>a, <1>c DEF DeadlinePasses, LeaseExpires, LeaseLost, Rows, RowType, Undisturbed
<1>18. ASSUME NEW s \in Sweepers, ProbeLeaves(s) PROVE HandOK'
  <2>1. sweep[s].op \in Ops /\ turn' = turn
    BY <1>18 DEF ProbeLeaves, SweepOnly, IInv, SweepOK
  <2>2. row' = row \/ row' = [row EXCEPT ![sweep[s].op] = Unleased(row[sweep[s].op])]
    BY <1>18 DEF ProbeLeaves
  <2>. QED
    BY <1>a, <1>c, <2>1, <2>2, RowFields DEF Undisturbed
<1>19. ASSUME NEW s \in Sweepers, SweepClaim(s) PROVE HandOK'
  <2>1. sweep[s].op \in Ops /\ turn' = turn /\ NewId \in Tokens
    BY <1>19, <1>b DEF SweepClaim, SweepOnly, IInv, SweepOK
  <2>2. \/ row' = row
        \/ /\ row[sweep[s].op].phase = "parked"
           /\ \E q : row' = [row EXCEPT ![sweep[s].op] = q]
    BY <1>19 DEF SweepClaim, ParkedClaimable
  <2>. QED
    BY <1>a, <1>c, <2>1, <2>2 DEF DrivablePhases, Undisturbed
<1>20. ASSUME NEW s \in Sweepers, SweepComplete(s) PROVE HandOK'
  <2>1. sweep[s].op \in Ops /\ sweep[s].outcome \in TerminalPhases /\ turn' = turn
    BY <1>20 DEF SweepComplete, SweepOnly, IInv, SweepOK, TypeOK, Sweeps
  <2>. QED
    BY <1>15, <1>20, <2>1 DEF SweepComplete
<1>21. ASSUME NEW s \in Sweepers, SweepFail(s) \/ SweepCompensate(s) PROVE HandOK'
  <2>1. turn' = turn
    BY <1>21 DEF SweepFail, SweepCompensate, SweepOnly
  <2>2. \/ row' = row
        \/ /\ row[sweep[s].op].phase = "parked"
           /\ \E q : row' = [row EXCEPT ![sweep[s].op] = q]
    BY <1>21 DEF SweepFail, SweepCompensate, SweepLive, LiveClaim
  <2>. QED
    BY <1>a, <1>c, <2>1, <2>2 DEF DrivablePhases, Undisturbed
<1>22. CASE UNCHANGED <<row, turn>>
  BY <1>22, <1>c DEF Undisturbed
<1>. QED
  BY <1>1, <1>2, <1>3, <1>4, <1>5, <1>6, <1>7, <1>8, <1>9, <1>10, <1>11, <1>12, <1>13,
     <1>14, <1>16, <1>17, <1>18, <1>19, <1>20, <1>21, <1>22
     DEF Next, DriveStep, SweepStep, DriveEnd, ExactObserved, ExactUnclaimable,
         TurnDropped, Crash, WakerRegister, TrackTaken, TrackFreed, ProcExit,
         SweepBegin, VerifyBegin, CancelBegin, ProbeAnswers, SweepFetch, Enforce,
         SweepDropped, SweepOnly, DriverOnly

-----------------------------------------------------------------------------
(* The sweepers and what is left.                                          *)

SweepGood == sweep \in [Sweepers -> Sweeps] /\ SweepOK

\* Every action keeps the sweepers in order.
LEMMA NextSweep == IInv /\ Next => SweepGood'
<1> SUFFICES ASSUME IInv, Next PROVE SweepGood'
  OBVIOUS
<1>a. sweep \in [Sweepers -> Sweeps] /\ SweepOK
  BY DEF IInv, TypeOK
<1>b. IdleSweep \in Sweeps /\ IdleSweep.pc = "idle"
  BY DEF IdleSweep, Sweeps, TerminalPhases
<1>c. ASSUME NEW s \in Sweepers, NEW q \in Sweeps, q.pc # "idle" => q.op \in Ops,
             sweep' = [sweep EXCEPT ![s] = q]
      PROVE  SweepGood'
  BY <1>a, <1>c DEF SweepGood, SweepOK
<1>d. ASSUME NEW s \in Sweepers, SweepEnds(s) PROVE SweepGood'
  BY <1>b, <1>c, <1>d DEF SweepEnds
<1>1. ASSUME NEW s \in Sweepers, NEW o \in Ops,
             SweepBegin(s, o) \/ VerifyBegin(s, o) \/ CancelBegin(s, o)
      PROVE  SweepGood'
  <2> DEFINE Start(q) == sweep' = [sweep EXCEPT ![s] = q]
  <2>1. CASE sweep' = sweep
    BY <1>a, <2>1 DEF SweepGood, SweepOK
  <2>2. ASSUME NEW mode \in {"steady", "boot", "cancel"}, NEW x \in {"claim", "probe"},
               Start([IdleSweep EXCEPT !.op = o, !.mode = mode, !.pc = x])
        PROVE  SweepGood'
    <3>1. [IdleSweep EXCEPT !.op = o, !.mode = mode, !.pc = x] \in Sweeps
      BY DEF IdleSweep, Sweeps, TerminalPhases
    <3>. QED
      BY <1>c, <2>2, <3>1 DEF IdleSweep
  <2>3. CASE SweepBegin(s, o)
    <3>1. PICK x \in {"claim", "probe"} : Start([IdleSweep EXCEPT !.op = o, !.pc = x])
      BY <2>3 DEF SweepBegin
    <3>2. [IdleSweep EXCEPT !.op = o, !.pc = x] \in Sweeps
      BY DEF IdleSweep, Sweeps, TerminalPhases
    <3>. QED
      BY <1>c, <3>1, <3>2 DEF IdleSweep
  <2>4. CASE VerifyBegin(s, o)
    <3>1. \/ sweep' = sweep
          \/ \E x \in {"claim", "probe"} :
               Start([IdleSweep EXCEPT !.op = o, !.mode = "boot", !.pc = x])
      BY <2>4 DEF VerifyBegin
    <3>. QED
      BY <2>1, <2>2, <3>1
  <2>5. CASE CancelBegin(s, o)
    BY <2>2, <2>5 DEF CancelBegin
  <2>. QED
    BY <1>1, <2>3, <2>4, <2>5
<1>2. ASSUME NEW s \in Sweepers,
             ProbeLeaves(s) \/ SweepComplete(s) \/ SweepFail(s) \/ SweepCompensate(s) \/ SweepDropped(s)
      PROVE  SweepGood'
  BY <1>2, <1>d DEF ProbeLeaves, SweepComplete, SweepFail, SweepCompensate, SweepDropped
<1>g. ASSUME NEW s \in Sweepers, sweep[s].pc # "idle", NEW q, sweep' = [sweep EXCEPT ![s] = q],
             NEW pc \in {"claim", "fetch", "enforce", "complete", "fail", "compensate"},
             \/ q = [sweep[s] EXCEPT !.pc = pc]
             \/ \E p \in TerminalPhases : q = [sweep[s] EXCEPT !.pc = pc, !.outcome = p]
             \/ \E t \in Tokens : q = [sweep[s] EXCEPT !.pc = pc, !.owner = t]
             \/ q = [sweep[s] EXCEPT !.pc = pc, !.why = "dead"]
      PROVE  SweepGood'
  <2>1. sweep[s] \in Sweeps /\ sweep[s].op \in Ops
    BY <1>a, <1>g DEF SweepOK
  <2>2. q \in Sweeps /\ q.op \in Ops
    BY <1>g, <2>1 DEF Sweeps
  <2>. QED
    BY <1>c, <1>g, <2>2
<1>3. ASSUME NEW s \in Sweepers, ProbeAnswers(s) PROVE SweepGood'
  <2>1. CASE \E p \in {"succeeded", "failed"} :
               sweep' = [sweep EXCEPT ![s].pc = "complete", ![s].outcome = p]
    <3>1. PICK p \in TerminalPhases :
            sweep' = [sweep EXCEPT ![s] = [sweep[s] EXCEPT !.pc = "complete", !.outcome = p]]
      BY <1>a, <2>1 DEF TerminalPhases
    <3>2. sweep[s] \in Sweeps /\ sweep[s].op \in Ops
      BY <1>3, <1>a DEF ProbeAnswers, SweepOK
    <3>3. [sweep[s] EXCEPT !.pc = "complete", !.outcome = p] \in Sweeps
      BY <3>1, <3>2 DEF Sweeps
    <3>. QED
      BY <1>c, <3>1, <3>2, <3>3 DEF Sweeps
  <2>2. CASE sweep' = [sweep EXCEPT ![s].pc = "claim", ![s].why = "dead"]
    <3>1. sweep' = [sweep EXCEPT ![s] = [sweep[s] EXCEPT !.pc = "claim", !.why = "dead"]]
      BY <1>a, <2>2
    <3>. QED
      BY <1>3, <1>g, <3>1 DEF ProbeAnswers
  <2>. QED
    BY <1>3, <2>1, <2>2 DEF ProbeAnswers
<1>4. ASSUME NEW s \in Sweepers, SweepClaim(s) PROVE SweepGood'
  <2>1. CASE SweepEnds(s)
    BY <1>d, <2>1
  <2>2. CASE sweep' = [sweep EXCEPT ![s].pc = "fetch", ![s].owner = NewId]
    <3>1. sweep' = [sweep EXCEPT ![s] = [sweep[s] EXCEPT !.pc = "fetch", !.owner = NewId]]
      BY <1>a, <2>2
    <3>2. NewId \in Tokens /\ sweep[s].pc = "claim"
      BY <1>4, NewIdFresh DEF SweepClaim
    <3>. QED
      BY <1>g, <3>1, <3>2
  <2>. QED
    BY <1>4, <2>1, <2>2 DEF SweepClaim
<1>5. ASSUME NEW s \in Sweepers, SweepFetch(s) PROVE SweepGood'
  BY <1>5, <1>a, <1>d, <1>g DEF SweepFetch, SweepTo
<1>6. ASSUME NEW s \in Sweepers, Enforce(s) PROVE SweepGood'
  <2>1. CASE \E p \in {"succeeded", "failed"} :
               sweep' = [sweep EXCEPT ![s].pc = "complete", ![s].outcome = p]
    <3>1. PICK p \in TerminalPhases :
            sweep' = [sweep EXCEPT ![s] = [sweep[s] EXCEPT !.pc = "complete", !.outcome = p]]
      BY <1>a, <2>1 DEF TerminalPhases
    <3>2. sweep[s] \in Sweeps /\ sweep[s].op \in Ops
      BY <1>6, <1>a DEF Enforce, SweepOK
    <3>3. [sweep[s] EXCEPT !.pc = "complete", !.outcome = p] \in Sweeps
      BY <3>1, <3>2 DEF Sweeps
    <3>. QED
      BY <1>c, <3>1, <3>2, <3>3 DEF Sweeps
  <2>2. CASE SweepTo(s, "fail")
    BY <1>6, <1>a, <1>g, <2>2 DEF Enforce, SweepTo
  <2>. QED
    BY <1>6, <2>1, <2>2 DEF Enforce
<1>7. CASE Crash
  BY <1>7, <1>b DEF Crash, SweepGood, SweepOK
<1>8. CASE sweep' = sweep
  BY <1>a, <1>8 DEF SweepGood, SweepOK
<1>. QED
  BY <1>1, <1>2, <1>3, <1>4, <1>5, <1>6, <1>7, <1>8
     DEF Next, DriveStep, SweepStep, DriveBegin, DriveEnd, ClaimBatch, StartOne,
         TaskBegin, TaskBusy, ExecBegin, ExactObserved, ExactClaim, ExactUnclaimable,
         PressRetry, BootRecover, Prepare, Effect, SpawnParked, WriteAdvance,
         WriteFailure, WriteCompensating, WriteAwaiting, WriteParked, WriteDeferral,
         StepEffect, StepWrite, StepsDone, WakerRegister, WakerRelease, TrackTaken,
         TrackFreed, Observe, ProcExit, DeadlinePasses, LeaseExpires, LeaseLost,
         TurnDropped, DriverOnly

\* What a step makes of a sweeper: nothing, done, started on a parked row, or
\* one step further, where it settles the row only after it killed the process.
SweepGoes(s) ==
  \/ sweep'[s] = sweep[s]
  \/ sweep'[s].pc = "idle"
  \/ /\ sweep'[s].pc \in {"claim", "probe"}
     /\ sweep'[s].op \in Ops /\ row[sweep'[s].op].phase = "parked"
  \/ /\ sweep[s].pc # "idle" /\ sweep'[s].op = sweep[s].op
     /\ sweep'[s].pc \in {"complete", "fail"} => Kill(sweep[s].op)

LEMMA NextSweepGoes == IInv /\ Next => \A s \in Sweepers : SweepGoes(s)
<1> SUFFICES ASSUME IInv, Next, NEW s \in Sweepers PROVE SweepGoes(s)
  OBVIOUS
<1>a. sweep \in [Sweepers -> Sweeps]
  BY DEF IInv, TypeOK
<1>b. ASSUME NEW u \in Sweepers, SweepEnds(u) PROVE SweepGoes(s)
  BY <1>a, <1>b DEF SweepEnds, IdleSweep, SweepGoes
<1>1. ASSUME NEW u \in Sweepers, NEW o \in Ops,
             SweepBegin(u, o) \/ VerifyBegin(u, o) \/ CancelBegin(u, o)
      PROVE  SweepGoes(s)
  <2>1. CASE sweep' = sweep
    BY <2>1 DEF SweepGoes
  <2>2. CASE sweep' # sweep
    <3>1. row[o].phase = "parked"
      BY <1>1, <2>2 DEF SweepBegin, VerifyBegin, CancelBegin
    <3>2. PICK mode \in {"steady", "boot", "cancel"}, x \in {"claim", "probe"} :
            \/ sweep' = [sweep EXCEPT ![u] = [IdleSweep EXCEPT !.op = o, !.pc = x]]
            \/ sweep' = [sweep EXCEPT ![u] =
                           [IdleSweep EXCEPT !.op = o, !.mode = mode, !.pc = x]]
      BY <1>1, <2>2 DEF SweepBegin, VerifyBegin, CancelBegin
    <3>3. ASSUME NEW q, q.op = o, q.pc = x, sweep' = [sweep EXCEPT ![u] = q]
          PROVE  SweepGoes(s)
      BY <1>a, <3>1, <3>2, <3>3 DEF SweepGoes
    <3>. QED
      BY <3>2, <3>3 DEF IdleSweep
  <2>. QED
    BY <2>1, <2>2
<1>2. ASSUME NEW u \in Sweepers,
             \/ ProbeLeaves(u) \/ SweepComplete(u) \/ SweepFail(u)
             \/ SweepCompensate(u) \/ SweepDropped(u)
      PROVE  SweepGoes(s)
  BY <1>2, <1>b DEF ProbeLeaves, SweepComplete, SweepFail, SweepCompensate, SweepDropped
<1>3. ASSUME NEW u \in Sweepers, ProbeAnswers(u) PROVE SweepGoes(s)
  BY <1>3, <1>a DEF ProbeAnswers, SweepGoes, Sweeps
<1>4. ASSUME NEW u \in Sweepers, SweepClaim(u) PROVE SweepGoes(s)
  BY <1>4, <1>a, <1>b DEF SweepClaim, SweepGoes, Sweeps
<1>5. ASSUME NEW u \in Sweepers, SweepFetch(u) PROVE SweepGoes(s)
  BY <1>5, <1>a, <1>b DEF SweepFetch, SweepTo, SweepGoes, Sweeps
<1>6. ASSUME NEW u \in Sweepers, Enforce(u) PROVE SweepGoes(s)
  BY <1>6, <1>a DEF Enforce, SweepTo, SweepGoes, Sweeps
<1>7. CASE Crash
  BY <1>7 DEF Crash, IdleSweep, SweepGoes
<1>8. CASE sweep' = sweep
  BY <1>8 DEF SweepGoes
<1>. QED
  BY <1>1, <1>2, <1>3, <1>4, <1>5, <1>6, <1>7, <1>8
     DEF Next, DriveStep, SweepStep, DriveBegin, DriveEnd, ClaimBatch, StartOne,
         TaskBegin, TaskBusy, ExecBegin, ExactObserved, ExactClaim, ExactUnclaimable,
         PressRetry, BootRecover, Prepare, Effect, SpawnParked, WriteAdvance,
         WriteFailure, WriteCompensating, WriteAwaiting, WriteParked, WriteDeferral,
         StepEffect, StepWrite, StepsDone, WakerRegister, WakerRelease, TrackTaken,
         TrackFreed, Observe, ProcExit, DeadlinePasses, LeaseExpires, LeaseLost,
         TurnDropped, DriverOnly

\* Only the spawn of a row in spawn_started starts a process.
LEMMA NextProc ==
  IInv /\ Next =>
    \A o \in Ops : proc[o] # "running" /\ row[o].phase # "spawn_started" => proc'[o] # "running"
<1> SUFFICES ASSUME IInv, Next, NEW o \in Ops, proc[o] # "running",
                    row[o].phase # "spawn_started"
             PROVE  proc'[o] # "running"
  OBVIOUS
<1>a. proc \in [Ops -> {"none", "running", "exited"}]
  BY DEF IInv, TypeOK
<1>1. CASE SpawnParked
  <2>1. /\ Cur \in Claims /\ row[Cur.op].phase = "spawn_started"
        /\ proc' = [proc EXCEPT ![Cur.op] = "running"]
    BY <1>1 DEF SpawnParked, IInv, TurnOK, HandOK, ClaimHolds, Working, Cur
  <2>. QED
    BY <1>a, <2>1 DEF Claims
<1>2. ASSUME NEW x, Kill(x) PROVE proc'[o] # "running"
  BY <1>a, <1>2 DEF Kill
<1>3. ASSUME NEW x \in Ops, ProcExit(x) PROVE proc'[o] # "running"
  BY <1>a, <1>3 DEF ProcExit
<1>4. CASE proc' = proc
  BY <1>4
<1>. QED
  BY <1>1, <1>2, <1>3, <1>4
     DEF Next, DriveStep, SweepStep, DriveBegin, DriveEnd, ClaimBatch, StartOne,
         TaskBegin, TaskBusy, ExecBegin, ExactObserved, ExactClaim, ExactUnclaimable,
         PressRetry, BootRecover, Prepare, Effect, WriteAdvance, WriteFailure,
         WriteCompensating, WriteAwaiting, WriteParked, WriteDeferral, StepEffect,
         StepWrite, StepsDone, WakerRegister, WakerRelease, TrackTaken, TrackFreed,
         Observe, DeadlinePasses, LeaseExpires, LeaseLost, TurnDropped, SweepBegin,
         VerifyBegin, CancelBegin, ProbeLeaves, ProbeAnswers, SweepClaim, SweepFetch,
         Enforce, SweepComplete, SweepFail, SweepCompensate, SweepDropped, Crash,
         DriverOnly, SweepOnly

\* A row a sweeper works on is never spawned again, so what it killed stays dead.
LEMMA NextGone == IInv /\ Next => GoneOK'
<1> SUFFICES ASSUME IInv, Next, NEW s \in Sweepers, sweep'[s].pc # "idle"
             PROVE  /\ row'[sweep'[s].op].phase \in PastSpawning
                    /\ sweep'[s].pc \in {"complete", "fail"} => proc'[sweep'[s].op] # "running"
  BY DEF GoneOK
<1>1. RowStep /\ SweepGoes(s)
  BY NextRowStep, NextSweepGoes
<1>2. \A o \in Ops : row[o].phase \in PastSpawning => row'[o].phase \in PastSpawning
  BY <1>1 DEF RowStep, Quiet, Moves, Winds, Settled, PastSpawning
<1>3. \A o \in Ops : proc[o] # "running" /\ row[o].phase \in PastSpawning => proc'[o] # "running"
  BY NextProc DEF PastSpawning, TerminalPhases
<1>4. sweep[s].pc # "idle" =>
        /\ sweep[s].op \in Ops /\ row[sweep[s].op].phase \in PastSpawning
        /\ sweep[s].pc \in {"complete", "fail"} => proc[sweep[s].op] # "running"
  BY DEF IInv, SweepOK, GoneOK
<1>5. CASE sweep'[s] = sweep[s]
  BY <1>2, <1>3, <1>4, <1>5
<1>6. CASE /\ sweep'[s].pc \in {"claim", "probe"}
           /\ sweep'[s].op \in Ops /\ row[sweep'[s].op].phase = "parked"
  BY <1>2, <1>6 DEF PastSpawning
<1>7. CASE /\ sweep[s].pc # "idle" /\ sweep'[s].op = sweep[s].op
           /\ sweep'[s].pc \in {"complete", "fail"} => Kill(sweep[s].op)
  <2>1. proc \in [Ops -> {"none", "running", "exited"}]
    BY DEF IInv, TypeOK
  <2>2. Kill(sweep[s].op) => proc'[sweep[s].op] # "running"
    BY <1>4, <1>7, <2>1 DEF Kill
  <2>. QED
    BY <1>2, <1>4, <1>7, <2>2
<1>. QED
  BY <1>1, <1>5, <1>6, <1>7 DEF SweepGoes

\* Every action keeps the remaining variables typed.
LEMMA NextRest ==
  IInv /\ Next => /\ obs' \in SUBSET Ops /\ waker' \in [Ops -> {"none", "spawned", "waiting"}]
                  /\ busy' \in SUBSET Tracked
                  /\ bootplan' \in SUBSET (Ops \X {"recover", "verify"})
                  /\ proc' \in [Ops -> {"none", "running", "exited"}]
                  /\ won' \in [Ops -> SUBSET Nat] /\ faults' \in 0 .. MaxFaults
<1> SUFFICES ASSUME IInv, Next
             PROVE  /\ obs' \in SUBSET Ops
                    /\ waker' \in [Ops -> {"none", "spawned", "waiting"}]
                    /\ busy' \in SUBSET Tracked
                    /\ bootplan' \in SUBSET (Ops \X {"recover", "verify"})
                    /\ proc' \in [Ops -> {"none", "running", "exited"}]
                    /\ won' \in [Ops -> SUBSET Nat] /\ faults' \in 0 .. MaxFaults
  OBVIOUS
<1>a. /\ obs \in SUBSET Ops /\ waker \in [Ops -> {"none", "spawned", "waiting"}]
      /\ busy \in SUBSET Tracked /\ bootplan \in SUBSET (Ops \X {"recover", "verify"})
      /\ proc \in [Ops -> {"none", "running", "exited"}]
      /\ won \in [Ops -> SUBSET Nat] /\ faults \in 0 .. MaxFaults
  BY DEF IInv, TypeOK
<1>b. turn.pc \in Working => Cur.op \in Ops
  BY DEF IInv, TurnOK, Cur, Claims
<1> USE DEF Next, DriveStep, SweepStep, DriveBegin, DriveEnd, ClaimBatch, StartOne,
            TaskBegin, TaskBusy, ExecBegin, ExactObserved, ExactClaim, ExactUnclaimable,
            PressRetry, BootRecover, Prepare, Effect, SpawnParked, WriteAdvance,
            WriteFailure, WriteCompensating, WriteAwaiting, WriteParked, WriteDeferral,
            StepEffect, StepWrite, StepsDone, WakerRegister, WakerRelease, TrackTaken,
            TrackFreed, Observe, ProcExit, DeadlinePasses, LeaseExpires, LeaseLost,
            TurnDropped, SweepBegin, VerifyBegin, CancelBegin, ProbeLeaves, ProbeAnswers,
            SweepClaim, SweepFetch, Enforce, SweepComplete, SweepFail, SweepCompensate,
            SweepDropped, Crash, DriverOnly, SweepOnly
<1>1. obs' \in SUBSET Ops
  <2>1. \/ obs' = obs \/ obs' = {} \/ \E o \in Ops : obs' = obs \ {o}
        \/ turn.pc \in Working /\ obs' = obs \cup {Cur.op}
    BY DEF Working
  <2>. QED
    BY <1>a, <1>b, <2>1
<1>2. waker' \in [Ops -> {"none", "spawned", "waiting"}]
  <2>1. \/ waker' = waker \/ waker' = [o \in Ops |-> "none"]
        \/ \E o \in Ops : waker' = [waker EXCEPT ![o] = "waiting"]
        \/ \E o \in Ops : waker' = [waker EXCEPT ![o] = "none"]
        \/ turn.pc \in Working /\ waker' = [waker EXCEPT ![Cur.op] = "spawned"]
    BY DEF Working
  <2>. QED
    BY <1>a, <1>b, <2>1, ZenonT(40)
<1>3. busy' \in SUBSET Tracked
  <2>1. \/ busy' = busy \/ busy' = {} \/ \E o \in Ops : busy' = busy \ {o}
        \/ \E o \in Tracked : busy' = busy \cup {o}
    OBVIOUS
  <2>. QED
    BY <1>a, <2>1
<1>4. bootplan' \in SUBSET (Ops \X {"recover", "verify"})
  <2>1. \/ bootplan' \subseteq bootplan
        \/ bootplan' =
             {<<o, "recover">> : o \in {x \in Ops : row[x].phase \in DrivablePhases}}
               \cup {<<o, "verify">> : o \in {x \in Ops : row[x].phase = "parked"}}
    OBVIOUS
  <2> HIDE DEF Next
  <2>2. ASSUME NEW x \in bootplan' PROVE x \in Ops \X {"recover", "verify"}
    BY <1>a, <2>1
  <2>. QED
    BY <2>2
<1>5. proc' \in [Ops -> {"none", "running", "exited"}]
  <2>1. \/ proc' = proc
        \/ \E o \in Ops : proc' = [proc EXCEPT ![o] = "exited"]
        \/ turn.pc \in Working /\ proc' = [proc EXCEPT ![Cur.op] = "running"]
        \/ \E s \in Sweepers : Kill(sweep[s].op)
    BY DEF Working
  <2> HIDE DEF Next
  <2>2. ASSUME NEW o, Kill(o) PROVE proc' \in [Ops -> {"none", "running", "exited"}]
    BY <1>a, <2>2 DEF Kill
  <2>. QED
    BY <1>a, <1>b, <2>1, <2>2
<1>6. won' \in [Ops -> SUBSET Nat]
  <2>1. \/ won' = won
        \/ \E o \in Ops, a \in 0 .. MaxAttempts : won' = [won EXCEPT ![o] = @ \cup {a}]
    OBVIOUS
  <2> HIDE DEF Next
  <2>2. 0 .. MaxAttempts \subseteq Nat
    BY RuntimeAssumption
  <2>. QED
    BY <1>a, <2>1, <2>2
<1>7. faults' \in 0 .. MaxFaults
  <2>1. faults' = faults \/ (faults < MaxFaults /\ faults' = faults + 1)
    BY ZenonT(40) DEF Fault
  <2> HIDE DEF Next
  <2>2. MaxFaults \in Nat
    BY RuntimeAssumption
  <2>. QED
    BY <1>a, <2>1, <2>2
<1>. QED
  BY <1>1, <1>2, <1>3, <1>4, <1>5, <1>6, <1>7

-----------------------------------------------------------------------------
(* The invariant is inductive.                                             *)

\* Before anything is driven.
LEMMA InitIInv == Init => IInv
<1> SUFFICES ASSUME Init PROVE IInv
  OBVIOUS
<1>1. \A q \in {"driver", "scheduler"} : NewRow(q) \in Rows /\ RowInv(NewRow(q))
  BY DEF NewRow, Rows, RowType, Phases, DrivablePhases, RowInv, Settled, TerminalPhases
<1>2. PICK old \in SUBSET TaskBound :
        row = [o \in Ops |-> NewRow(IF o \in TaskBound \ old THEN "scheduler" ELSE "driver")]
  BY DEF Init
<1>3. row \in [Ops -> Rows] /\ RowsOK
  BY <1>1, <1>2 DEF RowsOK
<1>4. turn \in Turns
  BY DEF Init, IdleTurn, Turns, Modes, Results
<1>5. sweep \in [Sweepers -> Sweeps] /\ SweepOK
  BY DEF Init, IdleSweep, Sweeps, SweepOK, TerminalPhases
<1>6. TurnOK /\ HandOK
  BY DEF Init, IdleTurn, TurnOK, HandOK, Working
<1>7. GoneOK
  BY DEF Init, IdleSweep, GoneOK
<1>8. TypeOK
  BY <1>3, <1>4, <1>5, RuntimeAssumption DEF Init, TypeOK, Rows
<1>. QED
  BY <1>3, <1>5, <1>6, <1>7, <1>8 DEF IInv

\* Each step keeps it.
LEMMA StepIInv == IInv /\ [Next]_vars => IInv'
<1> SUFFICES ASSUME IInv, [Next]_vars PROVE IInv'
  OBVIOUS
<1>1. CASE Next
  <2>1. RowStep
    BY <1>1, NextRowStep
  <2>2. row' \in [Ops -> Rows] /\ RowsOK'
    BY <2>1 DEF RowStep, Quiet, Moves, RowsOK
  <2>3. told' \in [Ops -> SUBSET TerminalPhases]
    <3>1. \A x \in Ops : told[x] \in SUBSET TerminalPhases
      BY DEF IInv, TypeOK
    <3>2. \A x \in Ops : told'[x] \in SUBSET TerminalPhases
      BY <2>1, <3>1 DEF RowStep, Quiet, Moves, Settled
    <3>. QED
      BY <2>1, <3>2 DEF RowStep
  <2>4. TurnGood' /\ SweepGood' /\ HandOK' /\ GoneOK'
    BY <1>1, NextTurn, NextSweep, NextHand, NextGone
  <2>5. TypeOK'
    BY <1>1, <2>2, <2>3, <2>4, NextRest DEF TypeOK, TurnGood, SweepGood, Rows
  <2>. QED
    BY <2>2, <2>4, <2>5 DEF IInv, TurnGood, SweepGood
<1>2. CASE UNCHANGED vars
  BY <1>2 DEF vars, IInv, TypeOK, TurnOK, SweepOK, RowsOK, HandOK, ClaimHolds, GoneOK, Working
<1>. QED
  BY <1>1, <1>2

\* The invariant holds throughout.
THEOREM Invariance == Spec => []IInv
<1>1. Init => IInv
  BY InitIInv
<1>2. IInv /\ [Next]_vars => IInv'
  BY StepIInv
<1>. QED
  BY <1>1, <1>2, PTL DEF Spec

\* Type correctness: every row the driver, the sweepers, the observers and boot
\* recovery write is a row of the table, every task is in a state of its code.
THEOREM TypeCorrect == Spec => []TypeOK
<1>1. IInv => TypeOK
  BY DEF IInv
<1>. QED
  BY <1>1, Invariance, PTL

\* write_terminal_tx leaves no claim and no deadline on a settled row, and no
\* later write puts one back.
THEOREM SettledRowsAreFree == Spec => []SettledReleased
<1>1. IInv => SettledReleased
  BY DEF IInv, RowsOK, RowInv, SettledReleased, Settled, TerminalPhases
<1>. QED
  BY <1>1, Invariance, PTL

\* A parked row has its artifacts and a deadline, whatever happened between the
\* spawn, the recording of the artifacts and set_parked.
THEOREM ParkedRowsAreRecoverable == Spec => []ParkedIsRecoverable
<1>1. IInv => ParkedIsRecoverable
  BY DEF IInv, RowsOK, RowInv, ParkedIsRecoverable
<1>. QED
  BY <1>1, Invariance, PTL

\* At every moment the rows a restart would find are complete: well formed, free
\* of claims once settled, recoverable while parked (Settle, WriteParked).
THEOREM RestingRowsAreSound == Spec => []RestingRowsSound
<1>1. TypeOK /\ SettledReleased /\ ParkedIsRecoverable => RestingRowsSound
  BY DEF RestingRowsSound
<1>. QED
  BY TypeCorrect, SettledRowsAreFree, ParkedRowsAreRecoverable, <1>1, PTL

\* The row of a claim in a turn's hands keeps its phase: the mutex excludes
\* every other driver, and no task outside it moves a drivable row.
THEOREM DriverIsAlone == Spec => []DriveExclusive
<1>1. IInv => DriveExclusive
  <2> SUFFICES ASSUME IInv, NEW c \in TurnClaims PROVE row[c.op].phase = c.phase
    BY DEF DriveExclusive
  <2>1. CASE c \in turn.queue
    BY <2>1 DEF IInv, HandOK, ClaimHolds
  <2>2. CASE c = turn.cur /\ c # NoClaim
    BY <2>2 DEF IInv, HandOK, ClaimHolds, TurnOK
  <2>. QED
    BY <2>1, <2>2 DEF TurnClaims
<1>. QED
  BY <1>1, Invariance, PTL

\* A settled row is never written again, whoever comes late.
THEOREM SettledIsFinal == Spec => SettledFinal
<1>1. IInv /\ [Next]_vars => [\A o \in Ops : Settled(row[o]) => row'[o] = row[o]]_vars
  <2> SUFFICES ASSUME IInv, Next, NEW o \in Ops, Settled(row[o]) PROVE row'[o] = row[o]
    OBVIOUS
  <2>1. RowStep
    BY NextRowStep
  <2>. QED
    BY <2>1 DEF RowStep, Quiet, Moves
<1>. QED
  BY <1>1, Invariance, PTL DEF Spec, SettledFinal

\* An operation leaves awaiting_retry by an explicit press only.
THEOREM RetryIsExplicit == Spec => AwaitingOnlyByPress
<1>1. IInv /\ [Next]_vars =>
        [\A o \in Ops : row[o].phase = "awaiting_retry" /\ row'[o] # row[o]
           => row'[o].attempt = row[o].attempt + 1]_vars
  <2> SUFFICES ASSUME IInv, Next, NEW o \in Ops,
                      row[o].phase = "awaiting_retry", row'[o] # row[o]
               PROVE  row'[o].attempt = row[o].attempt + 1
    OBVIOUS
  <2>1. RowStep
    BY NextRowStep
  <2>. QED
    BY <2>1 DEF RowStep, Quiet, Moves
<1>. QED
  BY <1>1, Invariance, PTL DEF Spec, AwaitingOnlyByPress

\* Whatever the completion bus delivered is the outcome in the row: results are
\* announced with the write that settles, and that write is the last.
THEOREM AnnouncedIsDurable == Spec => []ToldIsDurable
<1>1. Init => ToldIsDurable
  BY DEF Init, ToldIsDurable
<1>2. IInv /\ ToldIsDurable /\ [Next]_vars => ToldIsDurable'
  <2> SUFFICES ASSUME IInv, ToldIsDurable, Next, NEW o \in Ops, NEW p \in told'[o]
               PROVE  row'[o].phase = p
    BY DEF ToldIsDurable, vars
  <2>1. RowStep
    BY NextRowStep
  <2>2. told[o] # {} => Settled(row[o])
    BY DEF IInv, TypeOK, ToldIsDurable, Settled
  <2>3. CASE Quiet(o)
    BY <2>3 DEF Quiet, ToldIsDurable
  <2>4. CASE Moves(o)
    BY <2>2, <2>4 DEF Moves
  <2>. QED
    BY <2>1, <2>3, <2>4 DEF RowStep
<1>. QED
  BY <1>1, <1>2, Invariance, PTL DEF Spec

\* claim_retry compares the attempt under the row's own write, so every
\* generation is won by one press and none is skipped.
THEOREM RetriesAreCounted == Spec => []RetryGenerations
<1>1. Init => RetryGenerations
  BY DEF Init, NewRow, RetryGenerations
<1>2. IInv /\ RetryGenerations /\ [Next]_vars => RetryGenerations'
  <2> SUFFICES ASSUME IInv, RetryGenerations, Next, NEW o \in Ops
               PROVE  won'[o] = 0 .. (row'[o].attempt - 1)
    BY DEF RetryGenerations, vars
  <2>1. RowStep
    BY NextRowStep
  <2>2. won[o] = 0 .. (row[o].attempt - 1) /\ row[o].attempt \in Nat
    BY DEF RetryGenerations, IInv, TypeOK, RowType
  <2>3. row[o].attempt \notin won[o]
    BY <2>2
  <2>4. \/ won' = won
        \/ \E x \in Ops, a \in 0 .. MaxAttempts : PressRetry(x, a)
    BY DEF Next, DriveStep, SweepStep, DriveBegin, DriveEnd, ClaimBatch, StartOne,
           TaskBegin, TaskBusy, ExecBegin, ExactObserved, ExactClaim, ExactUnclaimable,
           BootRecover, Prepare, Effect, SpawnParked, WriteAdvance, WriteFailure,
           WriteCompensating, WriteAwaiting, WriteParked, WriteDeferral, StepEffect,
           StepWrite, StepsDone, WakerRegister, WakerRelease, TrackTaken, TrackFreed,
           Observe, ProcExit, DeadlinePasses, LeaseExpires, LeaseLost, TurnDropped,
           SweepBegin, VerifyBegin, CancelBegin, ProbeLeaves, ProbeAnswers, SweepClaim,
           SweepFetch, Enforce, SweepComplete, SweepFail, SweepCompensate, SweepDropped,
           Crash, DriverOnly, SweepOnly
  <2>5. CASE won' = won
    <3>1. row'[o].attempt = row[o].attempt
      BY <2>1, <2>3, <2>5 DEF RowStep, Quiet, Moves
    <3>. QED
      BY <2>2, <2>5, <3>1
  <2>6. ASSUME NEW x \in Ops, NEW a \in 0 .. MaxAttempts, PressRetry(x, a)
        PROVE  won'[o] = 0 .. (row'[o].attempt - 1)
    <3>1. /\ won' = [won EXCEPT ![x] = @ \cup {a}] /\ row[x].attempt = a
          /\ row' = [row EXCEPT ![x] = RetryPressed(row[x], NewId)] /\ NewId \in Tokens
      BY <2>6, NewIdFresh DEF PressRetry, RetryWon
    <3>2. won \in [Ops -> SUBSET Nat] /\ row \in [Ops -> Rows]
      BY DEF IInv, TypeOK, Rows
    <3>3. CASE o # x
      BY <2>2, <3>1, <3>2, <3>3
    <3>4. CASE o = x
      <4>1. row'[o].attempt = row[o].attempt + 1
        BY <3>1, <3>2, <3>4, RowFields
      <4>2. won'[o] = won[o] \cup {row[o].attempt}
        BY <3>1, <3>2, <3>4
      <4>. QED
        BY <2>2, <4>1, <4>2
    <3>. QED
      BY <3>3, <3>4
  <2>. QED
    BY <2>4, <2>5, <2>6
<1>. QED
  BY <1>1, <1>2, Invariance, PTL DEF Spec

\* drive_compensation runs no recorded step again and forgets none, also when a
\* lease runs out, a task is dropped or the server restarts between a step and
\* its record: the plan in hand knows every step the row knows.
THEOREM CompensatesExactly == Spec => CompensationIsExact
<1>1. IInv /\ [Next]_vars => [StepEffect => NextStep(Cur) \notin CurRow.done]_vars
  <2> SUFFICES ASSUME IInv, StepEffect PROVE NextStep(Cur) \notin CurRow.done
    OBVIOUS
  <2>1. ClaimHolds(Cur) /\ Steps \ Cur.done # {}
    BY DEF StepEffect, IInv, HandOK, Working, Cur
  <2>2. NextStep(Cur) \notin Cur.done
    BY <2>1, NextStepIsOpen
  <2>. QED
    BY <2>1, <2>2 DEF ClaimHolds, CurRow
<1>2. IInv /\ [Next]_vars =>
        [\A o \in Ops : row[o].phase = "compensating" /\ row'[o].phase = "compensating"
           => row[o].done \subseteq row'[o].done]_vars
  <2> SUFFICES ASSUME IInv, Next, NEW o \in Ops,
                      row[o].phase = "compensating", row'[o].phase = "compensating"
               PROVE  row[o].done \subseteq row'[o].done
    OBVIOUS
  <2>1. RowStep
    BY NextRowStep
  <2>. QED
    BY <2>1 DEF RowStep, Quiet, Keeps, Moves, Winds, Settled, TerminalPhases
<1>. QED
  BY <1>1, <1>2, Invariance, PTL DEF Spec, CompensationIsExact, StepNotRepeated, StepsKept

\* What the scheduler owns no drive, waker, retry or boot recovery takes from it:
\* its pending row is deferred, settled or committed by a task-bounded turn.
THEOREM SchedulerKeepsPending == Spec => SchedulerOwnsPending
<1>1. IInv /\ [Next]_vars =>
        [\A o \in Ops :
           row[o].phase = "pending" /\ row[o].retryOwner = "scheduler"
             => IF row'[o].phase = "pending" THEN row'[o].retryOwner = "scheduler"
                                             ELSE turn.mode = "task"]_vars
  <2> SUFFICES ASSUME IInv, Next, NEW o \in Ops,
                      row[o].phase = "pending", row[o].retryOwner = "scheduler"
               PROVE  IF row'[o].phase = "pending" THEN row'[o].retryOwner = "scheduler"
                                                   ELSE turn.mode = "task"
    OBVIOUS
  <2>1. RowStep
    BY NextRowStep
  <2>. QED
    BY <2>1 DEF RowStep, Quiet, Keeps, Moves, SchedulersOwn
<1>. QED
  BY <1>1, Invariance, PTL DEF Spec, SchedulerOwnsPending

\* Whoever settles a parked row, observer, deadline, cancel or boot verdict, its
\* process is gone by then and is not started again.
THEOREM NothingRunsBehindSettled == Spec => SettledProcessGone
<1>1. IInv /\ [Next]_vars =>
        [\A o \in Ops :
           row[o].phase = "parked" /\ Settled(row'[o]) => proc'[o] # "running"]_vars
  <2> SUFFICES ASSUME IInv, Next, NEW o \in Ops, row[o].phase = "parked", Settled(row'[o])
               PROVE  proc'[o] # "running"
    OBVIOUS
  <2>1. RowStep
    BY NextRowStep
  <2>. QED
    BY <2>1 DEF RowStep, Quiet, Moves, Winds, Settled, TerminalPhases
<1>. QED
  BY <1>1, Invariance, PTL DEF Spec, SettledProcessGone

-----------------------------------------------------------------------------
(* The runtime implements its contract.                                    *)

\* How a row looks to a caller.
Status(r) ==
  IF Settled(r) THEN r.phase
  ELSE IF r.phase = "awaiting_retry" THEN "awaiting" ELSE "open"

\* Rows written without a change of phase look the same.
LEMMA QuietLooksTheSame ==
  ASSUME NEW x \in Ops, Quiet(x)
  PROVE  Status(row'[x]) = Status(row[x]) /\ told'[x] = told[x]
  BY DEF Quiet, Status, Settled

\* Every step of the runtime is a step of OperationContract: an outcome
\* committed and announced, a wait for a retry, a press, or nothing a caller
\* could see.
THEOREM RuntimeImplementsContract == Spec => ImplementsContract
<1> DEFINE st == [o \in Ops |-> Status(row[o])]
<1>1. Init => Contract!Init
  <2> SUFFICES ASSUME Init PROVE Contract!Init
    OBVIOUS
  <2>1. ASSUME NEW o \in Ops PROVE row[o].phase = "pending"
    BY DEF Init, NewRow
  <2>. QED
    BY <2>1 DEF Init, Contract!Init, Settled, TerminalPhases
<1>2. IInv /\ [Next]_vars => [Contract!Next]_<<st, told>>
  <2> SUFFICES ASSUME IInv, [Next]_vars PROVE [Contract!Next]_<<st, told>>
    OBVIOUS
  <2>1. CASE UNCHANGED vars
    BY <2>1 DEF vars, Status, Settled
  <2>2. CASE Next
    <3>1. RowStep
      BY <2>2, NextRowStep
    <3>2. CASE \A x \in Ops : Quiet(x)
      <4>1. st' = st
        BY <3>2, QuietLooksTheSame
      <4>2. told' = told
        BY <3>1, <3>2 DEF RowStep, Quiet, IInv, TypeOK
      <4>. QED
        BY <4>1, <4>2
    <3>3. ASSUME NEW o \in Ops, Moves(o), \A x \in Ops \ {o} : Quiet(x)
          PROVE  [Contract!Next]_<<st, told>>
      <4>1. st' = [st EXCEPT ![o] = Status(row'[o])]
        BY <3>3, QuietLooksTheSame
      <4>2. told' = [told EXCEPT ![o] = told'[o]]
        BY <3>1, <3>3 DEF RowStep, Quiet, IInv, TypeOK
      <4>3. st[o] = IF row[o].phase = "awaiting_retry" THEN "awaiting" ELSE "open"
        BY <3>3 DEF Moves, Status
      <4>4. CASE Settled(row'[o])
        <5>1. /\ st[o] = "open" /\ row'[o].phase \in TerminalPhases
              /\ told'[o] = told[o] \cup {row'[o].phase}
              /\ Status(row'[o]) = row'[o].phase
          BY <3>3, <4>3, <4>4 DEF Moves, Status, Settled, TerminalPhases
        <5>2. Contract!Settle(o, row'[o].phase)
          BY <4>1, <4>2, <5>1 DEF Contract!Settle, Status
        <5>3. row'[o].phase \in Contract!Outcomes
          BY <5>1 DEF Contract!Outcomes, TerminalPhases
        <5>4. \E p \in Contract!Outcomes : Contract!Settle(o, p)
          BY <5>2, <5>3 DEF Contract!Settle
        <5>5. Contract!Next
          BY <5>4 DEF Contract!Next
        <5>. QED
          BY <5>5
      <4>5. CASE ~Settled(row'[o])
        <5>1. told' = told
          BY <3>3, <4>2, <4>5 DEF Moves, IInv, TypeOK
        <5>2. CASE Status(row'[o]) = st[o]
          <6>1. st' = st
            BY <4>1, <5>2
          <6>. QED
            BY <5>1, <6>1
        <5>3. CASE Status(row'[o]) # st[o] /\ st[o] = "open"
          <6>1. Status(row'[o]) = "awaiting"
            BY <4>5, <5>3 DEF Status
          <6>2. Contract!Await(o)
            BY <4>1, <5>1, <5>3, <6>1 DEF Contract!Await, Status
          <6>. QED
            BY <6>2 DEF Contract!Next
        <5>4. CASE Status(row'[o]) # st[o] /\ st[o] = "awaiting"
          <6>1. Status(row'[o]) = "open"
            BY <4>5, <5>4 DEF Status
          <6>2. Contract!Press(o)
            BY <4>1, <5>1, <5>4, <6>1 DEF Contract!Press, Status
          <6>. QED
            BY <6>2 DEF Contract!Next
        <5>. QED
          BY <4>3, <5>2, <5>3, <5>4
      <4>. QED
        BY <4>4, <4>5
    <3>. QED
      BY <3>1, <3>2, <3>3 DEF RowStep
  <2>. QED
    BY <2>1, <2>2
<1>3. <<st, told>> = <<[o \in Ops |->
               IF Settled(row[o]) THEN row[o].phase
               ELSE IF row[o].phase = "awaiting_retry" THEN "awaiting" ELSE "open"], told>>
  BY DEF Status
<1>. QED
  BY <1>1, <1>2, <1>3, Invariance, PTL DEF Spec, ImplementsContract, Contract!Spec, Status

-----------------------------------------------------------------------------
(* Submission under an idempotency key, for any sets of callers, keys and  *)
(* payloads and any number of rows and requests.  KeyedOnce is not         *)
(* inductive: that an answer is right rests on what a waiting handler      *)
(* holds, and that an effect is single on the phases in which it is due.   *)

\* The unique index (kind, idempotency_key): a key is bound to one row at most.
UniqueKey ==
  \A i, j \in Ids : rows[i] # NoRow /\ rows[j] # NoRow /\ rows[i].key = rows[j].key => i = j

\* A row that is absent or pending has had no effect, another one had one.
EffectOnce ==
  \A i \in Ids :
    /\ effects[i] <= 1
    /\ rows[i].phase \in {"none", "pending"} => effects[i] = 0

\* What a waiting handler holds is the row of its own key and payload.
HoldsOwnRow ==
  \A c \in Callers :
    at[c] = "wait" =>
      /\ op[c] \in Ids
      /\ rows[op[c]].key = req[c].key /\ rows[op[c]].payload = req[c].payload

\* The inductive invariant.
SubmissionInv == SubmissionTypeOK /\ UniqueKey /\ EffectOnce /\ HoldsOwnRow /\ SameRequestSameResult

-----------------------------------------------------------------------------
(* Facts about the operators.                                              *)

\* A finite nonempty set of integers has a least element.
LEMMA LeastElement ==
  ASSUME NEW S \in SUBSET Int, IsFiniteSet(S), S # {}
  PROVE  \E x \in S : \A y \in S : x <= y
<1> DEFINE Below(x) == {y \in S : y < x}
           T == {Below(x) : x \in S}
           R == StrictSubsetOrdering(S)
<1>1. T # {}
  OBVIOUS
<1>2. IsWellFoundedOn(R, FiniteSubsetsOf(S))
  BY FS_StrictSubsetOrderingWellFounded
<1>3. T \subseteq FiniteSubsetsOf(S)
  BY FS_Subset DEF FiniteSubsetsOf
<1>4. PICK m \in T : \A t \in T : ~(<<t, m>> \in R)
  <2> HIDE DEF T, R
  <2>. QED  BY <1>1, <1>2, <1>3, WFMin
<1>5. PICK x \in S : m = Below(x)
  OBVIOUS
<1>6. ASSUME NEW y \in S, y < x PROVE FALSE
  <2> x \in Int /\ y \in Int /\ \A z \in S : z \in Int
    OBVIOUS
  <2>1. Below(y) \subseteq Below(x) /\ y \in Below(x) /\ y \notin Below(y)
    <3>1. ASSUME NEW z \in Below(y) PROVE z \in Below(x)
      BY <1>6
    <3>2. y \in Below(x) /\ ~(y < y)
      BY <1>6
    <3>. QED  BY <3>1, <3>2
  <2>2. Below(y) # Below(x)
    BY <2>1
  <2>3. Below(y) \in SUBSET S /\ Below(x) \in SUBSET S
    OBVIOUS
  <2>4. <<Below(y), Below(x)>> \in R
    <3> HIDE DEF Below
    <3>. QED  BY <2>1, <2>2, <2>3 DEF StrictSubsetOrdering
  <2>5. Below(y) \in T
    OBVIOUS
  <2>. QED
    BY <1>4, <1>5, <2>4, <2>5
<1>. QED
  BY <1>6

\* new_id returns an id no row has.
LEMMA NewRowIdIsFree == Free # {} => NewRowId \in Free
<1> SUFFICES ASSUME Free # {} PROVE NewRowId \in Free
  OBVIOUS
<1>1. Free \in SUBSET Int /\ IsFiniteSet(Free)
  <2>1. Ids \in SUBSET Int /\ IsFiniteSet(Ids)
    BY SubmissionAssumption, FS_Interval DEF Ids
  <2>. QED  BY <2>1, FS_Subset DEF Free
<1>2. \E i \in Free : \A j \in Free : i <= j
  BY <1>1, LeastElement
<1>. QED
  BY <1>2 DEF NewRowId

-----------------------------------------------------------------------------
(* The steps the handlers share.                                           *)

\* A step that leaves the rows alone, gives no answer and makes nobody wait.
LEMMA SubmissionQuietStep ==
  ASSUME SubmissionInv, SubmissionTypeOK', UNCHANGED <<rows, req, effects>>,
         \A d \in Callers : answer'[d] = answer[d] \/ answer'[d].kind \in {"none", "refused", "error"},
         \A d \in Callers : at'[d] = "wait" => at[d] = "wait" /\ op'[d] = op[d]
  PROVE  SubmissionInv'
<1>1. UniqueKey' /\ EffectOnce'
  BY DEF SubmissionInv, UniqueKey, EffectOnce
<1>2. HoldsOwnRow'
  BY DEF SubmissionInv, HoldsOwnRow
<1>3. SameRequestSameResult'
  BY DEF SubmissionInv, SameRequestSameResult, Bound
<1>. QED
  BY <1>1, <1>2, <1>3 DEF SubmissionInv

\* A handler that returns leaves everything well typed: its answer names a row
\* only when that row has settled.
LEMMA ReturnType ==
  ASSUME SubmissionTypeOK, NEW c \in Callers,
         NEW kind \in {"none", "result", "conflict", "refused", "error"},
         NEW i \in 0 .. MaxRows, i # 0 => HasSettled(i), Return(c, kind, i),
         UNCHANGED <<rows, req, op, sends, effects>>
  PROVE  SubmissionTypeOK'
<1> DEFINE heard == [kind |-> kind, id |-> i, result |-> IF i = 0 THEN "none" ELSE rows[i].phase]
           Replies == [kind : {"none", "result", "conflict", "refused", "error"},
                       id : 0 .. MaxRows, result : {"none", "succeeded", "failed"}]
<1>1. heard \in Replies
  BY DEF HasSettled
<1>2. answer' = [answer EXCEPT ![c] = heard] /\ answer \in [Callers -> Replies]
  BY DEF SubmissionTypeOK, Return
<1>3. answer' \in [Callers -> Replies]
  <2> HIDE DEF heard, Replies
  <2>. QED  BY <1>1, <1>2
<1>4. drive' \in Callers \cup {None}
  BY DEF SubmissionTypeOK, Return
<1>5. at' \in [Callers -> {"idle", "lock", "replay", "validate", "dedup", "insert",
                           "relookup", "begin", "wait"}]
  BY DEF SubmissionTypeOK, Return, Goto
<1>. QED
  BY <1>3, <1>4, <1>5 DEF SubmissionTypeOK

\* A lookup (keyed_replay, dedup, relookup): a handler ends up waiting only for
\* the row of its own key and payload, and is refused only by another payload.
LEMMA LookupStep ==
  ASSUME SubmissionInv, NEW c \in Callers,
         NEW next \in {"validate", "insert", "relookup", "begin"},
         Lookup(c, next), UNCHANGED <<rows, req, sends, effects>>
  PROVE  SubmissionInv'
<1>1. SubmissionTypeOK /\ req[c].key \in Keys
  BY DEF SubmissionInv, SubmissionTypeOK
<1>2. CASE Bound(req[c].key) = {}
  <2>1. at' = [at EXCEPT ![c] = next] /\ UNCHANGED <<op, answer, drive>>
    BY <1>2 DEF Lookup, Goto
  <2>2. SubmissionTypeOK'
    BY <1>1, <2>1 DEF SubmissionTypeOK
  <2>. QED
    BY <1>1, <2>1, <2>2, SubmissionQuietStep DEF SubmissionTypeOK
<1>3. CASE Bound(req[c].key) # {}
  <2> DEFINE i == CHOOSE i \in Bound(req[c].key) : TRUE
  <2>1. i \in Bound(req[c].key) /\ i \in Ids /\ rows[i].key = req[c].key
    BY <1>3 DEF Bound
  <2> HIDE DEF i
  <2>2. CASE rows[i].payload = req[c].payload
    <3>1. op' = [op EXCEPT ![c] = i] /\ at' = [at EXCEPT ![c] = "wait"] /\ UNCHANGED <<answer, drive>>
      BY <1>3, <2>2 DEF Lookup, Goto, i
    <3>2. SubmissionTypeOK'
      BY <1>1, <2>1, <3>1 DEF SubmissionTypeOK, Ids
    <3>3. HoldsOwnRow'
      BY <1>1, <2>1, <2>2, <3>1 DEF SubmissionInv, HoldsOwnRow, SubmissionTypeOK
    <3>4. UniqueKey' /\ EffectOnce' /\ SameRequestSameResult'
      BY <3>1 DEF SubmissionInv, UniqueKey, EffectOnce, SameRequestSameResult, Bound
    <3>. QED
      BY <3>2, <3>3, <3>4 DEF SubmissionInv
  <2>3. CASE rows[i].payload # req[c].payload
    <3>1. /\ answer' = [answer EXCEPT ![c] = [kind |-> "conflict", id |-> 0, result |-> "none"]]
          /\ at' = [at EXCEPT ![c] = "idle"]
          /\ drive' = IF drive = c THEN None ELSE drive
          /\ UNCHANGED op
      BY <1>3, <2>3 DEF Lookup, Goto, Return, i
    <3>2. SubmissionTypeOK'
      <4>1. Return(c, "conflict", 0)
        BY <1>3, <2>3 DEF Lookup, i
      <4>. QED
        BY <1>1, <3>1, <4>1, ReturnType, SubmissionAssumption
    <3>3. HoldsOwnRow'
      BY <1>1, <3>1 DEF SubmissionInv, HoldsOwnRow, SubmissionTypeOK
    <3>4. UniqueKey' /\ EffectOnce'
      BY DEF SubmissionInv, UniqueKey, EffectOnce
    <3>5. SameRequestSameResult'
      BY <1>1, <2>1, <2>3, <3>1, SMTT(20) DEF SubmissionInv, SameRequestSameResult, Bound, SubmissionTypeOK
    <3>. QED
      BY <3>2, <3>3, <3>4, <3>5 DEF SubmissionInv
  <2>. QED
    BY <2>2, <2>3
<1>. QED
  BY <1>2, <1>3

\* A new row under a key no row has (INSERT, commit_tx_only), with its effect
\* when it is inserted settled, and a handler that waits for it.
LEMMA BindStep ==
  ASSUME SubmissionInv, NEW c \in Callers, NEW phase \in {"pending", "succeeded"},
         Bound(req[c].key) = {}, Free # {},
         rows' = [rows EXCEPT ![NewRowId] = [key |-> req[c].key, payload |-> req[c].payload,
                                          phase |-> phase]],
         effects' = [effects EXCEPT ![NewRowId] = IF phase = "pending" THEN @ ELSE @ + 1],
         op' = [op EXCEPT ![c] = NewRowId], at' = [at EXCEPT ![c] = "wait"],
         UNCHANGED <<req, answer, sends, drive>>
  PROVE  SubmissionInv'
<1>1. SubmissionTypeOK /\ req[c].key \in Keys /\ req[c].payload \in Payloads
  BY DEF SubmissionInv, SubmissionTypeOK
<1> DEFINE n == NewRowId
<1>2. n \in Ids /\ rows[n] = NoRow /\ effects[n] = 0
  BY NewRowIdIsFree DEF Free, SubmissionInv, EffectOnce, NoRow
<1>3. rows' = [rows EXCEPT ![n] = [key |-> req[c].key, payload |-> req[c].payload, phase |-> phase]]
  OBVIOUS
<1>4. effects' = [effects EXCEPT ![n] = IF phase = "pending" THEN 0 ELSE 1]
  BY <1>1, <1>2 DEF SubmissionTypeOK
<1>5. op' = [op EXCEPT ![c] = n]
  OBVIOUS
<1> HIDE DEF n
<1>6. SubmissionTypeOK'
  <2>1. rows' \in [Ids -> KeyedRows]
    <3> DEFINE new == [key |-> req[c].key, payload |-> req[c].payload, phase |-> phase]
    <3>1. new \in KeyedRows
      BY <1>1 DEF KeyedRows
    <3>2. rows' = [rows EXCEPT ![n] = new] /\ rows \in [Ids -> KeyedRows]
      BY <1>1, <1>3 DEF SubmissionTypeOK
    <3> HIDE DEF new
    <3>. QED  BY <1>2, <3>1, <3>2
  <2>2. effects' \in [Ids -> 0 .. 2]
    <3>1. (IF phase = "pending" THEN 0 ELSE 1) \in 0 .. 2 /\ effects \in [Ids -> 0 .. 2]
      BY <1>1 DEF SubmissionTypeOK
    <3>. QED  BY <1>2, <1>4, <3>1
  <2>3. op' \in [Callers -> 0 .. MaxRows]
    BY <1>1, <1>2, <1>5 DEF SubmissionTypeOK, Ids
  <2>. QED
    BY <1>1, <2>1, <2>2, <2>3 DEF SubmissionTypeOK
<1>7. \A i \in Ids : i # n => rows'[i] = rows[i] /\ effects'[i] = effects[i]
  BY <1>1, <1>3, <1>4 DEF SubmissionTypeOK
<1>8. /\ rows'[n] = [key |-> req[c].key, payload |-> req[c].payload, phase |-> phase]
      /\ effects'[n] = IF phase = "pending" THEN 0 ELSE 1
  BY <1>1, <1>2, <1>3, <1>4 DEF SubmissionTypeOK
<1>9. \A i \in Ids : rows[i].key # req[c].key
  BY DEF Bound
<1>10. UniqueKey'
  BY <1>2, <1>7, <1>8, <1>9 DEF SubmissionInv, UniqueKey
<1>11. EffectOnce'
  BY <1>2, <1>7, <1>8 DEF SubmissionInv, EffectOnce
<1>12. HoldsOwnRow'
  <2> SUFFICES ASSUME NEW d \in Callers, at'[d] = "wait"
               PROVE  /\ op'[d] \in Ids
                      /\ rows'[op'[d]].key = req'[d].key /\ rows'[op'[d]].payload = req'[d].payload
    BY DEF HoldsOwnRow
  <2>1. CASE d = c
    BY <1>1, <1>2, <1>5, <1>8, <2>1 DEF SubmissionTypeOK
  <2>2. CASE d # c
    <3>1. at[d] = "wait" /\ op'[d] = op[d]
      BY <1>1, <1>5, <2>2 DEF SubmissionTypeOK
    <3>2. op[d] \in Ids /\ rows[op[d]].key = req[d].key /\ rows[op[d]].payload = req[d].payload
      BY <3>1 DEF SubmissionInv, HoldsOwnRow
    <3>3. req[d].key \in Keys
      BY <1>1 DEF SubmissionTypeOK
    <3>4. op[d] # n
      BY <1>2, <3>2, <3>3, SubmissionAssumption DEF NoRow
    <3>. QED
      BY <1>7, <3>1, <3>2, <3>4
  <2>. QED
    BY <2>1, <2>2
<1>13. SameRequestSameResult'
  <2>1. \A k \in Keys : \A i \in Bound(k) : i \in Ids /\ i # n /\ rows'[i] = rows[i] /\ i \in Bound(k)'
    BY <1>2, <1>7, SubmissionAssumption DEF Bound, NoRow
  <2>2. \A d \in Callers : req[d].key \in Keys
    BY <1>1 DEF SubmissionTypeOK
  <2>. QED
    BY <2>1, <2>2 DEF SubmissionInv, SameRequestSameResult
<1>. QED
  BY <1>6, <1>10, <1>11, <1>12, <1>13 DEF SubmissionInv

-----------------------------------------------------------------------------
(* One step of the system.                                                 *)

LEMMA SendStep == ASSUME SubmissionInv, NEW c \in Callers, Send(c) PROVE SubmissionInv'
<1>1. SubmissionTypeOK'
  <2>1. at' \in [Callers -> {"idle", "lock", "replay", "validate", "dedup", "insert",
                             "relookup", "begin", "wait"}]
    BY DEF Send, Goto, SubmissionInv, SubmissionTypeOK
  <2>2. sends' \in [Callers -> 0 .. MaxSends]
    BY SubmissionAssumption DEF Send, SubmissionInv, SubmissionTypeOK
  <2>3. op' \in [Callers -> 0 .. MaxRows]
    BY SubmissionAssumption DEF Send, SubmissionInv, SubmissionTypeOK
  <2>. QED
    BY <2>1, <2>2, <2>3 DEF Send, SubmissionInv, SubmissionTypeOK
<1>2. \A d \in Callers : at'[d] = "wait" => at[d] = "wait" /\ op'[d] = op[d]
  BY DEF Send, Goto, SubmissionInv, SubmissionTypeOK
<1>. QED
  BY <1>1, <1>2, SubmissionQuietStep DEF Send

LEMMA LockStep == ASSUME SubmissionInv, NEW c \in Callers, Lock(c) PROVE SubmissionInv'
<1>1. SubmissionTypeOK' /\ \A d \in Callers : at'[d] = "wait" => at[d] = "wait" /\ op'[d] = op[d]
  BY DEF Lock, Goto, SubmissionInv, SubmissionTypeOK
<1>. QED
  BY <1>1, SubmissionQuietStep DEF Lock

LEMMA ValidateStep == ASSUME SubmissionInv, NEW c \in Callers, Validate(c) PROVE SubmissionInv'
<1>1. CASE Return(c, "refused", 0)
  <2>1. SubmissionTypeOK'
    BY <1>1, ReturnType, SubmissionAssumption DEF SubmissionInv, Validate
  <2>2. \A d \in Callers : answer'[d] = answer[d] \/ answer'[d].kind = "refused"
    BY <1>1 DEF Return, SubmissionInv, SubmissionTypeOK
  <2>3. \A d \in Callers : at'[d] = "wait" => at[d] = "wait" /\ op'[d] = op[d]
    BY <1>1 DEF Validate, Return, Goto, SubmissionInv, SubmissionTypeOK
  <2>. QED
    BY <2>1, <2>2, <2>3, SubmissionQuietStep DEF Validate
<1>2. CASE /\ Goto(c, IF req[c].door = "commit" THEN "begin" ELSE "dedup")
           /\ UNCHANGED <<answer, drive>>
  <2>1. SubmissionTypeOK' /\ \A d \in Callers : at'[d] = "wait" => at[d] = "wait" /\ op'[d] = op[d]
    BY <1>2 DEF Validate, Goto, SubmissionInv, SubmissionTypeOK
  <2>. QED
    BY <1>2, <2>1, SubmissionQuietStep DEF Validate
<1>. QED
  BY <1>1, <1>2 DEF Validate

LEMMA InsertStep == ASSUME SubmissionInv, NEW c \in Callers, Insert(c) PROVE SubmissionInv'
<1>1. CASE Bound(req[c].key) = {}
  <2>1. effects' = [effects EXCEPT ![NewRowId] = IF "pending" = "pending" THEN @ ELSE @ + 1]
    BY DEF Insert, SubmissionInv, SubmissionTypeOK
  <2>. QED
    BY <1>1, <2>1, BindStep DEF Insert, Goto
<1>2. CASE Bound(req[c].key) # {}
  <2>1. SubmissionTypeOK' /\ \A d \in Callers : at'[d] = "wait" => at[d] = "wait" /\ op'[d] = op[d]
    BY <1>2 DEF Insert, Goto, SubmissionInv, SubmissionTypeOK
  <2>. QED
    BY <1>2, <2>1, SubmissionQuietStep DEF Insert
<1>. QED
  BY <1>1, <1>2

LEMMA CommitStep == ASSUME SubmissionInv, NEW c \in Callers, Commit(c) PROVE SubmissionInv'
<1>1. CASE Lookup(c, "begin") /\ UNCHANGED <<rows, effects>>
  BY <1>1, LookupStep DEF Commit
<1>2. CASE /\ Bound(req[c].key) = {} /\ Free # {}
           /\ rows' = [rows EXCEPT ![NewRowId] =
                [key |-> req[c].key, payload |-> req[c].payload, phase |-> "succeeded"]]
           /\ effects' = [effects EXCEPT ![NewRowId] = @ + 1]
           /\ op' = [op EXCEPT ![c] = NewRowId] /\ Goto(c, "wait")
           /\ UNCHANGED <<answer, drive>>
  <2>1. effects' = [effects EXCEPT ![NewRowId] = IF "succeeded" = "pending" THEN @ ELSE @ + 1]
    BY <1>2
  <2>. QED
    BY <1>2, <2>1, BindStep DEF Commit, Goto
<1>3. CASE Return(c, "error", 0) /\ UNCHANGED <<rows, op, effects>>
  <2>1. SubmissionTypeOK'
    BY <1>3, ReturnType, SubmissionAssumption DEF SubmissionInv, Commit
  <2>2. \A d \in Callers : answer'[d] = answer[d] \/ answer'[d].kind = "error"
    BY <1>3 DEF Return, SubmissionInv, SubmissionTypeOK
  <2>3. \A d \in Callers : at'[d] = "wait" => at[d] = "wait" /\ op'[d] = op[d]
    BY <1>3 DEF Return, Goto, SubmissionInv, SubmissionTypeOK
  <2>. QED
    BY <1>3, <2>1, <2>2, <2>3, SubmissionQuietStep DEF Commit
<1>. QED
  BY <1>1, <1>2, <1>3 DEF Commit

\* The answer a waiting handler returns is the settlement of its own row.
LEMMA AnswerStep == ASSUME SubmissionInv, NEW c \in Callers, Answer(c) PROVE SubmissionInv'
<1>1. /\ op[c] \in Ids /\ rows[op[c]].key = req[c].key
      /\ rows[op[c]].payload = req[c].payload /\ SubmissionTypeOK
  BY DEF Answer, SubmissionInv, HoldsOwnRow
<1>2. op[c] \in 0 .. MaxRows /\ op[c] # 0
  BY <1>1, SubmissionAssumption DEF Ids
<1>3. SubmissionTypeOK'
  BY <1>1, <1>2, ReturnType DEF Answer
<1>4. /\ answer' = [answer EXCEPT ![c] = [kind |-> "result", id |-> op[c], result |-> rows[op[c]].phase]]
      /\ at' = [at EXCEPT ![c] = "idle"] /\ UNCHANGED <<rows, req, op, effects>>
  BY <1>2 DEF Answer, Return, Goto
<1>5. UniqueKey' /\ EffectOnce' /\ HoldsOwnRow'
  BY <1>1, <1>4 DEF SubmissionInv, UniqueKey, EffectOnce, HoldsOwnRow, SubmissionTypeOK
<1>6. SameRequestSameResult'
  BY <1>1, <1>4 DEF SubmissionInv, SameRequestSameResult, Bound, SubmissionTypeOK
<1>. QED
  BY <1>3, <1>5, <1>6 DEF SubmissionInv

LEMMA LostStep == ASSUME SubmissionInv, NEW c \in Callers, Lost(c) PROVE SubmissionInv'
<1>1. NoAnswer \in [kind : {"none", "result", "conflict", "refused", "error"},
                    id : 0 .. MaxRows, result : {"none", "succeeded", "failed"}]
  BY SubmissionAssumption DEF NoAnswer
<1>2. NoAnswer.kind = "none"
  BY DEF NoAnswer
<1>3. SubmissionTypeOK'
  BY <1>1 DEF Lost, Goto, SubmissionInv, SubmissionTypeOK
<1>4. \A d \in Callers : answer'[d] = answer[d] \/ answer'[d].kind = "none"
  BY <1>2 DEF Lost, SubmissionInv, SubmissionTypeOK
<1>5. \A d \in Callers : at'[d] = "wait" => at[d] = "wait" /\ op'[d] = op[d]
  BY DEF Lost, Goto, SubmissionInv, SubmissionTypeOK
<1>. QED
  BY <1>3, <1>4, <1>5, SubmissionQuietStep DEF Lost

\* Driving a pending row: its effect is its first, and nobody was answered yet.
LEMMA DriveRowStep == ASSUME SubmissionInv, NEW n \in Ids, Drive(n) PROVE SubmissionInv'
<1> PICK phase \in {"succeeded", "failed"} : rows' = [rows EXCEPT ![n].phase = phase]
  BY DEF Drive
<1>1. SubmissionTypeOK /\ rows[n].phase = "pending" /\ effects[n] = 0
  BY DEF Drive, SubmissionInv, EffectOnce
<1>2. rows[n] \in [key : Keys, payload : Payloads, phase : {"pending", "succeeded", "failed"}]
  BY <1>1 DEF SubmissionTypeOK, KeyedRows, NoRow
<1>3. /\ rows'[n] = [key |-> rows[n].key, payload |-> rows[n].payload, phase |-> phase]
      /\ \A i \in Ids : i # n => rows'[i] = rows[i]
  BY <1>1, <1>2 DEF SubmissionTypeOK
<1>4. effects'[n] = 1 /\ \A i \in Ids : i # n => effects'[i] = effects[i]
  BY <1>1 DEF SubmissionTypeOK, Drive
<1>5. SubmissionTypeOK'
  <2>1. rows' \in [Ids -> KeyedRows]
    <3>1. rows'[n] \in KeyedRows
      BY <1>2, <1>3 DEF KeyedRows
    <3>2. rows' = [rows EXCEPT ![n] = rows'[n]] /\ rows \in [Ids -> KeyedRows]
      BY <1>1 DEF SubmissionTypeOK
    <3>. QED  BY <3>1, <3>2
  <2>2. effects' \in [Ids -> 0 .. 2]
    BY <1>1 DEF Drive, SubmissionTypeOK
  <2>. QED
    BY <1>1, <2>1, <2>2 DEF Drive, SubmissionTypeOK
<1>6. \A i \in Ids : rows'[i].key = rows[i].key /\ rows'[i].payload = rows[i].payload
  BY <1>3
<1>7. UniqueKey'
  <2>1. rows[n] # NoRow /\ rows'[n] # NoRow
    BY <1>2, <1>3, SubmissionAssumption DEF NoRow
  <2>. QED
    BY <1>3, <1>6, <2>1 DEF SubmissionInv, UniqueKey
<1>8. EffectOnce'
  BY <1>3, <1>4 DEF SubmissionInv, EffectOnce
<1>9. HoldsOwnRow'
  BY <1>6 DEF SubmissionInv, HoldsOwnRow, Drive
<1>10. SameRequestSameResult'
  <2>1. \A k \in Keys : Bound(k)' = Bound(k)
    BY <1>6 DEF Bound
  <2>2. \A d \in Callers : req[d].key \in Keys /\ answer[d].result # "pending"
    BY <1>1 DEF SubmissionTypeOK
  <2> SUFFICES ASSUME NEW d \in Callers
               PROVE  /\ answer[d].kind = "result" =>
                           /\ answer[d].id \in Bound(req[d].key)'
                           /\ rows'[answer[d].id].payload = req[d].payload
                           /\ rows'[answer[d].id].phase = answer[d].result
                      /\ answer[d].kind = "conflict" =>
                           \E i \in Bound(req[d].key)' : rows'[i].payload # req[d].payload
    BY DEF SameRequestSameResult, Drive
  <2>3. Bound(req[d].key) \subseteq Ids
    BY DEF Bound
  <2>k. Bound(req[d].key)' = Bound(req[d].key)
    BY <2>1, <2>2 DEF Drive
  <2>4. CASE answer[d].kind = "result"
    <3> DEFINE id == answer[d].id
    <3>1. id \in Bound(req[d].key) /\ rows[id].payload = req[d].payload /\ rows[id].phase = answer[d].result
      BY <2>4 DEF SubmissionInv, SameRequestSameResult
    <3>2. id \in Ids /\ id # n
      BY <3>1, <2>3, <2>2, <1>1
    <3>3. rows'[id] = rows[id]
      BY <1>3, <3>2
    <3>. QED
      BY <2>4, <2>k, <3>1, <3>3
  <2>5. CASE answer[d].kind = "conflict"
    <3>1. PICK i \in Bound(req[d].key) : rows[i].payload # req[d].payload
      BY <2>5 DEF SubmissionInv, SameRequestSameResult
    <3>2. rows'[i].payload = rows[i].payload
      BY <1>6, <2>3
    <3>. QED
      BY <2>5, <2>k, <3>1, <3>2
  <2>. QED
    BY <2>4, <2>5
<1>. QED
  BY <1>5, <1>7, <1>8, <1>9, <1>10 DEF SubmissionInv

LEMMA SubmissionInitInv == SubmissionInit => SubmissionInv
<1> SUFFICES ASSUME SubmissionInit PROVE SubmissionInv
  OBVIOUS
<1>1. SubmissionTypeOK
  BY SubmissionAssumption DEF SubmissionInit, SubmissionTypeOK, KeyedRows, NoAnswer
<1>2. UniqueKey /\ EffectOnce /\ HoldsOwnRow /\ SameRequestSameResult
  BY DEF SubmissionInit, UniqueKey, EffectOnce, HoldsOwnRow, SameRequestSameResult, NoAnswer
<1>. QED
  BY <1>1, <1>2 DEF SubmissionInv

LEMMA SubmissionNextInv == SubmissionInv /\ [SubmissionNext]_submissionVars => SubmissionInv'
<1> SUFFICES ASSUME SubmissionInv, [SubmissionNext]_submissionVars PROVE SubmissionInv'
  OBVIOUS
<1>1. ASSUME NEW c \in Callers, Send(c) \/ Lost(c) PROVE SubmissionInv'
  BY <1>1, SendStep, LostStep
<1>2. ASSUME NEW c \in Callers, Lock(c) \/ Validate(c) \/ Insert(c) \/ Commit(c) \/ Answer(c)
      PROVE  SubmissionInv'
  BY <1>2, LockStep, ValidateStep, InsertStep, CommitStep, AnswerStep
<1>3. ASSUME NEW c \in Callers, KeyedReplay(c) PROVE SubmissionInv'
  BY <1>3, LookupStep DEF KeyedReplay
<1>4. ASSUME NEW c \in Callers, Dedup(c) PROVE SubmissionInv'
  BY <1>4, LookupStep DEF Dedup
<1>5. ASSUME NEW c \in Callers, Relookup(c) PROVE SubmissionInv'
  BY <1>5, LookupStep DEF Relookup
<1>6. ASSUME NEW n \in Ids, Drive(n) PROVE SubmissionInv'
  BY <1>6, DriveRowStep
<1>7. CASE UNCHANGED submissionVars
  <2>1. SubmissionTypeOK'
    BY <1>7 DEF submissionVars, SubmissionInv, SubmissionTypeOK
  <2>. QED
    BY <1>7, <2>1, SubmissionQuietStep DEF submissionVars
<1>. QED
  BY <1>1, <1>2, <1>3, <1>4, <1>5, <1>6, <1>7 DEF SubmissionNext, Handle

-----------------------------------------------------------------------------
(* The theorems.                                                           *)

\* The strengthened invariant holds in every reachable state.
THEOREM SubmissionInvariance == SubmissionSpec => []SubmissionInv
BY SubmissionInitInv, SubmissionNextInv, PTL DEF SubmissionSpec

\* A key is bound to one operation with one effect, and every answer is that of
\* the caller's own key and payload, for any number of callers, keys, rows and
\* repeated requests (insert_operation_for, commit_keyed).
THEOREM KeyedSubmissionIsOnce == SubmissionSpec => []KeyedOnce
<1>1. SubmissionInv => KeyedOnce
  <2> SUFFICES ASSUME SubmissionInv PROVE OneEffectPerKey
    BY DEF SubmissionInv, KeyedOnce
  <2> SUFFICES ASSUME NEW k \in Keys
               PROVE  Cardinality(Bound(k)) <= 1 /\ \A i \in Bound(k) : effects[i] <= 1
    BY DEF OneEffectPerKey
  <2>1. \A i \in Bound(k) : i \in Ids /\ rows[i] # NoRow /\ rows[i].key = k
    BY SubmissionAssumption DEF Bound, NoRow
  <2>2. \A i, j \in Bound(k) : i = j
    BY <2>1 DEF SubmissionInv, UniqueKey
  <2>3. Bound(k) = {} \/ \E i : Bound(k) = {i}
    BY <2>2
  <2>4. Cardinality(Bound(k)) <= 1
    <3>1. CASE Bound(k) = {}
      <4>1. Cardinality(Bound(k)) = 0
        BY <3>1, FS_EmptySet
      <4>. QED  BY <4>1
    <3>2. CASE \E i : Bound(k) = {i}
      <4>1. Cardinality(Bound(k)) = 1
        BY <3>2, FS_Singleton
      <4>. QED  BY <4>1
    <3>. QED  BY <2>3, <3>1, <3>2
  <2>. QED
    BY <2>1, <2>4 DEF SubmissionInv, EffectOnce
<1>. QED
  BY SubmissionInvariance, <1>1, PTL
=============================================================================
