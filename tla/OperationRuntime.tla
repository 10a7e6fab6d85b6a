-------------------------- MODULE OperationRuntime --------------------------
(***************************************************************************)
(* The operation runtime of calm-server (operation/driver.rs): the saga    *)
(* driver behind the global drive mutex, the task-bounded and the explicit *)
(* retry turns that share it, the Busy wakers, the parked-row sweepers and *)
(* observers that do not, and boot recovery after a crash.  Adapters that  *)
(* own their parked execution are the subject of module OwnedExecution;    *)
(* here a parked process is known by its recorded spawn artifacts only.    *)
(*                                                                         *)
(* Actors and their volatile state:                                        *)
(*   turn     the one task that holds drive_mutex (pc "idle": nobody)      *)
(*   sweep    tasks in sweep_parked / enforce_parked_deadline /            *)
(*            cancel_parked / VerifyParked; none of them takes the mutex   *)
(*   obs      observers of parked processes (tokio::spawn(observer))       *)
(*   waker    retry_after_track tasks, one set inside the mutex            *)
(*   bootplan the RecoveryPlan of the running process                      *)
(* A crash loses all of it; row survives, and so does the process (proc).  *)
(***************************************************************************)
EXTENDS OperationRow, FiniteSetsExt

CONSTANTS
  Ops,          \* operations
  Interacts,    \* their adapter declares app_server_interact
  Retries,      \* ... and awaiting_retry
  Spawns,       \* ... spawn_started
  Parks,        \* ... parked
  Tracked,      \* ... a preparation track
  TaskBound,    \* submitted by the scheduler (submit_task_bounded)
  Sweepers,     \* tasks that may sweep or cancel parked rows
  NoClaim,      \* a turn with no claim in hand
  NoOp,         \* a task with no operation in hand
  MaxFaults,    \* bound: crashes, dropped tasks, leases lost under a worker
  MaxAttempts   \* bound: explicit retries of one operation

ASSUME RuntimeAssumption ==
  /\ Retries \subseteq Interacts /\ Interacts \subseteq Ops
  /\ Parks \subseteq Spawns /\ Spawns \subseteq Ops
  /\ Interacts \subseteq Spawns
  /\ Tracked \subseteq Ops /\ TaskBound \subseteq Ops
  /\ MaxFaults \in Nat /\ MaxAttempts \in Nat

VARIABLES
  row,       \* the operations table
  turn,      \* the holder of drive_mutex
  sweep,     \* parked sweepers
  obs,       \* operations with a live observer
  waker,     \* Busy wakers
  busy,      \* operations whose track fence somebody else holds
  bootplan,  \* recovery items still to apply
  proc,      \* the parked process, outside the server
  told,      \* results published on the completion bus
  won,       \* history: attempt generations an explicit retry has won
  faults     \* faults so far

vars == <<row, turn, sweep, obs, waker, busy, bootplan, proc, told, won, faults>>

Claims == [op : Ops, phase : Phases, owner : Tokens, done : SUBSET Steps]

Modes == {"drive", "task", "exec", "retry", "boot"}
Results == {"advance", "stale", "blocked", "busy", "refused", "fatal",
            "awaiting", "parked", "error"}

IdleTurn ==
  [pc |-> "idle", mode |-> "drive", op |-> NoOp, queue |-> {}, cur |-> NoClaim,
   res |-> "advance", visited |-> {}]

IdleSweep ==
  [pc |-> "idle", op |-> NoOp, mode |-> "steady", why |-> "past",
   owner |-> NoOwner, outcome |-> "failed"]

Turns ==
  [pc : {"idle", "claim", "next", "effect", "write", "step"},
   mode : Modes, op : Ops \cup {NoOp},
   queue : SUBSET Claims, cur : Claims \cup {NoClaim},
   res : Results, visited : SUBSET Phases]

Sweeps ==
  [pc : {"idle", "probe", "claim", "fetch", "enforce", "complete", "fail",
         "compensate"},
   op : Ops \cup {NoOp},
   mode : {"steady", "boot", "cancel"},
   why : {"past", "dead"},
   owner : Tokens \cup {NoOwner}, outcome : TerminalPhases]

TypeOK ==
  /\ row \in [Ops -> RowType({})]
  /\ turn \in Turns
  /\ sweep \in [Sweepers -> Sweeps]
  /\ obs \in SUBSET Ops
  /\ waker \in [Ops -> {"none", "spawned", "waiting"}]
  /\ busy \in SUBSET Tracked
  /\ bootplan \in SUBSET (Ops \X {"recover", "verify"})
  /\ proc \in [Ops -> {"none", "running", "exited"}]
  /\ told \in [Ops -> SUBSET TerminalPhases]
  /\ won \in [Ops -> SUBSET Nat]
  /\ faults \in 0 .. MaxFaults

Init ==
  \* A task's row may come from a server that still let the driver own it.
  /\ \E old \in SUBSET TaskBound :
       row = [o \in Ops |->
                NewRow(IF o \in TaskBound \ old THEN "scheduler" ELSE "driver")]
  /\ turn = IdleTurn
  /\ sweep = [s \in Sweepers |-> IdleSweep]
  /\ obs = {}
  /\ waker = [o \in Ops |-> "none"]
  /\ busy = {}
  /\ bootplan = {}
  /\ proc = [o \in Ops |-> "none"]
  /\ told = [o \in Ops |-> {}]
  /\ won = [o \in Ops |-> {}]
  /\ faults = 0

-----------------------------------------------------------------------------
(* Fresh lease owners and the claims tasks have in hand.                   *)

TurnClaims == turn.queue \cup ({turn.cur} \ {NoClaim})

InUse ==
  {row[o].owner : o \in Ops} \cup {c.owner : c \in TurnClaims}
    \cup {sweep[s].owner : s \in Sweepers}

\* new_id(): an identifier no row and no task mentions.
HasNewId == \E t \in Tokens : t \notin InUse
NewId == CHOOSE t \in Tokens : t \notin InUse

\* Some task still works under the lease of o.
Held(o) ==
  \/ \E c \in TurnClaims : c.op = o /\ c.owner = row[o].owner
  \/ \E s \in Sweepers : sweep[s].op = o /\ sweep[s].owner = row[o].owner
                         /\ row[o].owner # NoOwner

\* The preparing turn holds the launch fence of the track.
HoldsFence(o) ==
  \/ turn.pc = "write" /\ turn.cur.op = o /\ turn.cur.phase = "pending"
       /\ turn.res # "busy"
  \/ turn.pc # "idle" /\ turn.mode = "exec" /\ turn.op = o

-----------------------------------------------------------------------------
(* Turns of the drive mutex.                                               *)

\* The turn after the operation in hand is dealt with.
AfterOne(t) ==
  CASE t.mode = "drive" ->
         [t EXCEPT !.cur = NoClaim, !.res = "advance",
                   !.pc = IF t.queue = {} THEN "claim" ELSE "next"]
    [] t.mode \in {"task", "exec"} ->
         [t EXCEPT !.cur = NoClaim, !.res = "advance", !.pc = "claim"]
    [] OTHER -> IdleTurn

DriverOnly == UNCHANGED <<sweep, obs, busy, bootplan, proc, won, faults>>

\* drive: a submission, a waiter, a waker or the reconcile tick takes the mutex.
DriveBegin ==
  /\ turn.pc = "idle"
  /\ turn' = [IdleTurn EXCEPT !.pc = "claim"]
  /\ UNCHANGED <<row, waker, told>> /\ DriverOnly

\* drive_under_lock: nothing left to claim, the mutex is released.
DriveEnd ==
  /\ turn.pc = "claim" /\ turn.mode = "drive"
  /\ \A o \in Ops : ~Drivable(row[o])
  /\ turn' = IdleTurn
  /\ UNCHANGED <<row, waker, told>> /\ DriverOnly

\* claim_drive_batch: one lease owner for the whole batch.
ClaimBatch ==
  /\ turn.pc = "claim" /\ turn.mode = "drive"
  /\ HasNewId
  /\ LET batch == {o \in Ops : Drivable(row[o])}
     IN  /\ batch # {}
         /\ row' = [o \in Ops |-> IF o \in batch THEN Leased(row[o], NewId) ELSE row[o]]
         /\ turn' = [turn EXCEPT !.pc = "next",
                       !.queue = {ClaimOf(o, Leased(row[o], NewId)) : o \in batch}]
  /\ UNCHANGED <<waker, told>> /\ DriverOnly

\* The next operation of the batch; its lease may have run out meanwhile.
StartOne ==
  /\ turn.pc = "next"
  /\ \E c \in turn.queue :
       turn' = [turn EXCEPT !.pc = "effect", !.cur = c, !.queue = @ \ {c}]
  /\ UNCHANGED <<row, waker, told>> /\ DriverOnly

\* submit_task_bounded with the mutex free (try_lock succeeds).
TaskBegin(o) ==
  /\ turn.pc = "idle" /\ o \in TaskBound /\ ~Settled(row[o])
  /\ turn' = [IdleTurn EXCEPT !.pc = "claim", !.mode = "task", !.op = o]
  /\ UNCHANGED <<row, waker, told>> /\ DriverOnly

\* submit_task_bounded behind a busy driver: defer_unclaimed_pending.
TaskBusy(o) ==
  /\ turn.pc # "idle" /\ o \in TaskBound
  /\ Unclaimed(row[o])
  /\ row' = [row EXCEPT ![o] = DeferUnclaimed(@)]
  /\ UNCHANGED <<turn, waker, told>> /\ DriverOnly

\* execute_with_adapter: the invocation waits for the track fence first and
\* keeps it while it drives this one operation.
ExecBegin(o) ==
  /\ turn.pc = "idle" /\ o \notin TaskBound /\ o \notin busy /\ ~Settled(row[o])
  /\ turn' = [IdleTurn EXCEPT !.pc = "claim", !.mode = "exec", !.op = o]
  /\ UNCHANGED <<row, waker, told>> /\ DriverOnly

\* observe_task_bounded after a driven phase, or operation_result in
\* execute_with_adapter: settled or blocked, the turn ends.
ExactObserved ==
  /\ turn.pc = "claim" /\ turn.mode \in {"task", "exec"}
  /\ \/ Settled(row[turn.op])
     \/ turn.mode = "task" /\ turn.visited # {} /\ row[turn.op].blocker # "none"
  /\ turn' = IdleTurn
  /\ UNCHANGED <<row, waker, told>> /\ DriverOnly

\* claim_pending_retry for the first claim of a pending task operation,
\* claim_drive_operation otherwise.
ExactClaim ==
  /\ turn.pc = "claim" /\ turn.mode \in {"task", "exec"}
  /\ HasNewId
  /\ LET o == turn.op
         r == row[o]
         adopt == turn.mode = "task" /\ turn.visited = {} /\ PendingRetryable(r)
         q == IF adopt THEN RetryClaimed(r, NewId) ELSE Leased(r, NewId)
     IN  /\ adopt \/ Drivable(r)
         /\ turn.mode = "task" => turn.visited = {} \/ r.blocker = "none"
         /\ row' = [row EXCEPT ![o] = q]
         \* A phase met twice ends the turn with the claim left behind.
         /\ turn' = IF turn.mode = "task" /\ r.phase \in turn.visited
                      THEN IdleTurn
                      ELSE [turn EXCEPT !.pc = "effect", !.cur = ClaimOf(o, q),
                                        !.visited = @ \cup {r.phase}]
  /\ UNCHANGED <<waker, told>> /\ DriverOnly

\* Nothing to claim: the task defers a pending row or reports it busy.
ExactUnclaimable ==
  /\ turn.pc = "claim" /\ turn.mode \in {"task", "exec"}
  /\ LET r == row[turn.op]
     IN  /\ ~Settled(r) /\ ~Drivable(r)
         /\ ~(turn.mode = "task" /\ turn.visited = {} /\ PendingRetryable(r))
         /\ row' = IF turn.mode = "task" /\ r.blocker = "none" /\ Unclaimed(r)
                     THEN [row EXCEPT ![turn.op] = DeferUnclaimed(@)]
                     ELSE row
  /\ turn' = IdleTurn
  /\ UNCHANGED <<waker, told>> /\ DriverOnly

\* retry_interaction: an explicit press for attempt generation a.
PressRetry(o, a) ==
  /\ turn.pc = "idle" /\ o \in Retries
  /\ row[o].attempt < MaxAttempts
  /\ HasNewId
  /\ RetryWon(row[o], a)
  /\ row' = [row EXCEPT ![o] = RetryPressed(@, NewId)]
  /\ turn' = [IdleTurn EXCEPT !.pc = "effect", !.mode = "retry", !.op = o,
                              !.cur = ClaimOf(o, RetryPressed(row[o], NewId))]
  /\ won' = [won EXCEPT ![o] = @ \cup {a}]
  /\ UNCHANGED <<sweep, obs, waker, busy, bootplan, proc, told, faults>>

\* RecoveryItem::Recover and ::Compensate: claim whatever the lease says.
BootRecover(o) ==
  /\ turn.pc = "idle" /\ <<o, "recover">> \in bootplan
  /\ HasNewId
  /\ bootplan' = bootplan \ {<<o, "recover">>}
  /\ IF BootDrivable(row[o])
       THEN /\ row' = [row EXCEPT ![o] = Leased(@, NewId)]
            /\ turn' = [IdleTurn EXCEPT !.pc = "effect", !.mode = "boot", !.op = o,
                                        !.cur = ClaimOf(o, Leased(row[o], NewId))]
       ELSE UNCHANGED <<row, turn>>
  /\ UNCHANGED <<sweep, obs, waker, busy, proc, told, won, faults>>

-----------------------------------------------------------------------------
(* drive_one.  The adapter's part of a phase (I/O the server awaits) and   *)
(* the repository write that follows it are two steps: the lease may run   *)
(* out, the task may be dropped and other tasks may write in between.      *)

Cur == turn.cur
CurRow == row[Cur.op]

\* The phase a successful drive of phase p leads to.
NextPhase(o, p) ==
  CASE p = "pending" -> "tx_committed"
    [] p = "tx_committed" ->
         IF o \in Interacts THEN "app_server_interact"
         ELSE IF o \in Spawns THEN "spawn_started" ELSE "succeeded"
    [] p = "app_server_interact" -> "spawn_started"
    [] p = "spawn_started" -> "spawn_succeeded"
    [] p = "spawn_succeeded" -> "succeeded"
    [] OTHER -> "failed"

\* What the adapter of o can answer in phase p (parked is SpawnParked's).
Answers(o, p) ==
  CASE p = "tx_committed" ->
         IF o \in Spawns THEN {"advance", "fatal"} ELSE {"advance", "error", "fatal"}
    [] p = "app_server_interact" ->
         {"advance", "error", "fatal"} \cup IF o \in Retries THEN {"awaiting"} ELSE {}
    [] p = "spawn_started" -> {"advance", "error", "fatal"}
    [] OTHER -> {"advance"}

\* The launch fence is tried first; then prepare_external and prepare_tx run.
Prepare ==
  /\ turn.pc = "effect" /\ Cur.phase = "pending"
  /\ \E res \in Results :
       /\ IF turn.mode # "exec" /\ Cur.op \in busy
            THEN res = "busy"
            ELSE res \in {"advance", "stale", "blocked", "refused", "fatal"}
       /\ turn' = [turn EXCEPT !.pc = "write", !.res = res]
  /\ UNCHANGED <<row, waker, told>> /\ DriverOnly

\* app_server_interact, spawn_side_effect, or nothing at all.
Effect ==
  /\ turn.pc = "effect" /\ Cur.phase \notin {"pending", "compensating"}
  /\ \E res \in Answers(Cur.op, Cur.phase) :
       turn' = [turn EXCEPT !.pc = "write", !.res = res]
  /\ UNCHANGED <<row, waker, told>> /\ DriverOnly

\* spawn_side_effect of a parking adapter: the process starts, its artifacts
\* are recorded under the live claim (an adapter error otherwise), or, in a
\* faulty adapter, never recorded.
SpawnParked ==
  /\ turn.pc = "effect" /\ Cur.phase = "spawn_started" /\ Cur.op \in Parks
  /\ proc' = [proc EXCEPT ![Cur.op] = "running"]
  /\ \E recorded \in BOOLEAN :
       LET kept == recorded /\ LiveClaim(CurRow, Cur)
       IN  /\ row' = [row EXCEPT ![Cur.op].artifacts = IF kept THEN "recorded" ELSE @]
           /\ turn' = [turn EXCEPT !.pc = "write",
                         !.res = IF recorded /\ ~kept THEN "error" ELSE "parked"]
  /\ UNCHANGED <<sweep, obs, waker, busy, bootplan, told, won, faults>>

\* A claimed write: applied under the live claim, otherwise nothing happens
\* (log_lost_lease) and the turn goes on either way.
ClaimedWrite(newrow) ==
  /\ row' = IF LiveClaim(CurRow, Cur) THEN [row EXCEPT ![Cur.op] = newrow] ELSE row
  /\ turn' = AfterOne(turn)

\* settle_claimed; the result is published once committed.
ClaimedSettle(p) ==
  /\ ClaimedWrite(Settle(CurRow, p))
  /\ told' = IF LiveClaim(CurRow, Cur) THEN [told EXCEPT ![Cur.op] = @ \cup {p}] ELSE told

WriteAdvance ==
  /\ turn.pc = "write" /\ turn.res = "advance"
  /\ LET p == NextPhase(Cur.op, Cur.phase)
     IN  IF p \in TerminalPhases
           THEN ClaimedSettle(p)
           ELSE ClaimedWrite(EnterPhase(CurRow, p)) /\ UNCHANGED told
  /\ UNCHANGED waker /\ DriverOnly

\* A classified refusal settles the row failed, any other error stuck.
WriteFailure ==
  /\ turn.pc = "write" /\ turn.res \in {"refused", "fatal"}
  /\ ClaimedSettle(IF turn.res = "refused" THEN "failed" ELSE "stuck")
  /\ UNCHANGED waker /\ DriverOnly

\* fail_with_compensation.
WriteCompensating ==
  /\ turn.pc = "write" /\ turn.res = "error"
  /\ ClaimedWrite(EnterCompensating(CurRow))
  /\ UNCHANGED <<waker, told>> /\ DriverOnly

WriteAwaiting ==
  /\ turn.pc = "write" /\ turn.res = "awaiting"
  /\ ClaimedWrite(EnterPhase(CurRow, "awaiting_retry"))
  /\ UNCHANGED <<waker, told>> /\ DriverOnly

\* set_parked, then the observer starts; a row without artifacts compensates.
WriteParkedUnchecked ==
  /\ turn.pc = "write" /\ turn.res = "parked"
  /\ ClaimedWrite(EnterParked(CurRow))
  /\ obs' = IF LiveClaim(CurRow, Cur) THEN obs \cup {Cur.op} ELSE obs
  /\ UNCHANGED <<sweep, waker, busy, bootplan, proc, told, won, faults>>
WriteParked ==
  /\ turn.pc = "write" /\ turn.res = "parked"
  /\ ClaimedWrite(IF CurRow.artifacts = "recorded" THEN EnterParked(CurRow)
                                      ELSE EnterCompensating(CurRow))
  /\ obs' = IF LiveClaim(CurRow, Cur) /\ CurRow.artifacts = "recorded" THEN obs \cup {Cur.op} ELSE obs
  /\ UNCHANGED <<sweep, waker, busy, bootplan, proc, told, won, faults>>

\* defer_pending_claim: after three stale preparations only the scheduler
\* defers, the driver leaves the row leased.  A Busy fence wakes the driver.
WriteDeferral ==
  /\ turn.pc = "write" /\ turn.res \in {"stale", "blocked", "busy"}
  /\ LET retryOwner == IF turn.mode = "task" THEN "scheduler" ELSE "driver"
     IN  /\ ClaimedWrite(IF turn.res = "stale" /\ retryOwner = "driver"
                           THEN CurRow ELSE Defer(CurRow, retryOwner))
         /\ waker' = IF turn.res = "busy" /\ retryOwner = "driver"
                        /\ LiveClaim(CurRow, Cur) /\ waker[Cur.op] = "none"
                       THEN [waker EXCEPT ![Cur.op] = "spawned"] ELSE waker
  /\ UNCHANGED told /\ DriverOnly

\* apply_compensation_steps: the first step not completed in the plan in hand.
FirstStep(c) == Min(Steps)
NextStep(c) == Min(Steps \ c.done)

StepEffect ==
  /\ turn.pc = "effect" /\ Cur.phase = "compensating"
  /\ Steps \ Cur.done # {}
  /\ \E res \in {"advance", "error"} :
       turn' = [turn EXCEPT !.pc = "step", !.res = res]
  /\ UNCHANGED <<row, waker, told>> /\ DriverOnly

\* update_compensation_state; a lost claim ends the steps, a failed step
\* leaves the operation stuck.
StepWrite ==
  /\ turn.pc = "step"
  /\ LET done == Cur.done \cup {NextStep(Cur)}
         live == LiveClaim(CurRow, Cur)
     IN  /\ row' = IF live /\ turn.res = "advance"
                     THEN [row EXCEPT ![Cur.op] = RecordSteps(@, done)] ELSE row
         /\ turn' = IF live /\ turn.res = "advance"
                      THEN [turn EXCEPT !.pc = "effect", !.cur.done = done]
                      ELSE [turn EXCEPT !.pc = "write",
                              !.res = IF live THEN "fatal" ELSE "advance"]
  /\ UNCHANGED <<waker, told>> /\ DriverOnly

\* resume_compensation: every step completed.
StepsDone ==
  /\ turn.pc = "effect" /\ Cur.phase = "compensating"
  /\ Steps \ Cur.done = {}
  /\ turn' = [turn EXCEPT !.pc = "write", !.res = "advance"]
  /\ UNCHANGED <<row, waker, told>> /\ DriverOnly

-----------------------------------------------------------------------------
(* retry_after_track: register under the mutex, wait for the track without *)
(* it, take it again to release the row's backoff.                         *)

WakerRegister(o) ==
  /\ waker[o] = "spawned" /\ turn.pc = "idle"
  /\ waker' = [waker EXCEPT ![o] = "waiting"]
  /\ UNCHANGED <<row, turn, told>> /\ DriverOnly

WakerRelease(o) ==
  /\ waker[o] = "waiting" /\ o \notin busy /\ turn.pc = "idle"
  /\ row' = [row EXCEPT ![o] = ReleasePending(@)]
  /\ waker' = [waker EXCEPT ![o] = "none"]
  /\ UNCHANGED <<turn, told>> /\ DriverOnly

\* Somebody else (clean, reclaim, another launch) holds the track fence.
TrackTaken(o) ==
  /\ o \in Tracked \ busy /\ ~HoldsFence(o)
  /\ busy' = busy \cup {o}
  /\ UNCHANGED <<row, turn, sweep, obs, waker, bootplan, proc, told, won, faults>>

TrackFreed(o) ==
  /\ o \in busy
  /\ busy' = busy \ {o}
  /\ UNCHANGED <<row, turn, sweep, obs, waker, bootplan, proc, told, won, faults>>

-----------------------------------------------------------------------------
(* Parked rows: observers and sweepers, all without the drive mutex.       *)

SweepOnly == UNCHANGED <<turn, obs, waker, busy, bootplan, won, faults>>

\* complete_parked_tx: whoever finds the row parked settles it, lease or not;
\* anybody later gets AlreadyResolved.
CompleteAnyPhase(o, outcome) ==
  /\ row' = [row EXCEPT ![o] = Settle(@, outcome)]
  /\ told' = [told EXCEPT ![o] = @ \cup {outcome}]
CompletePublishesLate(o, outcome) ==
  /\ row' = IF row[o].phase = "parked" THEN [row EXCEPT ![o] = Settle(@, outcome)] ELSE row
  /\ told' = [told EXCEPT ![o] = @ \cup {outcome}]
CompleteParked(o, outcome) ==
  IF row[o].phase = "parked"
    THEN /\ row' = [row EXCEPT ![o] = Settle(@, outcome)]
         /\ told' = [told EXCEPT ![o] = @ \cup {outcome}]
    ELSE UNCHANGED <<row, told>>

\* The observer of an exited process completes the row with its verdict.
Observe(o) ==
  /\ o \in obs /\ proc[o] = "exited"
  /\ \E outcome \in {"succeeded", "failed"} : CompleteParked(o, outcome)
  /\ obs' = obs \ {o}
  /\ UNCHANGED <<turn, sweep, waker, busy, bootplan, proc, won, faults>>

ProcExit(o) ==
  /\ proc[o] = "running"
  /\ proc' = [proc EXCEPT ![o] = "exited"]
  /\ UNCHANGED <<row, turn, sweep, obs, waker, busy, bootplan, told, won, faults>>

DeadlinePasses(o) ==
  /\ row[o].deadline = "ahead"
  /\ row' = [row EXCEPT ![o].deadline = "past"]
  /\ UNCHANGED <<turn, sweep, obs, waker, busy, bootplan, proc, told, won, faults>>

SweepTo(s, pc) == sweep' = [sweep EXCEPT ![s].pc = pc]
SweepEnds(s) == sweep' = [sweep EXCEPT ![s] = IdleSweep]

\* apply_parked_sweep_with_claim on a row just read: past its deadline it is
\* claimed at once, before it the process is probed.
SweepBegin(s, o) ==
  /\ sweep[s].pc = "idle" /\ row[o].phase = "parked"
  /\ sweep' = [sweep EXCEPT ![s] =
       [IdleSweep EXCEPT !.op = o, !.pc = IF row[o].deadline = "past" THEN "claim" ELSE "probe"]]
  /\ UNCHANGED <<row, proc, told>> /\ SweepOnly

\* RecoveryItem::VerifyParked.
VerifyBegin(s, o) ==
  /\ sweep[s].pc = "idle" /\ <<o, "verify">> \in bootplan
  /\ bootplan' = bootplan \ {<<o, "verify">>}
  /\ sweep' = IF row[o].phase # "parked" THEN sweep
              ELSE [sweep EXCEPT ![s] =
                     [IdleSweep EXCEPT !.op = o, !.mode = "boot",
                        !.pc = IF row[o].deadline = "past" THEN "claim" ELSE "probe"]]
  /\ UNCHANGED <<row, turn, obs, waker, busy, proc, told, won, faults>>

\* cancel_parked.
CancelBegin(s, o) ==
  /\ sweep[s].pc = "idle" /\ row[o].phase = "parked"
  /\ sweep' = [sweep EXCEPT ![s] =
       [IdleSweep EXCEPT !.op = o, !.mode = "cancel", !.pc = "claim"]]
  /\ UNCHANGED <<row, proc, told>> /\ SweepOnly

\* The probe leaves the row alone: a steady sweep of a live process, or the
\* adapter's LeaveParked, which at boot clears the old process's lease.
ProbeLeaves(s) ==
  /\ sweep[s].pc = "probe"
  /\ LET o == sweep[s].op
     IN  row' = IF sweep[s].mode = "boot" /\ row[o].phase = "parked"
                  THEN [row EXCEPT ![o] = Unleased(@)] ELSE row
  /\ SweepEnds(s)
  /\ UNCHANGED <<proc, told>> /\ SweepOnly

KillNothing(o) == proc' = proc
Kill(o) == proc' = [proc EXCEPT ![o] = IF @ = "running" THEN "exited" ELSE @]

\* recover_parked finds a recorded outcome (boot kills what still runs), or
\* gives the work up for dead.
ProbeAnswers(s) ==
  /\ sweep[s].pc = "probe"
  /\ sweep[s].mode = "boot" \/ proc[sweep[s].op] # "running"
  /\ \/ \E outcome \in {"succeeded", "failed"} :
          /\ sweep' = [sweep EXCEPT ![s].pc = "complete", ![s].outcome = outcome]
          /\ Kill(sweep[s].op)
     \/ /\ sweep' = [sweep EXCEPT ![s].pc = "claim", ![s].why = "dead"]
        /\ UNCHANGED proc
  /\ UNCHANGED <<row, told>> /\ SweepOnly

\* claim_parked / claim_parked_for_boot: the UPDATE ...
SweepClaim(s) ==
  /\ sweep[s].pc = "claim" /\ HasNewId
  /\ LET o == sweep[s].op
     IN  IF ParkedClaimable(row[o], sweep[s].mode = "boot")
           THEN /\ row' = [row EXCEPT ![o] = Leased(@, NewId)]
                /\ sweep' = [sweep EXCEPT ![s].pc = "fetch", ![s].owner = NewId]
           ELSE SweepEnds(s) /\ UNCHANGED row
  /\ UNCHANGED <<proc, told>> /\ SweepOnly

\* ... and the read that follows it in another statement.
SweepFetch(s) ==
  /\ sweep[s].pc = "fetch"
  /\ IF ParkedFetched(row[sweep[s].op], sweep[s].owner)
       THEN SweepTo(s, IF sweep[s].mode = "cancel" THEN "compensate" ELSE "enforce")
       ELSE SweepEnds(s)
  /\ UNCHANGED <<row, proc, told>> /\ SweepOnly

\* apply_parked_past_deadline_with_claim and kill_recheck_then_fail_parked:
\* what still runs is killed, an outcome found on the way is kept, otherwise
\* the row fails.  A process probed dead is not asked for an outcome again.
Enforce(s) ==
  /\ sweep[s].pc = "enforce"
  /\ Kill(sweep[s].op)
  /\ \/ SweepTo(s, "fail")
     \/ /\ sweep[s].why = "past" \/ proc[sweep[s].op] = "running"
        /\ \E outcome \in {"succeeded", "failed"} :
             sweep' = [sweep EXCEPT ![s].pc = "complete", ![s].outcome = outcome]
  /\ UNCHANGED <<row, told>> /\ SweepOnly

\* complete_parked_and_publish.
SweepComplete(s) ==
  /\ sweep[s].pc = "complete"
  /\ CompleteParked(sweep[s].op, sweep[s].outcome)
  /\ SweepEnds(s)
  /\ UNCHANGED proc /\ SweepOnly

SweepLive(s) ==
  LiveClaim(row[sweep[s].op], [phase |-> "parked", owner |-> sweep[s].owner])

\* settle_claimed(Failed) under the sweeper's claim.
SweepFail(s) ==
  /\ sweep[s].pc = "fail"
  /\ LET o == sweep[s].op
     IN  IF SweepLive(s)
           THEN /\ row' = [row EXCEPT ![o] = Settle(@, "failed")]
                /\ told' = [told EXCEPT ![o] = @ \cup {"failed"}]
           ELSE UNCHANGED <<row, told>>
  /\ SweepEnds(s)
  /\ UNCHANGED proc /\ SweepOnly

\* cancel_parked: set_compensating from parked; a drive turn does the rest.
SweepCompensate(s) ==
  /\ sweep[s].pc = "compensate"
  /\ LET o == sweep[s].op
     IN  row' = IF SweepLive(s) THEN [row EXCEPT ![o] = EnterCompensating(@)] ELSE row
  /\ SweepEnds(s)
  /\ UNCHANGED <<proc, told>> /\ SweepOnly

-----------------------------------------------------------------------------
(* Time and faults.                                                        *)

\* A lease nobody works under any more runs out.
LeaseExpires(o) ==
  /\ row[o].lease = "live" /\ ~Held(o)
  /\ row' = [row EXCEPT ![o].lease = "expired"]
  /\ UNCHANGED <<turn, sweep, obs, waker, busy, bootplan, proc, told, won, faults>>

Fault == faults < MaxFaults /\ faults' = faults + 1

\* A lease runs out under a task that is slower than OPERATION_LEASE_MS.
LeaseLost(o) ==
  /\ Fault
  /\ row[o].lease = "live" /\ Held(o)
  /\ row' = [row EXCEPT ![o].lease = "expired"]
  /\ UNCHANGED <<turn, sweep, obs, waker, busy, bootplan, proc, told, won>>

\* The future that drives is dropped at an await (its caller went away).
TurnDropped ==
  /\ Fault
  /\ turn.pc # "idle"
  /\ turn' = IdleTurn
  /\ UNCHANGED <<row, sweep, obs, waker, busy, bootplan, proc, told, won>>

SweepDropped(s) ==
  /\ Fault
  /\ sweep[s].pc # "idle"
  /\ SweepEnds(s)
  /\ UNCHANGED <<row, turn, obs, waker, busy, bootplan, proc, told, won>>

\* The server dies and boots: every task is gone, recover_on_boot plans the
\* rows it finds (awaiting_retry and settled rows are skipped).
Crash ==
  /\ Fault
  /\ turn' = IdleTurn
  /\ sweep' = [s \in Sweepers |-> IdleSweep]
  /\ obs' = {}
  /\ waker' = [o \in Ops |-> "none"]
  /\ busy' = {}
  /\ bootplan' =
       {<<o, "recover">> : o \in {x \in Ops : row[x].phase \in DrivablePhases}}
         \cup {<<o, "verify">> : o \in {x \in Ops : row[x].phase = "parked"}}
  /\ UNCHANGED <<row, proc, told, won>>

-----------------------------------------------------------------------------
DriveStep ==
  \/ DriveEnd \/ ClaimBatch \/ StartOne
  \/ ExactObserved \/ ExactClaim \/ ExactUnclaimable
  \/ Prepare \/ Effect \/ SpawnParked
  \/ WriteAdvance \/ WriteFailure \/ WriteCompensating \/ WriteAwaiting
  \/ WriteParked \/ WriteDeferral
  \/ StepEffect \/ StepWrite \/ StepsDone

SweepStep(s) ==
  \/ ProbeLeaves(s) \/ ProbeAnswers(s) \/ SweepClaim(s) \/ SweepFetch(s)
  \/ Enforce(s) \/ SweepComplete(s) \/ SweepFail(s) \/ SweepCompensate(s)

Next ==
  \/ DriveBegin \/ DriveStep
  \/ \E o \in Ops :
       \/ TaskBegin(o) \/ TaskBusy(o) \/ ExecBegin(o) \/ BootRecover(o)
       \/ \E a \in 0 .. MaxAttempts : PressRetry(o, a)
       \/ WakerRegister(o) \/ WakerRelease(o) \/ TrackTaken(o) \/ TrackFreed(o)
       \/ Observe(o) \/ ProcExit(o) \/ DeadlinePasses(o)
       \/ LeaseExpires(o) \/ LeaseLost(o)
  \/ \E s \in Sweepers :
       \/ \E o \in Ops : SweepBegin(s, o) \/ VerifyBegin(s, o) \/ CancelBegin(s, o)
       \/ SweepStep(s) \/ SweepDropped(s)
  \/ TurnDropped \/ Crash

Spec == Init /\ [][Next]_vars

-----------------------------------------------------------------------------
(* Safety.                                                                 *)

\* A settled row carries no lease and no deadline: no claim left on it could
\* let a late fenced write pass (write_terminal_tx clears both).
SettledReleased ==
  \A o \in Ops : Settled(row[o]) =>
    row[o].owner = NoOwner /\ row[o].lease = "none" /\ row[o].deadline = "none"

\* A terminal row is never written again, by a driver, a sweeper, an observer,
\* a canceller or boot recovery, in whatever order their writes arrive.
SettledFinal ==
  [][\A o \in Ops : Settled(row[o]) => row'[o] = row[o]]_vars

\* Every result a waiter received from the completion bus is the row's own.
ToldIsDurable ==
  \A o \in Ops : \A p \in told[o] : row[o].phase = p

\* While a turn works on a claim nobody else moves the row to another phase,
\* even after the lease ran out: an effect is never run for a phase left.
DriveExclusive ==
  \A c \in TurnClaims : row[c.op].phase = c.phase

\* A compensation step recorded as completed is never run again.
StepNotRepeated ==
  [][StepEffect => NextStep(Cur) \notin CurRow.done]_vars

\* A completed step is never forgotten while the operation compensates.
StepsKept ==
  [][\A o \in Ops :
       row[o].phase = "compensating" /\ row'[o].phase = "compensating"
         => row[o].done \subseteq row'[o].done]_vars

\* Each attempt generation is won by one press: the attempts counted in the
\* row are the generations won (claim_retry compares attempt).
RetryGenerations ==
  \A o \in Ops : won[o] = 0 .. (row[o].attempt - 1)

\* Nothing but an explicit press moves an operation out of awaiting_retry:
\* not the driver, not a waiter, not boot recovery.
AwaitingOnlyByPress ==
  [][\A o \in Ops :
       row[o].phase = "awaiting_retry" /\ row'[o] # row[o]
         => row'[o].attempt = row[o].attempt + 1]_vars

\* A pending row the scheduler owns stays the scheduler's until one of its own
\* task-bounded turns settles or commits it, whoever held it before.
SchedulerOwnsPending ==
  [][\A o \in Ops :
       row[o].phase = "pending" /\ row[o].retryOwner = "scheduler"
         => IF row'[o].phase = "pending" THEN row'[o].retryOwner = "scheduler"
                                         ELSE turn.mode = "task"]_vars

\* A parked row settles only once its process is gone: a deadline, a boot
\* verdict and an observer all leave nothing running behind a settled row.
SettledProcessGone ==
  [][\A o \in Ops :
       row[o].phase = "parked" /\ Settled(row'[o]) => proc'[o] # "running"]_vars

\* A parked row always has what a later process needs to finish it: recorded
\* artifacts and a deadline.
ParkedIsRecoverable ==
  \A o \in Ops : row[o].phase = "parked" =>
    row[o].artifacts = "recorded" /\ row[o].deadline # "none"

\* "once the claim lands, the lease-fenced `mark_failed` wins and the observer's
\* completion rolls back" (apply_parked_pre_deadline_probe): a row claimed by a
\* sweeper that gave its process up for dead settles failed.
DeadClaimWins ==
  [][\A s \in Sweepers :
       /\ sweep[s].pc \in {"enforce", "fail"} /\ sweep[s].why = "dead"
       /\ SweepLive(s)
       /\ Settled(row'[sweep[s].op])
       => row'[sweep[s].op].phase = "failed"]_vars

\* The runtime implements its contract: settled once, for good, and every
\* announced outcome is the settled one.
Contract == INSTANCE OperationContract WITH
  status <- [o \in Ops |->
               IF Settled(row[o]) THEN row[o].phase
               ELSE IF row[o].phase = "awaiting_retry" THEN "awaiting" ELSE "open"],
  heard <- told

ImplementsContract == Contract!Spec

-----------------------------------------------------------------------------
(* Liveness.  Waiters and the scheduler tick call drive and sweep_parked   *)
(* for as long as the server runs, tasks that hold the mutex or a sweep    *)
(* keep running unless dropped, tokio's Mutex is first-come first-served   *)
(* (strong fairness of what waits for it), leases and deadlines run out,   *)
(* and a track fence is released.  Faults are finitely many.               *)
Fairness ==
  /\ WF_vars(DriveBegin) /\ WF_vars(DriveStep)
  /\ \A o \in Ops :
       /\ WF_vars(LeaseExpires(o)) /\ WF_vars(DeadlinePasses(o))
       /\ WF_vars(Observe(o)) /\ WF_vars(TrackFreed(o))
       /\ SF_vars(BootRecover(o))
       /\ SF_vars(WakerRegister(o)) /\ SF_vars(WakerRelease(o))
       /\ WF_vars(\E s \in Sweepers : SweepBegin(s, o) \/ VerifyBegin(s, o))
  /\ \A s \in Sweepers : WF_vars(SweepStep(s))

FairSpec == Spec /\ Fairness

\* Once its preparation is committed an operation never hangs: it settles, or
\* it waits for an explicit retry, across dropped tasks, lost leases, restarts
\* and a process that never exits by itself.
CommittedSettles ==
  \A o \in Ops :
    row[o].phase \notin {"pending", "awaiting_retry"} ~>
      (Settled(row[o]) \/ row[o].phase = "awaiting_retry")

\* A pending row of the driver is not stranded behind a backoff, a lost claim
\* or a busy track: some turn takes it up, or the scheduler adopts it.
PendingTakenUp ==
  \A o \in Ops :
    row[o].phase = "pending" /\ row[o].retryOwner = "driver" ~>
      \/ row[o].phase # "pending" \/ row[o].retryOwner = "scheduler"
      \/ \E c \in TurnClaims : c.op = o /\ turn.pc \in {"effect", "write"}

\* Rows are well formed, and one at rest is complete: a settled one is free of
\* claims (Settle), a parked one has the artifacts and the deadline by which a
\* sweep or a restart recovers it (WriteParked).
RestingRowsSound == TypeOK /\ SettledReleased /\ ParkedIsRecoverable

\* A compensation plan is carried out exactly, whatever fails, is lost or
\* restarts between a step and its record: no recorded step is repeated, none is
\* forgotten (drive_compensation).
CompensationIsExact == StepNotRepeated /\ StepsKept
=============================================================================
