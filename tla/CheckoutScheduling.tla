-------------------------- MODULE CheckoutScheduling --------------------------
(***************************************************************************)
(* The tasks of one track share one Git checkout.  The scheduler claims a   *)
(* pending task when the checkout admits it, submits its worker operation,  *)
(* and the operation's prepare step takes a lease on the checkout.  A task  *)
(* that changes the checkout runs alone; read-only tasks share it.  When an *)
(* attempt ends its lease is released and, for a writer, a delivery commits *)
(* what it left in the tree.                                                *)
(*                                                                          *)
(* Occupancy is a read over three tables (tasks, leases, deliveries), made  *)
(* at the claim and again at the prepare.  In between stand a driver mutex  *)
(* that is only tried, deferred operations that give up their place, workers*)
(* that report, die, are canceled or time out, and crashes and reboots.     *)
(*                                                                          *)
(* Tasks are numbered in scheduler order (priority, creation, key).  Every  *)
(* task is a codex or claude task on the track's own route.                 *)
(***************************************************************************)
EXTENDS Integers, FiniteSets

CONSTANTS
  N,           \* tasks 1..N
  DependsOn,   \* function: task -> the tasks it waits for
  Rounds,      \* preparation rounds before the operation is deferred
  Scenarios    \* the plans of the track, and what may go wrong

Tasks == 1..N

(* writers: the tasks with access read_write; gated: those with a gate;     *)
(* crashes and reboots: bounds on process crashes and machine reboots;      *)
(* closable: the track is closed and reopened at any time; regates: bound on *)
(* the gate re-runs the Planner asks for.                                   *)
ScenarioType ==
  [writers : SUBSET Tasks, gated : SUBSET Tasks, crashes : Nat, reboots : Nat,
   closable : BOOLEAN, regates : Nat]

ASSUME SchedulingAssumption ==
  /\ N \in Nat \ {0} /\ Rounds \in Nat \ {0}
  /\ \A s \in Scenarios : s \in ScenarioType /\ s.gated \subseteq s.writers
  /\ DependsOn \in [Tasks -> SUBSET Tasks]

VARIABLES
  status,   \* tasks.status of the current attempt
  op,       \* its worker operation: phase, pending blocker, live claim
  lease,    \* its workspace_leases row
  oldBoot,  \* the lease was taken before the last machine boot
  sess,     \* its worker session
  marker,   \* the session carries a timeout_cleanup marker
  worker,   \* the worker itself
  delivery, \* its task_git_deliveries row
  gate,     \* the verdicts and the age of the candidates, as a re-run reads them
  turn,     \* the scheduler turn that holds the task's single-flight key
  drive,    \* the holder of the driver mutex
  dirty,    \* whose uncommitted changes are in the tree
  taken,    \* whose changes the commit of a delivery took
  open,     \* the track is open
  crashes, reboots,
  scenario  \* the member of Scenarios that is played

Writers == scenario.writers
Gated   == scenario.gated

rows == <<status, op, lease, sess, marker, delivery, gate>>
vars == <<status, op, lease, oldBoot, sess, marker, worker, delivery, gate, turn,
          drive, dirty, taken, open, crashes, reboots>>

Live     == {"dispatched", "running"}
InFlight == {"dispatched", "running", "verifying"}
Terminal == {"done", "failed", "canceled"}
Phases   == {"none", "pending", "prepared", "spawned", "succeeded", "failed", "stuck"}
Settled  == {"succeeded", "failed", "stuck"}

NoOp == [phase |-> "none", blocked |-> FALSE, claimed |-> FALSE]
NoFacts == [row |-> "pending", occupancy |-> "free", leases |-> {}, clean |-> TRUE]
Unlocked == [task |-> 0, pc |-> "none", facts |-> NoFacts, round |-> 0]

(* red: the tasks failed by the verdict of their gate; outdated: those after *)
(* whose delivery row another task's was inserted.                          *)
NoVerdicts == [red |-> {}, outdated |-> {}, reruns |-> 0]

Init ==
  /\ status = [t \in Tasks |-> "pending"]
  /\ op = [t \in Tasks |-> NoOp]
  /\ lease = [t \in Tasks |-> "none"]
  /\ oldBoot = [t \in Tasks |-> FALSE]
  /\ sess = [t \in Tasks |-> "none"]
  /\ marker = [t \in Tasks |-> FALSE]
  /\ worker = [t \in Tasks |-> "none"]
  /\ delivery = [t \in Tasks |-> "none"]
  /\ gate = NoVerdicts
  /\ turn = [t \in Tasks |-> "none"]
  /\ drive = Unlocked
  /\ dirty = {}
  /\ taken = [t \in Tasks |-> {}]
  /\ open = TRUE
  /\ crashes = 0 /\ reboots = 0
  /\ scenario \in Scenarios

-----------------------------------------------------------------------------
(* Who uses the checkout. *)

(* A dispatched task whose operation is pending, unclaimed and carries a    *)
(* blocker has had no effect yet and gives up its place.                    *)
Yielded(t) ==
  /\ status[t] = "dispatched"
  /\ op[t].phase = "pending" /\ op[t].blocked /\ ~op[t].claimed

Unsettled(t) == delivery[t] \in {"unsettled", "committed"}

(* Everyone but the attempt asking that counts, each with its own access.   *)
Occupants(except) ==
  {t \in Tasks \ {except} : status[t] \in InFlight /\ ~Yielded(t)}
    \union {t \in Tasks \ {except} : lease[t] = "held" /\ op[t].phase # "stuck"}

OccupancyTasksOnly(except) ==
  LET users == {t \in Tasks \ {except} : status[t] \in InFlight /\ ~Yielded(t)}
  IN IF users \intersect Writers # {} THEN "busy" ELSE IF users # {} THEN "readers" ELSE "free"

Occupancy(except) ==
  IF \/ Occupants(except) \intersect Writers # {}
     \/ \E t \in Tasks \ {except} : Unsettled(t)
  THEN "busy"
  ELSE IF Occupants(except) # {} THEN "readers" ELSE "free"

Admits(occupancy, t) ==
  \/ occupancy = "free"
  \/ occupancy = "readers" /\ t \notin Writers

Ready(t) == status[t] = "pending" /\ \A d \in DependsOn[t] : status[d] = "done"

(* A later reader waits behind a ready writer that waits.                   *)
Admitted(t) ==
  LET occupancy == Occupancy(t)
  IN /\ Ready(t)
     /\ Admits(occupancy, t)
     /\ \/ t \in Writers
        \/ ~\E w \in Writers : w < t /\ Ready(w) /\ ~Admits(occupancy, w)

-----------------------------------------------------------------------------
(* The scheduler turn of a task: claim, submit, settle. *)

Claim(t) ==
  /\ turn[t] = "none" /\ open
  /\ Admitted(t)
  /\ status' = [status EXCEPT ![t] = "dispatched"]
  /\ turn' = [turn EXCEPT ![t] = "submit"]
  /\ UNCHANGED <<op, lease, oldBoot, sess, marker, worker, delivery, gate, drive, dirty, taken, open, crashes, reboots>>

ResumeUnsubmitted(t) ==
  /\ turn[t] = "none" /\ status[t] = "dispatched" /\ op[t] = NoOp
  /\ turn' = [turn EXCEPT ![t] = "submit"]
  /\ UNCHANGED <<rows, oldBoot, worker, drive, dirty, taken, open, crashes, reboots>>

(* The sweep's dispatched arm. *)
ResumeDispatched(t) ==
  /\ turn[t] = "none" /\ status[t] = "dispatched"
  /\ turn' = [turn EXCEPT ![t] = "submit"]
  /\ UNCHANGED <<rows, oldBoot, worker, drive, dirty, taken, open, crashes, reboots>>

(* submit_task_bounded: the keyed insert, or the row that is there.         *)
Submit(t) ==
  /\ turn[t] = "submit"
  /\ op' = [op EXCEPT ![t].phase = IF @ = "none" THEN "pending" ELSE @]
  /\ turn' = [turn EXCEPT ![t] = IF op[t].phase \in Settled THEN "settle" ELSE "lock"]
  /\ UNCHANGED <<status, lease, oldBoot, sess, marker, worker, delivery, gate, drive, dirty, taken, open, crashes, reboots>>

(* The driver mutex is only tried: a busy driver defers the operation, which *)
(* is refused when someone holds a live claim on it or it is past pending.  *)
DriverBusy(t) ==
  /\ turn[t] = "lock" /\ drive # Unlocked
  /\ op' = [op EXCEPT ![t].blocked = @ \/ (op[t].phase = "pending" /\ ~op[t].claimed)]
  /\ turn' = [turn EXCEPT ![t] = "none"]
  /\ UNCHANGED <<status, lease, oldBoot, sess, marker, worker, delivery, gate, drive, dirty, taken, open, crashes, reboots>>

(* The claim of a crashed process is live until it expires: deferral is then *)
(* refused and the turn ends.                                               *)
ClaimBusy(t) ==
  /\ turn[t] = "lock" /\ drive = Unlocked /\ op[t].claimed
  /\ turn' = [turn EXCEPT ![t] = "none"]
  /\ UNCHANGED <<rows, oldBoot, worker, drive, dirty, taken, open, crashes, reboots>>

Lock(t) ==
  /\ turn[t] = "lock" /\ drive = Unlocked /\ ~op[t].claimed
  /\ IF op[t].phase \in Settled
     THEN turn' = [turn EXCEPT ![t] = "settle"] /\ UNCHANGED <<op, drive>>
     ELSE /\ turn' = [turn EXCEPT ![t] = "drive"]
          /\ op' = [op EXCEPT ![t].claimed = TRUE]
          /\ drive' = [Unlocked EXCEPT !.task = t,
                         !.pc = IF op[t].phase = "pending" THEN "collect" ELSE "spawn"]
  /\ UNCHANGED <<status, lease, oldBoot, sess, marker, worker, delivery, gate, dirty, taken, open, crashes, reboots>>

-----------------------------------------------------------------------------
(* Driving the operation under the mutex. *)

Driving(t, pc) == drive.task = t /\ drive.pc = pc

(* The drive ends: the operation is left in a phase, the claim and the mutex *)
(* are released, and a turn that waits goes on.                             *)
Leave(t, phase, blocked, next) ==
  /\ op' = [op EXCEPT ![t] = [phase |-> phase, blocked |-> blocked, claimed |-> FALSE]]
  /\ drive' = Unlocked
  /\ turn' = [turn EXCEPT ![t] = IF @ = "drive" THEN next ELSE @]

Defer(t)   == Leave(t, "pending", TRUE, "none")
FailOp(t)  == Leave(t, "failed", FALSE, "settle")

Startable(t) == status[t] \in InFlight /\ open

Facts(t) ==
  [row |-> status[t], occupancy |-> Occupancy(t),
   leases |-> {<<u, op[u].phase>> : u \in {v \in Tasks : lease[v] = "held"}},
   clean |-> dirty = {}]

(* Facts that are compared at the apply; the tree was read outside.         *)
Rows(facts) == <<facts.row, facts.occupancy, facts.leases>>

Collect(t) ==
  /\ Driving(t, "collect")
  /\ IF ~Startable(t) THEN FailOp(t)
     ELSE IF ~Admits(Occupancy(t), t) THEN Defer(t)
     ELSE /\ drive' = [drive EXCEPT !.pc = "apply", !.facts = Facts(t)]
          /\ UNCHANGED <<op, turn>>
  /\ UNCHANGED <<status, lease, oldBoot, sess, marker, worker, delivery, gate, dirty, taken, open, crashes, reboots>>

Stale(t) ==
  IF drive.round + 1 < Rounds
  THEN drive' = [drive EXCEPT !.pc = "collect", !.round = @ + 1] /\ UNCHANGED <<op, turn>>
  ELSE Defer(t)

(* publish_worker: leases of stuck owners are superseded, the lease is held, *)
(* the blocker is cleared with the output.                                  *)
Publish(t) ==
  /\ lease' = [u \in Tasks |->
                 IF u = t THEN "held"
                 ELSE IF lease[u] = "held" /\ op[u].phase = "stuck" THEN "superseded" ELSE lease[u]]
  /\ oldBoot' = [oldBoot EXCEPT ![t] = FALSE]
  /\ op' = [op EXCEPT ![t] = [phase |-> "prepared", blocked |-> FALSE, claimed |-> TRUE]]
  /\ drive' = [Unlocked EXCEPT !.task = t, !.pc = "spawn"]
  /\ UNCHANGED turn

ApplyDirty(t) ==
  /\ Driving(t, "apply")
  /\ IF Rows(Facts(t)) # Rows(drive.facts) THEN Stale(t) /\ UNCHANGED <<lease, oldBoot>>
     ELSE Publish(t)
  /\ UNCHANGED <<status, sess, marker, worker, delivery, gate, dirty, taken, open, crashes, reboots>>

(* The second transaction: the attempt is still startable, the checkout     *)
(* still admits it, nothing was written in between, and the tree was clean. *)
Apply(t) ==
  /\ Driving(t, "apply")
  /\ \/ ~Startable(t) /\ FailOp(t) /\ UNCHANGED <<lease, oldBoot>>
     \/ Startable(t) /\ ~Admits(Occupancy(t), t) /\ Defer(t) /\ UNCHANGED <<lease, oldBoot>>
     \/ /\ Startable(t) /\ Admits(Occupancy(t), t)
        /\ IF Rows(Facts(t)) # Rows(drive.facts) THEN Stale(t) /\ UNCHANGED <<lease, oldBoot>>
           ELSE IF drive.facts.clean THEN Publish(t)
           ELSE FailOp(t) /\ UNCHANGED <<lease, oldBoot>>
  /\ UNCHANGED <<status, sess, marker, worker, delivery, gate, dirty, taken, open, crashes, reboots>>

(* The worker starts; from here on it can report. *)
Spawn(t) ==
  /\ Driving(t, "spawn") /\ op[t].phase = "prepared"
  /\ op' = [op EXCEPT ![t].phase = "spawned"]
  /\ worker' = [worker EXCEPT ![t] = "working"]
  /\ sess' = [sess EXCEPT ![t] = "live"]
  /\ UNCHANGED <<status, lease, oldBoot, marker, delivery, gate, turn, drive, dirty, taken, open, crashes, reboots>>

SpawnSucceeds(t) ==
  /\ Driving(t, "spawn") /\ op[t].phase = "spawned"
  /\ Leave(t, "succeeded", FALSE, "settle")
  /\ UNCHANGED <<status, lease, oldBoot, sess, marker, worker, delivery, gate, dirty, taken, open, crashes, reboots>>

(* A launch that may have started is not cleaned up: the outcome is unknown  *)
(* and the lease is retained.                                               *)
SpawnStuck(t) ==
  /\ Driving(t, "spawn") /\ op[t].phase = "spawned"
  /\ Leave(t, "stuck", FALSE, "settle")
  /\ UNCHANGED <<status, lease, oldBoot, sess, marker, worker, delivery, gate, dirty, taken, open, crashes, reboots>>

(* An inserted delivery row is newer than the rows that are there.          *)
Outdate(inserted) ==
  gate' = [gate EXCEPT !.outdated =
             @ \union {v \in Tasks : delivery[v] # "none" /\ inserted \ {v} # {}}]

(* The delivery rows that a release of the given tasks inserts.             *)
Inserted(released) ==
  {t \in released : lease[t] = "held" /\ t \in Writers /\ delivery[t] = "none"}

ReleaseWithoutDelivery(t) ==
  /\ lease' = [lease EXCEPT ![t] = IF @ = "held" THEN "released" ELSE @]
  /\ UNCHANGED <<delivery, gate>>

(* The one release: the lease row flips, and the first delivery row of a     *)
(* writer's attempt is inserted with it.                                    *)
Release(t) ==
  /\ lease' = [lease EXCEPT ![t] = IF @ = "held" THEN "released" ELSE @]
  /\ delivery' = [delivery EXCEPT ![t] = IF t \in Inserted({t}) THEN "unsettled" ELSE @]
  /\ Outdate(Inserted({t}))

Keep == UNCHANGED <<lease, delivery, gate>>

(* Compensation of a launch that never started.                             *)
SpawnFails(t) ==
  /\ Driving(t, "spawn") /\ op[t].phase = "prepared"
  /\ Release(t)
  /\ Leave(t, "failed", FALSE, "settle")
  /\ UNCHANGED <<status, oldBoot, sess, marker, worker, dirty, taken, open, crashes, reboots>>

ReconcileUnguarded(t) ==
  /\ turn[t] = "settle"
  /\ turn' = [turn EXCEPT ![t] = "none"]
  /\ status' = [status EXCEPT ![t] = IF op[t].phase = "succeeded" THEN "running" ELSE "failed"]
  /\ UNCHANGED <<op, lease, oldBoot, sess, marker, worker, delivery, gate, drive, dirty, taken, open, crashes, reboots>>

(* reconcile_spawn_result: guarded running stamp, or guarded failure.       *)
Reconcile(t) ==
  /\ turn[t] = "settle"
  /\ turn' = [turn EXCEPT ![t] = "none"]
  /\ status' = [status EXCEPT ![t] =
       IF op[t].phase = "succeeded" THEN IF @ = "dispatched" THEN "running" ELSE @
       ELSE IF @ \in Live THEN "failed" ELSE @]
  /\ UNCHANGED <<op, lease, oldBoot, sess, marker, worker, delivery, gate, drive, dirty, taken, open, crashes, reboots>>

-----------------------------------------------------------------------------
(* The worker, and the ways an attempt ends. *)

Write(t) ==
  /\ worker[t] = "working" /\ t \in Writers
  /\ dirty' = dirty \union {t}
  /\ UNCHANGED <<rows, oldBoot, worker, turn, drive, taken, open, crashes, reboots>>

(* A report is admitted while the row is live: it ends the attempt and       *)
(* releases the lease in one transaction.  A gated row goes to its gate.    *)
Report(t, success) ==
  /\ worker[t] = "working" /\ status[t] \in Live
  /\ worker' = [worker EXCEPT ![t] = "finished"]
  /\ status' = [status EXCEPT ![t] =
       IF ~success THEN "failed" ELSE IF t \in Gated THEN "verifying" ELSE "done"]
  /\ Release(t)
  /\ UNCHANGED <<op, oldBoot, sess, marker, turn, drive, dirty, taken, open, crashes, reboots>>

WorkerDies(t) ==
  /\ worker[t] = "working"
  /\ worker' = [worker EXCEPT ![t] = "dead"]
  /\ UNCHANGED <<rows, oldBoot, turn, drive, dirty, taken, open, crashes, reboots>>

(* An exit hook or the reaper records the end of the session.               *)
ExitRecorded(t) ==
  /\ worker[t] = "dead" /\ sess[t] = "live"
  /\ sess' = [sess EXCEPT ![t] = "ended"]
  /\ UNCHANGED <<status, op, lease, marker, delivery, gate, oldBoot, worker, turn, drive, dirty, taken, open, crashes, reboots>>

(* mark_running_timeout_cleanup_tx: a live session is marked for the reap;   *)
(* without one nothing is left to kill and the lease is released here.      *)
MarkForgotten(t) == UNCHANGED <<marker, lease, delivery, gate>>

Mark(t) ==
  IF sess[t] = "live"
  THEN marker' = [marker EXCEPT ![t] = TRUE] /\ Keep
  ELSE UNCHANGED marker /\ Release(t)

(* The Planner cancels, or the liveness window expires, or the turn ended    *)
(* without a report.                                                        *)
EndRunning(t, verdict) ==
  /\ status[t] = "running"
  /\ status' = [status EXCEPT ![t] = verdict]
  /\ Mark(t)
  /\ UNCHANGED <<op, oldBoot, sess, worker, turn, drive, dirty, taken, open, crashes, reboots>>

CancelPending(t) ==
  /\ status[t] = "pending"
  /\ status' = [status EXCEPT ![t] = "canceled"]
  /\ UNCHANGED <<op, lease, oldBoot, sess, marker, worker, delivery, gate, turn, drive, dirty, taken, open, crashes, reboots>>

(* The reaper: the worker is confirmed dead and its session is not terminal. *)
Reap(t) ==
  /\ worker[t] = "dead" /\ sess[t] = "live" /\ status[t] \in Live \union Terminal
  /\ status' = [status EXCEPT ![t] = IF @ \in Live THEN "failed" ELSE @]
  /\ Release(t)
  /\ UNCHANGED <<op, oldBoot, sess, marker, worker, turn, drive, dirty, taken, open, crashes, reboots>>

(* The cleanup sweep holds the driver mutex: it stops the worker, then a      *)
(* transaction clears the marker, ends the session and releases the lease.  *)
CleanupStop(t) ==
  /\ marker[t] /\ drive = Unlocked /\ status[t] \in Terminal
  /\ drive' = [Unlocked EXCEPT !.task = t, !.pc = "cleanup"]
  /\ worker' = [worker EXCEPT ![t] = IF @ = "working" THEN "dead" ELSE @]
  /\ UNCHANGED <<rows, oldBoot, turn, dirty, taken, open, crashes, reboots>>

CleanupRelease(t) ==
  /\ Driving(t, "cleanup")
  /\ drive' = Unlocked
  /\ marker' = [marker EXCEPT ![t] = FALSE]
  /\ sess' = [sess EXCEPT ![t] = "ended"]
  /\ Release(t)
  /\ UNCHANGED <<status, op, oldBoot, worker, turn, dirty, taken, open, crashes, reboots>>

-----------------------------------------------------------------------------
(* Deliveries and gates. *)

(* The forge action commits whatever is in the tree.                        *)
Commit(t) ==
  /\ delivery[t] = "unsettled"
  /\ delivery' = [delivery EXCEPT ![t] = "committed"]
  /\ taken' = [taken EXCEPT ![t] = dirty]
  /\ dirty' = {}
  /\ UNCHANGED <<status, op, lease, oldBoot, sess, marker, worker, gate, turn, drive, open, crashes, reboots>>

Settle(t) ==
  /\ delivery[t] = "committed"
  /\ delivery' = [delivery EXCEPT ![t] = "candidate"]
  /\ UNCHANGED <<status, op, lease, oldBoot, sess, marker, worker, gate, turn, drive, dirty, taken, open, crashes, reboots>>

(* A failed settlement also fails a gated row that waits for its gate.      *)
SettleFailed(t) ==
  /\ Unsettled(t)
  /\ delivery' = [delivery EXCEPT ![t] = "failed"]
  /\ status' = [status EXCEPT ![t] = IF @ = "verifying" THEN "failed" ELSE @]
  /\ UNCHANGED <<op, lease, oldBoot, sess, marker, worker, gate, turn, drive, dirty, taken, open, crashes, reboots>>

(* The gate of a candidate; TaskGate models how its attempts run.           *)
GateVerdict(t, passed) ==
  /\ status[t] = "verifying" /\ delivery[t] = "candidate"
  /\ status' = [status EXCEPT ![t] = IF passed THEN "done" ELSE "failed"]
  /\ gate' = [gate EXCEPT !.red = IF passed THEN @ ELSE @ \union {t}]
  /\ UNCHANGED <<op, lease, oldBoot, sess, marker, worker, delivery, turn, drive, dirty, taken, open, crashes, reboots>>

(* regate_in_tx: the Planner asks for the gate of a failed attempt again.    *)
(* Its candidate must be the newest delivery and the checkout free.         *)
RegateUnchecked(t) ==
  /\ gate.reruns < scenario.regates
  /\ open /\ status[t] = "failed" /\ t \in Gated /\ t \in gate.red
  /\ delivery[t] = "candidate"
  /\ status' = [status EXCEPT ![t] = "verifying"]
  /\ gate' = [gate EXCEPT !.red = @ \ {t}, !.reruns = @ + 1]
  /\ UNCHANGED <<op, lease, oldBoot, sess, marker, worker, delivery, turn, drive, dirty, taken, open, crashes, reboots>>

Regate(t) ==
  /\ gate.reruns < scenario.regates
  /\ open /\ status[t] = "failed" /\ t \in Gated /\ t \in gate.red
  /\ delivery[t] = "candidate" /\ t \notin gate.outdated
  /\ Occupancy(t) = "free"
  /\ status' = [status EXCEPT ![t] = "verifying"]
  /\ gate' = [gate EXCEPT !.red = @ \ {t}, !.reruns = @ + 1]
  /\ UNCHANGED <<op, lease, oldBoot, sess, marker, worker, delivery, turn, drive, dirty, taken, open, crashes, reboots>>

-----------------------------------------------------------------------------
(* Closing, crashes and reboots. *)

(* The track is closed or reopened, work in flight or not.                  *)
CloseOrReopen ==
  /\ scenario.closable
  /\ open' = ~open
  /\ UNCHANGED <<rows, oldBoot, worker, turn, drive, dirty, taken, crashes, reboots>>

(* reclaim_dead_workspace_leases_on_boot: a held lease of an older machine   *)
(* boot whose owner operation is not recoverable.                           *)
Reclaimable(t) == lease[t] = "held" /\ oldBoot'[t] /\ op[t].phase \in Settled \union {"none"}

(* Turns and the mutex end with the process; rows, claims and workers stay.  *)
(* The new process reclaims leases before it drives anything: the attempt    *)
(* fails if it is live, and its lease is released as interrupted.           *)
Restart ==
  /\ turn' = [t \in Tasks |-> "none"] /\ drive' = Unlocked
  /\ status' = [t \in Tasks |-> IF Reclaimable(t) /\ status[t] \in Live THEN "failed" ELSE status[t]]
  /\ lease' = [t \in Tasks |-> IF Reclaimable(t) THEN "released" ELSE lease[t]]
  /\ LET inserted == Inserted({t \in Tasks : Reclaimable(t)})
     IN /\ delivery' = [t \in Tasks |-> IF t \in inserted THEN "unsettled" ELSE delivery[t]]
        /\ Outdate(inserted)
  /\ UNCHANGED <<op, sess, marker, dirty, taken, open>>

Crash ==
  /\ crashes < scenario.crashes
  /\ crashes' = crashes + 1
  /\ UNCHANGED <<oldBoot, worker, reboots>>
  /\ Restart

Reboot ==
  /\ reboots < scenario.reboots
  /\ reboots' = reboots + 1
  /\ oldBoot' = [t \in Tasks |-> lease[t] = "held"]
  /\ worker' = [t \in Tasks |-> IF worker[t] = "working" THEN "dead" ELSE worker[t]]
  /\ UNCHANGED crashes
  /\ Restart

(* A claim nobody drives expires. *)
ExpireClaim(t) ==
  /\ op[t].claimed /\ drive.task # t
  /\ op' = [op EXCEPT ![t].claimed = FALSE]
  /\ UNCHANGED <<status, lease, oldBoot, sess, marker, worker, delivery, gate, turn, drive, dirty, taken, open, crashes, reboots>>

(* Boot recovery, or the ordinary driver once the claim expired, takes up an *)
(* operation past its prepare.  A pending one is the scheduler's alone.     *)
Recover(t) ==
  /\ drive = Unlocked /\ op[t].phase \in {"prepared", "spawned"}
  /\ op' = [op EXCEPT ![t].claimed = TRUE]
  /\ drive' = [Unlocked EXCEPT !.task = t, !.pc = "spawn"]
  /\ UNCHANGED <<status, lease, oldBoot, sess, marker, worker, delivery, gate, turn, dirty, taken, open, crashes, reboots>>

-----------------------------------------------------------------------------
Scheduler(t) == Claim(t) \/ ResumeDispatched(t) \/ Submit(t) \/ DriverBusy(t) \/ ClaimBusy(t) \/ Lock(t) \/ Reconcile(t)
Driver(t) == Collect(t) \/ Apply(t) \/ Spawn(t) \/ SpawnSucceeds(t) \/ SpawnStuck(t) \/ SpawnFails(t) \/ Recover(t)
Worker(t) == Write(t) \/ (\E success \in BOOLEAN : Report(t, success)) \/ WorkerDies(t) \/ ExitRecorded(t)
Ending(t) == (\E v \in {"failed", "canceled"} : EndRunning(t, v)) \/ CancelPending(t) \/ Reap(t) \/ CleanupStop(t) \/ CleanupRelease(t)
Delivering(t) == Commit(t) \/ Settle(t) \/ SettleFailed(t) \/ \E p \in BOOLEAN : GateVerdict(t, p)

Step ==
  \/ \E t \in Tasks : Scheduler(t) \/ Driver(t) \/ Worker(t) \/ Ending(t) \/ Delivering(t) \/ Regate(t) \/ ExpireClaim(t)
  \/ CloseOrReopen \/ Crash \/ Reboot

Next == Step /\ UNCHANGED scenario

Spec == Init /\ [][Next]_<<vars, scenario>>

(* The sweeps run for ever, and a queued turn, the holder of the driver     *)
(* mutex and a delivery run on.  The mutex is only tried, so a turn, a      *)
(* recovery or a cleanup wins it only by trying again and again.            *)
TurnStep(t) ==
  \/ Claim(t) \/ ResumeDispatched(t) \/ Submit(t)
  \/ DriverBusy(t) \/ ClaimBusy(t) \/ Lock(t) \/ Reconcile(t)
HolderStep(t) ==
  \/ Collect(t) \/ Apply(t) \/ Spawn(t) \/ SpawnSucceeds(t) \/ SpawnStuck(t)
  \/ CleanupRelease(t)

Fairness ==
  /\ WF_vars(\E t \in Tasks : HolderStep(t))
  /\ \A t \in Tasks :
       /\ WF_vars(TurnStep(t))
       /\ SF_vars(Lock(t) \/ Recover(t) \/ CleanupStop(t))
       /\ WF_vars(EndRunning(t, "failed")) /\ WF_vars(Reap(t)) /\ WF_vars(ExpireClaim(t))
       /\ WF_vars(Delivering(t))

LiveSpec == Spec /\ Fairness

-----------------------------------------------------------------------------
(* Properties. *)

TypeOK ==
  /\ status \in [Tasks -> {"pending"} \union InFlight \union Terminal]
  /\ op \in [Tasks -> [phase : Phases, blocked : BOOLEAN, claimed : BOOLEAN]]
  /\ lease \in [Tasks -> {"none", "held", "released", "superseded"}]
  /\ oldBoot \in [Tasks -> BOOLEAN]
  /\ sess \in [Tasks -> {"none", "live", "ended"}]
  /\ marker \in [Tasks -> BOOLEAN]
  /\ worker \in [Tasks -> {"none", "working", "finished", "dead"}]
  /\ delivery \in [Tasks -> {"none", "unsettled", "committed", "candidate", "failed"}]
  /\ turn \in [Tasks -> {"none", "submit", "lock", "drive", "settle"}]
  /\ drive.task \in 0..N /\ drive.pc \in {"none", "collect", "apply", "spawn", "cleanup"} /\ drive.round \in 0..Rounds-1
  /\ \A t \in Tasks : turn[t] = "drive" => drive.task = t
  /\ \A t \in Tasks : op[t].phase \in {"none", "pending"} => lease[t] = "none" /\ worker[t] = "none"
  /\ dirty \subseteq Tasks /\ taken \in [Tasks -> SUBSET Tasks]
  /\ gate.red \subseteq Tasks /\ gate.outdated \subseteq Tasks /\ gate.reruns \in 0..scenario.regates
  /\ open \in BOOLEAN /\ crashes \in 0..scenario.crashes /\ reboots \in 0..scenario.reboots
  /\ scenario \in Scenarios

(* Whose use of the checkout is real: a worker at work, a gate, or a commit  *)
(* still to be made.  A worker whose operation is stuck no longer counts.   *)
Uses(t) ==
  \/ worker[t] = "working" /\ op[t].phase # "stuck"
  \/ status[t] = "verifying"
  \/ delivery[t] = "unsettled"

(* The candidate of the task is at its gate.                                *)
Judged(t) == status[t] = "verifying" /\ delivery[t] = "candidate"

(* A task that changes the checkout is alone in it from its first step to    *)
(* its commit and its gate, whatever deferred, was canceled or crashed      *)
(* meanwhile (checkout_occupancy, require_checkout_startable_tx).  One case  *)
(* is excepted: a re-run gate may start while a stuck operation still holds  *)
(* its lease, which no one supersedes then, and the release of that lease    *)
(* has its delivery made beside the gate.                                   *)
Exclusive ==
  \A t \in Writers, u \in Tasks : t # u /\ Uses(t) /\ Uses(u) =>
    \/ op[t].phase = "stuck" /\ Judged(u)
    \/ op[u].phase = "stuck" /\ Judged(t)

(* The commit of a delivery takes nobody else's changes, except those of a   *)
(* worker whose operation is stuck.                                         *)
PureDelivery ==
  \A t \in Tasks : \A u \in taken[t] : u = t \/ op[u].phase = "stuck"

(* Uncommitted changes always have an owner that is still accountable for   *)
(* them: it holds its lease, its delivery is to be made, or it failed.      *)
Accounted ==
  \A t \in dirty : \/ lease[t] = "held" \/ delivery[t] \in {"unsettled", "failed"}
                   \/ op[t].phase = "stuck"

(* An attempt that ended stays as it ended: no late report, running stamp,   *)
(* reaper or reclaim moves it again.  The one way back is a gate re-run, of  *)
(* an attempt its gate failed, onto a candidate no later delivery covers.   *)
FinalStatus ==
  [][\A t \in Tasks : status[t] \in Terminal /\ status'[t] # status[t] =>
       /\ status[t] = "failed" /\ status'[t] = "verifying" /\ t \in gate.red
       /\ delivery[t] = "candidate" /\ t \notin gate.outdated
       /\ \A u \in Tasks \ {t} : ~Unsettled(u)]_vars

(* A dispatched task does not stay dispatched: its operation is driven,      *)
(* however often it is deferred or yields the checkout to another.          *)
DispatchSettles == \A t \in Tasks : status[t] = "dispatched" ~> status[t] # "dispatched"

(* An ended worker's lease does not occupy the checkout for ever.           *)
LeaseReleased ==
  \A t \in Tasks : (lease[t] = "held" /\ status[t] \in Terminal) ~> (lease[t] # "held" \/ op[t].phase = "stuck")

(* The checkout is safe: a writer is alone in it, its delivery is its own,   *)
(* and no uncommitted change is without somebody to account for it.         *)
CheckoutIsSafe == TypeOK /\ Exclusive /\ PureDelivery /\ Accounted

(* Neither a dispatched task nor the lease of an ended one stays for ever.   *)
NothingStays == DispatchSettles /\ LeaseReleased
=============================================================================
