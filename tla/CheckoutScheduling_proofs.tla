---------------------- MODULE CheckoutScheduling_proofs ----------------------
(***************************************************************************)
(* Proofs about CheckoutScheduling, for any number of tasks, any plan and  *)
(* any bounds on crashes and reboots. That a writer is alone in the        *)
(* checkout is not inductive: it rests on the lease, which outlives every  *)
(* change of the row until a delivery takes its place, and on the mutex,   *)
(* under which nobody else takes a lease between the two reads of the      *)
(* occupancy.                                                              *)
(*                                                                         *)
(* One claim of the code's is a hypothesis: a lease is released only when  *)
(* its worker is not at work. It is shown of every step but one, the boot  *)
(* reclaim of a server restarted alone after a machine reboot, which can   *)
(* take the lease of a worker that was started since (see the README).     *)
(***************************************************************************)
EXTENDS CheckoutScheduling, TLAPS

Statuses == {"pending"} \union InFlight \union Terminal
OpType == [phase : Phases, blocked : BOOLEAN, claimed : BOOLEAN]
FactsType ==
  [row : Statuses, occupancy : {"free", "readers", "busy"},
   leases : SUBSET (Tasks \X Phases), clean : BOOLEAN]
DriveType ==
  [task : 0..N, pc : {"none", "collect", "apply", "spawn", "cleanup"},
   facts : FactsType, round : 0..Rounds-1]

\* The type invariant without what it says of two variables at once.
Types ==
  /\ status \in [Tasks -> Statuses]
  /\ op \in [Tasks -> OpType]
  /\ lease \in [Tasks -> {"none", "held", "released", "superseded"}]
  /\ oldBoot \in [Tasks -> BOOLEAN]
  /\ sess \in [Tasks -> {"none", "live", "ended"}]
  /\ marker \in [Tasks -> BOOLEAN]
  /\ worker \in [Tasks -> {"none", "working", "finished", "dead"}]
  /\ delivery \in [Tasks -> {"none", "unsettled", "committed", "candidate", "failed"}]
  /\ turn \in [Tasks -> {"none", "submit", "lock", "drive", "settle"}]
  /\ drive \in DriveType
  /\ dirty \in SUBSET Tasks /\ taken \in [Tasks -> SUBSET Tasks]
  /\ open \in BOOLEAN /\ crashes \in 0..scenario.crashes /\ reboots \in 0..scenario.reboots
  /\ scenario \in Scenarios

Unstarted == {"none", "pending", "prepared", "failed"}

\* What the rows of one task say together: `p` its operation's phase, `s` its status,
\* `l` its lease, `w` its worker, `e` its session, `v` its delivery.
RowsAgree(t, p, s, l, w, e, v) ==
  /\ p = "none" => s \in {"pending", "dispatched", "canceled"}
  /\ p \in {"pending", "prepared"} => s = "dispatched"
  /\ p \in Unstarted => w = "none" /\ s \notin {"running", "verifying"}
  /\ p \in {"none", "pending"} => l = "none" /\ v = "none"
  /\ p = "prepared" => l = "held"
  /\ s = "pending" => p = "none"
  /\ s = "running" => p = "succeeded"
  /\ s \in Live /\ (p \in {"spawned", "succeeded"} \/ (p = "stuck" /\ t \in Writers)) => l = "held"
  /\ w = "working" => e = "live" /\ (p # "stuck" => l = "held")
  /\ l = "held" => v = "none"
  /\ l = "superseded" => p = "stuck"
  /\ v # "none" => t \in Writers

RowsOK ==
  \A t \in Tasks :
    RowsAgree(t, op[t].phase, status[t], lease[t], worker[t], sess[t], delivery[t])

\* Where the turns and the holder of the mutex are.
TurnsOK ==
  \A t \in Tasks :
    /\ turn[t] = "submit" /\ op[t].phase = "none" => status[t] = "dispatched"
    /\ turn[t] \in {"lock", "drive"} => op[t].phase # "none"
    /\ turn[t] = "drive" => drive.task = t /\ drive.pc # "cleanup"
    /\ turn[t] = "settle" => op[t].phase \in Settled

\* Where a row that left Live can be; a gate re-run takes it back to verifying.
Ended == Terminal \union {"verifying"}

DriveOK ==
  /\ drive.pc = "none" <=> drive.task = 0
  /\ drive.pc \in {"collect", "apply"} => op[drive.task].phase = "pending"
  /\ drive.pc = "spawn" => op[drive.task].phase \in {"prepared", "spawned"}
  /\ drive.pc = "cleanup" => worker[drive.task] # "working" /\ status[drive.task] \in Ended

\* A claim on the checkout that only a commit, a gate or a release without
\* delivery ends.
Engaged(t) == lease[t] = "held" \/ Unsettled(t) \/ status[t] = "verifying"

\* A stuck operation that holds its lease, or what it left, beside a gate.
Beside(t, u) == op[t].phase = "stuck" /\ Judged(u)

Alone ==
  \A t \in Writers : \A u \in Tasks :
    t # u /\ Engaged(t) /\ Engaged(u) => Beside(t, u) \/ Beside(u, t)

\* The tree holds nothing but the writer's own changes and those of stuck workers.
TreeOK ==
  \A u \in Writers : lease[u] = "held" \/ delivery[u] = "unsettled" =>
    \A t \in dirty : t = u \/ op[t].phase = "stuck"

\* What the holder of the mutex has read stays true until it applies.
FactsHold ==
  drive.pc = "apply" =>
    /\ \A t \in Writers : t # drive.task /\ lease[t] = "held" => op[t].phase = "stuck"
    /\ drive.facts.clean => \A t \in dirty : op[t].phase = "stuck"

DirtyOK == dirty \subseteq Writers /\ Accounted

\* Nobody has an old lease while the machine has not rebooted.
BootOK == reboots = 0 => \A t \in Tasks : ~oldBoot[t]

\* A task that its gate failed was started.
GateOK ==
  /\ gate \in [red : SUBSET Tasks, outdated : SUBSET Tasks, reruns : 0..scenario.regates]
  /\ \A t \in gate.red : op[t].phase \notin Unstarted

\* The inductive invariant, but for the verdicts.
Inv == /\ Types /\ RowsOK /\ TurnsOK /\ DriveOK /\ Alone /\ TreeOK /\ FactsHold
       /\ DirtyOK /\ PureDelivery /\ BootOK

\* A lease is released only when its worker is not at work (BOOT_RECLAIM_REASON
\* and the cleanups of release.rs).
WorkerIsOver ==
  \A t \in Tasks : lease[t] = "held" /\ lease'[t] = "released" => worker'[t] # "working"

ReleasedIsOver == [][WorkerIsOver]_vars

\* Scenarios that do not combine reboots with restarts of the server alone.
CrashOrReboot == \A s \in Scenarios : s.crashes = 0 \/ s.reboots = 0

-----------------------------------------------------------------------------
(* The types.                                                              *)

LEMMA UnlockedType ==
  /\ Unlocked \in DriveType /\ Unlocked.pc = "none" /\ Unlocked.task = 0
  /\ \A t \in Tasks : \A p \in {"collect", "spawn", "cleanup"} :
       LET d == [Unlocked EXCEPT !.task = t, !.pc = p]
       IN d \in DriveType /\ d.task = t /\ d.pc = p
<1>1. N \in Nat /\ 0 \in 0..N /\ 0 \in 0..Rounds-1 /\ \A t \in Tasks : t \in 0..N
  BY SchedulingAssumption DEF Tasks
<1>2. NoFacts \in FactsType
  BY DEF NoFacts, FactsType, Statuses
<1>. QED
  BY <1>1, <1>2 DEF Unlocked, DriveType

LEMMA FactsTyped == ASSUME Types, NEW t \in Tasks PROVE Facts(t) \in FactsType
<1>1. status[t] \in Statuses /\ Occupancy(t) \in {"free", "readers", "busy"} /\ (dirty = {}) \in BOOLEAN
  BY DEF Types, Occupancy
<1>2. {<<u, op[u].phase>> : u \in {v \in Tasks : lease[v] = "held"}} \in SUBSET (Tasks \X Phases)
  BY DEF Types, OpType
<1>. QED
  BY <1>1, <1>2 DEF Facts, FactsType

\* A holder of the mutex is a task.
LEMMA Holder ==
  ASSUME Inv, drive.pc # "none" PROVE drive.task \in Tasks
<1>1. drive.task \in 0..N /\ drive.task # 0 /\ N \in Nat
  BY SchedulingAssumption DEF Inv, Types, DriveType, DriveOK
<1>. QED
  BY <1>1 DEF Tasks

LEMMA Zero == 0 \notin Tasks /\ \A t \in Tasks : t # 0
BY DEF Tasks

-----------------------------------------------------------------------------
(* What the steps have in common.                                          *)

\* What a step that takes no lease, commits nothing and writes nothing does to
\* a task's hold of the checkout.
Holds(t) ==
  /\ lease'[t] = "held" => lease[t] = "held"
  /\ delivery'[t] = "unsettled" => delivery[t] = "unsettled" \/ lease[t] = "held"
  /\ delivery'[t] = "committed" => delivery[t] = "committed"
  /\ status'[t] = "verifying" => status[t] = "verifying" \/ lease[t] = "held"
  /\ op[t].phase = "stuck" => op'[t].phase = "stuck"
  /\ lease[t] = "held" /\ t \in Writers => lease'[t] = "held" \/ delivery'[t] = "unsettled"
  /\ delivery[t] \in {"unsettled", "failed"} => delivery'[t] \in {"unsettled", "failed"}
  /\ delivery[t] = "candidate" => delivery'[t] = "candidate"

LEMMA HoldStep ==
  ASSUME Inv, Types', RowsOK', TurnsOK', DriveOK', \A t \in Tasks : Holds(t),
         UNCHANGED <<dirty, taken, scenario>>, drive'.pc = "apply" => drive' = drive, BootOK'
  PROVE  Inv'
<1>0. Writers' = Writers /\ Writers \subseteq Tasks /\ dirty \subseteq Tasks
  BY SchedulingAssumption DEF Writers, Inv, Types, ScenarioType
<1>1. \A t \in Tasks : Engaged(t)' => Engaged(t)
  BY DEF Engaged, Unsettled, Holds
<1>2. Alone'
  <2>1. ASSUME NEW t \in Tasks, Judged(t), Engaged(t)' PROVE Judged(t)'
    <3>1. delivery'[t] = "candidate"
      BY <2>1 DEF Judged, Holds
    <3>2. lease'[t] # "held" /\ ~Unsettled(t)'
      BY <3>1 DEF RowsOK, RowsAgree, Unsettled
    <3>. QED  BY <2>1, <3>1, <3>2 DEF Judged, Engaged
  <2>2. ASSUME NEW t \in Tasks, NEW u \in Tasks, Beside(t, u), Engaged(u)' PROVE Beside(t, u)'
    BY <2>1, <2>2 DEF Beside, Holds
  <2>3. SUFFICES ASSUME NEW t \in Writers, NEW u \in Tasks, t # u, Engaged(t)', Engaged(u)'
                 PROVE  Beside(t, u)' \/ Beside(u, t)'
    BY <1>0 DEF Alone
  <2>4. t \in Tasks /\ (Beside(t, u) \/ Beside(u, t))
    BY <1>0, <1>1, <2>3 DEF Inv, Alone
  <2>. QED  BY <2>2, <2>3, <2>4
<1>3. TreeOK'
  BY <1>0 DEF Inv, TreeOK, Holds
<1>4. FactsHold'
  BY <1>0 DEF Inv, FactsHold, Holds
<1>5. DirtyOK'
  BY <1>0 DEF Inv, DirtyOK, Accounted, Holds
<1>6. PureDelivery'
  BY <1>0 DEF Inv, PureDelivery, Holds, Types
<1>. QED
  BY <1>2, <1>3, <1>4, <1>5, <1>6 DEF Inv

Same(t) ==
  /\ op'[t] = op[t] /\ status'[t] = status[t] /\ lease'[t] = lease[t]
  /\ worker'[t] = worker[t] /\ sess'[t] = sess[t] /\ delivery'[t] = delivery[t]

\* A step that moves the rows of one task.
LEMMA TaskStep ==
  ASSUME Inv, NEW t \in Tasks, \A u \in Tasks : u # t => Same(u), Holds(t),
         RowsAgree(t, op'[t].phase, status'[t], lease'[t], worker'[t], sess'[t], delivery'[t]),
         Types', TurnsOK', DriveOK',
         UNCHANGED <<dirty, taken, scenario, oldBoot, reboots>>, drive'.pc = "apply" => drive' = drive
  PROVE  Inv'
<1>1. \A u \in Tasks : Holds(u)
  BY DEF Same, Holds
<1>2. \A u \in Tasks : RowsAgree(u, op'[u].phase, status'[u], lease'[u], worker'[u], sess'[u], delivery'[u])
  BY DEF Same, Inv, RowsOK
<1>3. RowsOK'
  BY <1>2 DEF RowsOK, RowsAgree, Writers
<1>4. BootOK'
  BY DEF Inv, BootOK
<1>. QED
  BY <1>1, <1>3, <1>4, HoldStep

\* A step that moves neither the turns nor the mutex nor the operation's phase.
LEMMA RowStep ==
  ASSUME Inv, NEW t \in Tasks, \A u \in Tasks : u # t => Same(u), Holds(t),
         RowsAgree(t, op'[t].phase, status'[t], lease'[t], worker'[t], sess'[t], delivery'[t]),
         Types', UNCHANGED <<turn, drive, dirty, taken, scenario, oldBoot, reboots>>,
         op'[t].phase = op[t].phase, status[t] \in Ended => status'[t] \in Ended,
         worker'[t] = "working" => worker[t] = "working",
         status[t] = "dispatched" /\ op[t].phase = "none" => status'[t] = "dispatched"
  PROVE  Inv'
<1>1. TurnsOK'
  BY DEF Inv, TurnsOK, Same
<1>2. DriveOK'
  <2>1. CASE drive.pc = "none"
    BY <2>1 DEF Inv, DriveOK
  <2>2. CASE drive.pc # "none"
    <3>1. drive.task \in Tasks
      BY <2>2, Holder
    <3>2. CASE drive.task = t
      BY <3>2 DEF Inv, DriveOK
    <3>3. CASE drive.task # t
      BY <3>1, <3>3 DEF Inv, DriveOK, Same
    <3>. QED  BY <3>2, <3>3
  <2>. QED  BY <2>1, <2>2
<1>. QED
  BY <1>1, <1>2, TaskStep

-----------------------------------------------------------------------------
(* The worker, the ways an attempt ends, and the deliveries.               *)

\* The one release: the delivery of a writer takes the place of its lease.
LEMMA ReleaseMoves ==
  ASSUME Inv, NEW t \in Tasks, Release(t)
  PROVE  /\ lease' \in [Tasks -> {"none", "held", "released", "superseded"}]
         /\ delivery' \in [Tasks -> {"none", "unsettled", "committed", "candidate", "failed"}]
         /\ \A u \in Tasks : u # t => lease'[u] = lease[u] /\ delivery'[u] = delivery[u]
         /\ lease[t] # "held" => lease'[t] = lease[t] /\ delivery'[t] = delivery[t]
         /\ lease[t] = "held" => lease'[t] = "released"
         /\ lease[t] = "held" /\ t \in Writers => delivery'[t] = "unsettled"
         /\ t \notin Writers => delivery'[t] = delivery[t]
         /\ delivery[t] = "candidate" => delivery'[t] = "candidate"
<1>1. lease[t] = "held" => delivery[t] = "none"
  BY DEF Inv, RowsOK, RowsAgree
<1>. QED
  BY <1>1 DEF Inv, Types, Release, Inserted

LEMMA ReportStep ==
  ASSUME Inv, NEW t \in Tasks, NEW success \in BOOLEAN, Report(t, success), UNCHANGED scenario
  PROVE  Inv'
<1>1. /\ worker[t] = "working" /\ status[t] \in Live /\ Release(t)
      /\ UNCHANGED <<op, oldBoot, sess, marker, turn, drive, dirty, taken, open, crashes, reboots>>
      /\ worker' = [worker EXCEPT ![t] = "finished"]
      /\ status' = [status EXCEPT ![t] =
           IF ~success THEN "failed" ELSE IF t \in Gated THEN "verifying" ELSE "done"]
  BY DEF Report
<1>2. status'[t] \in {"failed", "done"} \/ (status'[t] = "verifying" /\ t \in Writers)
  BY <1>1, SchedulingAssumption DEF Inv, Types, Gated, Writers
<1>3. status' \in [Tasks -> Statuses]
  BY <1>1 DEF Inv, Types, Statuses, InFlight, Terminal
<1>4. Types'
  BY <1>1, <1>3, ReleaseMoves DEF Inv, Types
<1>5. worker'[t] = "finished" /\ \A u \in Tasks : u # t => Same(u)
  BY <1>1, ReleaseMoves DEF Inv, Types, Same
<1>6. RowsAgree(t, op[t].phase, status[t], lease[t], worker[t], sess[t], delivery[t])
  BY DEF Inv, RowsOK
<1>7. lease[t] = "held" \/ (op[t].phase = "stuck" /\ t \notin Writers /\ delivery[t] = "none")
  BY <1>1, <1>6 DEF RowsAgree
<1>8. Holds(t)
  BY <1>1, <1>2, <1>7, ReleaseMoves DEF Holds
<1>9. RowsAgree(t, op'[t].phase, status'[t], lease'[t], worker'[t], sess'[t], delivery'[t])
  BY <1>1, <1>2, <1>5, <1>6, <1>7, ReleaseMoves DEF RowsAgree, Unstarted, Live
<1>10. status[t] \notin Ended /\ op[t].phase # "none"
  BY <1>1, <1>6 DEF RowsAgree, Unstarted, Live, Terminal, Ended
<1>. QED
  BY <1>1, <1>4, <1>5, <1>8, <1>9, <1>10, RowStep

LEMMA WorkerDiesStep ==
  ASSUME Inv, NEW t \in Tasks, WorkerDies(t) \/ ExitRecorded(t), UNCHANGED scenario PROVE Inv'
<1>1. /\ UNCHANGED <<status, op, lease, marker, delivery, oldBoot, turn, drive, dirty, taken, open, crashes, reboots>>
      /\ \/ worker[t] = "working" /\ worker' = [worker EXCEPT ![t] = "dead"] /\ sess' = sess
         \/ worker[t] = "dead" /\ worker' = worker /\ sess[t] = "live" /\ sess' = [sess EXCEPT ![t] = "ended"]
  BY DEF WorkerDies, ExitRecorded, rows
<1>2. Types'
  BY <1>1 DEF Inv, Types
<1>3. worker'[t] = "dead" /\ sess'[t] # "none" /\ op[t].phase \notin Unstarted
      /\ \A u \in Tasks : u # t => Same(u)
  BY <1>1 DEF Inv, Types, Same, RowsOK, RowsAgree
<1>4. RowsAgree(t, op[t].phase, status[t], lease[t], worker[t], sess[t], delivery[t])
  BY DEF Inv, RowsOK
<1>5. Holds(t) /\ RowsAgree(t, op'[t].phase, status'[t], lease'[t], worker'[t], sess'[t], delivery'[t])
  BY <1>1, <1>3, <1>4 DEF Holds, RowsAgree
<1>. QED
  BY <1>1, <1>2, <1>3, <1>5, RowStep

\* A row that ends while its worker may live keeps its lease; without a live
\* session nobody is at work.
LEMMA EndRunningStep ==
  ASSUME Inv, NEW t \in Tasks, NEW v \in {"failed", "canceled"}, EndRunning(t, v), UNCHANGED scenario
  PROVE  Inv'
<1>1. /\ status[t] = "running" /\ status' = [status EXCEPT ![t] = v] /\ Mark(t)
      /\ UNCHANGED <<op, oldBoot, sess, worker, turn, drive, dirty, taken, open, crashes, reboots>>
  BY DEF EndRunning
<1>2. /\ marker' \in [Tasks -> BOOLEAN]
      /\ UNCHANGED <<lease, delivery>> \/ (Release(t) /\ sess[t] # "live")
  BY <1>1 DEF Mark, Keep, Inv, Types
<1>3. status' \in [Tasks -> Statuses] /\ status'[t] = v
  BY <1>1 DEF Inv, Types, Statuses, Terminal
<1>4. RowsAgree(t, op[t].phase, status[t], lease[t], worker[t], sess[t], delivery[t])
  BY DEF Inv, RowsOK
<1>5. op[t].phase = "succeeded"
  BY <1>1, <1>4 DEF RowsAgree
<1>6. CASE UNCHANGED <<lease, delivery>>
  <2>1. Types'
    BY <1>1, <1>2, <1>3, <1>6 DEF Inv, Types
  <2>2. \A u \in Tasks : u # t => Same(u)
    BY <1>1, <1>6 DEF Inv, Types, Same
  <2>3. Holds(t) /\ RowsAgree(t, op'[t].phase, status'[t], lease'[t], worker'[t], sess'[t], delivery'[t])
    BY <1>1, <1>3, <1>4, <1>5, <1>6 DEF Holds, RowsAgree, Unstarted, Live
  <2>. QED
    BY <1>1, <1>3, <1>5, <2>1, <2>2, <2>3, RowStep DEF Terminal, Ended
<1>7. CASE Release(t) /\ sess[t] # "live"
  <2>1. Types'
    BY <1>1, <1>2, <1>3, <1>7, ReleaseMoves DEF Inv, Types
  <2>2. \A u \in Tasks : u # t => Same(u)
    BY <1>1, <1>7, ReleaseMoves DEF Inv, Types, Same
  <2>3. worker[t] # "working" /\ lease[t] = "held"
    BY <1>1, <1>4, <1>5, <1>7 DEF RowsAgree, Live
  <2>4. Holds(t) /\ RowsAgree(t, op'[t].phase, status'[t], lease'[t], worker'[t], sess'[t], delivery'[t])
    BY <1>1, <1>3, <1>4, <1>5, <1>7, <2>3, ReleaseMoves DEF Holds, RowsAgree, Unstarted, Live
  <2>. QED
    BY <1>1, <1>3, <1>5, <2>1, <2>2, <2>4, RowStep DEF Terminal, Ended
<1>. QED
  BY <1>2, <1>6, <1>7

LEMMA ReapStep == ASSUME Inv, NEW t \in Tasks, Reap(t), UNCHANGED scenario PROVE Inv'
<1>1. /\ worker[t] = "dead" /\ sess[t] = "live" /\ status[t] \in Live \union Terminal /\ Release(t)
      /\ status' = [status EXCEPT ![t] = IF @ \in Live THEN "failed" ELSE @]
      /\ UNCHANGED <<op, oldBoot, sess, marker, worker, turn, drive, dirty, taken, open, crashes, reboots>>
  BY DEF Reap
<1>2. status' \in [Tasks -> Statuses] /\ status'[t] \in Terminal /\ (status[t] \in Terminal => status'[t] = status[t])
  BY <1>1 DEF Inv, Types, Statuses, Live, Terminal
<1>3. Types'
  BY <1>1, <1>2, ReleaseMoves DEF Inv, Types
<1>4. \A u \in Tasks : u # t => Same(u)
  BY <1>1, ReleaseMoves DEF Inv, Types, Same
<1>5. RowsAgree(t, op[t].phase, status[t], lease[t], worker[t], sess[t], delivery[t])
  BY DEF Inv, RowsOK
<1>6. op[t].phase \notin Unstarted
  BY <1>1, <1>5 DEF RowsAgree
<1>7. Holds(t)
  BY <1>1, <1>2, ReleaseMoves DEF Holds, Terminal
<1>8. RowsAgree(t, op'[t].phase, status'[t], lease'[t], worker'[t], sess'[t], delivery'[t])
  BY <1>1, <1>2, <1>5, <1>6, ReleaseMoves DEF RowsAgree, Unstarted, Live, Terminal
<1>. QED
  BY <1>1, <1>2, <1>3, <1>4, <1>6, <1>7, <1>8, RowStep DEF Unstarted, Ended

LEMMA RowOnlyStep ==
  ASSUME Inv, NEW t \in Tasks,
         CancelPending(t) \/ Settle(t) \/ SettleFailed(t) \/ (\E p \in BOOLEAN : GateVerdict(t, p)),
         UNCHANGED scenario
  PROVE  Inv'
<1>1. UNCHANGED <<op, lease, oldBoot, sess, marker, worker, turn, drive, dirty, taken, open, crashes, reboots>>
  BY DEF CancelPending, Settle, SettleFailed, GateVerdict
<1>2. /\ status' \in [Tasks -> Statuses]
      /\ delivery' \in [Tasks -> {"none", "unsettled", "committed", "candidate", "failed"}]
      /\ \A u \in Tasks : u # t => status'[u] = status[u] /\ delivery'[u] = delivery[u]
      /\ status'[t] = status[t] \/ (status[t] = "pending" /\ status'[t] = "canceled")
         \/ (status[t] = "verifying" /\ status'[t] \in {"done", "failed"})
      /\ delivery'[t] = delivery[t] \/ (delivery[t] = "committed" /\ delivery'[t] = "candidate")
         \/ (Unsettled(t) /\ delivery'[t] = "failed")
  BY DEF Inv, Types, Statuses, InFlight, Terminal, CancelPending, Settle, SettleFailed, GateVerdict
<1>3. Types'
  BY <1>1, <1>2 DEF Inv, Types
<1>4. \A u \in Tasks : u # t => Same(u)
  BY <1>1, <1>2 DEF Same
<1>5. RowsAgree(t, op[t].phase, status[t], lease[t], worker[t], sess[t], delivery[t])
  BY DEF Inv, RowsOK
<1>6. Holds(t)
  BY <1>1, <1>2 DEF Holds, Unsettled
<1>7. RowsAgree(t, op'[t].phase, status'[t], lease'[t], worker'[t], sess'[t], delivery'[t])
  BY <1>1, <1>2, <1>5 DEF RowsAgree, Unstarted, Live, Unsettled
<1>8. (status[t] \in Ended => status'[t] \in Ended)
      /\ (status[t] = "dispatched" /\ op[t].phase = "none" => status'[t] = "dispatched")
  BY <1>2 DEF Terminal, Ended
<1>. QED
  BY <1>1, <1>3, <1>4, <1>6, <1>7, <1>8, RowStep

-----------------------------------------------------------------------------
(* The scheduler turn, claims and the mutex.                               *)

\* A step of one task's turn that leaves the mutex alone.
LEMMA TurnStepInv ==
  ASSUME Inv, NEW t \in Tasks, \A u \in Tasks : u # t => Same(u) /\ turn'[u] = turn[u],
         UNCHANGED <<lease, worker, sess, delivery, drive, dirty, taken, open, crashes, reboots,
                     oldBoot, marker, scenario>>,
         status' \in [Tasks -> Statuses], op' \in [Tasks -> OpType],
         turn' \in [Tasks -> {"none", "submit", "lock", "drive", "settle"}],
         RowsAgree(t, op'[t].phase, status'[t], lease[t], worker[t], sess[t], delivery[t]),
         status'[t] = "verifying" => status[t] = "verifying",
         op[t].phase # "none" => op'[t].phase = op[t].phase,
         status[t] \in Ended => status'[t] = status[t],
         /\ turn'[t] = "submit" /\ op'[t].phase = "none" => status'[t] = "dispatched"
         /\ turn'[t] = "lock" => op'[t].phase # "none"
         /\ turn'[t] # "drive"
         /\ turn'[t] = "settle" => op'[t].phase \in Settled
  PROVE  Inv'
<1>1. Types'
  BY DEF Inv, Types
<1>2. TurnsOK'
  BY DEF Inv, TurnsOK, Same
<1>3. DriveOK'
  <2>1. CASE drive.pc = "none"
    BY <2>1 DEF Inv, DriveOK
  <2>2. CASE drive.pc # "none"
    <3>1. drive.task \in Tasks
      BY <2>2, Holder
    <3>2. CASE drive.task = t
      BY <3>2 DEF Inv, DriveOK
    <3>3. CASE drive.task # t
      BY <3>1, <3>3 DEF Inv, DriveOK, Same
    <3>. QED  BY <3>2, <3>3
  <2>. QED  BY <2>1, <2>2
<1>4. Holds(t)
  BY DEF Holds
<1>. QED
  BY <1>1, <1>2, <1>3, <1>4, TaskStep

LEMMA TurnMoves ==
  ASSUME Inv, NEW t \in Tasks, UNCHANGED scenario,
         Claim(t) \/ ResumeDispatched(t) \/ Submit(t) \/ DriverBusy(t) \/ ClaimBusy(t)
         \/ Reconcile(t) \/ (Lock(t) /\ op[t].phase \in Settled)
  PROVE  Inv'
<1>1. UNCHANGED <<lease, worker, sess, delivery, drive, dirty, taken, open, crashes, reboots, oldBoot, marker>>
  BY DEF Claim, ResumeDispatched, Submit, DriverBusy, ClaimBusy, Reconcile, Lock, rows
<1>2. RowsAgree(t, op[t].phase, status[t], lease[t], worker[t], sess[t], delivery[t])
      /\ op[t] \in OpType /\ op[t].phase \in Phases /\ status \in [Tasks -> Statuses] /\ op \in [Tasks -> OpType]
      /\ turn \in [Tasks -> {"none", "submit", "lock", "drive", "settle"}]
  BY DEF Inv, RowsOK, Types, OpType
<1>3. CASE Claim(t)
  <2>1. /\ status' = [status EXCEPT ![t] = "dispatched"] /\ turn' = [turn EXCEPT ![t] = "submit"]
        /\ op' = op /\ status[t] = "pending"
    BY <1>3 DEF Claim, Admitted, Ready
  <2>2. /\ status' \in [Tasks -> Statuses] /\ status'[t] = "dispatched" /\ turn'[t] = "submit"
        /\ turn' \in [Tasks -> {"none", "submit", "lock", "drive", "settle"}]
        /\ \A u \in Tasks : u # t => Same(u) /\ turn'[u] = turn[u]
    BY <1>1, <1>2, <2>1 DEF Statuses, InFlight, Same
  <2>3. RowsAgree(t, op'[t].phase, status'[t], lease[t], worker[t], sess[t], delivery[t])
    BY <1>2, <2>1, <2>2 DEF RowsAgree, Unstarted
  <2>. QED
    BY <1>1, <1>2, <2>1, <2>2, <2>3, TurnStepInv DEF Terminal, Ended
<1>4. CASE ResumeDispatched(t) \/ ClaimBusy(t) \/ (Lock(t) /\ op[t].phase \in Settled)
  <2>1. /\ status' = status /\ op' = op
        /\ \/ turn' = [turn EXCEPT ![t] = "submit"] /\ status[t] = "dispatched"
           \/ turn' = [turn EXCEPT ![t] = "none"]
           \/ turn' = [turn EXCEPT ![t] = "settle"] /\ op[t].phase \in Settled
    BY <1>4 DEF ResumeDispatched, ClaimBusy, Lock, rows
  <2>2. /\ turn' \in [Tasks -> {"none", "submit", "lock", "drive", "settle"}]
        /\ \A u \in Tasks : u # t => Same(u) /\ turn'[u] = turn[u]
        /\ turn'[t] = "submit" => status[t] = "dispatched"
        /\ turn'[t] \in {"submit", "none", "settle"}
        /\ turn'[t] = "settle" => op[t].phase \in Settled
    BY <1>1, <1>2, <2>1 DEF Same
  <2>. QED
    BY <1>1, <1>2, <2>1, <2>2, TurnStepInv
<1>5. CASE Submit(t)
  <2> DEFINE o == [op[t] EXCEPT !.phase = IF @ = "none" THEN "pending" ELSE @]
  <2>1. /\ status' = status /\ op' = [op EXCEPT ![t] = o] /\ turn[t] = "submit"
        /\ turn' = [turn EXCEPT ![t] = IF op[t].phase \in Settled THEN "settle" ELSE "lock"]
    BY <1>5 DEF Submit
  <2>2. o \in OpType /\ o.phase = IF op[t].phase = "none" THEN "pending" ELSE op[t].phase
    BY <1>2 DEF OpType, Phases
  <2> HIDE DEF o
  <2>3. /\ op' \in [Tasks -> OpType] /\ op'[t] = o
        /\ turn' \in [Tasks -> {"none", "submit", "lock", "drive", "settle"}]
        /\ \A u \in Tasks : u # t => Same(u) /\ turn'[u] = turn[u]
        /\ turn'[t] = IF op[t].phase \in Settled THEN "settle" ELSE "lock"
    BY <1>1, <1>2, <2>1, <2>2 DEF Same
  <2>4. op[t].phase = "none" => status[t] = "dispatched"
    BY <2>1 DEF Inv, TurnsOK
  <2>5. RowsAgree(t, op'[t].phase, status'[t], lease[t], worker[t], sess[t], delivery[t])
    BY <1>2, <2>1, <2>2, <2>3, <2>4 DEF RowsAgree, Unstarted
  <2>. QED
    BY <1>1, <1>2, <2>1, <2>2, <2>3, <2>5, TurnStepInv DEF Settled
<1>6. CASE DriverBusy(t)
  <2> DEFINE o == [op[t] EXCEPT !.blocked = @ \/ (op[t].phase = "pending" /\ ~op[t].claimed)]
  <2>1. /\ status' = status /\ op' = [op EXCEPT ![t] = o] /\ turn' = [turn EXCEPT ![t] = "none"]
    BY <1>6 DEF DriverBusy
  <2>2. o \in OpType /\ o.phase = op[t].phase
    <3>1. (op[t].blocked \/ (op[t].phase = "pending" /\ ~op[t].claimed)) \in BOOLEAN
      BY <1>2 DEF OpType
    <3>. QED  BY <1>2, <3>1 DEF OpType
  <2> HIDE DEF o
  <2>3. /\ op' \in [Tasks -> OpType] /\ op'[t] = o /\ turn'[t] = "none"
        /\ turn' \in [Tasks -> {"none", "submit", "lock", "drive", "settle"}]
        /\ \A u \in Tasks : u # t => Same(u) /\ turn'[u] = turn[u]
    BY <1>1, <1>2, <2>1, <2>2 DEF Same
  <2>. QED
    BY <1>1, <1>2, <2>1, <2>2, <2>3, TurnStepInv
<1>7. CASE Reconcile(t)
  <2>1. /\ turn[t] = "settle" /\ turn' = [turn EXCEPT ![t] = "none"] /\ op' = op
        /\ status' = [status EXCEPT ![t] =
             IF op[t].phase = "succeeded" THEN IF @ = "dispatched" THEN "running" ELSE @
             ELSE IF @ \in Live THEN "failed" ELSE @]
    BY <1>7 DEF Reconcile
  <2>2. op[t].phase \in Settled
    BY <2>1 DEF Inv, TurnsOK
  <2>3. /\ status' \in [Tasks -> Statuses]
        /\ \/ status'[t] = status[t] /\ (op[t].phase # "succeeded" => status[t] \notin Live)
           \/ op[t].phase = "succeeded" /\ status[t] = "dispatched" /\ status'[t] = "running"
           \/ op[t].phase # "succeeded" /\ status[t] \in Live /\ status'[t] = "failed"
    BY <1>2, <2>1 DEF Statuses, InFlight, Live, Terminal
  <2>4. /\ turn'[t] = "none" /\ turn' \in [Tasks -> {"none", "submit", "lock", "drive", "settle"}]
        /\ \A u \in Tasks : u # t => Same(u) /\ turn'[u] = turn[u]
    BY <1>1, <1>2, <2>1 DEF Same
  <2>5. RowsAgree(t, op'[t].phase, status'[t], lease[t], worker[t], sess[t], delivery[t])
    BY <1>2, <2>1, <2>2, <2>3 DEF RowsAgree, Unstarted, Settled, Live
  <2>. QED
    BY <1>1, <1>2, <2>1, <2>3, <2>4, <2>5, TurnStepInv DEF Live, Terminal, Ended
<1>. QED
  BY <1>3, <1>4, <1>5, <1>6, <1>7

\* A claim is taken or expires, and perhaps the free mutex with it.
LEMMA ClaimMoves ==
  ASSUME Inv, NEW t \in Tasks, UNCHANGED scenario,
         (Lock(t) /\ op[t].phase \notin Settled) \/ Recover(t) \/ ExpireClaim(t)
  PROVE  Inv'
<1>1. /\ UNCHANGED <<status, lease, worker, sess, delivery, dirty, taken, open, crashes, reboots, oldBoot, marker>>
      /\ \E b \in BOOLEAN : op' = [op EXCEPT ![t].claimed = b]
      /\ \/ UNCHANGED <<turn, drive>>
         \/ /\ drive = Unlocked /\ (turn' = [turn EXCEPT ![t] = "drive"] \/ turn' = turn)
            /\ \/ op[t].phase = "pending" /\ drive' = [Unlocked EXCEPT !.task = t, !.pc = "collect"]
               \/ op[t].phase \in {"prepared", "spawned"} /\ drive' = [Unlocked EXCEPT !.task = t, !.pc = "spawn"]
  <2>1. CASE Lock(t) /\ op[t].phase \notin Settled
    <3>1. op[t].phase # "none" /\ op[t].phase \in Phases
      BY <2>1 DEF Lock, Inv, TurnsOK, Types, OpType
    <3>. QED  BY <2>1, <3>1 DEF Lock, Phases, Settled
  <2>2. CASE Recover(t)
    BY <2>2 DEF Recover
  <2>3. CASE ExpireClaim(t)
    BY <2>3 DEF ExpireClaim
  <2>. QED  BY <2>1, <2>2, <2>3
<1>2. PICK b \in BOOLEAN : op' = [op EXCEPT ![t].claimed = b]
  BY <1>1
<1>3. /\ op' \in [Tasks -> OpType] /\ op'[t].phase = op[t].phase
      /\ \A u \in Tasks : u # t => op'[u] = op[u]
  BY <1>2, SMTT(30) DEF Inv, Types, OpType
<1>4. \A u \in Tasks : u # t => Same(u)
  BY <1>1, <1>3 DEF Same
<1>5. Holds(t) /\ RowsAgree(t, op'[t].phase, status'[t], lease'[t], worker'[t], sess'[t], delivery'[t])
  BY <1>1, <1>3 DEF Holds, Inv, RowsOK
<1>6. \A u \in Tasks : op'[u].phase = op[u].phase
  BY <1>3
<1>7. CASE UNCHANGED <<turn, drive>>
  <2>1. Types'
    BY <1>1, <1>3, <1>7 DEF Inv, Types
  <2>2. TurnsOK'
    BY <1>1, <1>6, <1>7 DEF Inv, TurnsOK
  <2>3. DriveOK'
    <3>1. drive.pc # "none" => drive.task \in Tasks
      BY Holder
    <3>. QED  BY <1>1, <1>6, <1>7, <3>1 DEF Inv, DriveOK
  <2>. QED
    BY <1>1, <1>4, <1>5, <1>7, <2>1, <2>2, <2>3, TaskStep
<1>8. CASE /\ drive = Unlocked /\ (turn' = [turn EXCEPT ![t] = "drive"] \/ turn' = turn)
           /\ \/ op[t].phase = "pending" /\ drive' = [Unlocked EXCEPT !.task = t, !.pc = "collect"]
              \/ op[t].phase \in {"prepared", "spawned"} /\ drive' = [Unlocked EXCEPT !.task = t, !.pc = "spawn"]
  <2>1. /\ drive' \in DriveType /\ drive'.task = t /\ drive'.pc \in {"collect", "spawn"}
        /\ drive'.pc = "collect" => op[t].phase = "pending"
        /\ drive'.pc = "spawn" => op[t].phase \in {"prepared", "spawned"}
    <3>1. CASE op[t].phase = "pending" /\ drive' = [Unlocked EXCEPT !.task = t, !.pc = "collect"]
      BY <3>1, UnlockedType
    <3>2. CASE op[t].phase \in {"prepared", "spawned"} /\ drive' = [Unlocked EXCEPT !.task = t, !.pc = "spawn"]
      BY <3>2, UnlockedType
    <3>. QED  BY <1>8, <3>1, <3>2
  <2>2. turn' \in [Tasks -> {"none", "submit", "lock", "drive", "settle"}]
        /\ \A u \in Tasks : turn'[u] = turn[u] \/ (u = t /\ turn'[u] = "drive")
    BY <1>8 DEF Inv, Types
  <2>3. \A u \in Tasks : turn[u] # "drive"
    BY <1>8, UnlockedType, Zero DEF Inv, TurnsOK
  <2>4. Types'
    BY <1>1, <1>3, <2>1, <2>2 DEF Inv, Types
  <2>5. TurnsOK'
    BY <1>1, <1>6, <2>1, <2>2, <2>3 DEF Inv, TurnsOK
  <2>6. DriveOK'
    BY <1>6, <2>1, Zero DEF DriveOK
  <2>. QED
    BY <1>1, <1>4, <1>5, <2>1, <2>4, <2>5, <2>6, TaskStep
<1>. QED
  BY <1>1, <1>7, <1>8

-----------------------------------------------------------------------------
(* The holder of the mutex.                                                *)

\* The drive ends and leaves the operation in the phase p.
LEMMA LeaveStep ==
  ASSUME Inv, NEW t \in Tasks, drive.task = t, drive.pc \in {"collect", "apply", "spawn"},
         NEW p \in Phases \ {"none"}, NEW b \in BOOLEAN, NEW nx \in {"none", "settle"}, Leave(t, p, b, nx),
         nx = "settle" => p \in Settled, UNCHANGED scenario,
         UNCHANGED <<status, oldBoot, sess, marker, worker, dirty, taken, open, crashes, reboots>>,
         UNCHANGED <<lease, delivery>> \/ Release(t),
         RowsAgree(t, p, status[t], lease'[t], worker[t], sess[t], delivery'[t])
  PROVE  Inv'
<1> DEFINE o == [phase |-> p, blocked |-> b, claimed |-> FALSE]
<1>1. o \in OpType /\ o.phase = p
  BY DEF OpType
<1>2. /\ op' = [op EXCEPT ![t] = o] /\ drive' = Unlocked
      /\ turn' = [turn EXCEPT ![t] = IF @ = "drive" THEN nx ELSE @]
  BY DEF Leave
<1> HIDE DEF o
<1>3. /\ op' \in [Tasks -> OpType] /\ op'[t] = o /\ \A u \in Tasks : u # t => op'[u] = op[u]
      /\ turn' \in [Tasks -> {"none", "submit", "lock", "drive", "settle"}]
      /\ turn'[t] = (IF turn[t] = "drive" THEN nx ELSE turn[t]) /\ \A u \in Tasks : u # t => turn'[u] = turn[u]
  BY <1>1, <1>2 DEF Inv, Types
<1>4. /\ lease' \in [Tasks -> {"none", "held", "released", "superseded"}]
      /\ delivery' \in [Tasks -> {"none", "unsettled", "committed", "candidate", "failed"}]
      /\ \A u \in Tasks : u # t => lease'[u] = lease[u] /\ delivery'[u] = delivery[u]
  BY ReleaseMoves DEF Inv, Types
<1>5. Types'
  BY <1>2, <1>3, <1>4, UnlockedType DEF Inv, Types
<1>6. \A u \in Tasks : u # t => Same(u)
  BY <1>3, <1>4 DEF Same
<1>7. op[t].phase \in {"pending", "prepared", "spawned"}
  BY DEF Inv, DriveOK
<1>8. Holds(t)
  <2>1. CASE UNCHANGED <<lease, delivery>>
    BY <1>7, <2>1 DEF Holds
  <2>2. CASE Release(t)
    BY <1>7, <2>2, ReleaseMoves DEF Holds
  <2>. QED  BY <2>1, <2>2
<1>9. TurnsOK'
  <2> SUFFICES ASSUME NEW u \in Tasks
               PROVE  /\ turn'[u] = "submit" /\ op'[u].phase = "none" => status'[u] = "dispatched"
                      /\ turn'[u] \in {"lock", "drive"} => op'[u].phase # "none"
                      /\ turn'[u] = "drive" => drive'.task = u /\ drive'.pc # "cleanup"
                      /\ turn'[u] = "settle" => op'[u].phase \in Settled
    BY DEF TurnsOK
  <2>1. CASE u = t
    <3>1. turn[t] # "settle"
      BY <1>7 DEF Inv, TurnsOK, Settled
    <3>. QED  BY <1>1, <1>3, <2>1, <3>1
  <2>2. CASE u # t
    <3>1. turn[u] # "drive"
      BY <2>2 DEF Inv, TurnsOK
    <3>. QED  BY <1>3, <2>2, <3>1 DEF Inv, TurnsOK
  <2>. QED  BY <2>1, <2>2
<1>10. DriveOK' /\ drive'.pc # "apply"
  BY <1>2, UnlockedType DEF DriveOK
<1>. QED
  BY <1>1, <1>3, <1>5, <1>6, <1>8, <1>9, <1>10, TaskStep

\* Deferral and failure before anything was prepared.
LEMMA GiveUpStep ==
  ASSUME Inv, NEW t \in Tasks, Driving(t, "collect") \/ Driving(t, "apply"), Defer(t) \/ FailOp(t),
         UNCHANGED <<status, lease, oldBoot, sess, marker, worker, delivery, dirty, taken, open, crashes,
                     reboots, scenario>>
  PROVE  Inv'
<1>1. drive.task = t /\ drive.pc \in {"collect", "apply"} /\ op[t].phase = "pending"
  BY DEF Driving, Inv, DriveOK
<1>2. RowsAgree(t, op[t].phase, status[t], lease[t], worker[t], sess[t], delivery[t])
  BY DEF Inv, RowsOK
<1>3. CASE Defer(t)
  <2>1. Leave(t, "pending", TRUE, "none")
    BY <1>3 DEF Defer
  <2>. QED
    BY <1>1, <1>2, <2>1, LeaveStep DEF Phases
<1>4. CASE FailOp(t)
  <2>1. Leave(t, "failed", FALSE, "settle")
    BY <1>4 DEF FailOp
  <2>2. RowsAgree(t, "failed", status[t], lease'[t], worker[t], sess[t], delivery'[t])
    BY <1>1, <1>2 DEF RowsAgree, Unstarted, Live
  <2>. QED
    BY <1>1, <2>1, <2>2, LeaveStep DEF Phases, Settled
<1>. QED
  BY <1>3, <1>4

\* What an admitting occupancy says of another task.
LEMMA AdmitsMeans ==
  ASSUME NEW t \in Tasks, Admits(Occupancy(t), t), NEW u \in Tasks, u # t
  PROVE  ~Unsettled(u) /\ (u \in Occupants(t) => u \notin Writers /\ t \notin Writers)
BY DEF Admits, Occupancy

\* A step of the holder that moves its own record alone.
LEMMA HolderMoves ==
  ASSUME Inv, drive' \in DriveType, DriveOK', FactsHold', drive'.task = drive.task,
         drive'.pc \in {"collect", "apply"}, drive.pc \in {"collect", "apply"},
         UNCHANGED <<status, op, lease, oldBoot, sess, marker, worker, delivery, turn, dirty, taken,
                     open, crashes, reboots, scenario>>
  PROVE  Inv'
<1>2. Types'
  BY DEF Inv, Types
<1>3. RowsOK' /\ BootOK'
  BY DEF Inv, RowsOK, RowsAgree, Writers, BootOK
<1>4. TurnsOK'
  BY DEF Inv, TurnsOK
<1>5. Alone' /\ TreeOK' /\ DirtyOK' /\ PureDelivery'
  BY DEF Inv, Alone, Beside, Judged, Engaged, Unsettled, TreeOK, DirtyOK, Accounted, PureDelivery, Writers
<1>. QED
  BY <1>2, <1>3, <1>4, <1>5 DEF Inv

\* The first read: the checkout admits the task, and whoever else could write
\* in it is stuck.
LEMMA CollectStep == ASSUME Inv, NEW t \in Tasks, Collect(t), UNCHANGED scenario PROVE Inv'
<1>1. Driving(t, "collect") /\ drive.task = t /\ drive.pc = "collect" /\ drive \in DriveType
      /\ UNCHANGED <<status, lease, oldBoot, sess, marker, worker, delivery, dirty, taken, open, crashes, reboots>>
  BY DEF Collect, Driving, Inv, Types
<1>2. CASE Defer(t) \/ FailOp(t)
  BY <1>1, <1>2, GiveUpStep
<1>3. CASE /\ Admits(Occupancy(t), t)
           /\ drive' = [drive EXCEPT !.pc = "apply", !.facts = Facts(t)] /\ UNCHANGED <<op, turn>>
  <2>1. Facts(t) \in FactsType /\ Facts(t).clean = (dirty = {})
    BY FactsTyped DEF Inv, Facts
  <2>2. drive' \in DriveType /\ drive'.task = t /\ drive'.pc = "apply" /\ drive'.facts = Facts(t)
    BY <1>1, <1>3, <2>1 DEF DriveType
  <2>3. DriveOK'
    BY <1>1, <1>3, <2>2, Zero DEF Inv, DriveOK
  <2>4. \A u \in Writers : u # t /\ lease[u] = "held" => op[u].phase = "stuck"
    <3>1. Writers \subseteq Tasks
      BY SchedulingAssumption DEF Inv, Types, Writers, ScenarioType
    <3>. QED  BY <1>3, <3>1, AdmitsMeans DEF Occupants
  <2>5. FactsHold'
    BY <1>1, <1>3, <2>1, <2>2, <2>4 DEF FactsHold, Writers
  <2>. QED
    BY <1>1, <1>3, <2>2, <2>3, <2>5, HolderMoves
<1>. QED
  BY <1>2, <1>3 DEF Collect

LEMMA StaleStep ==
  ASSUME Inv, NEW t \in Tasks, Driving(t, "apply"), Stale(t),
         UNCHANGED <<status, lease, oldBoot, sess, marker, worker, delivery, dirty, taken, open, crashes,
                     reboots, scenario>>
  PROVE  Inv'
<1>1. CASE Defer(t)
  BY <1>1, GiveUpStep
<1>2. CASE drive.round + 1 < Rounds
           /\ drive' = [drive EXCEPT !.pc = "collect", !.round = @ + 1] /\ UNCHANGED <<op, turn>>
  <2>1. drive \in DriveType /\ drive.task = t /\ drive.pc = "apply"
    BY DEF Driving, Inv, Types
  <2>2. drive.round + 1 \in 0..Rounds-1
    BY <1>2, <2>1, SchedulingAssumption DEF DriveType
  <2>3. drive' \in DriveType /\ drive'.task = t /\ drive'.pc = "collect"
    BY <1>2, <2>1, <2>2 DEF DriveType
  <2>4. DriveOK' /\ FactsHold'
    BY <1>2, <2>1, <2>3, Zero DEF Inv, DriveOK, FactsHold
  <2>. QED
    BY <1>2, <2>1, <2>3, <2>4, HolderMoves
<1>. QED
  BY <1>1, <1>2 DEF Stale

\* The second read and the lease: whoever holds one besides is another reader,
\* and the tree is clean but for stuck workers.
LEMMA PublishStep ==
  ASSUME Inv, NEW t \in Tasks, Driving(t, "apply"), Publish(t), Admits(Occupancy(t), t), drive.facts.clean,
         UNCHANGED <<status, sess, marker, worker, delivery, dirty, taken, open, crashes, reboots, scenario>>
  PROVE  Inv'
<1> DEFINE o == [phase |-> "prepared", blocked |-> FALSE, claimed |-> TRUE]
<1>1. o \in OpType /\ o.phase = "prepared"
  BY DEF OpType, Phases
<1>2. /\ op' = [op EXCEPT ![t] = o] /\ turn' = turn
      /\ drive' = [Unlocked EXCEPT !.task = t, !.pc = "spawn"]
      /\ oldBoot' = [oldBoot EXCEPT ![t] = FALSE]
      /\ lease' = [u \in Tasks |->
                    IF u = t THEN "held"
                    ELSE IF lease[u] = "held" /\ op[u].phase = "stuck" THEN "superseded" ELSE lease[u]]
  BY DEF Publish
<1> HIDE DEF o
<1>3. /\ op' \in [Tasks -> OpType] /\ op'[t] = o /\ \A u \in Tasks : u # t => op'[u] = op[u]
      /\ oldBoot' \in [Tasks -> BOOLEAN] /\ \A u \in Tasks : oldBoot'[u] => oldBoot[u]
  BY <1>1, <1>2 DEF Inv, Types
<1>4. /\ lease' \in [Tasks -> {"none", "held", "released", "superseded"}] /\ lease'[t] = "held"
      /\ \A u \in Tasks : u # t => \/ lease'[u] = lease[u] /\ ~(lease[u] = "held" /\ op[u].phase = "stuck")
                                   \/ lease[u] = "held" /\ op[u].phase = "stuck" /\ lease'[u] = "superseded"
  BY <1>2 DEF Inv, Types
<1>5. drive' \in DriveType /\ drive'.task = t /\ drive'.pc = "spawn"
  BY <1>2, UnlockedType
<1>6. /\ drive.task = t /\ drive.pc = "apply" /\ op[t].phase = "pending"
      /\ Writers' = Writers /\ Writers \subseteq Tasks /\ dirty \subseteq Tasks
  BY SchedulingAssumption DEF Driving, Inv, DriveOK, Writers, Types, ScenarioType
<1>7. Types'
  BY <1>2, <1>3, <1>4, <1>5 DEF Inv, Types
<1>8. ASSUME NEW u \in Tasks
      PROVE  RowsAgree(u, op'[u].phase, status[u], lease'[u], worker[u], sess[u], delivery[u])
  <2>1. RowsAgree(u, op[u].phase, status[u], lease[u], worker[u], sess[u], delivery[u])
    BY DEF Inv, RowsOK
  <2>2. CASE u = t
    BY <1>1, <1>3, <1>4, <1>6, <2>1, <2>2 DEF RowsAgree, Unstarted
  <2>3. CASE u # t /\ lease'[u] = lease[u]
    BY <1>3, <2>1, <2>3
  <2>4. CASE u # t /\ op[u].phase = "stuck" /\ lease'[u] = "superseded"
    <3>1. status[u] \in Live => u \notin Writers
      BY <2>4, AdmitsMeans DEF Occupants, Yielded, Live, InFlight
    <3>. QED  BY <1>3, <2>1, <2>4, <3>1 DEF RowsAgree, Unstarted
  <2>. QED  BY <1>4, <2>2, <2>3, <2>4
<1>9. RowsOK'
  BY <1>6, <1>8 DEF RowsOK, RowsAgree
<1>10. TurnsOK'
  <2>1. \A u \in Tasks : turn[u] = "drive" => u = t
    BY <1>6 DEF Inv, TurnsOK
  <2>2. turn[t] # "settle"
    BY <1>6 DEF Inv, TurnsOK, Settled
  <2>. QED  BY <1>1, <1>2, <1>3, <1>5, <2>1, <2>2 DEF Inv, TurnsOK
<1>11. DriveOK'
  BY <1>1, <1>3, <1>5, Zero DEF DriveOK
<1>12. ASSUME NEW u \in Tasks, u # t, Engaged(u)' PROVE Engaged(u) /\ u \notin Writers /\ t \notin Writers
  <2>1. CASE lease'[u] = "held"
    <3>1. lease[u] = "held" /\ op[u].phase # "stuck"
      BY <1>4, <1>12, <2>1
    <3>. QED  BY <1>12, <3>1, AdmitsMeans DEF Engaged, Occupants
  <2>2. CASE Unsettled(u)'
    <3>1. Unsettled(u)
      BY <2>2 DEF Unsettled
    <3>. QED  BY <1>12, <3>1, AdmitsMeans
  <2>3. CASE status'[u] = "verifying"
    BY <1>12, <2>3, AdmitsMeans DEF Engaged, Occupants, InFlight, Yielded
  <2>. QED  BY <1>12, <2>1, <2>2, <2>3 DEF Engaged
<1>13. Alone'
  <2> SUFFICES ASSUME NEW w \in Writers, NEW u \in Tasks, w # u, Engaged(w)', Engaged(u)' PROVE FALSE
    BY <1>6 DEF Alone
  <2>1. w \in Tasks
    BY <1>6
  <2>2. CASE w = t
    BY <1>12, <2>2
  <2>3. CASE w # t
    BY <1>12, <2>1, <2>3
  <2>. QED  BY <2>2, <2>3
<1>14. \A x \in dirty : op[x].phase = "stuck"
  BY <1>6 DEF Inv, FactsHold
<1>15. \A x \in dirty : op'[x].phase = "stuck"
  BY <1>3, <1>6, <1>14
<1>16. TreeOK' /\ DirtyOK'
  BY <1>6, <1>15 DEF TreeOK, DirtyOK, Accounted, Inv
<1>17. FactsHold'
  BY <1>5 DEF FactsHold
<1>18. PureDelivery'
  BY <1>3, <1>6 DEF Inv, PureDelivery, Types
<1>19. BootOK'
  BY <1>3 DEF Inv, BootOK
<1>. QED
  BY <1>7, <1>9, <1>10, <1>11, <1>13, <1>16, <1>17, <1>18, <1>19 DEF Inv

LEMMA ApplyStep == ASSUME Inv, NEW t \in Tasks, Apply(t), UNCHANGED scenario PROVE Inv'
<1>1. Driving(t, "apply")
      /\ UNCHANGED <<status, sess, marker, worker, delivery, dirty, taken, open, crashes, reboots>>
  BY DEF Apply
<1>2. CASE (FailOp(t) \/ Defer(t)) /\ UNCHANGED <<lease, oldBoot>>
  BY <1>1, <1>2, GiveUpStep
<1>3. CASE Stale(t) /\ UNCHANGED <<lease, oldBoot>>
  BY <1>1, <1>3, StaleStep
<1>4. CASE Publish(t) /\ Admits(Occupancy(t), t) /\ drive.facts.clean
  BY <1>1, <1>4, PublishStep
<1>. QED
  BY <1>2, <1>3, <1>4 DEF Apply

LEMMA SpawnStep == ASSUME Inv, NEW t \in Tasks, Spawn(t), UNCHANGED scenario PROVE Inv'
<1> DEFINE o == [op[t] EXCEPT !.phase = "spawned"]
<1>1. /\ drive.task = t /\ drive.pc = "spawn" /\ op[t].phase = "prepared" /\ op' = [op EXCEPT ![t] = o]
      /\ worker' = [worker EXCEPT ![t] = "working"] /\ sess' = [sess EXCEPT ![t] = "live"]
      /\ UNCHANGED <<status, lease, oldBoot, marker, delivery, turn, drive, dirty, taken, open, crashes, reboots>>
  BY DEF Spawn, Driving
<1>2. o \in OpType /\ o.phase = "spawned"
  BY DEF Inv, Types, OpType, Phases
<1> HIDE DEF o
<1>3. /\ op' \in [Tasks -> OpType] /\ op'[t] = o /\ worker'[t] = "working" /\ sess'[t] = "live"
      /\ \A u \in Tasks : u # t => Same(u)
  BY <1>1, <1>2 DEF Inv, Types, Same
<1>4. Types'
  BY <1>1, <1>3 DEF Inv, Types
<1>5. RowsAgree(t, op[t].phase, status[t], lease[t], worker[t], sess[t], delivery[t])
  BY DEF Inv, RowsOK
<1>6. RowsAgree(t, op'[t].phase, status'[t], lease'[t], worker'[t], sess'[t], delivery'[t])
  BY <1>1, <1>2, <1>3, <1>5 DEF RowsAgree, Unstarted
<1>7. Holds(t)
  BY <1>1, <1>2, <1>3 DEF Holds
<1>8. TurnsOK'
  <2>1. \A u \in Tasks : u # t => op'[u] = op[u]
    BY <1>3 DEF Same
  <2>2. turn[t] # "settle"
    BY <1>1 DEF Inv, TurnsOK, Settled
  <2>. QED  BY <1>1, <1>2, <1>3, <2>1, <2>2 DEF Inv, TurnsOK
<1>9. DriveOK'
  BY <1>1, <1>2, <1>3, Zero DEF DriveOK
<1>. QED
  BY <1>1, <1>3, <1>4, <1>6, <1>7, <1>8, <1>9, TaskStep

LEMMA SpawnEnds ==
  ASSUME Inv, NEW t \in Tasks, SpawnSucceeds(t) \/ SpawnStuck(t) \/ SpawnFails(t), UNCHANGED scenario
  PROVE  Inv'
<1>1. drive.task = t /\ drive.pc = "spawn"
      /\ UNCHANGED <<status, oldBoot, sess, marker, worker, dirty, taken, open, crashes, reboots>>
  BY DEF SpawnSucceeds, SpawnStuck, SpawnFails, Driving
<1>2. RowsAgree(t, op[t].phase, status[t], lease[t], worker[t], sess[t], delivery[t])
  BY DEF Inv, RowsOK
<1>3. CASE SpawnSucceeds(t)
  <2>1. op[t].phase = "spawned" /\ Leave(t, "succeeded", FALSE, "settle") /\ UNCHANGED <<lease, delivery>>
    BY <1>3 DEF SpawnSucceeds
  <2>2. RowsAgree(t, "succeeded", status[t], lease'[t], worker[t], sess[t], delivery'[t])
    BY <1>2, <2>1 DEF RowsAgree, Unstarted, Live
  <2>. QED  BY <1>1, <2>1, <2>2, LeaveStep DEF Phases, Settled
<1>4. CASE SpawnStuck(t)
  <2>1. op[t].phase = "spawned" /\ Leave(t, "stuck", FALSE, "settle") /\ UNCHANGED <<lease, delivery>>
    BY <1>4 DEF SpawnStuck
  <2>2. RowsAgree(t, "stuck", status[t], lease'[t], worker[t], sess[t], delivery'[t])
    BY <1>2, <2>1 DEF RowsAgree, Unstarted, Live
  <2>. QED  BY <1>1, <2>1, <2>2, LeaveStep DEF Phases, Settled
<1>5. CASE SpawnFails(t)
  <2>1. op[t].phase = "prepared" /\ Leave(t, "failed", FALSE, "settle") /\ Release(t)
    BY <1>5 DEF SpawnFails
  <2>2. RowsAgree(t, "failed", status[t], lease'[t], worker[t], sess[t], delivery'[t])
    BY <1>2, <2>1, ReleaseMoves DEF RowsAgree, Unstarted, Live
  <2>. QED  BY <1>1, <2>1, <2>2, LeaveStep DEF Phases, Settled
<1>. QED
  BY <1>3, <1>4, <1>5

-----------------------------------------------------------------------------
(* Cleanup, writes, commits and restarts.                                  *)

LEMMA CleanupStep ==
  ASSUME Inv, NEW t \in Tasks, CleanupStop(t) \/ CleanupRelease(t), UNCHANGED scenario PROVE Inv'
<1>1. RowsAgree(t, op[t].phase, status[t], lease[t], worker[t], sess[t], delivery[t])
  BY DEF Inv, RowsOK
<1>2. CASE CleanupStop(t)
  <2>1. /\ drive = Unlocked /\ status[t] \in Terminal /\ drive' = [Unlocked EXCEPT !.task = t, !.pc = "cleanup"]
        /\ worker' = [worker EXCEPT ![t] = IF @ = "working" THEN "dead" ELSE @]
        /\ UNCHANGED <<status, op, lease, sess, marker, delivery, oldBoot, turn, dirty, taken, open, crashes, reboots>>
    BY <1>2 DEF CleanupStop, rows
  <2>2. drive' \in DriveType /\ drive'.task = t /\ drive'.pc = "cleanup"
    BY <2>1, UnlockedType
  <2>3. /\ worker' \in [Tasks -> {"none", "working", "finished", "dead"}]
        /\ worker'[t] = (IF worker[t] = "working" THEN "dead" ELSE worker[t])
        /\ \A u \in Tasks : u # t => Same(u)
    BY <2>1 DEF Inv, Types, Same
  <2>4. Types'
    BY <2>1, <2>2, <2>3 DEF Inv, Types
  <2>5. Holds(t) /\ RowsAgree(t, op'[t].phase, status'[t], lease'[t], worker'[t], sess'[t], delivery'[t])
    BY <1>1, <2>1, <2>3 DEF Holds, RowsAgree
  <2>6. TurnsOK'
    <3>1. \A u \in Tasks : turn[u] # "drive"
      BY <2>1, UnlockedType, Zero DEF Inv, TurnsOK
    <3>. QED  BY <2>1, <3>1 DEF Inv, TurnsOK
  <2>7. DriveOK'
    BY <2>1, <2>2, <2>3, Zero DEF DriveOK, Ended
  <2>. QED
    BY <2>1, <2>2, <2>3, <2>4, <2>5, <2>6, <2>7, TaskStep
<1>3. CASE CleanupRelease(t)
  <2>1. /\ drive.task = t /\ drive.pc = "cleanup" /\ drive' = Unlocked /\ Release(t)
        /\ marker' = [marker EXCEPT ![t] = FALSE] /\ sess' = [sess EXCEPT ![t] = "ended"]
        /\ UNCHANGED <<status, op, oldBoot, worker, turn, dirty, taken, open, crashes, reboots>>
    BY <1>3 DEF CleanupRelease, Driving
  <2>2. worker[t] # "working" /\ status[t] \in Ended
    BY <2>1 DEF Inv, DriveOK
  <2>3. /\ marker' \in [Tasks -> BOOLEAN] /\ sess' \in [Tasks -> {"none", "live", "ended"}]
        /\ \A u \in Tasks : u # t => Same(u)
    BY <2>1, ReleaseMoves DEF Inv, Types, Same
  <2>4. Types'
    BY <2>1, <2>3, ReleaseMoves, UnlockedType DEF Inv, Types
  <2>5. Holds(t)
    BY <2>1, ReleaseMoves DEF Holds
  <2>6. RowsAgree(t, op'[t].phase, status'[t], lease'[t], worker'[t], sess'[t], delivery'[t])
    <3>1. op[t].phase # "prepared"
      BY <1>1, <2>2 DEF RowsAgree, Terminal, Ended
    <3>. QED  BY <1>1, <2>1, <2>2, <3>1, ReleaseMoves DEF RowsAgree, Live, Terminal, Ended
  <2>7. TurnsOK'
    <3>1. \A u \in Tasks : turn[u] # "drive"
      BY <2>1 DEF Inv, TurnsOK
    <3>. QED  BY <2>1, <3>1 DEF Inv, TurnsOK
  <2>8. DriveOK' /\ drive'.pc # "apply"
    BY <2>1, UnlockedType DEF DriveOK
  <2>. QED
    BY <2>1, <2>3, <2>4, <2>5, <2>6, <2>7, <2>8, TaskStep
<1>. QED
  BY <1>2, <1>3

\* A writer at work holds the lease, or is stuck.
LEMMA WriteStep == ASSUME Inv, NEW t \in Tasks, Write(t), UNCHANGED scenario PROVE Inv'
<1>1. /\ worker[t] = "working" /\ t \in Writers /\ dirty' = dirty \union {t}
      /\ UNCHANGED <<status, op, lease, sess, marker, delivery, oldBoot, worker, turn, drive, taken, open, crashes, reboots>>
  BY DEF Write, rows
<1>2. op[t].phase # "stuck" => lease[t] = "held"
  BY <1>1 DEF Inv, RowsOK, RowsAgree
<1>3. Types'
  BY <1>1 DEF Inv, Types
<1>4. RowsOK' /\ TurnsOK' /\ BootOK'
  BY <1>1 DEF Inv, RowsOK, RowsAgree, Writers, TurnsOK, BootOK
<1>5. DriveOK'
  BY <1>1 DEF Inv, DriveOK
<1>6. Alone' /\ PureDelivery'
  BY <1>1 DEF Inv, Alone, Beside, Judged, Engaged, Unsettled, PureDelivery, Writers
<1>7. TreeOK'
  <2>1. \A u \in Writers : u # t /\ (lease[u] = "held" \/ delivery[u] = "unsettled") => op[t].phase = "stuck"
    <3> SUFFICES ASSUME NEW u \in Writers, u # t, lease[u] = "held" \/ delivery[u] = "unsettled",
                        lease[t] = "held"
                 PROVE  op[t].phase = "stuck"
      BY <1>2
    <3>1. t \in Tasks /\ u \in Tasks /\ ~Judged(t)
      BY SchedulingAssumption DEF Writers, Inv, Types, ScenarioType, RowsOK, RowsAgree, Judged
    <3>. QED  BY <1>1, <3>1 DEF Inv, Alone, Beside, Engaged, Unsettled
  <2>. QED  BY <1>1, <2>1 DEF Inv, TreeOK, Writers
<1>8. FactsHold'
  <2>1. drive.pc = "apply" => op[t].phase = "stuck"
    <3>1. ASSUME drive.pc = "apply" PROVE t # drive.task
      <4>1. op[t].phase \notin Unstarted
        BY <1>1 DEF Inv, RowsOK, RowsAgree
      <4>. QED  BY <3>1, <4>1 DEF Inv, DriveOK, Unstarted
    <3>. QED  BY <1>1, <1>2, <3>1 DEF Inv, FactsHold
  <2>. QED  BY <1>1, <2>1 DEF Inv, FactsHold, Writers
<1>9. DirtyOK'
  BY <1>1, <1>2 DEF Inv, DirtyOK, Accounted, Writers
<1>. QED
  BY <1>3, <1>4, <1>5, <1>6, <1>7, <1>8, <1>9 DEF Inv

\* A gate is run again only in a checkout that nobody but a stuck operation
\* claims: its lease does not count and is not superseded.
LEMMA RegateStep == ASSUME Inv, GateOK, NEW t \in Tasks, Regate(t), UNCHANGED scenario PROVE Inv'
<1>1. /\ status[t] = "failed" /\ t \in gate.red /\ delivery[t] = "candidate" /\ Occupancy(t) = "free"
      /\ status' = [status EXCEPT ![t] = "verifying"]
      /\ UNCHANGED <<op, lease, oldBoot, sess, marker, worker, delivery, turn, drive, dirty, taken, open, crashes, reboots>>
  BY DEF Regate
<1>2. status' \in [Tasks -> Statuses] /\ status'[t] = "verifying" /\ \A u \in Tasks : u # t => status'[u] = status[u]
  BY <1>1 DEF Inv, Types, Statuses, InFlight
<1>3. Types'
  BY <1>1, <1>2 DEF Inv, Types
<1>4. op[t].phase \notin Unstarted /\ Writers' = Writers /\ Writers \subseteq Tasks
  BY <1>1, SchedulingAssumption DEF GateOK, Writers, Inv, Types, ScenarioType
<1>5. RowsOK'
  <2> SUFFICES ASSUME NEW u \in Tasks
               PROVE  RowsAgree(u, op[u].phase, status[u], lease[u], worker[u], sess[u], delivery[u])'
    BY DEF RowsOK
  <2>1. RowsAgree(u, op[u].phase, status[u], lease[u], worker[u], sess[u], delivery[u])
    BY DEF Inv, RowsOK
  <2>2. CASE u = t
    BY <1>1, <1>2, <1>4, <2>1, <2>2 DEF RowsAgree, Unstarted, Live
  <2>3. CASE u # t
    BY <1>1, <1>2, <1>4, <2>1, <2>3 DEF RowsAgree
  <2>. QED  BY <2>2, <2>3
<1>6. TurnsOK' /\ BootOK'
  BY <1>1, <1>2, <1>4 DEF Inv, TurnsOK, BootOK, Unstarted
<1>7. DriveOK'
  <2>1. drive.pc # "none" => drive.task \in Tasks
    BY Holder
  <2>. QED  BY <1>1, <1>2, <2>1 DEF Inv, DriveOK, Ended
<1>8. ASSUME NEW u \in Tasks, u # t, Engaged(u) PROVE op[u].phase = "stuck"
  <2>1. u \notin Occupants(t) /\ ~Unsettled(u)
    BY <1>1, <1>8 DEF Occupancy
  <2>. QED  BY <1>8, <2>1 DEF Occupants, Engaged, InFlight, Yielded
<1>9. Alone'
  <2> SUFFICES ASSUME NEW w \in Writers, NEW u \in Tasks, w # u, Engaged(w)', Engaged(u)'
               PROVE  Beside(w, u)' \/ Beside(u, w)'
    BY <1>4 DEF Alone
  <2>1. w \in Tasks /\ Judged(t)'
    BY <1>1, <1>2, <1>4 DEF Judged
  <2>2. \A x \in Tasks : x # t => (Engaged(x)' <=> Engaged(x)) /\ (Judged(x)' <=> Judged(x)) /\ op'[x] = op[x]
    BY <1>1, <1>2 DEF Engaged, Unsettled, Judged
  <2>3. CASE w = t
    BY <1>8, <2>1, <2>2, <2>3 DEF Beside
  <2>4. CASE u = t
    BY <1>8, <2>1, <2>2, <2>4 DEF Beside
  <2>5. CASE w # t /\ u # t
    BY <2>1, <2>2, <2>5 DEF Inv, Alone, Beside
  <2>. QED  BY <2>3, <2>4, <2>5
<1>10. TreeOK' /\ DirtyOK' /\ FactsHold' /\ PureDelivery'
  BY <1>1, <1>4 DEF Inv, TreeOK, DirtyOK, Accounted, FactsHold, PureDelivery
<1>. QED
  BY <1>3, <1>5, <1>6, <1>7, <1>9, <1>10 DEF Inv

\* The commit takes the whole tree.
LEMMA CommitStep == ASSUME Inv, NEW t \in Tasks, Commit(t), UNCHANGED scenario PROVE Inv'
<1>1. /\ delivery[t] = "unsettled" /\ delivery' = [delivery EXCEPT ![t] = "committed"]
      /\ taken' = [taken EXCEPT ![t] = dirty] /\ dirty' = {}
      /\ UNCHANGED <<status, op, lease, oldBoot, sess, marker, worker, turn, drive, open, crashes, reboots>>
  BY DEF Commit
<1>2. /\ delivery'[t] = "committed" /\ \A u \in Tasks : u # t => delivery'[u] = delivery[u]
      /\ taken'[t] = dirty /\ \A u \in Tasks : u # t => taken'[u] = taken[u]
  BY <1>1 DEF Inv, Types
<1>3. Types'
  BY <1>1 DEF Inv, Types
<1>4. t \in Writers /\ lease[t] # "held"
  BY <1>1 DEF Inv, RowsOK, RowsAgree
<1>5. RowsOK'
  <2> SUFFICES ASSUME NEW u \in Tasks
               PROVE  RowsAgree(u, op[u].phase, status[u], lease[u], worker[u], sess[u], delivery[u])'
    BY DEF RowsOK
  <2>1. RowsAgree(u, op[u].phase, status[u], lease[u], worker[u], sess[u], delivery[u])
    BY DEF Inv, RowsOK
  <2>2. CASE u = t
    BY <1>1, <1>2, <1>4, <2>1, <2>2 DEF RowsAgree, Writers
  <2>3. CASE u # t
    BY <1>1, <1>2, <2>1, <2>3 DEF RowsAgree, Writers
  <2>. QED  BY <2>2, <2>3
<1>6. TurnsOK' /\ BootOK' /\ DriveOK'
  BY <1>1 DEF Inv, TurnsOK, BootOK, DriveOK
<1>7. \A u \in Tasks : Engaged(u)' => Engaged(u)
  BY <1>1, <1>2 DEF Engaged, Unsettled
<1>8. Alone'
  <2>1. Writers' = Writers /\ Writers \subseteq Tasks
    BY SchedulingAssumption DEF Writers, Inv, Types, ScenarioType
  <2>2. \A u \in Tasks : op'[u] = op[u] /\ (Judged(u) => Judged(u)')
    BY <1>1, <1>2 DEF Judged
  <2>. QED  BY <1>7, <2>1, <2>2 DEF Inv, Alone, Beside
<1>9. TreeOK' /\ DirtyOK'
  BY <1>1 DEF TreeOK, DirtyOK, Accounted
<1>10. FactsHold'
  BY <1>1 DEF Inv, FactsHold, Writers
<1>11. PureDelivery'
  <2>1. \A u \in dirty : u = t \/ op[u].phase = "stuck"
    BY <1>1, <1>4 DEF Inv, TreeOK
  <2>. QED  BY <1>1, <1>2, <2>1 DEF Inv, PureDelivery
<1>. QED
  BY <1>3, <1>5, <1>6, <1>8, <1>9, <1>10, <1>11 DEF Inv

\* Nothing but the track's state moves.
LEMMA QuietStep ==
  ASSUME Inv, UNCHANGED <<rows, oldBoot, worker, turn, drive, dirty, taken, crashes, reboots, scenario>>,
         open' \in BOOLEAN
  PROVE  Inv'
<1>1. UNCHANGED <<status, op, lease, sess, marker, delivery>>
  BY DEF rows
<1>2. Types'
  BY <1>1 DEF Inv, Types
<1>3. RowsOK' /\ TurnsOK' /\ BootOK' /\ DriveOK'
  BY <1>1 DEF Inv, RowsOK, RowsAgree, Writers, TurnsOK, BootOK, DriveOK
<1>4. \A t \in Tasks : Holds(t)
  BY <1>1 DEF Holds
<1>. QED
  BY <1>2, <1>3, <1>4, HoldStep

\* The boot reclaim, when it takes no lease of a worker at work.
LEMMA RestartStep ==
  ASSUME Inv, Restart, UNCHANGED scenario, oldBoot' \in [Tasks -> BOOLEAN], BootOK',
         worker' \in [Tasks -> {"none", "working", "finished", "dead"}],
         \A t \in Tasks : worker'[t] = worker[t] \/ (worker[t] = "working" /\ worker'[t] = "dead"),
         \A t \in Tasks : Reclaimable(t) => worker'[t] # "working",
         crashes' \in 0..scenario.crashes, reboots' \in 0..scenario.reboots
  PROVE  Inv'
<1>1. /\ turn' = [t \in Tasks |-> "none"] /\ drive' = Unlocked
      /\ status' = [t \in Tasks |-> IF Reclaimable(t) /\ status[t] \in Live THEN "failed" ELSE status[t]]
      /\ lease' = [t \in Tasks |-> IF Reclaimable(t) THEN "released" ELSE lease[t]]
      /\ delivery' = [t \in Tasks |->
           IF Reclaimable(t) /\ t \in Writers /\ delivery[t] = "none" THEN "unsettled" ELSE delivery[t]]
      /\ UNCHANGED <<op, sess, marker, dirty, taken, open>>
  BY DEF Restart, Inserted, Reclaimable
<1>2. ASSUME NEW t \in Tasks
      PROVE  /\ turn'[t] = "none" /\ op'[t] = op[t] /\ sess'[t] = sess[t]
             /\ \/ ~Reclaimable(t) /\ status'[t] = status[t] /\ lease'[t] = lease[t] /\ delivery'[t] = delivery[t]
                \/ /\ lease[t] = "held" /\ op[t].phase \in Settled /\ delivery[t] = "none" /\ worker'[t] # "working"
                   /\ lease'[t] = "released" /\ delivery'[t] = (IF t \in Writers THEN "unsettled" ELSE "none")
                   /\ status'[t] = (IF status[t] \in Live THEN "failed" ELSE status[t])
  <2>1. CASE ~Reclaimable(t)
    BY <1>1, <2>1
  <2>2. CASE Reclaimable(t)
    <3>1. lease[t] = "held" /\ op[t].phase \in Settled /\ delivery[t] = "none"
      BY <2>2 DEF Reclaimable, Inv, RowsOK, RowsAgree
    <3>. QED  BY <1>1, <2>2, <3>1
  <2>. QED  BY <2>1, <2>2
<1> HIDE DEF Reclaimable
<1>3. /\ status' \in [Tasks -> Statuses]
      /\ lease' \in [Tasks -> {"none", "held", "released", "superseded"}]
      /\ delivery' \in [Tasks -> {"none", "unsettled", "committed", "candidate", "failed"}]
      /\ turn' \in [Tasks -> {"none", "submit", "lock", "drive", "settle"}]
  BY <1>1 DEF Inv, Types, Statuses, Terminal
<1>4. Types'
  BY <1>1, <1>3, UnlockedType DEF Inv, Types
<1>5. ASSUME NEW t \in Tasks
      PROVE  RowsAgree(t, op'[t].phase, status'[t], lease'[t], worker'[t], sess'[t], delivery'[t]) /\ Holds(t)
  <2>1. RowsAgree(t, op[t].phase, status[t], lease[t], worker[t], sess[t], delivery[t])
    BY DEF Inv, RowsOK
  <2>2. worker'[t] = worker[t] \/ (worker[t] = "working" /\ worker'[t] = "dead")
    OBVIOUS
  <2>3. CASE status'[t] = status[t] /\ lease'[t] = lease[t] /\ delivery'[t] = delivery[t]
    BY <1>2, <2>1, <2>2, <2>3 DEF RowsAgree, Holds
  <2>4. CASE /\ lease[t] = "held" /\ op[t].phase \in Settled /\ delivery[t] = "none" /\ worker'[t] # "working"
             /\ lease'[t] = "released" /\ delivery'[t] = (IF t \in Writers THEN "unsettled" ELSE "none")
             /\ status'[t] = (IF status[t] \in Live THEN "failed" ELSE status[t])
    <3>1. Holds(t)
      BY <1>2, <2>4 DEF Holds, Live
    <3>2. RowsAgree(t, op'[t].phase, status'[t], lease'[t], worker'[t], sess'[t], delivery'[t])
      BY <1>2, <2>1, <2>2, <2>4 DEF RowsAgree, Unstarted, Settled, Live
    <3>. QED  BY <3>1, <3>2
  <2>. QED  BY <1>2, <2>3, <2>4
<1>6. RowsOK'
  BY <1>5 DEF RowsOK, RowsAgree, Writers
<1>7. TurnsOK'
  BY <1>2 DEF TurnsOK
<1>8. DriveOK' /\ drive'.pc # "apply"
  BY <1>1, UnlockedType DEF DriveOK
<1>. QED
  BY <1>1, <1>4, <1>5, <1>6, <1>7, <1>8, HoldStep

\* A reboot ends every worker, so that its reclaim takes no lease of a live one.
LEMMA RebootStep == ASSUME Inv, Reboot, UNCHANGED scenario PROVE Inv'
<1>1. /\ reboots < scenario.reboots /\ reboots' = reboots + 1 /\ crashes' = crashes /\ Restart
      /\ oldBoot' = [t \in Tasks |-> lease[t] = "held"]
      /\ worker' = [t \in Tasks |-> IF worker[t] = "working" THEN "dead" ELSE worker[t]]
  BY DEF Reboot
<1>2. crashes' \in 0..scenario.crashes /\ reboots' \in 0..scenario.reboots /\ reboots' # 0
  <2>1. scenario.reboots \in Nat /\ reboots \in 0..scenario.reboots /\ crashes \in 0..scenario.crashes
    BY SchedulingAssumption DEF Inv, Types, ScenarioType
  <2>. QED  BY <1>1, <2>1
<1>3. oldBoot' \in [Tasks -> BOOLEAN] /\ BootOK'
  BY <1>1, <1>2 DEF BootOK
<1>4. /\ worker' \in [Tasks -> {"none", "working", "finished", "dead"}]
      /\ \A t \in Tasks : worker'[t] = worker[t] \/ (worker[t] = "working" /\ worker'[t] = "dead")
      /\ \A t \in Tasks : worker'[t] # "working"
  BY <1>1 DEF Inv, Types
<1>. QED
  BY <1>1, <1>2, <1>3, <1>4, RestartStep

\* A server restarted alone: its reclaim must not find the lease of a live worker.
LEMMA CrashStep == ASSUME Inv, Crash, WorkerIsOver, UNCHANGED scenario PROVE Inv'
<1>1. crashes < scenario.crashes /\ crashes' = crashes + 1 /\ UNCHANGED <<oldBoot, worker, reboots>> /\ Restart
  BY DEF Crash
<1>2. crashes' \in 0..scenario.crashes /\ reboots' \in 0..scenario.reboots
  <2>1. scenario.crashes \in Nat /\ reboots \in 0..scenario.reboots /\ crashes \in 0..scenario.crashes
    BY SchedulingAssumption DEF Inv, Types, ScenarioType
  <2>. QED  BY <1>1, <2>1
<1>3. oldBoot' \in [Tasks -> BOOLEAN] /\ BootOK'
      /\ worker' \in [Tasks -> {"none", "working", "finished", "dead"}]
      /\ \A t \in Tasks : worker'[t] = worker[t]
  BY <1>1 DEF Inv, Types, BootOK
<1>4. ASSUME NEW t \in Tasks, Reclaimable(t) PROVE worker'[t] # "working"
  <2>1. lease[t] = "held" /\ lease'[t] = "released"
    BY <1>1, <1>4 DEF Restart, Reclaimable
  <2>. QED  BY <2>1 DEF WorkerIsOver
<1>. QED
  BY <1>1, <1>2, <1>3, <1>4, RestartStep

-----------------------------------------------------------------------------
(* The whole next-state relation.                                          *)

LEMMA InitInv == Init => Inv
<1> SUFFICES ASSUME Init PROVE Inv
  OBVIOUS
<1>1. NoOp \in OpType /\ NoOp.phase = "none"
  BY DEF NoOp, OpType, Phases
<1>2. scenario \in Scenarios /\ 0 \in 0..scenario.crashes /\ 0 \in 0..scenario.reboots
  BY SchedulingAssumption DEF Init, ScenarioType
<1>3. Types
  BY <1>1, <1>2, UnlockedType DEF Init, Types, Statuses
<1>4. RowsOK /\ TurnsOK
  BY <1>1 DEF Init, RowsOK, RowsAgree, TurnsOK, Unstarted, Live
<1>5. DriveOK /\ FactsHold
  BY UnlockedType DEF Init, DriveOK, FactsHold
<1>6. Writers \subseteq Tasks
  BY <1>2, SchedulingAssumption DEF Writers, ScenarioType
<1>7. Alone /\ TreeOK /\ DirtyOK /\ PureDelivery /\ BootOK
  BY <1>6 DEF Init, Alone, Beside, Engaged, Unsettled, TreeOK, DirtyOK, Accounted, PureDelivery, BootOK
<1>. QED
  BY <1>3, <1>4, <1>5, <1>7 DEF Inv

\* Every step of a task preserves the invariant.
LEMMA TaskSteps ==
  ASSUME Inv, GateOK, NEW t \in Tasks, UNCHANGED scenario,
         \/ Scheduler(t) \/ Driver(t) \/ Worker(t) \/ Ending(t) \/ Delivering(t)
         \/ Regate(t) \/ ExpireClaim(t)
  PROVE  Inv'
<1>1. CASE Scheduler(t)
  BY <1>1, TurnMoves, ClaimMoves DEF Scheduler
<1>2. CASE Driver(t)
  BY <1>2, CollectStep, ApplyStep, SpawnStep, SpawnEnds, ClaimMoves DEF Driver
<1>3. CASE Worker(t)
  BY <1>3, WriteStep, ReportStep, WorkerDiesStep DEF Worker
<1>4. CASE Ending(t)
  BY <1>4, EndRunningStep, RowOnlyStep, ReapStep, CleanupStep DEF Ending
<1>5. CASE Delivering(t)
  BY <1>5, CommitStep, RowOnlyStep DEF Delivering
<1>6. CASE ExpireClaim(t)
  BY <1>6, ClaimMoves
<1>7. CASE Regate(t)
  BY <1>7, RegateStep
<1>. QED
  BY <1>1, <1>2, <1>3, <1>4, <1>5, <1>6, <1>7

LEMMA NextInv ==
  ASSUME Inv, GateOK, [Next]_<<vars, scenario>>, Crash => WorkerIsOver PROVE Inv'
<1>1. CASE UNCHANGED <<vars, scenario>>
  <2>1. UNCHANGED <<rows, oldBoot, worker, turn, drive, dirty, taken, open, crashes, reboots, scenario>>
    BY <1>1 DEF vars, rows
  <2>. QED  BY <2>1, QuietStep DEF Inv, Types
<1>2. CASE Next
  <2>1. UNCHANGED scenario /\ Step
    BY <1>2 DEF Next
  <2>2. CASE CloseOrReopen
    BY <2>1, <2>2, QuietStep DEF CloseOrReopen, Inv, Types
  <2>3. CASE Crash
    BY <2>1, <2>3, CrashStep
  <2>4. CASE Reboot
    BY <2>1, <2>4, RebootStep
  <2>. QED
    BY <2>1, <2>2, <2>3, <2>4, TaskSteps DEF Step
<1>. QED
  BY <1>1, <1>2

\* A started operation stays started, and its gate is judged only then.
LEMMA PhaseStep ==
  ASSUME Inv, Step, NEW t \in Tasks, op[t].phase \notin Unstarted
  PROVE  op'[t].phase \notin Unstarted
<1>1. CASE UNCHANGED op
  BY <1>1
<1>2. CASE Crash \/ Reboot \/ CloseOrReopen
  BY <1>1, <1>2 DEF Crash, Reboot, Restart, CloseOrReopen, rows
<1>3. ASSUME NEW u \in Tasks,
             \/ Scheduler(u) \/ Driver(u) \/ Worker(u) \/ Ending(u) \/ Delivering(u)
             \/ Regate(u) \/ ExpireClaim(u)
      PROVE  op'[t].phase \notin Unstarted
  <2>0. op \in [Tasks -> OpType]
    BY DEF Inv, Types
  <2>1. ASSUME drive.task = u, drive.pc \in {"collect", "apply", "spawn"},
               NEW o, op' = [op EXCEPT ![u] = o], op[u].phase \notin Unstarted => o.phase \notin Unstarted
        PROVE  op'[t].phase \notin Unstarted
    BY <2>0, <2>1
  <2>2. CASE Collect(u) \/ Apply(u)
    <3>1. op[u].phase \in Unstarted
      BY <2>2 DEF Collect, Apply, Driving, Inv, DriveOK, Unstarted
    <3>2. \A v \in Tasks : v # u => op'[v] = op[v]
      BY <2>0, <2>2 DEF Collect, Apply, FailOp, Defer, Leave, Stale, Publish
    <3>. QED  BY <3>1, <3>2
  <2>3. CASE SpawnFails(u)
    <3>1. op[u].phase \in Unstarted /\ \A v \in Tasks : v # u => op'[v] = op[v]
      BY <2>0, <2>3 DEF SpawnFails, Leave, Unstarted
    <3>. QED  BY <3>1
  <2>4. CASE Spawn(u) \/ SpawnSucceeds(u) \/ SpawnStuck(u)
    <3>1. op'[u].phase \in {"spawned", "succeeded", "stuck"} /\ \A v \in Tasks : v # u => op'[v] = op[v]
      BY <2>0, <2>4 DEF Spawn, SpawnSucceeds, SpawnStuck, Leave, OpType
    <3>. QED  BY <3>1 DEF Unstarted
  <2>5. CASE Recover(u) \/ ExpireClaim(u) \/ Lock(u)
    <3>1. \A v \in Tasks : op'[v].phase = op[v].phase
      BY <2>0, <2>5 DEF Recover, ExpireClaim, Lock, OpType
    <3>. QED  BY <3>1
  <2>6. CASE Submit(u)
    <3>1. \A v \in Tasks : op[v].phase # "none" => op'[v].phase = op[v].phase
      BY <2>0, <2>6 DEF Submit, OpType
    <3>. QED  BY <3>1 DEF Unstarted
  <2>7. CASE DriverBusy(u)
    <3>1. \A v \in Tasks : op'[v].phase = op[v].phase
      BY <2>0, <2>7 DEF DriverBusy, OpType
    <3>. QED  BY <3>1
  <2>8. CASE \/ Claim(u) \/ ResumeDispatched(u) \/ ClaimBusy(u) \/ Reconcile(u)
             \/ Worker(u) \/ Ending(u) \/ Delivering(u) \/ Regate(u)
    <3>1. UNCHANGED op
      BY <2>8 DEF Claim, ResumeDispatched, ClaimBusy, Reconcile, Worker, Write, Report, WorkerDies, ExitRecorded,
                  Ending, EndRunning, CancelPending, Reap, CleanupStop, CleanupRelease,
                  Delivering, Commit, Settle, SettleFailed, GateVerdict, Regate, rows
    <3>. QED  BY <3>1
  <2>. QED
    BY <1>3, <2>2, <2>3, <2>4, <2>5, <2>6, <2>7, <2>8 DEF Scheduler, Driver
<1>. QED
  BY <1>2, <1>3 DEF Step

\* Verdicts come from a gate and go with a re-run; deliveries only get older.
LEMMA GateStep ==
  ASSUME Inv, GateOK, [Next]_<<vars, scenario>> PROVE GateOK'
<1> DEFINE GateType == [red : SUBSET Tasks, outdated : SUBSET Tasks, reruns : 0..scenario.regates]
<1>0. gate \in GateType /\ scenario.regates \in Nat
  BY SchedulingAssumption DEF GateOK, Inv, Types, ScenarioType
<1>1. ASSUME NEW o \in SUBSET Tasks, gate' = [gate EXCEPT !.outdated = gate.outdated \union o],
             UNCHANGED scenario, Step
      PROVE  GateOK'
  <2>1. gate' \in GateType /\ gate'.red = gate.red
    BY <1>0, <1>1
  <2>. QED  BY <1>1, <2>1, PhaseStep DEF GateOK
<1>2. ASSUME UNCHANGED <<gate, scenario>>, Step PROVE GateOK'
  BY <1>0, <1>2, PhaseStep DEF GateOK
<1>3. CASE UNCHANGED <<vars, scenario>>
  BY <1>3 DEF vars, GateOK
<1>4. CASE Next
  <2>0. UNCHANGED scenario /\ Step
    BY <1>4 DEF Next
  <2>1. CASE CloseOrReopen
    BY <1>2, <2>0, <2>1 DEF CloseOrReopen, rows
  <2>2. CASE Restart
    <3>1. PICK ins : Outdate(ins)
      BY <2>2 DEF Restart
    <3>. QED  BY <1>1, <2>0, <3>1 DEF Outdate
  <2>3. ASSUME NEW t \in Tasks, Release(t) PROVE GateOK'
    BY <1>1, <2>0, <2>3 DEF Release, Outdate
  <2>4. ASSUME NEW t \in Tasks,
               \/ Scheduler(t) \/ Driver(t) \/ Worker(t) \/ Ending(t) \/ Delivering(t)
               \/ Regate(t) \/ ExpireClaim(t)
        PROVE  GateOK'
    <3>1. CASE Scheduler(t) \/ ExpireClaim(t)
      BY <1>2, <2>0, <3>1 DEF Scheduler, Claim, ResumeDispatched, Submit, DriverBusy, ClaimBusy, Lock, Reconcile,
                              ExpireClaim, rows
    <3>2. CASE Driver(t)
      BY <1>2, <2>0, <2>3, <3>2 DEF Driver, Collect, Apply, Spawn, SpawnSucceeds, SpawnStuck, SpawnFails, Recover
    <3>3. CASE Worker(t)
      BY <1>2, <2>0, <2>3, <3>3 DEF Worker, Write, Report, WorkerDies, ExitRecorded, rows
    <3>4. CASE Ending(t)
      BY <1>2, <2>0, <2>3, <3>4 DEF Ending, EndRunning, Mark, Keep, CancelPending, Reap, CleanupStop,
                                    CleanupRelease, rows
    <3>5. CASE Commit(t) \/ Settle(t) \/ SettleFailed(t)
      BY <1>2, <2>0, <3>5 DEF Commit, Settle, SettleFailed
    <3>6. CASE \E p \in BOOLEAN : GateVerdict(t, p)
      <4>1. gate' \in GateType /\ gate'.red \subseteq gate.red \union {t}
        BY <1>0, <3>6 DEF GateVerdict
      <4>2. op[t].phase \notin Unstarted
        BY <3>6 DEF GateVerdict, Inv, RowsOK, RowsAgree
      <4>. QED  BY <2>0, <4>1, <4>2, PhaseStep DEF GateOK
    <3>7. CASE Regate(t)
      <4>1. gate.reruns < scenario.regates /\ gate' = [gate EXCEPT !.red = @ \ {t}, !.reruns = @ + 1]
        BY <3>7 DEF Regate
      <4>2. gate.reruns + 1 \in 0..scenario.regates
        BY <1>0, <4>1
      <4>3. gate' \in GateType /\ gate'.red = gate.red \ {t}
        BY <1>0, <4>1, <4>2
      <4>. QED  BY <2>0, <4>3, PhaseStep DEF GateOK
    <3>. QED  BY <2>4, <3>1, <3>2, <3>3, <3>4, <3>5, <3>6, <3>7 DEF Delivering
  <2>. QED
    BY <2>0, <2>1, <2>2, <2>4 DEF Step, Crash, Reboot
<1>. QED
  BY <1>3, <1>4

LEMMA InitGate == Init => GateOK
<1>1. Init => 0 \in 0..scenario.regates
  BY SchedulingAssumption DEF Init, ScenarioType
<1>. QED
  BY <1>1 DEF Init, GateOK, NoVerdicts

\* The invariant gives the property: a use of the checkout is an engagement.
LEMMA InvSafe == ASSUME Inv, GateOK PROVE CheckoutIsSafe
<1>1. TypeOK
  <2>1. /\ drive.task \in 0..N /\ drive.pc \in {"none", "collect", "apply", "spawn", "cleanup"}
        /\ drive.round \in 0..Rounds-1
    BY DEF Inv, Types, DriveType
  <2>2. \A t \in Tasks : op[t].phase \in {"none", "pending"} => lease[t] = "none" /\ worker[t] = "none"
    BY DEF Inv, RowsOK, RowsAgree, Unstarted
  <2>3. \A t \in Tasks : turn[t] = "drive" => drive.task = t
    BY DEF Inv, TurnsOK
  <2>4. gate.red \subseteq Tasks /\ gate.outdated \subseteq Tasks /\ gate.reruns \in 0..scenario.regates
    BY DEF GateOK
  <2>. QED  BY <2>1, <2>2, <2>3, <2>4 DEF Inv, Types, TypeOK, Statuses, OpType
<1>2. \A t \in Tasks : Uses(t) => Engaged(t)
  BY DEF Inv, RowsOK, RowsAgree, Uses, Engaged, Unsettled
<1>3. Writers \subseteq Tasks
  BY SchedulingAssumption DEF Writers, Inv, Types, ScenarioType
<1>4. Exclusive
  BY <1>2, <1>3 DEF Inv, Alone, Beside, Exclusive
<1>. QED
  BY <1>1, <1>4 DEF Inv, DirtyOK, CheckoutIsSafe

-----------------------------------------------------------------------------
(* When a lease is released.                                               *)

\* Nothing but the boot reclaim of a server restarted alone can release the
\* lease of a worker at work.
LEMMA OverStep ==
  ASSUME Inv, Step, ~Crash PROVE WorkerIsOver
<1> SUFFICES ASSUME NEW t \in Tasks, lease[t] = "held", lease'[t] = "released"
             PROVE  worker'[t] # "working"
  BY DEF WorkerIsOver
<1>1. RowsAgree(t, op[t].phase, status[t], lease[t], worker[t], sess[t], delivery[t])
  BY DEF Inv, RowsOK
<1>2. CASE Reboot
  BY <1>2 DEF Reboot
<1>3. CASE CloseOrReopen
  BY <1>3 DEF CloseOrReopen, rows
<1>4. ASSUME NEW u \in Tasks,
             \/ Scheduler(u) \/ Driver(u) \/ Worker(u) \/ Ending(u) \/ Delivering(u)
             \/ Regate(u) \/ ExpireClaim(u)
      PROVE  worker'[t] # "working"
  <2>1. CASE UNCHANGED lease
    BY <2>1
  <2>2. ASSUME Release(u) PROVE u = t
    BY <2>2 DEF Release, Inv, Types
  <2>3. CASE Apply(u)
    <3>1. Publish(u) \/ UNCHANGED lease
      BY <2>3 DEF Apply
    <3>. QED  BY <3>1 DEF Publish
  <2>4. CASE SpawnFails(u)
    BY <1>1, <2>2, <2>4 DEF SpawnFails, RowsAgree, Unstarted
  <2>5. CASE \E success \in BOOLEAN : Report(u, success)
    BY <2>2, <2>5 DEF Report, Inv, Types
  <2>6. CASE \E v \in {"failed", "canceled"} : EndRunning(u, v)
    BY <1>1, <2>2, <2>6 DEF EndRunning, Mark, Keep, RowsAgree
  <2>7. CASE Reap(u)
    BY <2>2, <2>7 DEF Reap
  <2>8. CASE CleanupRelease(u)
    BY <2>2, <2>8 DEF CleanupRelease, Driving, Inv, DriveOK
  <2>9. CASE ~(\/ Apply(u) \/ SpawnFails(u) \/ (\E success \in BOOLEAN : Report(u, success))
               \/ (\E v \in {"failed", "canceled"} : EndRunning(u, v)) \/ Reap(u) \/ CleanupRelease(u))
    <3>1. CASE Scheduler(u)
      BY <3>1 DEF Scheduler, Claim, ResumeDispatched, Submit, DriverBusy, ClaimBusy, Lock, Reconcile, rows
    <3>2. CASE Driver(u)
      BY <2>9, <3>2 DEF Driver, Collect, Spawn, SpawnSucceeds, SpawnStuck, Recover
    <3>3. CASE Worker(u) \/ Ending(u)
      BY <2>9, <3>3 DEF Worker, Ending, Write, WorkerDies, ExitRecorded, CancelPending, CleanupStop, rows
    <3>4. CASE Delivering(u) \/ Regate(u) \/ ExpireClaim(u)
      BY <3>4 DEF Delivering, Commit, Settle, SettleFailed, GateVerdict, Regate, ExpireClaim
    <3>. QED  BY <1>4, <3>1, <3>2, <3>3, <3>4
  <2>. QED
    BY <2>3, <2>4, <2>5, <2>6, <2>7, <2>8, <2>9
<1>. QED
  BY <1>2, <1>3, <1>4 DEF Step

\* Without a reboot before it, a restart of the server reclaims nothing.
LEMMA CrashOver ==
  ASSUME Inv, Crash, CrashOrReboot PROVE WorkerIsOver
<1>1. crashes < scenario.crashes /\ oldBoot' = oldBoot /\ Restart
  BY DEF Crash
<1>2. scenario \in Scenarios /\ scenario.crashes \in Nat /\ scenario.reboots \in Nat
      /\ crashes \in 0..scenario.crashes /\ reboots \in 0..scenario.reboots
  BY SchedulingAssumption DEF Inv, Types, ScenarioType
<1>3. scenario.crashes # 0
  BY <1>1, <1>2
<1>4. scenario.reboots = 0
  BY <1>2, <1>3 DEF CrashOrReboot
<1>5. reboots = 0
  BY <1>2, <1>4
<1>6. \A t \in Tasks : ~Reclaimable(t)
  BY <1>1, <1>5 DEF Inv, BootOK, Reclaimable
<1>7. \A t \in Tasks : lease'[t] = lease[t]
  BY <1>1, <1>6 DEF Restart
<1>. QED
  BY <1>7 DEF WorkerIsOver

-----------------------------------------------------------------------------
(* The theorems.                                                           *)

\* If leases are released only when their worker is over, then whatever is
\* deferred, canceled, reaped, delivered, gated again, crashed or rebooted, a
\* task that changes the checkout is alone in it from its first step to its
\* commit and its gate, but for a gate beside what a stuck operation left; its
\* commit takes its own changes only, and no uncommitted change is without an
\* owner that accounts for it (checkout_occupancy, checkout_admission,
\* require_checkout_startable_tx, publish_worker, regate_in_tx).
THEOREM SafeIfReleasedIsOver == Spec /\ ReleasedIsOver => []CheckoutIsSafe
<1>1. Inv /\ GateOK /\ [Next]_<<vars, scenario>> /\ [WorkerIsOver]_vars => Inv' /\ GateOK'
  <2> SUFFICES ASSUME Inv, GateOK, [Next]_<<vars, scenario>>, [WorkerIsOver]_vars PROVE Inv' /\ GateOK'
    OBVIOUS
  <2>1. Crash => crashes' # crashes
    BY SchedulingAssumption DEF Crash, Inv, Types, ScenarioType
  <2>2. Crash => WorkerIsOver
    BY <2>1 DEF vars
  <2>. QED  BY <2>2, NextInv, GateStep
<1>. QED
  BY <1>1, InitInv, InitGate, InvSafe, PTL DEF Spec, ReleasedIsOver

\* The inductive invariant holds where no scenario has both reboots and restarts
\* of the server alone.
THEOREM Invariance == ASSUME CrashOrReboot PROVE Spec => [](Inv /\ GateOK)
<1>1. Inv /\ GateOK /\ [Next]_<<vars, scenario>> => Inv' /\ GateOK'
  BY NextInv, GateStep, CrashOver
<1>. QED
  BY <1>1, InitInv, InitGate, PTL DEF Spec

\* Any number of restarts of the server, or any number of machine reboots, leave
\* the checkout safe: writers alone, deliveries pure, changes accounted for.
THEOREM CheckoutStaysSafe == ASSUME CrashOrReboot PROVE Spec => []CheckoutIsSafe
BY Invariance, InvSafe, PTL

\* And every release finds its worker over: reported, dead, never started, or
\* stopped by the cleanup (release.rs, mark_running_timeout_cleanup_tx).
THEOREM ReleasesFindNobody == ASSUME CrashOrReboot PROVE Spec => ReleasedIsOver
<1>1. Inv /\ [Next]_<<vars, scenario>> => [WorkerIsOver]_vars
  BY OverStep, CrashOver DEF Next, vars
<1>. QED
  BY <1>1, Invariance, PTL DEF Spec, ReleasedIsOver

-----------------------------------------------------------------------------
(* Ended attempts. Nothing is assumed of crashes and reboots here.         *)

StatusOK == status \in [Tasks -> Statuses]
Rerun(t) ==
  /\ status[t] = "failed" /\ status'[t] = "verifying" /\ t \in gate.red
  /\ delivery[t] = "candidate" /\ t \notin gate.outdated
  /\ \A u \in Tasks \ {t} : ~Unsettled(u)
Stays == \A t \in Tasks : status[t] \in Terminal /\ status'[t] # status[t] => Rerun(t)

LEMMA StatusStep ==
  ASSUME StatusOK, [Next]_<<vars, scenario>> PROVE StatusOK' /\ Stays
<1>0. ASSUME NEW t \in Tasks, NEW s \in Statuses, status' = [status EXCEPT ![t] = s],
             s = status[t] \/ status[t] \notin Terminal \/ Rerun(t)
      PROVE  StatusOK' /\ Stays
  BY <1>0 DEF StatusOK, Stays
<1>1. ASSUME UNCHANGED status PROVE StatusOK' /\ Stays
  BY <1>1 DEF StatusOK, Stays
<1>2. CASE UNCHANGED <<vars, scenario>>
  BY <1>1, <1>2 DEF vars
<1>3. CASE CloseOrReopen
  BY <1>1, <1>3 DEF CloseOrReopen, rows
<1>4. CASE Restart
  <2>1. status' = [t \in Tasks |-> IF Reclaimable(t) /\ status[t] \in Live THEN "failed" ELSE status[t]]
    BY <1>4 DEF Restart
  <2> HIDE DEF Reclaimable
  <2>2. \A t \in Tasks : status'[t] = status[t] \/ (status[t] \in Live /\ status'[t] = "failed")
    BY <2>1
  <2>. QED  BY <2>1, <2>2 DEF StatusOK, Stays, Statuses, Live, Terminal
<1>5. ASSUME NEW t \in Tasks,
             \/ Scheduler(t) \/ Driver(t) \/ Worker(t) \/ Ending(t) \/ Delivering(t)
             \/ Regate(t) \/ ExpireClaim(t)
      PROVE  StatusOK' /\ Stays
  <2>1. CASE Claim(t)
    BY <1>0, <2>1 DEF Claim, Admitted, Ready, Statuses, InFlight, Terminal
  <2>2. CASE Reconcile(t)
    <3>1. PICK s : /\ status' = [status EXCEPT ![t] = s]
                   /\ s = status[t] \/ (status[t] \in Live /\ s \in {"running", "failed"})
      BY <2>2 DEF Reconcile, Live
    <3>2. s \in Statuses
      BY <3>1 DEF StatusOK, Statuses, InFlight, Terminal
    <3>. QED  BY <1>0, <3>1, <3>2 DEF Live, Terminal
  <2>3. CASE \E success \in BOOLEAN : Report(t, success)
    BY <1>0, <2>3 DEF Report, Statuses, InFlight, Terminal, Live
  <2>4. CASE \E v \in {"failed", "canceled"} : EndRunning(t, v)
    BY <1>0, <2>4 DEF EndRunning, Statuses, Terminal
  <2>5. CASE CancelPending(t)
    BY <1>0, <2>5 DEF CancelPending, Statuses, Terminal
  <2>6. CASE Reap(t)
    <3>1. PICK s : /\ status' = [status EXCEPT ![t] = s]
                   /\ s = status[t] \/ (status[t] \in Live /\ s = "failed")
      BY <2>6 DEF Reap
    <3>2. s \in Statuses
      BY <3>1 DEF StatusOK, Statuses, Terminal
    <3>. QED  BY <1>0, <3>1, <3>2 DEF Live, Terminal
  <2>7. CASE SettleFailed(t)
    <3>1. PICK s : /\ status' = [status EXCEPT ![t] = s]
                   /\ s = status[t] \/ (status[t] = "verifying" /\ s = "failed")
      BY <2>7 DEF SettleFailed
    <3>2. s \in Statuses
      BY <3>1 DEF StatusOK, Statuses, Terminal
    <3>. QED  BY <1>0, <3>1, <3>2 DEF Terminal
  <2>8. CASE \E p \in BOOLEAN : GateVerdict(t, p)
    BY <1>0, <2>8 DEF GateVerdict, Statuses, Terminal
  <2>10. CASE Regate(t)
    <3>1. status' = [status EXCEPT ![t] = "verifying"] /\ Occupancy(t) = "free" /\ status'[t] = "verifying"
          /\ status[t] = "failed" /\ t \in gate.red /\ delivery[t] = "candidate" /\ t \notin gate.outdated
      BY <2>10 DEF Regate, StatusOK
    <3>2. Rerun(t)
      BY <3>1 DEF Occupancy, Rerun
    <3>. QED  BY <1>0, <3>1, <3>2 DEF Statuses, InFlight
  <2>9. CASE ~(\/ Claim(t) \/ Reconcile(t) \/ (\E success \in BOOLEAN : Report(t, success))
               \/ (\E v \in {"failed", "canceled"} : EndRunning(t, v)) \/ CancelPending(t) \/ Reap(t)
               \/ SettleFailed(t) \/ (\E p \in BOOLEAN : GateVerdict(t, p)) \/ Regate(t))
    <3>1. CASE Scheduler(t) \/ ExpireClaim(t)
      BY <1>1, <2>9, <3>1 DEF Scheduler, ResumeDispatched, Submit, DriverBusy, ClaimBusy, Lock, ExpireClaim, rows
    <3>2. CASE Driver(t)
      BY <1>1, <3>2 DEF Driver, Collect, Apply, Spawn, SpawnSucceeds, SpawnStuck, SpawnFails, Recover
    <3>3. CASE Worker(t) \/ Ending(t)
      BY <1>1, <2>9, <3>3 DEF Worker, Ending, Write, WorkerDies, ExitRecorded, CleanupStop, CleanupRelease, rows
    <3>4. CASE Delivering(t)
      BY <1>1, <2>9, <3>4 DEF Delivering, Commit, Settle
    <3>. QED  BY <1>5, <2>9, <3>1, <3>2, <3>3, <3>4
  <2>. QED
    BY <2>1, <2>2, <2>3, <2>4, <2>5, <2>6, <2>7, <2>8, <2>9, <2>10
<1>. QED
  BY <1>2, <1>3, <1>4, <1>5 DEF Next, Step, Crash, Reboot

\* An attempt that ended stays as it ended: no late report, running stamp,
\* settlement, reaper or boot reclaim moves its row again (the guarded updates
\* of reconcile_spawn_result, task_fail_from_worker_tx and settle_tx). Only a
\* gate re-run does, from failed to verifying, of a task its gate failed, whose
\* candidate is the newest delivery, with no other delivery open (regate_in_tx,
\* task_regate_tx).
THEOREM EndedStaysEnded == Spec => FinalStatus
<1>1. Init => StatusOK
  BY DEF Init, StatusOK, Statuses
<1>2. StatusOK /\ [Next]_<<vars, scenario>> => StatusOK' /\ [Stays]_vars
  BY StatusStep
<1>. QED
  BY <1>1, <1>2, PTL DEF Spec, FinalStatus, Stays, Rerun

=============================================================================
