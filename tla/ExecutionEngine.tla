--------------------------- MODULE ExecutionEngine ---------------------------
(***************************************************************************)
(* The execution engine (workspace-runtime/src/execution/engine.rs): one   *)
(* driver task per execution that moves the supervisor's executor towards  *)
(* the desire committed in SQLite, and copies the executor's evidence back.*)
(* One execution is modelled: executions share only the change generation, *)
(* and a change of another one is a spurious wake.                         *)
(*                                                                         *)
(*   stored   the workspace_executions row (execution_store.rs)            *)
(*   run      the driver task, there while the engine has a Slot for it:   *)
(*            pc and its snapshots of the row and of the executor's fact   *)
(*   dirty, permit   the Slot's mark and the Notify permit made with it    *)
(*   moved    the change generation differs from the driver's snapshot     *)
(*   watching, restart   the Watch stream (session_executor.rs)            *)
(*   exec     the executor's journal of this execution, on Linux           *)
(*            (calm-proc-supervisor/src/execution)                         *)
(*   undriven a request is committed and its drive call is still to come   *)
(*   failed   the errors entry: the driver gave up with an error           *)
(***************************************************************************)
EXTENDS Naturals

CONSTANT MaxEngineFaults   \* bound: lost replies, store errors, restarts, crashes

ASSUME EngineAssumption == MaxEngineFaults \in Nat

VARIABLES
  stored, run, dirty, permit, moved, watching, restart, exec, undriven, failed, engineFaults

engineVars == <<stored, run, dirty, permit, moved, watching, restart, exec, undriven,
          failed, engineFaults>>

\* ExecutionState::permits_handoff: positive evidence that nothing runs.
Quiescent == {"revoked", "nochild", "drained", "interrupted"}

Facts == Quiescent \cup {"absent", "prepared", "forking", "spawned", "exited",
                         "unknown", "retired"}

Desires == {"run", "stop", "retire"}
Rank == [d \in Desires |-> CASE d = "run" -> 0 [] d = "stop" -> 1 [] OTHER -> 2]

Settlements == Quiescent \cup {"none", "retired"}

IdleRun == [pc |-> "none", desired |-> "run", settlement |-> "none",
            fact |-> "absent"]

\* The executor's journal entry: its fact, the process it can look up (by
\* native handle, or only by the receipt), its output, a Stop sent to it and
\* the original group of an interrupted execution.
Journal == [fact    : Facts,
            process : {"none", "handle", "receipt"},
            output  : {"closed", "open"},
            control : {"none", "stop"},
            group   : {"there", "gone"}]

EngineTypeOK ==
  /\ stored \in [status : {"none", "active", "finished"}, desired : Desires,
                 settlement : Settlements]
  /\ run \in [pc : {"none", "top", "load", "watch", "reload", "inspect", "act",
                    "finish", "retire", "wait", "recheck", "park"},
              desired : Desires, settlement : Settlements, fact : Facts]
  /\ dirty \in BOOLEAN /\ permit \in BOOLEAN /\ moved \in BOOLEAN
  /\ watching \in BOOLEAN /\ restart \in BOOLEAN
  /\ exec \in Journal
  /\ undriven \in BOOLEAN /\ failed \in BOOLEAN
  /\ engineFaults \in 0 .. MaxEngineFaults

EngineInit ==
  /\ stored = [status |-> "none", desired |-> "run", settlement |-> "none"]
  /\ run = IdleRun
  /\ dirty = FALSE /\ permit = FALSE /\ moved = FALSE
  /\ watching = FALSE /\ restart = FALSE
  /\ exec = [fact |-> "absent", process |-> "none", output |-> "closed",
             control |-> "none", group |-> "there"]
  /\ undriven = FALSE /\ failed = FALSE
  /\ engineFaults = 0

EngineFault == engineFaults < MaxEngineFaults /\ engineFaults' = engineFaults + 1

-----------------------------------------------------------------------------
(* Callers: requests are committed in the caller's transaction, the drive  *)
(* call comes after the commit.                                            *)

CallerOnly == UNCHANGED <<watching, restart, exec, engineFaults>>

Admit ==
  /\ stored.status = "none"
  /\ stored' = [stored EXCEPT !.status = "active"]
  /\ undriven' = TRUE
  /\ UNCHANGED <<run, dirty, permit, moved, failed>> /\ CallerOnly

\* request: the row keeps the stronger of the two desires.
RequestOverwrites(d) ==
  /\ stored.status # "none"
  /\ stored' = [stored EXCEPT !.desired = d]
  /\ undriven' = TRUE
  /\ UNCHANGED <<run, dirty, permit, moved, failed>> /\ CallerOnly
Request(d) ==
  /\ stored.status # "none"
  /\ stored' = [stored EXCEPT !.desired = IF Rank[d] > Rank[@] THEN d ELSE @]
  /\ undriven' = TRUE
  /\ UNCHANGED <<run, dirty, permit, moved, failed>> /\ CallerOnly

\* drive: mark the live slot dirty and wake its driver, or start a driver.
Drive ==
  IF run.pc # "none"
    THEN dirty' = TRUE /\ permit' = TRUE /\ UNCHANGED <<run, moved>>
    ELSE /\ run' = [IdleRun EXCEPT !.pc = "top"]
         /\ dirty' = FALSE /\ permit' = FALSE /\ moved' = FALSE

DriveCommitted ==
  /\ undriven
  /\ Drive
  /\ undriven' = FALSE
  /\ UNCHANGED <<stored, failed>> /\ CallerOnly

\* pending: unsettled, or to be retired and still holding its secrets.
PendingUnsettled ==
  stored.status = "active" /\ stored.settlement = "none"
Pending ==
  /\ stored.status = "active"
  /\ stored.settlement = "none" \/ stored.desired = "retire"

\* The periodic recovery pass of execution_boot.rs.
RecoverTick ==
  /\ Pending
  /\ Drive
  /\ UNCHANGED <<stored, undriven, failed>> /\ CallerOnly

-----------------------------------------------------------------------------
(* The driver task.                                                        *)

RunOnly == UNCHANGED <<watching, undriven>>

Goto(pc) == run' = [run EXCEPT !.pc = pc]

\* The task ends and its slot goes with it.
Gone == run' = IdleRun /\ dirty' = FALSE /\ permit' = FALSE /\ moved' = FALSE

\* next_step.
NextStepEager(desired, fact) ==
  CASE fact = "absent"   -> IF desired = "run" THEN "Prepare" ELSE "Revoke"
    [] fact = "retired"  -> "Finish"
    [] fact = "prepared" -> IF desired = "run" THEN "Launch" ELSE "Revoke"
    [] fact \in {"forking", "spawned"} ->
         IF desired = "run" THEN "Wait" ELSE "Stop"
    [] fact = "unknown"  -> "Wait"
    [] OTHER             -> "Settle"
NextStep(desired, fact) ==
  CASE fact = "absent"   -> IF desired = "run" THEN "Prepare" ELSE "Revoke"
    [] fact = "retired"  -> "Finish"
    [] fact = "prepared" -> IF desired = "run" THEN "Launch" ELSE "Revoke"
    [] fact \in {"forking", "spawned", "exited"} ->
         IF desired = "run" THEN "Wait" ELSE "Stop"
    [] fact = "unknown"  -> "Wait"
    [] OTHER             -> "Settle"

\* run: a new round forgets the dirty mark and the last error.
RunTop ==
  /\ run.pc = "top"
  /\ dirty' = FALSE
  /\ failed' = FALSE
  /\ Goto("load")
  /\ UNCHANGED <<stored, permit, moved, restart, exec, engineFaults>> /\ RunOnly

CycleLoad ==
  /\ run.pc = "load"
  /\ Goto(IF stored.status = "active" THEN "watch" ELSE "park")
  /\ UNCHANGED <<stored, dirty, permit, moved, restart, exec, failed, engineFaults>> /\ RunOnly

\* The generation is taken before the row and the fact are read.
CycleWatch ==
  /\ run.pc = "watch" /\ watching
  /\ Goto("reload")
  /\ moved' = FALSE
  /\ UNCHANGED <<stored, dirty, permit, restart, exec, failed, engineFaults>> /\ RunOnly

CycleReload ==
  /\ run.pc = "reload"
  /\ run' = IF stored.status = "active"
              THEN [run EXCEPT !.pc = "inspect", !.desired = stored.desired,
                               !.settlement = stored.settlement]
              ELSE [run EXCEPT !.pc = "park"]
  /\ UNCHANGED <<stored, dirty, permit, moved, restart, exec, failed, engineFaults>> /\ RunOnly

\* Inspect first reconciles an interrupted execution (reconcile_interrupted).
Reconciled(e) ==
  IF e.fact = "unknown" /\ e.process = "receipt" /\ e.group = "gone"
    THEN [e EXCEPT !.fact = "interrupted"] ELSE e

CycleInspect ==
  /\ run.pc = "inspect"
  /\ exec' = Reconciled(exec)
  /\ run' = [run EXCEPT !.pc = "act", !.fact = Reconciled(exec).fact]
  /\ moved' = (moved \/ (watching /\ exec' # exec))
  /\ UNCHANGED <<stored, dirty, permit, restart, failed, engineFaults>> /\ RunOnly

\* A reply that never comes restarts Watch and makes the driver wait.
InspectLost ==
  /\ EngineFault
  /\ run.pc = "inspect"
  /\ restart' = TRUE
  /\ Goto("wait")
  /\ UNCHANGED <<stored, dirty, permit, moved, exec, failed>> /\ RunOnly

\* What a command does to the journal; a replay of an old one does nothing.  A
\* Reserved record is reported as prepared, and the NoChild it settles as is
\* "revoked" here: the engine treats the two alike.
Prepared(e) == IF e.fact = "absent" THEN [e EXCEPT !.fact = "prepared"] ELSE e
Launched(e) == IF e.fact = "prepared" THEN [e EXCEPT !.fact = "forking"] ELSE e
Revoked(e) ==
  CASE e.fact = "absent" -> [e EXCEPT !.fact = "retired"]
    [] e.fact = "prepared" -> [e EXCEPT !.fact = "revoked"]
    [] OTHER -> e
Stopped(e) ==
  IF e.fact \in {"spawned", "exited"} THEN [e EXCEPT !.control = "stop"] ELSE e
Retired(e) ==
  IF e.fact \in Quiescent /\ e.output = "closed" THEN [e EXCEPT !.fact = "retired"] ELSE e

\* A command was executed; its change is broadcast like any other.
Commanded(e, pc) ==
  /\ exec' = e
  /\ Goto(pc)
  /\ moved' = (moved \/ (watching /\ e # exec))

Step == NextStep(run.desired, run.fact)

\* Prepare, Launch and Revoke: a refused admission is revoked instead.
ActCommand ==
  /\ run.pc = "act" /\ Step \in {"Prepare", "Launch", "Revoke"}
  /\ \/ Step = "Prepare" /\ Commanded(Prepared(exec), "top")
     \/ Step = "Launch" /\ Commanded(Launched(exec), "top")
     \/ Commanded(Revoked(exec), "top")
  /\ UNCHANGED <<stored, dirty, permit, restart, failed, engineFaults>> /\ RunOnly

\* A child without a receipt yet cannot be stopped, only waited for.
ActStop ==
  /\ run.pc = "act" /\ Step = "Stop"
  /\ Commanded(IF run.fact = "forking" THEN exec ELSE Stopped(exec), "wait")
  /\ UNCHANGED <<stored, dirty, permit, restart, failed, engineFaults>> /\ RunOnly

ActWaitLateSnapshot ==
  /\ run.pc = "act" /\ Step = "Wait"
  /\ Goto(IF run.fact = "unknown" THEN "recheck" ELSE "wait")
  /\ moved' = FALSE
  /\ UNCHANGED <<stored, dirty, permit, restart, exec, failed, engineFaults>> /\ RunOnly
ActWait ==
  /\ run.pc = "act" /\ Step = "Wait"
  /\ Goto(IF run.fact = "unknown" THEN "recheck" ELSE "wait")
  /\ UNCHANGED <<stored, dirty, permit, moved, restart, exec, failed, engineFaults>> /\ RunOnly

\* settle keeps the first settlement (settled_at_ms IS NULL).
ActSettleFinishes ==
  /\ run.pc = "act" /\ Step \in {"Settle", "Finish"}
  /\ stored' = IF run.settlement = "none" /\ stored.settlement = "none"
                 THEN [stored EXCEPT !.settlement = run.fact] ELSE stored
  /\ Goto(IF run.desired = "retire" THEN "finish" ELSE "park")
  /\ UNCHANGED <<dirty, permit, moved, restart, exec, failed, engineFaults>> /\ RunOnly
ActSettle ==
  /\ run.pc = "act" /\ Step \in {"Settle", "Finish"}
  /\ stored' = IF run.settlement = "none" /\ stored.settlement = "none"
                 THEN [stored EXCEPT !.settlement = run.fact] ELSE stored
  /\ Goto(IF Step = "Finish" THEN "finish"
          ELSE IF run.desired = "retire" THEN "retire" ELSE "park")
  /\ UNCHANGED <<dirty, permit, moved, restart, exec, failed, engineFaults>> /\ RunOnly

\* finish: the secrets go, the row stays.
ActFinish ==
  /\ run.pc = "finish"
  /\ stored' = [stored EXCEPT !.status = "finished"]
  /\ Goto("park")
  /\ UNCHANGED <<dirty, permit, moved, restart, exec, failed, engineFaults>> /\ RunOnly

\* retire is Busy while output is open.
ActRetire ==
  /\ run.pc = "retire"
  /\ Commanded(Retired(exec), IF exec.output = "open" THEN "wait" ELSE "top")
  /\ UNCHANGED <<stored, dirty, permit, restart, failed, engineFaults>> /\ RunOnly

\* The reply of a command is lost, the command itself may have been executed.
ReplyLost ==
  /\ EngineFault
  /\ \/ /\ run.pc = "act" /\ Step \in {"Prepare", "Launch", "Revoke", "Stop"}
        /\ \E e \in {exec, IF Step = "Prepare" THEN Prepared(exec)
                           ELSE IF Step = "Launch" THEN Launched(exec)
                           ELSE IF Step = "Revoke" THEN Revoked(exec)
                           ELSE IF run.fact = "forking" THEN exec ELSE Stopped(exec)} :
             Commanded(e, "wait")
     \/ /\ run.pc = "retire"
        /\ \E e \in {exec, Retired(exec)} : Commanded(e, "wait")
  /\ restart' = TRUE
  /\ UNCHANGED <<stored, dirty, permit, failed>> /\ RunOnly

\* A store call fails, or the executor refuses: the driver gives up.
StepFails ==
  /\ EngineFault
  /\ run.pc \in {"load", "reload", "inspect", "act", "finish", "retire"}
  /\ failed' = TRUE
  /\ Goto("park")
  /\ UNCHANGED <<stored, dirty, permit, moved, restart, exec>> /\ RunOnly

\* wait: the generation moved, or drive left a permit.
WaitNoPermit ==
  /\ run.pc \in {"wait", "recheck"}
  /\ moved
  /\ Goto("top")
  /\ UNCHANGED <<stored, dirty, permit, moved, restart, exec, failed, engineFaults>> /\ RunOnly
Wait ==
  /\ run.pc \in {"wait", "recheck"}
  /\ \/ moved /\ permit' = permit
     \/ permit /\ permit' = FALSE
  /\ Goto("top")
  /\ UNCHANGED <<stored, dirty, moved, restart, exec, failed, engineFaults>> /\ RunOnly

\* UNKNOWN_RECHECK: an interrupted process may vanish without a change.
Recheck ==
  /\ run.pc = "recheck"
  /\ Goto("top")
  /\ UNCHANGED <<stored, dirty, permit, moved, restart, exec, failed, engineFaults>> /\ RunOnly

\* The park handshake: dirty is tested and the slot removed under one lock.
ParkForgetsDirty ==
  /\ run.pc = "park"
  /\ Gone
  /\ UNCHANGED <<stored, restart, exec, failed, engineFaults>> /\ RunOnly
Park ==
  /\ run.pc = "park"
  /\ IF dirty THEN Goto("top") /\ UNCHANGED <<dirty, permit, moved>> ELSE Gone
  /\ UNCHANGED <<stored, restart, exec, failed, engineFaults>> /\ RunOnly

-----------------------------------------------------------------------------
(* The executor, and the Watch stream that carries its changes.            *)

\* A change of the journal reaches the generation while Watch is connected.
Changed(e) ==
  /\ exec' = e
  /\ moved' = (moved \/ watching)
  /\ UNCHANGED <<stored, run, dirty, permit, watching, restart, undriven, failed>>

ForkDone ==
  /\ exec.fact = "forking"
  /\ \/ Changed([exec EXCEPT !.fact = "spawned", !.process = "handle",
                             !.output = "open"])
     \/ Changed([exec EXCEPT !.fact = "nochild"])
  /\ UNCHANGED engineFaults

\* A fork of unknown result, or a report stream that ends without drain proof.
ScopeLost ==
  /\ EngineFault
  /\ exec.fact \in {"forking", "spawned", "exited"}
  /\ Changed([exec EXCEPT !.fact = "unknown"])

LeaderExits ==
  /\ exec.fact = "spawned"
  /\ Changed([exec EXCEPT !.fact = "exited"])
  /\ UNCHANGED engineFaults

\* Descendants leave by themselves after the leader, or because of Stop.
Drains ==
  /\ exec.fact = "exited" \/ (exec.fact = "spawned" /\ exec.control = "stop")
  /\ Changed([exec EXCEPT !.fact = "drained"])
  /\ UNCHANGED engineFaults

\* The reader reached its end and the log was synced; while the writer is held
\* elsewhere, or after a failed write of the record, this never comes.
OutputEnds ==
  /\ exec.fact = "drained" /\ exec.output = "open"
  /\ Changed([exec EXCEPT !.output = "closed"])
  /\ UNCHANGED engineFaults

\* The original group of an interrupted execution vanishes; nobody is told.
OriginalGone ==
  /\ exec.fact = "unknown" /\ exec.group = "there"
  /\ exec' = [exec EXCEPT !.group = "gone"]
  /\ UNCHANGED <<stored, run, dirty, permit, moved, watching, restart, undriven, failed, engineFaults>>

\* Executor::open on the journal of the previous executor, same host boot.
ExecRestart ==
  /\ EngineFault
  /\ exec' = [exec EXCEPT
       !.fact = CASE @ = "prepared" -> "revoked"
                  [] @ \in {"forking", "spawned", "exited"} -> "unknown"
                  [] OTHER -> @,
       !.process = IF @ = "none" THEN "none" ELSE "receipt",
       !.output = "closed", !.control = "none"]
  /\ watching' = FALSE
  /\ moved' = TRUE
  /\ UNCHANGED <<stored, run, dirty, permit, restart, undriven, failed>>

\* Losing Watch wakes every waiter, and so does being back.
WatchLost ==
  /\ watching
  /\ watching' = FALSE
  /\ restart' = FALSE
  /\ moved' = TRUE
  /\ UNCHANGED <<stored, run, dirty, permit, exec, undriven, failed>>

WatchRestart == restart /\ WatchLost /\ UNCHANGED engineFaults
WatchBreaks == EngineFault /\ WatchLost

WatchBack ==
  /\ ~watching
  /\ watching' = TRUE
  /\ moved' = TRUE
  /\ UNCHANGED <<stored, run, dirty, permit, restart, exec, undriven, failed, engineFaults>>

\* The server dies; the next one recovers what is pending.
ServerCrash ==
  /\ EngineFault
  /\ Gone
  /\ watching' = FALSE /\ restart' = FALSE /\ failed' = FALSE
  /\ undriven' = Pending
  /\ UNCHANGED <<stored, exec>>

\* The host reboots: a formerly possible child cannot have survived.
HostReboot ==
  /\ EngineFault
  /\ exec' = [exec EXCEPT
       !.fact = IF @ \in Quiescent \cup {"absent", "retired"} THEN @ ELSE "nochild",
       !.process = IF @ = "none" THEN "none" ELSE "receipt",
       !.output = "closed", !.control = "none"]
  /\ Gone
  /\ watching' = FALSE /\ restart' = FALSE /\ failed' = FALSE
  /\ undriven' = Pending
  /\ UNCHANGED stored

-----------------------------------------------------------------------------
DriverStep ==
  \/ RunTop \/ CycleLoad \/ CycleWatch \/ CycleReload \/ CycleInspect
  \/ ActCommand \/ ActStop \/ ActWait \/ ActSettle \/ ActFinish \/ ActRetire
  \/ Wait \/ Park

EngineNext ==
  \/ Admit \/ DriveCommitted \/ RecoverTick
  \/ \E d \in Desires : Request(d)
  \/ DriverStep \/ Recheck
  \/ InspectLost \/ ReplyLost \/ StepFails
  \/ ForkDone \/ ScopeLost \/ LeaderExits \/ Drains \/ OutputEnds
  \/ OriginalGone \/ ExecRestart
  \/ WatchRestart \/ WatchBreaks \/ WatchBack
  \/ ServerCrash \/ HostReboot

EngineSpec == EngineInit /\ [][EngineNext]_engineVars

-----------------------------------------------------------------------------
(* Safety.                                                                 *)

\* A settlement in the database is the executor's own positive evidence, and
\* it stays true: nothing runs, or can be launched, for a settled execution.
SettlementIsEvidence ==
  stored.settlement # "none" => exec.fact \in Quiescent \cup {"retired"}

\* Secrets are dropped only behind the executor's tombstone and a settlement:
\* before that somebody could still have to stop the process with them.
FinishedIsRetired ==
  stored.status = "finished" => exec.fact = "retired" /\ stored.settlement # "none"

\* No request is forgotten: with no driver, no drive call to come and no
\* recorded error, the row wants nothing more (the park handshake).
NothingForgotten ==
  run.pc = "none" /\ ~undriven /\ ~failed => ~Pending

\* No wake is lost: a sleeping driver whose generation has not moved and that
\* has no permit went to sleep on what is still the executor's fact and, unless
\* a drive call is to come, on what is still the row's desire.
SleepIsCurrent ==
  run.pc = "wait" /\ ~moved /\ ~permit /\ ~restart =>
    /\ run.fact = exec.fact
    /\ undriven \/ run.desired = stored.desired

\* A stronger desire is never weakened by a later, weaker request.
DesireGrows ==
  [][stored.status # "none" => Rank[stored'.desired] >= Rank[stored.desired]]_engineVars

-----------------------------------------------------------------------------
(* Liveness.  Tasks run, the Watch loop reconnects every 50 ms, the kernel *)
(* finishes forks, and what Stop was sent to is ended by TERM and then     *)
(* KILL.  Nothing is assumed of a process nobody stops, of the group of an *)
(* interrupted execution, which nobody signals, or of the end of output.   *)
(* The periodic recovery is left out: a property that needs it says so     *)
(* (Recovered), the others hold by notifications alone.                    *)
EngineLiveSpec ==
  /\ EngineSpec
  /\ WF_engineVars(DriverStep) /\ WF_engineVars(Recheck) /\ WF_engineVars(DriveCommitted)
  /\ WF_engineVars(WatchRestart) /\ WF_engineVars(WatchBack)
  /\ WF_engineVars(ForkDone) /\ WF_engineVars(exec.control = "stop" /\ Drains)

\* The recovery tick comes for as long as the server runs.
Recovered == WF_engineVars(RecoverTick)

\* Unknown for good, in this executor's life: no receipt to look the process
\* up by, or its native handle still registered.
Lost == exec.fact = "unknown" /\ exec.process # "receipt"

\* The original group of an interrupted execution is still there.  It may stay
\* until the host reboots: the executor only looks whether it is empty.
Survives == exec.fact = "unknown" /\ exec.group = "there"

\* The end of the output is not recorded: somebody else holds its writer, or
\* the record of its end could not be written.  Only a restart closes it then.
OutputOpen == exec.fact \in Quiescent /\ exec.output = "open"

\* A committed Stop or Retire is carried through to a settlement, unless the
\* driver failed with an error, the scope is lost, or an interrupted group
\* survives for ever: no tick is needed.
StopSettles ==
  ~ <>[]Survives =>
    (stored.status # "none" /\ stored.desired # "run" ~>
      (stored.settlement # "none" \/ Lost \/ failed))

\* With the periodic recovery an error delays a Retire but never loses it: the
\* row is finished in the end, if interrupted groups and open outputs end.
RetireFinishes ==
  Recovered /\ ~ <>[]Survives /\ ~ <>[]OutputOpen =>
    (stored.status # "none" /\ stored.desired = "retire" ~>
      (stored.status = "finished" \/ Lost))

\* Settlement and secrets follow the executor's evidence (settle, finish).
SettlementIsSound == EngineTypeOK /\ SettlementIsEvidence /\ FinishedIsRetired

\* Neither a request nor a change is lost between a driver that reads, waits or
\* parks and those who wake it (drive, the change generation, the park handshake).
NoWakeLost == NothingForgotten /\ SleepIsCurrent
=============================================================================
