--------------------------- MODULE OwnedExecution ---------------------------
(***************************************************************************)
(* An operation that owns its parked execution: the terminal worker        *)
(* (operation/terminal_adapter/pipe_worker.rs) over the op-owned Pipe      *)
(* record (operation/owned_execution.rs, owned_execution/pipe.rs,          *)
(* pipe/disposal.rs) and the shared completion (operation/owned_parked.rs).*)
(* One operation is modelled from spawn_started on.                        *)
(*                                                                         *)
(*   row      its row; rec is the Pipe record of tx_output_json            *)
(*   spawner  the drive turn that runs spawn_pipe and parks the row        *)
(*   rc       reconcilers of the parked row: its observer, the sweep (also *)
(*            boot's VerifyParked) and the disposal's finish               *)
(*   eng      the execution as its owner sees it, engine and executor      *)
(*            together (module ExecutionEngine is the detailed account)    *)
(*   task     the scheduler's task behind the worker                       *)
(*   obs      the observer task is alive                                   *)
(*   boot     what recovery planned for the row after a restart            *)
(***************************************************************************)
EXTENDS OperationRow

CONSTANTS
  Workers,     \* reconcilers: {"observer", "sweep", "finish"}
  NoRun,       \* spawner with no claim in hand
  MaxFaults    \* bound: crashes, dropped tasks, slow claimants, lost transport

VARIABLES row, spawner, rc, eng, task, obs, boot, faults

vars == <<row, spawner, rc, eng, task, obs, boot, faults>>

Releases == {"held", "releasing", "released"}
Decisions == {"observing", "disposed", "refused"}
Records == [release : Releases, decision : Decisions]

ASSUME OwnedAssumption ==
  /\ Workers = {"observer", "sweep", "finish"}
  /\ MaxFaults \in Nat
  /\ NoRec \notin Records

Fresh == [release |-> "held", decision |-> "observing"]

IdleRc == [pc |-> "idle", owner |-> NoOwner, rec |-> NoRec, latest |-> NoRec, boot |-> FALSE]

TypeOK ==
  /\ row \in RowType(Records)
  /\ spawner \in [pc : {"admit", "card", "park", "fail"}, owner : Tokens,
                  rec : Records \cup {NoRec}] \cup {NoRun}
  /\ rc \in [Workers ->
       [pc : {"idle", "act", "send", "ack", "retry", "stop", "refresh", "sample",
              "drain", "complete", "ok"},
        owner : Tokens \cup {NoOwner}, rec : Records \cup {NoRec},
        latest : Records \cup {NoRec}, boot : BOOLEAN]]
  /\ eng \in [state : {"none", "admitted", "spawned", "exited", "settled"},
              desired : {"run", "stop", "retire"}, status : BOOLEAN,
              admits : Nat, tokens : Nat]
  /\ task \in {"open", "cancelled", "verdict", "failed"}
  /\ obs \in BOOLEAN
  /\ boot \in {"none", "recover", "verify"}
  /\ faults \in 0 .. MaxFaults

\* The row after its preparation and phases before the spawn.
Init ==
  /\ row = EnterPhase(NewRow("driver"), "spawn_started")
  /\ spawner = NoRun
  /\ rc = [w \in Workers |-> IdleRc]
  /\ eng = [state |-> "none", desired |-> "run", status |-> FALSE, admits |-> 0, tokens |-> 0]
  /\ task = "open"
  /\ obs = FALSE
  /\ boot = "none"
  /\ faults = 0

-----------------------------------------------------------------------------
InUse == {row.owner} \cup {rc[w].owner : w \in Workers}
           \cup (IF spawner = NoRun THEN {} ELSE {spawner.owner})
HasNewId == \E t \in Tokens : t \notin InUse
NewId == CHOOSE t \in Tokens : t \notin InUse

Holds(w) == rc[w].pc # "idle" /\ rc[w].owner = row.owner
Held ==
  \/ \E w \in Workers : Holds(w)
  \/ spawner # NoRun /\ spawner.owner = row.owner

SpawnLive == LiveClaim(row, [phase |-> "spawn_started", owner |-> spawner.owner])
ParkLive(w) == LiveClaim(row, [phase |-> "parked", owner |-> rc[w].owner])

\* request: the stronger desire stays; the engine carries it out.
Wanted(e, d) == IF e.desired = "retire" THEN e ELSE [e EXCEPT !.desired = d]

\* insert and compare_exchange of the owner record: the whole record is compared.
CasBlind(old) == TRUE
Cas(old) == row.rec = old
WithRec(new) == row' = [row EXCEPT !.rec = new]

-----------------------------------------------------------------------------
(* spawn_pipe under the drive mutex.                                       *)

SpawnerOnly == UNCHANGED <<rc, task, faults>>

SpawnClaim ==
  /\ spawner = NoRun /\ row.phase = "spawn_started" /\ Drivable(row) /\ HasNewId
  /\ row' = Leased(row, NewId)
  /\ spawner' = [pc |-> "admit", owner |-> NewId, rec |-> row.rec]
  /\ UNCHANGED <<eng, obs, boot>> /\ SpawnerOnly

\* RecoveryItem::Recover.
BootSpawn ==
  /\ spawner = NoRun /\ boot = "recover" /\ HasNewId
  /\ boot' = "none"
  /\ IF BootDrivable(row)
       THEN /\ row' = Leased(row, NewId)
            /\ spawner' = [pc |-> "admit", owner |-> NewId, rec |-> row.rec]
       ELSE UNCHANGED <<row, spawner>>
  /\ UNCHANGED <<eng, obs>> /\ SpawnerOnly

\* admit: a row whose record is already there re-attaches to its execution;
\* otherwise execution and record are inserted in one claimed transaction.
SpawnAdmit ==
  /\ spawner # NoRun /\ spawner.pc = "admit"
  /\ IF spawner.rec # NoRec
       THEN /\ spawner' = [spawner EXCEPT !.pc = "card"]
            /\ UNCHANGED <<row, eng>>
       ELSE \/ /\ SpawnLive /\ task = "open" /\ Cas(NoRec)
               /\ WithRec(Fresh)
               /\ eng' = [eng EXCEPT !.state = "admitted", !.admits = @ + 1]
               /\ spawner' = [spawner EXCEPT !.pc = "card"]
            \/ /\ spawner' = [spawner EXCEPT !.pc = "fail"]
               /\ UNCHANGED <<row, eng>>
  /\ UNCHANGED <<obs, boot>> /\ SpawnerOnly

\* log_terminal_worker_card_added.
SpawnCard ==
  /\ spawner # NoRun /\ spawner.pc = "card"
  /\ \E pc \in {"park", "fail"} : spawner' = [spawner EXCEPT !.pc = pc]
  /\ UNCHANGED <<row, eng, obs, boot>> /\ SpawnerOnly

\* set_parked, then the observer is spawned.
SpawnPark ==
  /\ spawner # NoRun /\ spawner.pc = "park"
  /\ LET parks == SpawnLive /\ Retained(row)
     IN  /\ row' = IF parks THEN EnterParked(row) ELSE row
         /\ obs' = (obs \/ parks)
  /\ spawner' = NoRun
  /\ UNCHANGED <<eng, boot>> /\ SpawnerOnly

\* fail_with_compensation: refused while the row owns an execution, and the
\* drive is retried after the lease.
SpawnFailAbandons ==
  /\ spawner # NoRun /\ spawner.pc = "fail"
  /\ row' = IF SpawnLive THEN EnterCompensating(row) ELSE row
  /\ spawner' = NoRun
  /\ UNCHANGED <<eng, obs, boot>> /\ SpawnerOnly
SpawnFail ==
  /\ spawner # NoRun /\ spawner.pc = "fail"
  /\ row' = IF SpawnLive /\ ~Retained(row) THEN EnterCompensating(row) ELSE row
  /\ spawner' = NoRun
  /\ UNCHANGED <<eng, obs, boot>> /\ SpawnerOnly

-----------------------------------------------------------------------------
(* reconcile: who claims the parked row, and when.                         *)

\* pipe_recovery_ready and execution_ready.
ReadyUnsettled ==
  \/ row.rec.decision = "observing" /\ row.rec.release \in {"held", "releasing"}
  \/ eng.desired = "run" /\ eng.state = "exited"
Ready ==
  \/ row.rec.decision = "observing" /\ row.rec.release \in {"held", "releasing"}
  \/ eng.state = "settled"
  \/ eng.desired = "run" /\ eng.state = "exited"

Begin(w, boots) ==
  /\ rc[w].pc = "idle" /\ HasNewId
  /\ ParkedClaimable(row, boots)
  /\ row' = Leased(row, NewId)
  /\ rc' = [rc EXCEPT ![w] = [IdleRc EXCEPT !.pc = "act", !.owner = NewId,
                                            !.rec = row.rec, !.boot = boots]]

\* observe_pipe: one round of the loop.
ObserverClaims ==
  /\ obs /\ row.phase = "parked" /\ Ready
  /\ Begin("observer", FALSE)
  /\ UNCHANGED <<spawner, eng, task, obs, boot, faults>>

ObserverEnds ==
  /\ obs /\ rc["observer"].pc = "idle" /\ Settled(row)
  /\ obs' = FALSE
  /\ UNCHANGED <<row, spawner, rc, eng, task, boot, faults>>

\* The steady sweep; a transport it cannot reach counts as eligible.
SweepClaims ==
  /\ row.phase = "parked"
  /\ IF Ready THEN faults' = faults ELSE faults < MaxFaults /\ faults' = faults + 1
  /\ Begin("sweep", FALSE)
  /\ UNCHANGED <<spawner, eng, task, obs, boot>>

\* VerifyParked at boot ignores the dead process's lease and resumes the
\* observer (recover_pipe in Boot mode).
BootClaims ==
  /\ boot = "verify" /\ row.phase = "parked"
  /\ Begin("sweep", TRUE)
  /\ obs' = TRUE
  /\ boot' = "none"
  /\ UNCHANGED <<spawner, eng, task, faults>>

BootSkips ==
  /\ boot = "verify" /\ row.phase # "parked"
  /\ boot' = "none"
  /\ UNCHANGED <<row, spawner, rc, eng, task, obs, faults>>

\* DisposalOwner::finish, called until the owner has settled.
FinishClaims ==
  /\ row.phase = "parked" /\ row.rec.decision = "disposed"
  /\ Begin("finish", FALSE)
  /\ UNCHANGED <<spawner, eng, task, obs, boot, faults>>

-----------------------------------------------------------------------------
(* recover_pipe under a claim.                                             *)

RcTo(w, pc) == rc' = [rc EXCEPT ![w].pc = pc]
RcEnds(w) == rc' = [rc EXCEPT ![w] = IdleRc]
RcOnly == UNCHANGED <<spawner, obs, boot, faults>>

\* act_pipe: a decision taken, or a token acknowledged, leaves nothing to do.
ActNothing(w) ==
  /\ rc[w].pc = "act"
  /\ rc[w].rec.decision # "observing" \/ rc[w].rec.release = "released"
  /\ RcTo(w, "refresh")
  /\ UNCHANGED <<row, eng, task>> /\ RcOnly

\* A Releasing record is never sent again: what was begun is stopped.
ActBegunResends(w) ==
  /\ rc[w].pc = "act"
  /\ rc[w].rec.decision = "observing" /\ rc[w].rec.release = "releasing"
  /\ rc' = [rc EXCEPT ![w].pc = "send"]
  /\ UNCHANGED <<row, eng, task>> /\ RcOnly
ActBegun(w) ==
  /\ rc[w].pc = "act"
  /\ rc[w].rec.decision = "observing" /\ rc[w].rec.release = "releasing"
  /\ rc' = [rc EXCEPT ![w].pc = "stop", ![w].latest = rc[w].rec]
  /\ UNCHANGED <<row, eng, task>> /\ RcOnly

\* release: Held -> Releasing, authorised and fenced, before any byte is sent.
\* A blocked checkout leaves the record held; any other refusal is stopped.
Authorize(w) ==
  /\ rc[w].pc = "act"
  /\ rc[w].rec = Fresh
  /\ \/ /\ ParkLive(w) /\ task = "open" /\ Cas(Fresh)
        /\ WithRec([Fresh EXCEPT !.release = "releasing"])
        /\ RcTo(w, "send")
     \/ /\ ParkLive(w)
        /\ RcTo(w, "refresh") /\ UNCHANGED row
     \/ /\ ~(ParkLive(w) /\ task = "open" /\ Cas(Fresh))
        /\ RcTo(w, "retry") /\ UNCHANGED row
  /\ UNCHANGED <<eng, task>> /\ RcOnly

\* send_release waits for the spawned receipt, writes the token and closes
\* stdin; it may fail or time out before or after the bytes went out.
SendToken(w) ==
  /\ rc[w].pc = "send"
  /\ \/ /\ eng.state = "spawned"
        /\ eng' = [eng EXCEPT !.tokens = @ + 1]
        /\ \E pc \in {"ack", "retry"} : RcTo(w, pc)
     \/ RcTo(w, "retry") /\ UNCHANGED eng
  /\ UNCHANGED <<row, task>> /\ RcOnly

Begun == [Fresh EXCEPT !.release = "releasing"]

\* Releasing -> Released under the original claim.
Acknowledge(w) ==
  /\ rc[w].pc = "ack"
  /\ IF ParkLive(w) /\ Cas(Begun)
       THEN WithRec([Begun EXCEPT !.release = "released"]) /\ RcTo(w, "refresh")
       ELSE UNCHANGED row /\ RcTo(w, "retry")
  /\ UNCHANGED <<eng, task>> /\ RcOnly

\* refresh_claim: the latest row, only while the claim is still the owner's.
RetryRefresh(w) ==
  /\ rc[w].pc = "retry"
  /\ IF row.owner = rc[w].owner
       THEN rc' = [rc EXCEPT ![w].pc = "stop", ![w].latest = row.rec]
       ELSE RcEnds(w)
  /\ UNCHANGED <<row, eng, task>> /\ RcOnly

\* stop(ReleaseRefused): nothing on a record already stopping.
StopRefused(w) ==
  /\ rc[w].pc = "stop"
  /\ LET old == rc[w].latest
     IN  IF old.decision # "observing"
           THEN RcTo(w, "refresh") /\ UNCHANGED <<row, eng>>
         ELSE IF ParkLive(w) /\ Cas(old)
           THEN /\ WithRec([old EXCEPT !.decision = "refused"])
                /\ eng' = Wanted(eng, "stop")
                /\ RcTo(w, "refresh")
           ELSE RcEnds(w) /\ UNCHANGED <<row, eng>>
  /\ UNCHANGED task /\ RcOnly

Refresh(w) ==
  /\ rc[w].pc = "refresh"
  /\ IF row.owner = rc[w].owner
       THEN rc' = [rc EXCEPT ![w].pc = "sample", ![w].latest = row.rec]
       ELSE RcEnds(w)
  /\ UNCHANGED <<row, eng, task>> /\ RcOnly

\* settlement, then drain_exited: a settled execution completes the operation
\* only if the record is the one the claim was taken with.
Sample(w) ==
  /\ rc[w].pc = "sample"
  /\ RcTo(w, IF eng.state = "settled"
               THEN IF rc[w].latest = rc[w].rec THEN "complete" ELSE "ok"
               ELSE IF eng.state = "exited" THEN "drain" ELSE "ok")
  /\ UNCHANGED <<row, eng, task>> /\ RcOnly

\* Leader exit is not settlement: ask for the descendants to be drained.
DrainLater(w) ==
  /\ rc[w].pc = "drain"
  /\ RcTo(w, "ok")
  /\ UNCHANGED <<row, eng, task>> /\ RcOnly
Drain(w) ==
  /\ rc[w].pc = "drain"
  /\ IF ParkLive(w)
       THEN eng' = Wanted(eng, "stop") /\ RcTo(w, "ok")
       ELSE UNCHANGED eng /\ RcEnds(w)
  /\ UNCHANGED <<row, task>> /\ RcOnly

\* complete_parked_tx, retire and complete_pipe_tx in one transaction; an exit
\* status is a verdict only for an acknowledged release nobody stopped.
CompleteAnyRecord(w) ==
  /\ rc[w].pc = "complete"
  /\ IF ParkLive(w)
       THEN /\ row' = Settle(row, "succeeded")
            /\ eng' = [eng EXCEPT !.desired = "retire"]
            /\ task' = IF task # "open" THEN task
                       ELSE IF eng.status THEN "verdict" ELSE "failed"
            /\ RcTo(w, "ok")
       ELSE UNCHANGED <<row, eng, task>> /\ RcEnds(w)
  /\ RcOnly
Complete(w) ==
  /\ rc[w].pc = "complete"
  /\ IF ParkLive(w) /\ Cas(rc[w].rec) /\ eng.state = "settled"
       THEN /\ row' = Settle(row, "succeeded")
            /\ eng' = [eng EXCEPT !.desired = "retire"]
            /\ task' = IF task # "open" THEN task
                       ELSE IF eng.status /\ row.rec = [Fresh EXCEPT !.release = "released"]
                              THEN "verdict" ELSE "failed"
            /\ RcTo(w, "ok")
       ELSE UNCHANGED <<row, eng, task>> /\ RcEnds(w)
  /\ RcOnly

\* The claim is given back, unless it has been replaced.  (A failed round ends
\* without this and leaves the lease to run out.)
GiveBackAny(w) ==
  /\ rc[w].pc = "ok"
  /\ row' = IF row.phase = "parked" THEN Unleased(row) ELSE row
  /\ RcEnds(w)
  /\ UNCHANGED <<eng, task>> /\ RcOnly
GiveBack(w) ==
  /\ rc[w].pc = "ok"
  /\ row' = IF row.phase = "parked" /\ row.owner = rc[w].owner THEN Unleased(row) ELSE row
  /\ RcEnds(w)
  /\ UNCHANGED <<eng, task>> /\ RcOnly

RcStep(w) ==
  \/ ActNothing(w) \/ ActBegun(w) \/ Authorize(w) \/ SendToken(w)
  \/ Acknowledge(w) \/ RetryRefresh(w) \/ StopRefused(w) \/ Refresh(w)
  \/ Sample(w) \/ Drain(w) \/ Complete(w) \/ GiveBack(w)

-----------------------------------------------------------------------------
(* Disposal, the task, and the execution itself.                           *)

\* CardDisposalOwner::stop_tx: the decision, the stop and the task in one
\* transaction, without touching the observer's lease.
Dispose ==
  /\ row.phase \in {"spawn_started", "parked"} /\ row.rec # NoRec
  /\ IF row.rec.decision = "observing"
       THEN /\ WithRec([row.rec EXCEPT !.decision = "disposed"])
            /\ task' = IF task = "open" THEN "cancelled" ELSE task
       ELSE UNCHANGED <<row, task>>
  /\ eng' = Wanted(eng, "stop")
  /\ UNCHANGED <<spawner, rc, obs, boot, faults>>

\* Somebody else converges the task (a replan, a cancelled track).
TaskConverges ==
  /\ task = "open"
  /\ task' = "cancelled"
  /\ UNCHANGED <<row, spawner, rc, eng, obs, boot, faults>>

EngOnly == UNCHANGED <<row, spawner, rc, task, obs, boot, faults>>

EngSpawns ==
  /\ eng.state = "admitted"
  /\ eng' = [eng EXCEPT !.state = "spawned"]
  /\ EngOnly

\* The wrapper waits for its token: it exits with a status of its own only
\* after it, but may die at any time.
EngExits ==
  /\ eng.state = "spawned"
  /\ eng' = [eng EXCEPT !.state = "exited", !.status = TRUE]
  /\ EngOnly

\* Settlement: a refused launch, a stop, or descendants that left by themselves.
EngSettles ==
  /\ eng.state \in {"admitted", "exited"} \/ (eng.state = "spawned" /\ eng.desired # "run")
  /\ eng' = [eng EXCEPT !.state = "settled"]
  /\ EngOnly

-----------------------------------------------------------------------------
(* Time and faults.                                                        *)

LeaseExpires ==
  /\ row.lease = "live" /\ ~Held
  /\ row' = [row EXCEPT !.lease = "expired"]
  /\ UNCHANGED <<spawner, rc, eng, task, obs, boot, faults>>

Fault == faults < MaxFaults /\ faults' = faults + 1

LeaseLost ==
  /\ Fault
  /\ row.lease = "live" /\ Held
  /\ row' = [row EXCEPT !.lease = "expired"]
  /\ UNCHANGED <<spawner, rc, eng, task, obs, boot>>

SpawnDropped ==
  /\ Fault
  /\ spawner # NoRun
  /\ spawner' = NoRun
  /\ UNCHANGED <<row, rc, eng, task, obs, boot>>

Crash ==
  /\ Fault
  /\ spawner' = NoRun
  /\ rc' = [w \in Workers |-> IdleRc]
  /\ obs' = FALSE
  /\ boot' = CASE row.phase = "parked" -> "verify"
               [] row.phase \in DrivablePhases -> "recover"
               [] OTHER -> "none"
  /\ UNCHANGED <<row, eng, task>>

SpawnStep == SpawnAdmit \/ SpawnCard \/ SpawnPark \/ SpawnFail

Next ==
  \/ SpawnClaim \/ BootSpawn \/ SpawnStep
  \/ ObserverClaims \/ ObserverEnds \/ SweepClaims \/ BootClaims \/ BootSkips
  \/ FinishClaims
  \/ \E w \in Workers : RcStep(w)
  \/ Dispose \/ TaskConverges
  \/ EngSpawns \/ EngExits \/ EngSettles
  \/ LeaseExpires \/ LeaseLost \/ SpawnDropped \/ Crash

Spec == Init /\ [][Next]_vars

-----------------------------------------------------------------------------
(* Safety.                                                                 *)

\* The worker command is started at most once: whatever fails, is retried,
\* replaced or restarted, one release token reaches one admitted execution.
StartedOnce == eng.admits <= 1 /\ eng.tokens <= 1

\* An operation is over only when its execution is: nothing still runs behind
\* a settled row, and a live execution always has a row that recovery finds.
NeverOrphaned ==
  eng.state \notin {"none", "settled"} =>
    row.rec # NoRec /\ row.phase \in {"spawn_started", "parked"}

\* An exit status becomes the task's verdict only if the token was sent and
\* acknowledged and nobody decided to stop: not for a killed or unreleased run.
VerdictIsEarned ==
  task = "verdict" =>
    /\ row.rec = [release |-> "released", decision |-> "observing"]
    /\ eng.tokens = 1 /\ eng.status /\ eng.state = "settled"

\* The first stop decision stands: neither a late release, a late acknowledgement
\* nor a second stopper replaces it, and a disposed task stays cancelled.
DecisionIsFinal ==
  [][row.rec # NoRec /\ row.rec.decision # "observing" =>
       row'.rec = row.rec /\ (task # "open" => task' = task)]_vars

\* "A stale observer can neither complete nor alter a replacement's claim": a
\* reconciler whose claim was replaced takes no step that changes the row.
StaleIsHarmless ==
  [][\A w \in Workers :
       rc'[w] # rc[w] /\ rc[w].pc # "idle" /\ rc[w].owner # row.owner
       => row' = row]_vars

-----------------------------------------------------------------------------
(* Liveness.  The drive loop, the observer, the sweep and boot recovery    *)
(* run while the server does, leases run out, the engine carries out a     *)
(* committed stop (ExecutionEngine!StopSettles), and the owner of a        *)
(* disposal calls finish again until it reports true.                      *)
Fairness ==
  /\ WF_vars(SpawnClaim) /\ WF_vars(BootSpawn) /\ WF_vars(SpawnStep)
  /\ WF_vars(ObserverClaims) /\ WF_vars(BootClaims) /\ WF_vars(BootSkips)
  /\ WF_vars(LeaseExpires) /\ WF_vars(EngSettles /\ eng.desired # "run")
  /\ \A w \in Workers : WF_vars(RcStep(w))
  \* The card write behind a re-attach does not fail for ever.
  /\ SF_vars(SpawnPark)
  /\ SF_vars(SpawnStep /\ spawner # NoRun /\ spawner.pc = "card" /\ spawner'.pc = "park")

FairSpec == Spec /\ Fairness

\* Once stopped, by disposal or by a refused release, the operation settles.
StoppedSettles ==
  row.rec # NoRec /\ row.rec.decision # "observing" ~> Settled(row)

\* A worker that exits by itself settles its operation too.
ExitedSettles == eng.state = "exited" ~> Settled(row)

\* A worker's command is started at most once and never runs without an owner
\* (pipe.rs release, writes.rs owned_execution guards).
RunIsOwned == TypeOK /\ StartedOnce /\ NeverOrphaned

\* The record of the execution is changed only by who has read its current form:
\* a decision is final, and whoever lost its lease undoes nothing of its
\* successor (compare_exchange, owned_parked.rs).
RecordIsFenced == DecisionIsFinal /\ StaleIsHarmless

\* A worker that is stopped or exits settles its operation.
WorkerSettles == StoppedSettles /\ ExitedSettles
=============================================================================
