------------------------------ MODULE Executor ------------------------------
(***************************************************************************)
(* The supervisor's executor (calm-proc-supervisor/src/execution, Linux):  *)
(* it owns one journal file per execution and forks at most one child for  *)
(* each. Every execution of the model competes for one process alias;      *)
(* executions of different aliases share nothing but the tickets.          *)
(*                                                                         *)
(*   disk, grave, legacy    the journal directory: *.execution,            *)
(*                          *.tombstone and legacy.aliases                 *)
(*   mem, pend              `records`, and those whose pending_persistence *)
(*                          flag is set: memory is ahead of the journal    *)
(*   retired, slot          `tombstones` and the alias slot                *)
(*   claim, holder          PreparationReservations: requests and tickets  *)
(*   call                   the launch handler holding the gates, if any   *)
(*   handle, monitor, stop  `processes`, its monitor task, a Stop sent     *)
(*   child                  the processes of the original group (kernel)   *)
(*   told, forks            history: settled facts replied to a client,    *)
(*                          forks each launch ticket has paid for          *)
(***************************************************************************)
EXTENDS Naturals, FiniteSets

CONSTANTS
  Executions, Tickets,
  None,              \* no execution, no ticket
  Legacy,            \* AliasSlot.execution = None: a legacy launch owns it
  MaxVersion,        \* bound: alias slot versions
  MaxFaults          \* bound: failed writes, crashes, reboots

ASSUME ExecutorAssumption ==
  /\ None \notin Executions /\ Legacy \notin Executions /\ None # Legacy
  /\ None \notin Tickets
  /\ MaxVersion \in Nat \ {0} /\ MaxFaults \in Nat

VARIABLES
  up, closing, host,
  disk, grave, legacy,
  mem, pend, retired, slot, claim, holder,
  call, handle, monitor, stop, child,
  told, forks, faults

durable == <<disk, grave, legacy>>
index   == <<retired, slot, claim, holder>>
process == <<handle, monitor, stop, child>>
vars == <<up, closing, host, disk, grave, legacy, mem, pend, retired, slot, claim,
          holder, call, handle, monitor, stop, child, told, forks, faults>>

\* ExecutionState::permits_handoff.
Quiescent == {"revoked", "nochild", "drained", "interrupted"}

\* Phase. "unsure" is Unknown without a receipt, "unknown" is Unknown with one.
Phases == Quiescent \cup {"absent", "prepared", "reserved", "forking", "spawned",
                          "exited", "unsure", "unknown"}
WithReceipt == {"spawned", "exited", "drained", "interrupted", "unknown"}

\* Journal: the phase, its slot_version (0: none), and output_end.
Record == [phase : Phases, version : 0 .. MaxVersion, output : {"open", "ended"}]
NoRecord == [phase |-> "absent", version |-> 0, output |-> "open"]

\* PrepareExecution: the ticket and the handoff, immutable once claimed.
Requests ==
  [ticket : Tickets, previous : {None}, expected : {0}] \cup
  [ticket : Tickets, previous : Executions, expected : 1 .. MaxVersion]
NoRequest == [ticket |-> None, previous |-> None, expected |-> 0]

\* ExecutionTombstone: the ticket and the alias slot version it keeps.
Tombstones == [ticket : Tickets, version : 0 .. MaxVersion]
NoTombstone == [ticket |-> None, version |-> 0]

Running == {"live", "left"}   \* "left": the leader exited, descendants did not

TypeOK ==
  /\ up \in BOOLEAN /\ closing \in BOOLEAN /\ host \in {"same", "rebooted"}
  /\ disk \in [Executions -> Record] /\ mem \in [Executions -> Record]
  /\ grave \in [Executions -> Tombstones \cup {NoTombstone}]
  /\ legacy \in BOOLEAN
  /\ pend \in SUBSET Executions /\ retired \in SUBSET Executions
  /\ slot \in [owner : Executions \cup {None, Legacy}, version : 0 .. MaxVersion]
  /\ claim \in [Executions -> Requests \cup {NoRequest}]
  /\ holder \in [Tickets -> Executions \cup {None}]
  /\ call \in [Executions -> [pc : {"idle", "cas", "reserve", "fork", "spawn",
                                    "spawned", "settle"}, settled : BOOLEAN]]
  /\ handle \in SUBSET Executions /\ stop \in SUBSET Executions
  /\ monitor \in [Executions -> {"none", "reading", "leader", "broken", "drained"}]
  /\ child \in [Executions -> {"none", "live", "left", "gone"}]
  /\ told \in [Executions -> Quiescent \cup {"none", "retired"}]
  /\ forks \in [Tickets -> 0 .. 2]
  /\ faults \in 0 .. MaxFaults

Idle == [pc |-> "idle", settled |-> FALSE]
NoSlot == [owner |-> None, version |-> 0]

Init ==
  /\ up = TRUE /\ closing = FALSE /\ host = "same"
  /\ disk = [e \in Executions |-> NoRecord] /\ mem = disk
  /\ grave = [e \in Executions |-> NoTombstone] /\ legacy = FALSE
  /\ pend = {} /\ retired = {} /\ slot = NoSlot
  /\ claim = [e \in Executions |-> NoRequest]
  /\ holder = [t \in Tickets |-> None]
  /\ call = [e \in Executions |-> Idle]
  /\ handle = {} /\ stop = {}
  /\ monitor = [e \in Executions |-> "none"]
  /\ child = [e \in Executions |-> "none"]
  /\ told = [e \in Executions |-> "none"]
  /\ forks = [t \in Tickets |-> 0]
  /\ faults = 0

Fault == faults < MaxFaults /\ faults' = faults + 1

-----------------------------------------------------------------------------
(* Journal writes.                                                         *)

\* settle_unspawned_output.
Settled(r) ==
  IF r.phase \in Quiescent /\ r.phase \notin WithReceipt
    THEN [r EXCEPT !.output = "ended"] ELSE r

\* persist: the journal first, then memory.
Persist(e, r) ==
  /\ disk' = [disk EXCEPT ![e] = Settled(r)]
  /\ mem' = [mem EXCEPT ![e] = Settled(r)]
  /\ pend' = pend \ {e}
  /\ UNCHANGED faults

\* A failed write: before the rename the old file stays, after it the new one
\* is there although the directory sync failed.
WriteFails(e, r) ==
  /\ Fault
  /\ disk' \in {disk, [disk EXCEPT ![e] = Settled(r)]}

\* The caller of a failed persist returns its error and changes nothing else.
PersistFails(e, r) == WriteFails(e, r) /\ UNCHANGED <<mem, pend>>

\* latch: memory only, and it says so.
LatchAsDurable(e, r) ==
  mem' = [mem EXCEPT ![e] = Settled(r)] /\ pend' = pend
Latch(e, r) ==
  mem' = [mem EXCEPT ![e] = Settled(r)] /\ pend' = pend \cup {e}

\* durably_settled.
DurablySettled(e) == e \notin pend /\ mem[e].phase \in Quiescent

At(e, phase) == [mem[e] EXCEPT !.phase = phase]

\* The reply carries a settled fact, or nothing the history keeps.
Tell(e, fact) ==
  told' = IF fact \in Quiescent \cup {"retired"} THEN [told EXCEPT ![e] = fact]
          ELSE told

\* id_gate and the resource gate: no launch of this execution is under way.
Gate(e) == up /\ call[e].pc = "idle"
HasRecord(e) == mem[e].phase # "absent"
Goto(e, pc) == call' = [call EXCEPT ![e] = [@ EXCEPT !.pc = pc]]

-----------------------------------------------------------------------------
(* prepare                                                                 *)

\* PreparationReservations::reserve: it outlives a failed write.
Reserve(e, r) ==
  /\ \/ claim[e] = r
     \/ claim[e] = NoRequest /\ holder[r.ticket] = None
  /\ claim' = [claim EXCEPT ![e] = r]
  /\ holder' = [holder EXCEPT ![r.ticket] = e]

\* "ticket belongs to a tombstone"
TicketBuried(t) == \E f \in retired : grave[f].ticket = t

Prepare(e, r) ==
  /\ Gate(e) /\ ~closing
  /\ e \notin retired /\ ~TicketBuried(r.ticket)
  /\ grave[e] = NoTombstone
  /\ ~HasRecord(e)
  /\ Reserve(e, r)
  /\ LET new == [NoRecord EXCEPT !.phase = "prepared"]
     IN Persist(e, new) \/ PersistFails(e, new)
  /\ UNCHANGED <<up, closing, host, grave, legacy, retired, slot, call, process,
                 told, forks>>

\* replay_reply: an exact retry of prepare, or a launch that is already past
\* its barrier. A pending settlement is made durable before it is told.
Replay(e) ==
  /\ Gate(e) /\ HasRecord(e)
  /\ mem[e].phase \in Quiescent
  /\ \/ e \in pend /\ Persist(e, mem[e]) /\ Tell(e, mem[e].phase)
     \/ e \in pend /\ PersistFails(e, mem[e]) /\ UNCHANGED told
     \/ /\ e \notin pend /\ Tell(e, mem[e].phase)
        /\ UNCHANGED <<disk, mem, pend, faults>>
  /\ UNCHANGED <<up, closing, host, grave, legacy, index, call, process, forks>>

-----------------------------------------------------------------------------
(* launch                                                                  *)

\* No reply, no write: what every step of launch leaves alone.
LaunchOnly == UNCHANGED <<up, closing, host, grave, legacy, retired, claim, holder>>

\* A conclusion that no child was started: latched, then persisted by Settle.
NoChild(e) == Latch(e, At(e, "nochild")) /\ Goto(e, "settle")

\* Up to the alias guard: the private root is resolved and the record of the
\* previous execution is copied before the guard is taken.
LaunchResolve(e) ==
  /\ Gate(e) /\ ~closing /\ mem[e].phase \in {"prepared", "reserved"}
  /\ \/ NoChild(e)                                   \* root validation failed
     \/ /\ claim[e].previous # None => HasRecord(claim[e].previous)
        /\ call' = [call EXCEPT ![e] =
             [pc |-> "cas",
              settled |-> claim[e].previous # None /\ DurablySettled(claim[e].previous)]]
        /\ UNCHANGED <<mem, pend>>
  /\ LaunchOnly /\ UNCHANGED <<disk, slot, process, told, forks, faults>>

\* The version the slot takes when this execution may have it, 0 if it may not.
CasVersionAnySettlement(e) ==
  CASE slot.owner = None -> IF claim[e].previous = None THEN 1 ELSE 0
    [] slot.owner = e /\ mem[e].phase = "reserved" /\ mem[e].version = slot.version
         -> slot.version
    [] slot.owner # None /\ slot.owner = claim[e].previous
         /\ slot.version = claim[e].expected -> slot.version + 1
    [] OTHER -> 0
CasVersion(e) ==
  CASE slot.owner = None -> IF claim[e].previous = None THEN 1 ELSE 0
    [] slot.owner = e /\ mem[e].phase = "reserved" /\ mem[e].version = slot.version
         -> slot.version
    [] slot.owner # None /\ slot.owner = claim[e].previous
         /\ slot.version = claim[e].expected /\ call[e].settled -> slot.version + 1
    [] OTHER -> 0

LaunchCas(e) ==
  /\ up /\ call[e].pc = "cas"
  /\ CasVersion(e) <= MaxVersion
  /\ IF CasVersion(e) = 0
       THEN Goto(e, "idle") /\ UNCHANGED <<slot, mem, pend>>
       ELSE /\ slot' = [owner |-> e, version |-> CasVersion(e)]
            /\ Latch(e, [At(e, "reserved") EXCEPT !.version = CasVersion(e)])
            /\ Goto(e, "reserve")
  /\ LaunchOnly /\ UNCHANGED <<disk, process, told, forks, faults>>

\* The reservation is made durable; its failure leaves it latched.
LaunchReserve(e) ==
  /\ up /\ call[e].pc = "reserve"
  /\ \/ Persist(e, mem[e]) /\ Goto(e, "fork")
     \/ PersistFails(e, mem[e]) /\ Goto(e, "idle")
  /\ LaunchOnly /\ UNCHANGED <<slot, process, told, forks>>

\* The fork barrier.
LaunchForkUnmarked(e) ==
  /\ up /\ call[e].pc = "fork" /\ Goto(e, "spawn")
  /\ LaunchOnly /\ UNCHANGED <<disk, mem, pend, slot, process, told, forks, faults>>
LaunchFork(e) ==
  /\ up /\ call[e].pc = "fork"
  /\ \/ Persist(e, At(e, "forking")) /\ Goto(e, "spawn")
     \/ PersistFails(e, At(e, "forking")) /\ Goto(e, "idle")
  /\ LaunchOnly /\ UNCHANGED <<slot, process, told, forks>>

Forked(e) ==
  forks' = [forks EXCEPT ![claim[e].ticket] = IF @ < 2 THEN @ + 1 ELSE @]

\* Final validation and process::spawn: refused or the helper did not start;
\* an error after it started; a ready helper.
LaunchSpawn(e) ==
  /\ up /\ call[e].pc = "spawn"
  /\ \/ /\ NoChild(e)
        /\ UNCHANGED <<disk, handle, child, forks, faults>>
     \/ /\ child' \in {child, [child EXCEPT ![e] = "live"]}
        /\ IF child' = child THEN UNCHANGED forks ELSE Forked(e)
        /\ Persist(e, At(e, "unsure")) \/ PersistFails(e, At(e, "unsure"))
        /\ Goto(e, "idle")
        /\ UNCHANGED handle
     \/ /\ child' = [child EXCEPT ![e] = "live"]
        /\ Forked(e)
        /\ handle' = handle \cup {e}
        /\ Goto(e, "spawned")
        /\ UNCHANGED <<disk, mem, pend, faults>>
  /\ LaunchOnly /\ UNCHANGED <<slot, monitor, stop, told>>

\* The receipt: without it on disk the child is only Unknown.
LaunchSpawned(e) ==
  /\ up /\ call[e].pc = "spawned"
  /\ \/ Persist(e, At(e, "spawned"))
     \/ WriteFails(e, At(e, "spawned")) /\ Latch(e, At(e, "unknown"))
  /\ monitor' = [monitor EXCEPT ![e] = "reading"]
  /\ Goto(e, "idle")
  /\ LaunchOnly /\ UNCHANGED <<slot, handle, stop, child, told, forks>>

LaunchSettle(e) ==
  /\ up /\ call[e].pc = "settle"
  /\ \/ Persist(e, mem[e]) /\ Tell(e, mem[e].phase)
     \/ PersistFails(e, mem[e]) /\ UNCHANGED told
  /\ Goto(e, "idle")
  /\ LaunchOnly /\ UNCHANGED <<slot, process, forks>>

-----------------------------------------------------------------------------
(* revoke, control, inspect and retire                                     *)

\* Revoke and graceful_shutdown settle what has not passed the barrier.
RevokedRecord(e) ==
  CASE mem[e].phase = "prepared" -> At(e, "revoked")
    [] mem[e].phase = "reserved" -> At(e, "nochild")
    [] OTHER                     -> mem[e]

\* revoke with a record: a failed write seals memory and acknowledges nothing.
Revoke(e) ==
  /\ Gate(e) /\ HasRecord(e)
  /\ \/ Persist(e, RevokedRecord(e)) /\ Tell(e, RevokedRecord(e).phase)
     \/ /\ WriteFails(e, RevokedRecord(e)) /\ Latch(e, RevokedRecord(e))
        /\ UNCHANGED told
  /\ UNCHANGED <<up, closing, host, grave, legacy, index, call, process, forks>>

\* replay_retired: the journal is removed before Retired is told.
RemoveJournal(e) ==
  \/ disk' = [disk EXCEPT ![e] = NoRecord] /\ Tell(e, "retired") /\ UNCHANGED faults
  \/ Fault /\ UNCHANGED <<disk, told>>

\* persist_tombstone: durable first, immutable, then the hot state goes.
Bury(e, t) ==
  /\ grave[e] \in {NoTombstone, t}
  /\ \/ /\ grave' = [grave EXCEPT ![e] = t]
        /\ retired' = retired \cup {e}
        /\ mem' = [mem EXCEPT ![e] = NoRecord] /\ pend' = pend \ {e}
        /\ claim' = [claim EXCEPT ![e] = NoRequest]
        /\ handle' = handle \ {e}
        /\ RemoveJournal(e)
     \/ /\ Fault
        /\ grave' \in {grave, [grave EXCEPT ![e] = t]}
        /\ UNCHANGED <<retired, mem, pend, claim, handle, disk, told>>
  /\ UNCHANGED <<up, closing, host, legacy, slot, call, monitor, stop, child, forks>>

\* revoke of an execution that was never prepared: reserve_revocation, then a
\* tombstone that keeps the ticket.
RevokeUnprepared(e, t) ==
  /\ Gate(e) /\ e \notin retired /\ ~HasRecord(e)
  /\ holder[t] \in {None, e}
  /\ claim[e] # NoRequest => claim[e].ticket = t
  /\ holder' = [holder EXCEPT ![t] = e]
  /\ IF TicketBuried(t)
       THEN UNCHANGED <<up, closing, host, durable, mem, pend, retired, slot, claim,
                        call, process, told, forks, faults>>
       ELSE Bury(e, [ticket |-> t, version |-> 0])

\* retire_execution: settled durably, and its output log ended.
Retire(e) ==
  /\ Gate(e) /\ e \notin retired /\ HasRecord(e)
  /\ mem[e].output = "ended" /\ DurablySettled(e)
  /\ Bury(e, [ticket |-> claim[e].ticket, version |-> mem[e].version])
  /\ UNCHANGED holder

\* Every handler answers for a tombstone with its replay.
ReplayRetired(e) ==
  /\ up /\ e \in retired
  /\ RemoveJournal(e)
  /\ UNCHANGED <<up, closing, host, grave, legacy, mem, pend, index, call, process,
                 forks>>

\* reconcile_interrupted, the first half of Inspect: only without the native
\* handle and only when the original group and session are empty.
ReconcileHeld(e) ==
  /\ Gate(e) /\ mem[e].phase = "unknown" /\ e \in handle \ pend
  /\ child[e] \notin Running
  /\ Persist(e, At(e, "interrupted")) \/ PersistFails(e, At(e, "interrupted"))
  /\ UNCHANGED <<up, closing, host, grave, legacy, index, call, process, told, forks>>
Reconcile(e) ==
  /\ Gate(e) /\ mem[e].phase = "unknown" /\ e \notin pend \cup handle
  /\ child[e] \notin Running
  /\ Persist(e, At(e, "interrupted")) \/ PersistFails(e, At(e, "interrupted"))
  /\ UNCHANGED <<up, closing, host, grave, legacy, index, call, process, told, forks>>

\* inspect takes no gate; it refuses to answer for a pending record.
Inspect(e) ==
  /\ up /\ e \notin pend /\ mem[e].phase \in Quiescent
  /\ Tell(e, mem[e].phase)
  /\ UNCHANGED <<up, closing, host, durable, mem, pend, index, call, process, forks,
                 faults>>

\* control, Observe: the state of a record with a receipt, pending or not.
Observe(e) ==
  /\ Gate(e) /\ mem[e].phase \in WithReceipt \cap Quiescent
  /\ Tell(e, mem[e].phase)
  /\ UNCHANGED <<up, closing, host, durable, mem, pend, index, call, process, forks,
                 faults>>

\* stop_execution, for control Stop and for graceful_shutdown.
Stop(e) ==
  /\ Gate(e) /\ mem[e].phase \in WithReceipt /\ ~DurablySettled(e)
  /\ e \in handle /\ e \notin stop
  /\ stop' = stop \cup {e}
  /\ UNCHANGED <<up, closing, host, durable, mem, pend, index, call, handle, monitor,
                 child, told, forks, faults>>

-----------------------------------------------------------------------------
(* The child, and the monitor of its helper's reports.                     *)

ChildOnly == UNCHANGED <<up, closing, host, durable, mem, pend, index, call, handle,
                         stop, told, forks, faults>>

LeaderExits(e) ==
  /\ child[e] = "live" /\ child' = [child EXCEPT ![e] = "left"]
  /\ ChildOnly /\ UNCHANGED monitor
GroupEmpties(e) ==
  /\ child[e] = "left" /\ child' = [child EXCEPT ![e] = "gone"]
  /\ ChildOnly /\ UNCHANGED monitor
\* TERM, then KILL after STOP_GRACE, through the native handle.
Kill(e) ==
  /\ up /\ e \in stop /\ child[e] \in Running
  /\ child' = [child EXCEPT ![e] = "gone"]
  /\ ChildOnly /\ UNCHANGED monitor

\* apply_event: terminal evidence is absorbing; a write that fails ends the
\* report loop.
Apply(e, phase, next) ==
  /\ IF mem[e].phase \in Quiescent
       THEN /\ monitor' = [monitor EXCEPT ![e] = next]
            /\ UNCHANGED <<disk, mem, pend, faults>>
       ELSE \/ /\ Persist(e, At(e, phase))
               /\ monitor' = [monitor EXCEPT ![e] = next]
            \/ /\ PersistFails(e, At(e, phase))
               /\ monitor' = [monitor EXCEPT ![e] = "broken"]
  /\ UNCHANGED <<up, closing, host, grave, legacy, index, call, handle, stop, child,
                 told, forks>>

\* LeaderExited, or Unknown of a target that did not start.
ReportExitStops(e) ==
  /\ Gate(e) /\ monitor[e] = "reading" /\ child[e] \in {"left", "gone"}
  /\ Apply(e, "exited", "none")
ReportExit(e) ==
  /\ Gate(e) /\ monitor[e] = "reading" /\ child[e] \in {"left", "gone"}
  /\ Apply(e, "exited", "leader") \/ Apply(e, "unknown", "leader")

\* Drained: ECHILD after the fork entry was closed.
ReportDrained(e) ==
  /\ Gate(e) /\ monitor[e] = "leader" /\ child[e] = "gone"
  /\ Apply(e, "drained", "drained")

\* The helper dies and its report stream ends without a drain proof.
ReportsEnd(e) ==
  /\ up /\ monitor[e] \in {"reading", "leader"} /\ Fault
  /\ monitor' = [monitor EXCEPT ![e] = "broken"]
  /\ UNCHANGED <<up, closing, host, durable, mem, pend, index, call, handle, stop,
                 child, told, forks>>

\* After the loop: Unknown, its error ignored; the handle stays.
ReportLost(e) ==
  /\ Gate(e) /\ monitor[e] = "broken"
  /\ monitor' = [monitor EXCEPT ![e] = "none"]
  /\ \/ mem[e].phase \notin Quiescent /\ Persist(e, At(e, "unknown"))
     \/ mem[e].phase \notin Quiescent /\ PersistFails(e, At(e, "unknown"))
     \/ mem[e].phase \in Quiescent /\ UNCHANGED <<disk, mem, pend, faults>>
  /\ UNCHANGED <<up, closing, host, grave, legacy, index, call, handle, stop, child,
                 told, forks>>

\* The helper is reaped, the output log finished; only then the handle goes.
FinishOutput(e) ==
  /\ Gate(e) /\ monitor[e] = "drained"
  /\ monitor' = [monitor EXCEPT ![e] = "none"]
  /\ LET ended == [mem[e] EXCEPT !.output = "ended"]
     IN \/ Persist(e, ended) /\ handle' = handle \ {e}
        \/ PersistFails(e, ended) /\ UNCHANGED handle
  /\ UNCHANGED <<up, closing, host, grave, legacy, index, call, stop, child, told,
                 forks>>

-----------------------------------------------------------------------------
(* Legacy launches, shutdown, crash and restart                            *)

\* reserve_legacy: in memory, then the list is written.
ReserveLegacyOverTyped ==
  /\ up
  /\ slot' = [owner |-> Legacy, version |-> 0]
  /\ legacy' = TRUE /\ UNCHANGED faults
  /\ UNCHANGED <<up, closing, host, disk, grave, mem, pend, retired, claim, holder,
                 call, process, told, forks>>
ReserveLegacy ==
  /\ up /\ slot.owner \in {None, Legacy}
  /\ slot' = [owner |-> Legacy, version |-> 0]
  /\ \/ legacy' = TRUE /\ UNCHANGED faults
     \/ Fault /\ legacy' \in {legacy, TRUE}
  /\ UNCHANGED <<up, closing, host, disk, grave, mem, pend, retired, claim, holder,
                 call, process, told, forks>>

Close ==
  /\ up /\ ~closing /\ closing' = TRUE
  /\ UNCHANGED <<up, host, durable, mem, pend, index, call, process, told, forks,
                 faults>>

\* graceful_shutdown, an execution before its fork barrier.
ShutdownSettle(e) ==
  /\ Gate(e) /\ closing /\ mem[e].phase \in {"prepared", "reserved"}
  /\ Persist(e, RevokedRecord(e)) \/ PersistFails(e, RevokedRecord(e))
  /\ UNCHANGED <<up, closing, host, grave, legacy, index, call, process, told, forks>>

\* Everything in memory is lost; a request survives in its journal file.
LoseMemory ==
  /\ up' = FALSE /\ closing' = FALSE
  /\ mem' = [e \in Executions |-> NoRecord] /\ pend' = {} /\ retired' = {}
  /\ slot' = NoSlot
  /\ claim' = [e \in Executions |->
       IF disk[e].phase # "absent" /\ grave[e] = NoTombstone THEN claim[e]
       ELSE NoRequest]
  /\ holder' = [t \in Tickets |-> None]
  /\ call' = [e \in Executions |-> Idle]
  /\ handle' = {} /\ stop' = {} /\ monitor' = [e \in Executions |-> "none"]
  /\ UNCHANGED <<durable, told, forks>>

Crash == up /\ Fault /\ LoseMemory /\ UNCHANGED <<host, child>>

\* The host goes down and takes every child with it.
Reboot ==
  /\ Fault /\ LoseMemory
  /\ host' = "rebooted"
  /\ child' = [e \in Executions |-> IF child[e] \in Running THEN "gone" ELSE child[e]]

\* open, one journal: what the new instance can still say of it.
RecoveredForgets(r) ==
  IF r.phase = "absent" THEN r
  ELSE [r EXCEPT !.output = "ended",
                 !.phase = IF host = "rebooted" \/ r.phase = "reserved" THEN "nochild"
                           ELSE IF r.phase \in Quiescent THEN r.phase
                           ELSE IF r.phase = "prepared" THEN "revoked"
                           ELSE IF r.phase \in WithReceipt THEN "unknown" ELSE "unsure"]
Recovered(r) ==
  IF r.phase = "absent" THEN r
  ELSE [r EXCEPT !.output = "ended",
                 !.phase = IF r.phase \in Quiescent THEN r.phase
                           ELSE IF host = "rebooted" \/ r.phase = "reserved" THEN "nochild"
                           ELSE IF r.phase = "prepared" THEN "revoked"
                           ELSE IF r.phase \in WithReceipt THEN "unknown" ELSE "unsure"]

\* The alias version a file keeps; a tombstone wins over its leftover journal.
Kept(e) == IF grave[e] # NoTombstone THEN grave[e].version ELSE disk[e].version

\* "conflicting durable alias slots", "legacy/typed alias ownership conflict"
SlotsAgree ==
  /\ \A e, f \in Executions : e # f /\ Kept(e) = Kept(f) => Kept(e) = 0
  /\ legacy => \A e \in Executions : Kept(e) = 0

Newest(e) == Kept(e) # 0 /\ \A f \in Executions : Kept(f) <= Kept(e)

OpenSlot ==
  IF legacy THEN [owner |-> Legacy, version |-> 0]
  ELSE IF \E e \in Executions : Newest(e)
    THEN LET e == CHOOSE e \in Executions : Newest(e)
         IN [owner |-> e, version |-> Kept(e)]
    ELSE NoSlot

OpenRecord(e) ==
  IF grave[e] # NoTombstone THEN NoRecord ELSE Recovered(disk[e])

Open ==
  /\ ~up /\ SlotsAgree
  /\ up' = TRUE /\ host' = "same"
  /\ disk' = [e \in Executions |-> OpenRecord(e)]
  /\ mem' = [e \in Executions |-> OpenRecord(e)]
  /\ retired' = {e \in Executions : grave[e] # NoTombstone}
  /\ slot' = OpenSlot
  /\ holder' = [t \in Tickets |->
       IF \E e \in Executions : claim[e].ticket = t
         THEN CHOOSE e \in Executions : claim[e].ticket = t ELSE None]
  /\ UNCHANGED <<closing, grave, legacy, pend, claim, call, process, told, forks,
                 faults>>

\* An open that fails after some of its writes: nothing is published.
OpenFails ==
  /\ ~up /\ Fault
  /\ \E done \in SUBSET Executions :
       disk' = [e \in Executions |-> IF e \in done THEN OpenRecord(e) ELSE disk[e]]
  /\ UNCHANGED <<up, closing, host, grave, legacy, mem, pend, index, call, process,
                 told, forks>>

-----------------------------------------------------------------------------
Step(e) ==
  \/ \E r \in Requests : Prepare(e, r)
  \/ Replay(e)
  \/ LaunchResolve(e) \/ LaunchCas(e) \/ LaunchReserve(e) \/ LaunchFork(e)
  \/ LaunchSpawn(e) \/ LaunchSpawned(e) \/ LaunchSettle(e)
  \/ Revoke(e) \/ (\E t \in Tickets : RevokeUnprepared(e, t))
  \/ Retire(e) \/ ReplayRetired(e)
  \/ Reconcile(e) \/ Inspect(e) \/ Observe(e) \/ Stop(e)
  \/ LeaderExits(e) \/ GroupEmpties(e) \/ Kill(e)
  \/ ReportExit(e) \/ ReportDrained(e) \/ ReportsEnd(e) \/ ReportLost(e)
  \/ FinishOutput(e) \/ ShutdownSettle(e)

Next ==
  \/ \E e \in Executions : Step(e)
  \/ ReserveLegacy \/ Close
  \/ Crash \/ Reboot \/ Open \/ OpenFails

Spec == Init /\ [][Next]_vars

-----------------------------------------------------------------------------
(* Properties                                                              *)

\* A process alias never names two running scopes: the successor forks only
\* after its predecessor is durably settled, whatever writes fail and however
\* often the executor or the host restarts in between (launch's alias CAS,
\* open's reconstruction of the slot).
OneChildPerAlias ==
  \A e, f \in Executions : child[e] \in Running /\ child[f] \in Running => e = f

\* A settlement a client was told is true and survives: nothing of that
\* execution runs, and a restart finds the same fact in the journal or its
\* tombstone (latch and persist, replay_reply, the refusal of inspect).
ToldIsDurable ==
  \A e \in Executions :
    /\ told[e] # "none" => child[e] \notin Running
    /\ told[e] = "retired" => grave[e] # NoTombstone
    /\ told[e] \in Quiescent => disk[e].phase = told[e] \/ grave[e] # NoTombstone

\* A client is never told a second, different settlement, before or after a
\* restart: terminal evidence is absorbing (apply_event, open, revoke).
ToldIsFinal ==
  [][\A e \in Executions :
       told[e] # "none" => told'[e] \in {told[e], "retired"}]_vars

\* A launch ticket pays for one fork at most, across retries of a launch whose
\* writes failed, restarts, retirement and reuse by another execution.
OneForkPerTicket == \A t \in Tickets : forks[t] <= 1

\* Whatever was written, the executor can start again: no two files claim one
\* alias version and no typed slot meets a legacy one (the ensure! of open).
CanReopen == SlotsAgree

\* Stop is followed by a durable settlement while no write fails and nothing
\* crashes: TERM, KILL, the helper's drain report and its persistence.
StopSettles ==
  \A e \in Executions :
    (e \in stop /\ faults = 0) ~> (faults > 0 \/ DurablySettled(e) \/ e \in retired)

\* An execution that a restart left Unknown is settled once its original group
\* and session are empty: Inspect, repeated by the engine, proves it interrupted.
\* (A revoke whose write failed seals it again until that revoke is retried.)
RecoveredSettles ==
  \A e \in Executions :
    (up /\ mem[e].phase = "unknown" /\ e \notin pend \cup handle /\ child[e] = "gone")
      ~> (DurablySettled(e) \/ ~up \/ e \in pend)

\* Fairness: tokio keeps polling the monitor task and the kill timer, the
\* helper's loop keeps reporting, and the engine inspects what it waits for.
LiveSpec ==
  /\ Spec
  /\ \A e \in Executions :
       /\ WF_vars(Kill(e)) /\ WF_vars(ReportExit(e)) /\ WF_vars(ReportDrained(e))
       /\ WF_vars(ReportLost(e)) /\ WF_vars(Reconcile(e))

\* An alias has one live child and a ticket one fork, through stale handoffs,
\* failed writes and restarts (reserve, prepare, open).
OneLineage == TypeOK /\ OneChildPerAlias /\ OneForkPerTicket

\* What a client was told is on disk, and the disk can be opened again
\* (persist, latch, open).
AnswersAreDurable == ToldIsDurable /\ CanReopen

\* A stopped child settles while nothing fails, and so does one a restart lost
\* (monitor, reconcile).
ChildSettles == StopSettles /\ RecoveredSettles
=============================================================================
