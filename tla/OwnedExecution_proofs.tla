------------------------ MODULE OwnedExecution_proofs ------------------------
(***************************************************************************)
(* Proofs about OwnedExecution, for any supply of claim identifiers and    *)
(* any number of faults, and, after RecordFencing, about ExecutionEngine,  *)
(* the engine below it.  That the worker's command is started once is not  *)
(* inductive: it rests on who may still send the token and on the record's *)
(* release, which only a compare-and-set of the whole record moves on.     *)
(***************************************************************************)
EXTENDS OwnedExecution, ExecutionEngine, TLAPS

\* The record and the execution are inserted together, once.
Admission ==
  /\ row.rec = NoRec => eng.state = "none" /\ eng.admits = 0 /\ eng.tokens = 0
  /\ row.rec # NoRec => eng.state # "none" /\ eng.admits = 1

\* Where the row is, and what its record and its execution are there.
PhaseOK ==
  /\ row.phase \in {"spawn_started", "parked", "compensating", "succeeded"}
  /\ row.phase = "parked" => row.rec # NoRec
  /\ row.phase = "compensating" => row.rec = NoRec
  /\ row.phase = "succeeded" => eng.state = "settled"

\* The one reconciler that moved the record to releasing may send the token.
TokenOK ==
  /\ eng.tokens \in {0, 1}
  /\ row.rec # NoRec => /\ row.rec.release = "held" => eng.tokens = 0
                        /\ row.rec.release = "released" => eng.tokens = 1
  /\ \A w \in Workers : rc[w].pc = "send" =>
       eng.tokens = 0 /\ row.rec # NoRec /\ row.rec.release = "releasing"
  /\ \A w, v \in Workers : rc[w].pc = "send" /\ rc[v].pc = "send" => w = v
  /\ \A w \in Workers : rc[w].pc = "ack" => eng.tokens = 1

\* A verdict is final with its row.
VerdictOK == VerdictIsEarned /\ (task = "verdict" => row.phase = "succeeded")

\* The inductive invariant.
Inv == TypeOK /\ Admission /\ PhaseOK /\ TokenOK /\ VerdictOK

-----------------------------------------------------------------------------
(* The types.                                                              *)

Rows == RowType(Records)

RcType ==
  [pc : {"idle", "act", "send", "ack", "retry", "stop", "refresh", "sample",
         "drain", "complete", "ok"},
   owner : Tokens \cup {NoOwner}, rec : Records \cup {NoRec},
   latest : Records \cup {NoRec}, boot : BOOLEAN]

EngType ==
  [state : {"none", "admitted", "spawned", "exited", "settled"},
   desired : {"run", "stop", "retire"}, status : BOOLEAN, admits : Nat, tokens : Nat]

SpawnerType ==
  [pc : {"admit", "card", "park", "fail"}, owner : Tokens,
   rec : Records \cup {NoRec}] \cup {NoRun}

\* What the type invariant says of the parts.
LEMMA Typed ==
  TypeOK <=> /\ row \in Rows /\ spawner \in SpawnerType /\ rc \in [Workers -> RcType]
             /\ eng \in EngType /\ task \in {"open", "cancelled", "verdict", "failed"}
             /\ obs \in BOOLEAN /\ boot \in {"none", "recover", "verify"}
             /\ faults \in 0 .. MaxFaults
BY DEF TypeOK, Rows, SpawnerType, RcType, EngType

\* The same after a step.
LEMMA TypedNext ==
  TypeOK' <=> /\ row' \in Rows /\ spawner' \in SpawnerType /\ rc' \in [Workers -> RcType]
              /\ eng' \in EngType /\ task' \in {"open", "cancelled", "verdict", "failed"}
              /\ obs' \in BOOLEAN /\ boot' \in {"none", "recover", "verify"}
              /\ faults' \in 0 .. MaxFaults
BY DEF TypeOK, Rows, SpawnerType, RcType, EngType

\* The writes of the repository keep the shape of the row.
LEMMA RowWrites ==
  ASSUME NEW r \in Rows
  PROVE  /\ \A t \in Tokens : /\ Leased(r, t) \in Rows /\ Leased(r, t).rec = r.rec
                              /\ Leased(r, t).phase = r.phase
         /\ Unleased(r) \in Rows /\ Unleased(r).rec = r.rec /\ Unleased(r).phase = r.phase
         /\ EnterParked(r) \in Rows /\ EnterParked(r).rec = r.rec /\ EnterParked(r).phase = "parked"
         /\ EnterCompensating(r) \in Rows /\ EnterCompensating(r).rec = r.rec
         /\ EnterCompensating(r).phase = "compensating"
         /\ Settle(r, "succeeded") \in Rows /\ Settle(r, "succeeded").rec = r.rec
         /\ Settle(r, "succeeded").phase = "succeeded"
         /\ \A x \in Records : /\ [r EXCEPT !.rec = x] \in Rows /\ [r EXCEPT !.rec = x].rec = x
                               /\ [r EXCEPT !.rec = x].phase = r.phase
         /\ [r EXCEPT !.lease = "expired"] \in Rows
<1> USE DEF Rows, RowType
<1>1. "parked" \in Phases /\ "compensating" \in Phases /\ "succeeded" \in Phases
  BY DEF Phases, DrivablePhases, TerminalPhases
<1>2. ASSUME NEW t \in Tokens
      PROVE  Leased(r, t) \in Rows /\ Leased(r, t).rec = r.rec /\ Leased(r, t).phase = r.phase
  BY DEF Leased
<1>3. Unleased(r) \in Rows /\ Unleased(r).rec = r.rec /\ Unleased(r).phase = r.phase
  BY DEF Unleased
<1>4. EnterParked(r) \in Rows /\ EnterParked(r).rec = r.rec /\ EnterParked(r).phase = "parked"
  BY <1>1 DEF EnterParked, EnterPhase, Unleased
<1>5. /\ EnterCompensating(r) \in Rows /\ EnterCompensating(r).rec = r.rec
      /\ EnterCompensating(r).phase = "compensating"
  BY <1>1 DEF EnterCompensating, EnterPhase, Unleased
<1>6. /\ Settle(r, "succeeded") \in Rows /\ Settle(r, "succeeded").rec = r.rec
      /\ Settle(r, "succeeded").phase = "succeeded"
  BY <1>1 DEF Settle, EnterPhase, Unleased
<1>7. ASSUME NEW x \in Records
      PROVE  /\ [r EXCEPT !.rec = x] \in Rows /\ [r EXCEPT !.rec = x].rec = x
             /\ [r EXCEPT !.rec = x].phase = r.phase
  OBVIOUS
<1>8. [r EXCEPT !.lease = "expired"] \in Rows
  OBVIOUS
<1>. QED
  BY <1>2, <1>3, <1>4, <1>5, <1>6, <1>7, <1>8

\* Moving a reconciler on, and what it keeps.
LEMMA RcMoves ==
  ASSUME rc \in [Workers -> RcType], NEW w \in Workers
  PROVE  /\ \A pc \in {"act", "send", "ack", "retry", "stop", "refresh", "sample",
                       "drain", "complete", "ok"} :
              RcTo(w, pc) => rc' \in [Workers -> RcType] /\ rc'[w].pc = pc
                             /\ \A v \in Workers : v # w => rc'[v] = rc[v]
         /\ RcEnds(w) => rc' \in [Workers -> RcType] /\ rc'[w].pc = "idle"
                         /\ \A v \in Workers : v # w => rc'[v] = rc[v]
<1>1. ASSUME NEW pc \in {"act", "send", "ack", "retry", "stop", "refresh", "sample",
                         "drain", "complete", "ok"}, RcTo(w, pc)
      PROVE  rc' \in [Workers -> RcType] /\ rc'[w].pc = pc
             /\ \A v \in Workers : v # w => rc'[v] = rc[v]
  <2>1. rc' = [rc EXCEPT ![w] = [rc[w] EXCEPT !.pc = pc]]
    BY <1>1 DEF RcTo
  <2>2. [rc[w] EXCEPT !.pc = pc] \in RcType /\ [rc[w] EXCEPT !.pc = pc].pc = pc
    BY DEF RcType
  <2>. QED  BY <2>1, <2>2
<1>2. ASSUME RcEnds(w)
      PROVE  rc' \in [Workers -> RcType] /\ rc'[w].pc = "idle"
             /\ \A v \in Workers : v # w => rc'[v] = rc[v]
  <2>1. IdleRc \in RcType /\ IdleRc.pc = "idle"
    BY DEF IdleRc, RcType
  <2>. QED  BY <1>2, <2>1 DEF RcEnds
<1>. QED
  BY <1>1, <1>2

\* The same with the latest record read.
LEMMA RcReads ==
  ASSUME rc \in [Workers -> RcType], NEW w \in Workers, NEW x \in Records \cup {NoRec},
         NEW pc \in {"stop", "sample"}, rc' = [rc EXCEPT ![w].pc = pc, ![w].latest = x]
  PROVE  rc' \in [Workers -> RcType] /\ rc'[w].pc = pc /\ \A v \in Workers : v # w => rc'[v] = rc[v]
<1> DEFINE y == [rc[w] EXCEPT !.pc = pc, !.latest = x]
<1>1. y \in RcType /\ y.pc = pc
  BY DEF RcType
<1>2. rc' = [rc EXCEPT ![w] = y]
  OBVIOUS
<1> HIDE DEF y
<1>. QED
  BY <1>1, <1>2

\* request never undoes what it asks of the engine, and asks nothing else.
LEMMA WantedKeeps ==
  ASSUME NEW e \in EngType, NEW d \in {"stop", "retire"}
  PROVE  /\ Wanted(e, d) \in EngType /\ Wanted(e, d).state = e.state
         /\ Wanted(e, d).admits = e.admits /\ Wanted(e, d).tokens = e.tokens
         /\ Wanted(e, d).status = e.status
BY DEF Wanted, EngType

-----------------------------------------------------------------------------
(* Steps that move neither the release nor the phase.                      *)

LEMMA QuietStep ==
  ASSUME Inv, TypeOK', row'.phase = row.phase,
         \/ row'.rec = row.rec
         \/ /\ row.rec # NoRec /\ row'.rec # NoRec /\ row'.rec.release = row.rec.release
            /\ row.phase # "succeeded",
         \/ eng'.state = eng.state
         \/ eng.state \notin {"none", "settled"} /\ eng'.state # "none",
         eng'.admits = eng.admits, eng'.tokens = eng.tokens,
         eng.status => eng'.status,
         task' = task \/ task' # "verdict",
         \A w \in Workers : rc'[w].pc \in {"send", "ack"} => rc'[w].pc = rc[w].pc
  PROVE  Inv'
<1>1. Admission' /\ PhaseOK'
  BY DEF Inv, Admission, PhaseOK
<1>2. TokenOK'
  BY DEF Inv, TokenOK
<1>3. VerdictOK'
  BY DEF Inv, VerdictOK, VerdictIsEarned
<1>. QED
  BY <1>1, <1>2, <1>3 DEF Inv

-----------------------------------------------------------------------------
(* The spawner's steps.                                                    *)

LEMMA NewIdFresh == HasNewId => NewId \in Tokens
BY DEF HasNewId, NewId

LEMMA SpawnClaimStep == ASSUME Inv, SpawnClaim \/ BootSpawn PROVE Inv'
<1>1. TypeOK /\ row \in Rows /\ NewId \in Tokens /\ row.rec \in Records \cup {NoRec}
  BY Typed, NewIdFresh DEF Inv, SpawnClaim, BootSpawn, Rows, RowType
<1>2. [pc |-> "admit", owner |-> NewId, rec |-> row.rec] \in SpawnerType
  BY <1>1 DEF SpawnerType
<1>3. row' \in Rows /\ row'.rec = row.rec /\ row'.phase = row.phase
  <2>1. row' = row \/ row' = Leased(row, NewId)
    BY DEF SpawnClaim, BootSpawn
  <2>2. CASE row' = Leased(row, NewId)
    BY <1>1, <2>2, RowWrites
  <2>. QED
    BY <1>1, <2>1, <2>2
<1>4. spawner' \in SpawnerType /\ boot' \in {"none", "recover", "verify"}
  BY <1>1, <1>2, Typed DEF SpawnClaim, BootSpawn
<1>5. UNCHANGED <<rc, eng, task, obs, faults>>
  BY DEF SpawnClaim, BootSpawn, SpawnerOnly
<1>6. TypeOK'
  BY <1>1, <1>3, <1>4, <1>5, Typed, TypedNext
<1>. QED
  BY <1>3, <1>5, <1>6, QuietStep

\* The record and the execution come into being together.
LEMMA SpawnAdmitStep == ASSUME Inv, SpawnAdmit PROVE Inv'
<1>1. TypeOK /\ row \in Rows /\ eng \in EngType /\ spawner \in SpawnerType /\ spawner # NoRun
  BY Typed DEF Inv, SpawnAdmit
<1>2. \A pc \in {"card", "fail"} : [spawner EXCEPT !.pc = pc] \in SpawnerType
  BY <1>1 DEF SpawnerType
<1>3. UNCHANGED <<rc, task, obs, boot, faults>>
  BY DEF SpawnAdmit, SpawnerOnly
<1>4. CASE UNCHANGED <<row, eng>>
  <2>1. spawner' \in SpawnerType
    BY <1>2 DEF SpawnAdmit
  <2>2. TypeOK'
    BY <1>1, <1>3, <1>4, <2>1, Typed, TypedNext
  <2>. QED
    BY <1>3, <1>4, <2>2, QuietStep
<1>5. CASE /\ SpawnLive /\ task = "open" /\ Cas(NoRec) /\ WithRec(Fresh)
           /\ eng' = [eng EXCEPT !.state = "admitted", !.admits = @ + 1]
           /\ spawner' = [spawner EXCEPT !.pc = "card"]
  <2>1. row.rec = NoRec /\ row.phase = "spawn_started" /\ eng.admits = 0 /\ eng.tokens = 0
    BY <1>5 DEF Inv, Admission, Cas, SpawnLive, LiveClaim
  <2>2. Fresh \in Records /\ Fresh # NoRec /\ Fresh.release = "held"
    BY OwnedAssumption DEF Fresh, Records, Releases, Decisions
  <2>3. row' \in Rows /\ row'.rec = Fresh /\ row'.phase = row.phase
    BY <1>1, <1>5, <2>2, RowWrites DEF WithRec
  <2>4. /\ eng' \in EngType /\ eng'.state = "admitted" /\ eng'.admits = 1 /\ eng'.tokens = 0
    <3>1. eng' = [eng EXCEPT !.state = "admitted", !.admits = 1]
      BY <1>5, <2>1
    <3>. QED  BY <1>1, <2>1, <3>1 DEF EngType
  <2>5. TypeOK'
    BY <1>1, <1>2, <1>3, <1>5, <2>3, <2>4, Typed, TypedNext
  <2>6. Admission' /\ PhaseOK'
    BY <2>1, <2>2, <2>3, <2>4 DEF Admission, PhaseOK
  <2>7. TokenOK'
    BY <1>3, <2>1, <2>2, <2>3, <2>4 DEF Inv, TokenOK
  <2>8. VerdictOK'
    BY <1>3, <1>5 DEF VerdictOK, VerdictIsEarned
  <2>. QED
    BY <2>5, <2>6, <2>7, <2>8 DEF Inv
<1>. QED
  BY <1>4, <1>5 DEF SpawnAdmit

\* A row is parked with its record, and compensated only without one.
LEMMA SpawnEndStep == ASSUME Inv, SpawnCard \/ SpawnPark \/ SpawnFail PROVE Inv'
<1>1. TypeOK /\ row \in Rows /\ spawner \in SpawnerType /\ spawner # NoRun
  BY Typed DEF Inv, SpawnCard, SpawnPark, SpawnFail
<1>2. UNCHANGED <<rc, task, eng, boot, faults>>
  BY DEF SpawnCard, SpawnPark, SpawnFail, SpawnerOnly
<1>3. spawner' \in SpawnerType
  BY <1>1 DEF SpawnCard, SpawnPark, SpawnFail, SpawnerType
<1>4. obs' \in BOOLEAN
  BY <1>1, Typed DEF SpawnCard, SpawnPark, SpawnFail
<1>5. CASE row' = row
  <2>1. TypeOK'
    BY <1>1, <1>2, <1>3, <1>4, <1>5, Typed, TypedNext
  <2>. QED
    BY <1>2, <1>5, <2>1, QuietStep
<1>6. CASE SpawnLive /\ Retained(row) /\ row' = EnterParked(row)
  <2>1. row' \in Rows /\ row'.rec = row.rec /\ row'.phase = "parked" /\ row.rec # NoRec
    BY <1>1, <1>6, RowWrites DEF Retained
  <2>2. TypeOK'
    BY <1>1, <1>2, <1>3, <1>4, <2>1, Typed, TypedNext
  <2>3. row.phase = "spawn_started"
    BY <1>6 DEF SpawnLive, LiveClaim
  <2>. QED
    BY <1>2, <2>1, <2>2, <2>3 DEF Inv, Admission, PhaseOK, TokenOK, VerdictOK, VerdictIsEarned
<1>7. CASE SpawnLive /\ ~Retained(row) /\ row' = EnterCompensating(row)
  <2>1. row' \in Rows /\ row'.rec = row.rec /\ row'.phase = "compensating" /\ row.rec = NoRec
    BY <1>1, <1>7, RowWrites DEF Retained
  <2>2. TypeOK'
    BY <1>1, <1>2, <1>3, <1>4, <2>1, Typed, TypedNext
  <2>3. row.phase = "spawn_started"
    BY <1>7 DEF SpawnLive, LiveClaim
  <2>. QED
    BY <1>2, <2>1, <2>2, <2>3 DEF Inv, Admission, PhaseOK, TokenOK, VerdictOK, VerdictIsEarned
<1>. QED
  BY <1>5, <1>6, <1>7 DEF SpawnCard, SpawnPark, SpawnFail

-----------------------------------------------------------------------------
(* The reconcilers' steps.                                                 *)

\* Taking the parked row leaves everything but the lease.
LEMMA BeginStep ==
  ASSUME Inv, NEW w \in Workers, NEW b \in BOOLEAN, Begin(w, b),
         UNCHANGED <<spawner, eng, task>>,
         obs' \in BOOLEAN, boot' \in {"none", "recover", "verify"}, faults' \in 0 .. MaxFaults
  PROVE  Inv'
<1>1. TypeOK /\ row \in Rows /\ rc \in [Workers -> RcType] /\ NewId \in Tokens
  BY Typed, NewIdFresh DEF Inv, Begin
<1> DEFINE y == [IdleRc EXCEPT !.pc = "act", !.owner = NewId, !.rec = row.rec, !.boot = b]
<1>2. row' \in Rows /\ row'.rec = row.rec /\ row'.phase = row.phase
  BY <1>1, RowWrites DEF Begin
<1>3. row.rec \in Records \cup {NoRec}
  BY <1>1 DEF Rows, RowType
<1>4. y \in RcType /\ y.pc = "act"
  BY <1>1, <1>3 DEF IdleRc, RcType
<1>5. rc' = [rc EXCEPT ![w] = y]
  BY DEF Begin
<1> HIDE DEF y
<1>6. rc' \in [Workers -> RcType] /\ \A v \in Workers : rc'[v].pc = "act" \/ rc'[v] = rc[v]
  BY <1>1, <1>4, <1>5
<1>7. TypeOK'
  BY <1>1, <1>2, <1>6, Typed, TypedNext
<1>. QED
  BY <1>2, <1>6, <1>7, QuietStep

LEMMA ClaimStep ==
  ASSUME Inv, ObserverClaims \/ SweepClaims \/ BootClaims \/ FinishClaims PROVE Inv'
<1>1. obs \in BOOLEAN /\ boot \in {"none", "recover", "verify"} /\ faults \in 0 .. MaxFaults
  BY Typed DEF Inv
<1>2. "observer" \in Workers /\ "sweep" \in Workers /\ "finish" \in Workers
  BY OwnedAssumption
<1>3. CASE ObserverClaims
  BY <1>1, <1>2, <1>3, BeginStep DEF ObserverClaims
<1>4. CASE SweepClaims
  <2>1. faults' \in 0 .. MaxFaults
    BY <1>1, <1>4, OwnedAssumption DEF SweepClaims
  <2>. QED
    BY <1>1, <1>2, <1>4, <2>1, BeginStep DEF SweepClaims
<1>5. CASE BootClaims
  BY <1>1, <1>2, <1>5, BeginStep DEF BootClaims
<1>6. CASE FinishClaims
  BY <1>1, <1>2, <1>6, BeginStep DEF FinishClaims
<1>. QED
  BY <1>3, <1>4, <1>5, <1>6

\* A reconciler that goes on without touching the record's release.
LEMMA RcQuiet ==
  ASSUME Inv, NEW w \in Workers, RcOnly,
         rc' \in [Workers -> RcType], rc'[w].pc \notin {"send", "ack"},
         \A v \in Workers : v # w => rc'[v] = rc[v],
         row' \in Rows, row'.phase = row.phase,
         \/ row'.rec = row.rec
         \/ /\ row.rec # NoRec /\ row'.rec # NoRec /\ row'.rec.release = row.rec.release
            /\ row.phase # "succeeded",
         eng' = eng \/ eng' = Wanted(eng, "stop"), task' = task
  PROVE  Inv'
<1>1. TypeOK /\ eng \in EngType
  BY Typed DEF Inv
<1>2. /\ eng' \in EngType /\ eng'.state = eng.state /\ eng'.admits = eng.admits
      /\ eng'.tokens = eng.tokens /\ eng'.status = eng.status
  BY <1>1, WantedKeeps
<1>3. TypeOK'
  BY <1>1, <1>2, Typed, TypedNext DEF RcOnly
<1>4. \A v \in Workers : rc'[v].pc \in {"send", "ack"} => rc'[v].pc = rc[v].pc
  OBVIOUS
<1>. QED
  BY <1>2, <1>3, <1>4, QuietStep

\* Steps that read, or give the claim back.
LEMMA RcReadStep ==
  ASSUME Inv, NEW w \in Workers,
         \/ ActNothing(w) \/ ActBegun(w) \/ RetryRefresh(w) \/ Refresh(w) \/ Sample(w)
         \/ Drain(w) \/ GiveBack(w)
  PROVE  Inv'
<1>1. row \in Rows /\ rc \in [Workers -> RcType] /\ row.rec \in Records \cup {NoRec} /\ rc[w] \in RcType
  BY Typed DEF Inv, Rows, RowType
<1>2. RcOnly /\ task' = task
  BY DEF ActNothing, ActBegun, RetryRefresh, Refresh, Sample, Drain, GiveBack
<1>3. eng' = eng \/ eng' = Wanted(eng, "stop")
  BY DEF ActNothing, ActBegun, RetryRefresh, Refresh, Sample, Drain, GiveBack
<1>4. row' \in Rows /\ row'.phase = row.phase /\ row'.rec = row.rec
  <2>1. row' = row \/ row' = Unleased(row)
    BY DEF ActNothing, ActBegun, RetryRefresh, Refresh, Sample, Drain, GiveBack
  <2>2. Unleased(row) \in Rows /\ Unleased(row).phase = row.phase /\ Unleased(row).rec = row.rec
    BY <1>1, RowWrites
  <2>. QED  BY <1>1, <2>1, <2>2
<1>5. \/ \E pc \in {"refresh", "complete", "ok", "drain"} : RcTo(w, pc)
      \/ RcEnds(w)
      \/ \E pc \in {"stop", "sample"}, x \in Records \cup {NoRec} :
           rc' = [rc EXCEPT ![w].pc = pc, ![w].latest = x]
  <2>1. rc[w].rec \in Records \cup {NoRec}
    BY <1>1 DEF RcType
  <2>2. CASE ActNothing(w) \/ Drain(w) \/ GiveBack(w)
    BY <2>2 DEF ActNothing, Drain, GiveBack
  <2>3. CASE ActBegun(w)
    BY <2>1, <2>3 DEF ActBegun
  <2>4. CASE RetryRefresh(w) \/ Refresh(w)
    BY <1>1, <2>4 DEF RetryRefresh, Refresh
  <2>5. CASE Sample(w)
    <3>1. PICK pc : RcTo(w, pc) /\ pc \in {"complete", "ok", "drain"}
      BY <2>5 DEF Sample
    <3>. QED  BY <3>1
  <2>. QED
    BY <2>2, <2>3, <2>4, <2>5
<1>6. /\ rc' \in [Workers -> RcType] /\ rc'[w].pc \notin {"send", "ack"}
      /\ \A v \in Workers : v # w => rc'[v] = rc[v]
  BY <1>1, <1>5, RcMoves, RcReads
<1>. QED
  BY <1>2, <1>3, <1>4, <1>6, RcQuiet

\* The records of a release under way.
LEMMA ReleaseRecords ==
  /\ Fresh \in Records /\ Begun \in Records /\ [Begun EXCEPT !.release = "released"] \in Records
  /\ Fresh.release = "held" /\ Begun.release = "releasing"
  /\ [Begun EXCEPT !.release = "released"].release = "released"
  /\ Begun = [Fresh EXCEPT !.release = "releasing"]
BY DEF Fresh, Begun, Records, Releases, Decisions

\* Held to releasing: the step that gives one reconciler the token.
LEMMA AuthorizeStep == ASSUME Inv, NEW w \in Workers, Authorize(w) PROVE Inv'
<1>1. /\ TypeOK /\ row \in Rows /\ rc \in [Workers -> RcType] /\ RcOnly
      /\ UNCHANGED <<eng, task>>
  BY Typed DEF Inv, Authorize
<1>2. CASE row' = row /\ \E pc \in {"refresh", "retry"} : RcTo(w, pc)
  BY <1>1, <1>2, RcMoves, RcQuiet
<1>3. CASE /\ ParkLive(w) /\ Cas(Fresh) /\ WithRec([Fresh EXCEPT !.release = "releasing"])
           /\ RcTo(w, "send")
  <2>1. row' \in Rows /\ row'.rec = Begun /\ row'.phase = row.phase /\ row.phase = "parked"
    BY <1>1, <1>3, RowWrites, ReleaseRecords DEF WithRec, ParkLive, LiveClaim
  <2>2. /\ rc' \in [Workers -> RcType] /\ rc'[w].pc = "send"
        /\ \A v \in Workers : v # w => rc'[v] = rc[v]
    BY <1>1, <1>3, RcMoves
  <2>3. row.rec # NoRec /\ row.rec.release = "held" /\ Begun # NoRec /\ Begun.release = "releasing"
    BY <1>3, ReleaseRecords, OwnedAssumption DEF Cas
  <2>4. TypeOK'
    BY <1>1, <2>1, <2>2, Typed, TypedNext DEF RcOnly
  <2>5. Admission' /\ PhaseOK' /\ VerdictOK'
    BY <1>1, <2>1, <2>3 DEF Inv, Admission, PhaseOK, VerdictOK, VerdictIsEarned
  <2>6. eng.tokens = 0 /\ \A v \in Workers : rc[v].pc \notin {"send", "ack"}
    BY <2>3 DEF Inv, TokenOK
  <2>7. TokenOK'
    BY <1>1, <2>1, <2>2, <2>3, <2>6 DEF TokenOK
  <2>. QED
    BY <2>4, <2>5, <2>7 DEF Inv
<1>. QED
  BY <1>2, <1>3 DEF Authorize

\* The token goes out once: who sends it is alone and stops being a sender.
LEMMA SendTokenStep == ASSUME Inv, NEW w \in Workers, SendToken(w) PROVE Inv'
<1>1. /\ TypeOK /\ row \in Rows /\ rc \in [Workers -> RcType] /\ RcOnly /\ eng \in EngType
      /\ UNCHANGED <<row, task>>
  BY Typed DEF Inv, SendToken
<1>2. CASE RcTo(w, "retry") /\ eng' = eng
  BY <1>1, <1>2, RcMoves, RcQuiet
<1>3. CASE /\ eng.state = "spawned" /\ eng' = [eng EXCEPT !.tokens = @ + 1]
           /\ \E pc \in {"ack", "retry"} : RcTo(w, pc)
  <2>1. /\ rc' \in [Workers -> RcType] /\ rc'[w].pc \in {"ack", "retry"}
        /\ \A v \in Workers : v # w => rc'[v] = rc[v]
    BY <1>1, <1>3, RcMoves
  <2>2. /\ rc[w].pc = "send" /\ eng.tokens = 0 /\ row.rec # NoRec /\ row.rec.release = "releasing"
        /\ \A v \in Workers : v # w => rc[v].pc # "send"
    BY DEF SendToken, Inv, TokenOK
  <2>3. /\ eng' \in EngType /\ eng'.tokens = 1 /\ eng'.state = eng.state
        /\ eng'.admits = eng.admits /\ eng'.status = eng.status
    <3>1. eng' = [eng EXCEPT !.tokens = 1]
      BY <1>3, <2>2
    <3>. QED  BY <1>1, <3>1 DEF EngType
  <2>4. TypeOK'
    BY <1>1, <2>1, <2>3, Typed, TypedNext DEF RcOnly
  <2>5. Admission' /\ PhaseOK'
    BY <1>1, <2>2, <2>3 DEF Inv, Admission, PhaseOK
  <2>6. TokenOK'
    BY <1>1, <2>1, <2>2, <2>3 DEF TokenOK
  <2>7. VerdictOK'
    BY <1>1, <1>3 DEF Inv, VerdictOK, VerdictIsEarned
  <2>. QED
    BY <2>4, <2>5, <2>6, <2>7 DEF Inv
<1>. QED
  BY <1>2, <1>3 DEF SendToken

LEMMA AcknowledgeStep == ASSUME Inv, NEW w \in Workers, Acknowledge(w) PROVE Inv'
<1>1. /\ TypeOK /\ row \in Rows /\ rc \in [Workers -> RcType] /\ RcOnly
      /\ UNCHANGED <<eng, task>>
  BY Typed DEF Inv, Acknowledge
<1>2. CASE row' = row /\ RcTo(w, "retry")
  BY <1>1, <1>2, RcMoves, RcQuiet
<1>3. CASE /\ ParkLive(w) /\ Cas(Begun) /\ WithRec([Begun EXCEPT !.release = "released"])
           /\ RcTo(w, "refresh")
  <2> DEFINE done == [Begun EXCEPT !.release = "released"]
  <2>1. done \in Records /\ done.release = "released" /\ done # NoRec
    BY ReleaseRecords, OwnedAssumption
  <2> HIDE DEF done
  <2>2. row' \in Rows /\ row'.rec = done /\ row'.phase = row.phase /\ row.phase = "parked"
    BY <1>1, <1>3, <2>1, RowWrites DEF WithRec, ParkLive, LiveClaim, done
  <2>3. /\ rc' \in [Workers -> RcType] /\ rc'[w].pc = "refresh"
        /\ \A v \in Workers : v # w => rc'[v] = rc[v]
    BY <1>1, <1>3, RcMoves
  <2>4. TypeOK'
    BY <1>1, <2>2, <2>3, Typed, TypedNext DEF RcOnly
  <2>5. Admission' /\ PhaseOK' /\ VerdictOK'
    BY <1>1, <2>1, <2>2 DEF Inv, Admission, PhaseOK, VerdictOK, VerdictIsEarned
  <2>6. eng.tokens = 1 /\ \A v \in Workers : rc[v].pc # "send"
    BY DEF Acknowledge, Inv, TokenOK
  <2>7. \A v \in Workers : rc'[v].pc # "send"
    BY <2>3, <2>6
  <2>8. TokenOK'
    BY <1>1, <2>1, <2>2, <2>6, <2>7 DEF TokenOK
  <2>. QED
    BY <2>4, <2>5, <2>8 DEF Inv
<1>. QED
  BY <1>2, <1>3 DEF Acknowledge

LEMMA StopRefusedStep == ASSUME Inv, NEW w \in Workers, StopRefused(w) PROVE Inv'
<1>1. /\ TypeOK /\ row \in Rows /\ rc \in [Workers -> RcType] /\ RcOnly /\ UNCHANGED task
  BY Typed DEF Inv, StopRefused
<1>2. CASE row' = row /\ eng' = eng /\ (RcTo(w, "refresh") \/ RcEnds(w))
  BY <1>1, <1>2, RcMoves, RcQuiet
<1>3. CASE /\ ParkLive(w) /\ Cas(rc[w].latest)
           /\ WithRec([rc[w].latest EXCEPT !.decision = "refused"])
           /\ eng' = Wanted(eng, "stop") /\ RcTo(w, "refresh")
  <2>1. row.phase = "parked" /\ row.rec # NoRec /\ rc[w].latest = row.rec
    BY <1>3 DEF Inv, PhaseOK, ParkLive, LiveClaim, Cas
  <2>2. row.rec \in Records
    BY <1>1, <2>1 DEF Rows, RowType
  <2> DEFINE new == [row.rec EXCEPT !.decision = "refused"]
  <2>3. new \in Records /\ new.release = row.rec.release /\ new # NoRec
    <3>1. new \in Records /\ new.release = row.rec.release
      BY <2>2 DEF Records, Decisions
    <3>. QED  BY <3>1, OwnedAssumption
  <2>4. row' = [row EXCEPT !.rec = new]
    BY <1>3, <2>1 DEF WithRec
  <2> HIDE DEF new
  <2>5. row' \in Rows /\ row'.rec = new /\ row'.phase = row.phase
    BY <1>1, <2>3, <2>4, RowWrites
  <2>. QED
    BY <1>1, <1>3, <2>1, <2>3, <2>5, RcMoves, RcQuiet
<1>. QED
  BY <1>2, <1>3 DEF StopRefused

\* A row settles only behind a settled execution.
LEMMA CompleteStep == ASSUME Inv, NEW w \in Workers, Complete(w) PROVE Inv'
<1>1. /\ TypeOK /\ row \in Rows /\ rc \in [Workers -> RcType] /\ RcOnly /\ eng \in EngType
      /\ task \in {"open", "cancelled", "verdict", "failed"}
  BY Typed DEF Inv, Complete
<1>2. CASE UNCHANGED <<row, eng, task>> /\ RcEnds(w)
  BY <1>1, <1>2, RcMoves, RcQuiet
<1>3. CASE /\ ParkLive(w) /\ Cas(rc[w].rec) /\ eng.state = "settled"
           /\ row' = Settle(row, "succeeded")
           /\ eng' = [eng EXCEPT !.desired = "retire"]
           /\ task' = IF task # "open" THEN task
                      ELSE IF eng.status /\ row.rec = [Fresh EXCEPT !.release = "released"]
                             THEN "verdict" ELSE "failed"
           /\ RcTo(w, "ok")
  <2>1. row' \in Rows /\ row'.rec = row.rec /\ row'.phase = "succeeded"
    BY <1>1, <1>3, RowWrites
  <2>2. row.phase = "parked" /\ row.rec # NoRec
    BY <1>3 DEF ParkLive, LiveClaim, Inv, PhaseOK
  <2>3. /\ eng' \in EngType /\ eng'.state = "settled" /\ eng'.admits = eng.admits
        /\ eng'.tokens = eng.tokens /\ eng'.status = eng.status
    BY <1>1, <1>3 DEF EngType
  <2>4. /\ rc' \in [Workers -> RcType] /\ rc'[w].pc = "ok"
        /\ \A v \in Workers : v # w => rc'[v] = rc[v]
    BY <1>1, <1>3, RcMoves
  <2>5. task' \in {"open", "cancelled", "verdict", "failed"}
    BY <1>1, <1>3
  <2>6. TypeOK'
    BY <1>1, <2>1, <2>3, <2>4, <2>5, Typed, TypedNext DEF RcOnly
  <2>7. Admission' /\ PhaseOK'
    BY <2>1, <2>2, <2>3 DEF Inv, Admission, PhaseOK
  <2>8. TokenOK'
    BY <2>1, <2>3, <2>4 DEF Inv, TokenOK
  <2>9. VerdictOK'
    <3>1. task = "verdict" => FALSE
      BY <2>2 DEF Inv, VerdictOK
    <3>2. [Fresh EXCEPT !.release = "released"] = [release |-> "released", decision |-> "observing"]
      BY DEF Fresh
    <3>3. task' = "verdict" => /\ eng.status
                               /\ row.rec = [release |-> "released", decision |-> "observing"]
      BY <1>3, <3>1, <3>2
    <3>4. row.rec = [release |-> "released", decision |-> "observing"] => eng.tokens = 1
      BY <2>2 DEF Inv, TokenOK
    <3>. QED
      BY <2>1, <2>3, <3>3, <3>4 DEF VerdictOK, VerdictIsEarned
  <2>. QED
    BY <2>6, <2>7, <2>8, <2>9 DEF Inv
<1>. QED
  BY <1>2, <1>3 DEF Complete

-----------------------------------------------------------------------------
(* Disposal, the execution, time and faults.                               *)

LEMMA DisposeStep == ASSUME Inv, Dispose PROVE Inv'
<1>1. TypeOK /\ row \in Rows /\ eng \in EngType /\ row.rec # NoRec /\ UNCHANGED <<spawner, rc, obs, boot, faults>>
  BY Typed DEF Inv, Dispose
<1>2. row.rec \in Records /\ row.phase # "succeeded"
  BY <1>1 DEF Dispose, Rows, RowType
<1> DEFINE new == [row.rec EXCEPT !.decision = "disposed"]
<1>3. new \in Records /\ new.release = row.rec.release /\ new # NoRec
  <2>1. new \in Records /\ new.release = row.rec.release
    BY <1>2 DEF Records, Decisions
  <2>. QED  BY <2>1, OwnedAssumption
<1>4. row' = row \/ row' = [row EXCEPT !.rec = new]
  BY DEF Dispose, WithRec
<1> HIDE DEF new
<1>5. row' \in Rows /\ (row'.rec = row.rec \/ row'.rec = new) /\ row'.phase = row.phase
  <2>1. CASE row' = [row EXCEPT !.rec = new]
    BY <1>1, <1>3, <2>1, RowWrites
  <2>. QED  BY <1>1, <1>4, <2>1
<1>6. task' \in {"open", "cancelled", "verdict", "failed"} /\ (task' = task \/ task' # "verdict")
  BY <1>1, Typed DEF Dispose
<1>7. /\ eng' \in EngType /\ eng'.state = eng.state /\ eng'.admits = eng.admits
      /\ eng'.tokens = eng.tokens /\ eng'.status = eng.status
  BY <1>1, WantedKeeps DEF Dispose
<1>8. TypeOK'
  BY <1>1, <1>5, <1>6, <1>7, Typed, TypedNext
<1>. QED
  BY <1>1, <1>2, <1>3, <1>5, <1>6, <1>7, <1>8, QuietStep

LEMMA EngStep == ASSUME Inv, EngSpawns \/ EngExits \/ EngSettles PROVE Inv'
<1>1. TypeOK /\ eng \in EngType /\ EngOnly
  BY Typed DEF Inv, EngSpawns, EngExits, EngSettles
<1>2. /\ eng' \in EngType /\ eng'.admits = eng.admits /\ eng'.tokens = eng.tokens
      /\ eng.status => eng'.status
      /\ eng.state \notin {"none", "settled"} /\ eng'.state # "none"
  BY <1>1 DEF EngSpawns, EngExits, EngSettles, EngType
<1>3. TypeOK'
  BY <1>1, <1>2, Typed, TypedNext DEF EngOnly
<1>. QED
  BY <1>1, <1>2, <1>3, QuietStep DEF EngOnly

LEMMA OtherStep ==
  ASSUME Inv, \/ ObserverEnds \/ BootSkips \/ TaskConverges \/ LeaseExpires \/ LeaseLost
              \/ SpawnDropped \/ Crash \/ UNCHANGED vars
  PROVE  Inv'
<1> USE DEF ObserverEnds, BootSkips, TaskConverges, LeaseExpires, LeaseLost, SpawnDropped,
            Crash, Fault, vars
<1>1. TypeOK /\ row \in Rows /\ rc \in [Workers -> RcType]
  BY Typed DEF Inv
<1>2. row' \in Rows /\ row'.rec = row.rec /\ row'.phase = row.phase
  <2>1. row' = row \/ row' = [row EXCEPT !.lease = "expired"]
    OBVIOUS
  <2>. QED  BY <1>1, <2>1, RowWrites DEF Rows, RowType
<1>3. rc' \in [Workers -> RcType] /\ \A w \in Workers : rc'[w] = rc[w] \/ rc'[w].pc = "idle"
  <2>1. IdleRc \in RcType /\ IdleRc.pc = "idle"
    BY DEF IdleRc, RcType
  <2>2. rc' = rc \/ rc' = [w \in Workers |-> IdleRc]
    OBVIOUS
  <2>. QED  BY <1>1, <2>1, <2>2
<1>4. UNCHANGED eng /\ (task' = task \/ task' # "verdict")
      /\ task' \in {"open", "cancelled", "verdict", "failed"}
  BY <1>1, Typed
<1>5. obs' \in BOOLEAN /\ boot' \in {"none", "recover", "verify"} /\ spawner' \in SpawnerType
  BY <1>1, Typed DEF SpawnerType
<1>6. faults' \in 0 .. MaxFaults
  <2>1. faults \in 0 .. MaxFaults
    BY <1>1, Typed
  <2>2. faults' = faults \/ (faults < MaxFaults /\ faults' = faults + 1)
    OBVIOUS
  <2>. QED  BY <2>1, <2>2, OwnedAssumption
<1>7. TypeOK'
  BY <1>1, <1>2, <1>3, <1>4, <1>5, <1>6, Typed, TypedNext
<1>. QED
  BY <1>2, <1>3, <1>4, <1>7, QuietStep

-----------------------------------------------------------------------------
(* The theorems.                                                           *)

\* The repository's other writes leave the owner's record alone.
LEMMA RecKept ==
  ASSUME NEW r \in Rows, NEW s,
         \/ s = r \/ s = EnterParked(r) \/ s = EnterCompensating(r) \/ s = Unleased(r)
         \/ s = Settle(r, "succeeded") \/ \E t \in Tokens : s = Leased(r, t)
  PROVE  s.rec = r.rec
<1>1. ASSUME NEW t \in Tokens, s = Leased(r, t) PROVE s.rec = r.rec
  BY <1>1, RowWrites
<1>2. CASE s = EnterParked(r)
  BY <1>2, RowWrites
<1>3. CASE s = EnterCompensating(r)
  BY <1>3, RowWrites
<1>4. CASE s = Unleased(r)
  BY <1>4, RowWrites
<1>5. CASE s = Settle(r, "succeeded")
  BY <1>5, RowWrites
<1>. QED
  BY <1>1, <1>2, <1>3, <1>4, <1>5

LEMMA InitInv == Init => Inv
<1> SUFFICES ASSUME Init PROVE Inv
  OBVIOUS
<1>1. row \in Rows /\ row.rec = NoRec /\ row.phase = "spawn_started"
  <2>1. "spawn_started" \in Phases
    BY DEF Phases, DrivablePhases
  <2>. QED
    BY <2>1 DEF Init, NewRow, EnterPhase, Unleased, Rows, RowType
<1>2. rc \in [Workers -> RcType] /\ \A w \in Workers : rc[w].pc = "idle"
  BY DEF Init, IdleRc, RcType
<1>3. TypeOK
  <2>1. spawner \in SpawnerType /\ eng \in EngType /\ faults \in 0 .. MaxFaults
    BY OwnedAssumption DEF Init, SpawnerType, EngType
  <2>. QED  BY <1>1, <1>2, <2>1, Typed DEF Init
<1>. QED
  BY <1>1, <1>2, <1>3 DEF Init, Inv, Admission, PhaseOK, TokenOK, VerdictOK, VerdictIsEarned

LEMMA NextInv == Inv /\ [Next]_vars => Inv'
<1> SUFFICES ASSUME Inv, [Next]_vars PROVE Inv'
  OBVIOUS
<1>1. CASE SpawnClaim \/ BootSpawn \/ SpawnStep
  BY <1>1, SpawnClaimStep, SpawnAdmitStep, SpawnEndStep DEF SpawnStep
<1>2. CASE ObserverClaims \/ SweepClaims \/ BootClaims \/ FinishClaims
  BY <1>2, ClaimStep
<1>3. ASSUME NEW w \in Workers, RcStep(w) PROVE Inv'
  BY <1>3, RcReadStep, AuthorizeStep, SendTokenStep, AcknowledgeStep, StopRefusedStep,
     CompleteStep DEF RcStep
<1>4. CASE Dispose \/ EngSpawns \/ EngExits \/ EngSettles
  BY <1>4, DisposeStep, EngStep
<1>5. CASE \/ ObserverEnds \/ BootSkips \/ TaskConverges \/ LeaseExpires \/ LeaseLost
           \/ SpawnDropped \/ Crash \/ UNCHANGED vars
  BY <1>5, OtherStep
<1>. QED
  BY <1>1, <1>2, <1>3, <1>4, <1>5 DEF Next

\* The strengthened invariant holds in every reachable state.
THEOREM Invariance == Spec => []Inv
BY InitInv, NextInv, PTL DEF Spec

\* Whatever fails, is retried, replaced or restarted, one token reaches one
\* execution, and no execution runs behind a row recovery would not find
\* (pipe.rs release, the owned_execution guards of writes.rs).
THEOREM WorkerIsOwned == Spec => []RunIsOwned
<1>1. Inv => RunIsOwned
  <2> SUFFICES ASSUME Inv PROVE StartedOnce /\ NeverOrphaned
    BY DEF Inv, RunIsOwned
  <2>1. eng.admits \in {0, 1} /\ eng.tokens \in {0, 1}
    BY DEF Inv, Admission, TokenOK
  <2>2. StartedOnce
    BY <2>1 DEF StartedOnce
  <2>3. NeverOrphaned
    BY DEF Inv, Admission, PhaseOK, NeverOrphaned
  <2>. QED  BY <2>2, <2>3
<1>. QED
  BY Invariance, <1>1, PTL

\* An exit status is a verdict only for an acknowledged token nobody stopped
\* (complete_pipe_tx).
THEOREM VerdictIsOfARelease == Spec => []VerdictIsEarned
<1>1. Inv => VerdictIsEarned
  BY DEF Inv, VerdictOK
<1>. QED
  BY Invariance, <1>1, PTL

\* The first stop decision stands, and a reconciler whose claim was replaced
\* changes nothing of the row (compare_exchange, refresh_claim).
THEOREM RecordFencing == Spec => RecordIsFenced
<1> DEFINE Final == row.rec # NoRec /\ row.rec.decision # "observing" =>
                      row'.rec = row.rec /\ (task # "open" => task' = task)
           Harmless == \A w \in Workers :
                         rc'[w] # rc[w] /\ rc[w].pc # "idle" /\ rc[w].owner # row.owner => row' = row
<1>1. Inv /\ [Next]_vars => [Final]_vars
  <2> SUFFICES ASSUME Inv, Next, row.rec # NoRec, row.rec.decision # "observing"
               PROVE  row'.rec = row.rec /\ (task # "open" => task' = task)
    OBVIOUS
  <2>1. row \in Rows /\ Fresh.decision = "observing" /\ Begun.decision = "observing"
    BY Typed DEF Inv, Fresh, Begun
  <2>2. CASE SpawnClaim \/ BootSpawn \/ SpawnStep
    <3>1. task' = task
      BY <2>2 DEF SpawnClaim, BootSpawn, SpawnStep, SpawnAdmit, SpawnCard, SpawnPark, SpawnFail, SpawnerOnly
    <3>2. row' = row \/ row' = EnterParked(row) \/ row' = EnterCompensating(row)
          \/ \E t \in Tokens : row' = Leased(row, t)
      BY <2>2, NewIdFresh DEF SpawnClaim, BootSpawn, SpawnStep, SpawnAdmit, SpawnCard, SpawnPark, SpawnFail, Cas
    <3>. QED  BY <2>1, <3>1, <3>2, RecKept
  <2>3. CASE ObserverClaims \/ SweepClaims \/ BootClaims \/ FinishClaims
    <3>1. task' = task /\ \E t \in Tokens : row' = Leased(row, t)
      BY <2>3, NewIdFresh DEF ObserverClaims, SweepClaims, BootClaims, FinishClaims, Begin
    <3>. QED  BY <2>1, <3>1, RecKept
  <2>4. ASSUME NEW w \in Workers, RcStep(w)
        PROVE  row'.rec = row.rec /\ (task # "open" => task' = task)
    <3>1. task # "open" => task' = task
      BY <2>4 DEF RcStep, ActNothing, ActBegun, Authorize, SendToken, Acknowledge, RetryRefresh,
                  StopRefused, Refresh, Sample, Drain, Complete, GiveBack
    <3>2. row' = row \/ row' = Unleased(row) \/ row' = Settle(row, "succeeded")
      <4>1. CASE ActNothing(w) \/ ActBegun(w) \/ SendToken(w) \/ RetryRefresh(w) \/ Refresh(w)
                 \/ Sample(w) \/ Drain(w) \/ Complete(w) \/ GiveBack(w)
        BY <4>1 DEF ActNothing, ActBegun, SendToken, RetryRefresh, Refresh, Sample, Drain, Complete, GiveBack
      <4>2. CASE Authorize(w) \/ Acknowledge(w) \/ StopRefused(w)
        BY <2>1, <4>2 DEF Authorize, Acknowledge, StopRefused, Cas
      <4>. QED  BY <2>4, <4>1, <4>2 DEF RcStep
    <3>. QED  BY <2>1, <3>1, <3>2, RecKept
  <2>5. CASE Dispose \/ EngSpawns \/ EngExits \/ EngSettles \/ ObserverEnds \/ BootSkips
             \/ TaskConverges \/ LeaseExpires \/ LeaseLost \/ SpawnDropped \/ Crash
    <3>1. row' = row \/ row' = [row EXCEPT !.lease = "expired"]
      BY <2>5 DEF Dispose, EngSpawns, EngExits, EngSettles, EngOnly, ObserverEnds, BootSkips,
                  TaskConverges, LeaseExpires, LeaseLost, SpawnDropped, Crash
    <3>2. task # "open" => task' = task
      BY <2>5 DEF Dispose, EngSpawns, EngExits, EngSettles, EngOnly, ObserverEnds, BootSkips,
                  TaskConverges, LeaseExpires, LeaseLost, SpawnDropped, Crash
    <3>. QED  BY <2>1, <3>1, <3>2 DEF Rows, RowType
  <2>. QED
    BY <2>2, <2>3, <2>4, <2>5 DEF Next
<1>2. Inv /\ [Next]_vars => [Harmless]_vars
  <2> SUFFICES ASSUME Inv, Next, NEW w \in Workers, rc'[w] # rc[w], rc[w].pc # "idle",
                      rc[w].owner # row.owner
               PROVE  row' = row
    OBVIOUS
  <2>1. rc \in [Workers -> RcType]
    BY Typed DEF Inv
  <2>2. CASE SpawnClaim \/ BootSpawn \/ SpawnStep \/ Dispose \/ EngSpawns \/ EngExits \/ EngSettles
             \/ ObserverEnds \/ BootSkips \/ TaskConverges \/ LeaseExpires \/ LeaseLost
             \/ SpawnDropped \/ Crash
    BY <2>2 DEF SpawnClaim, BootSpawn, SpawnStep, SpawnAdmit, SpawnCard, SpawnPark, SpawnFail,
                SpawnerOnly, Dispose, EngSpawns, EngExits, EngSettles, EngOnly, ObserverEnds,
                BootSkips, TaskConverges, LeaseExpires, LeaseLost, SpawnDropped, Crash
  <2>3. CASE ObserverClaims \/ SweepClaims \/ BootClaims \/ FinishClaims
    BY <2>1, <2>3 DEF ObserverClaims, SweepClaims, BootClaims, FinishClaims, Begin
  <2>4. ASSUME NEW v \in Workers, RcStep(v) PROVE row' = row
    <3>1. \A u \in Workers : u # v => rc'[u] = rc[u]
      BY <2>1, <2>4 DEF RcStep, ActNothing, ActBegun, Authorize, SendToken, Acknowledge, RetryRefresh,
                  StopRefused, Refresh, Sample, Drain, Complete, GiveBack, RcTo, RcEnds
    <3>2. v = w
      BY <3>1
    <3>. QED
      BY <2>4, <3>2 DEF RcStep, ActNothing, ActBegun, Authorize, SendToken, Acknowledge, RetryRefresh,
                  StopRefused, Refresh, Sample, Drain, Complete, GiveBack, ParkLive, LiveClaim
  <2>. QED
    BY <2>2, <2>3, <2>4 DEF Next
<1>3. Spec => [][Final]_vars /\ [][Harmless]_vars
  BY Invariance, <1>1, <1>2, PTL DEF Spec
<1>. QED
  BY <1>3 DEF RecordIsFenced, DecisionIsFinal, StaleIsHarmless

-----------------------------------------------------------------------------
(* The engine that eng abstracts, for any number of faults.  Its           *)
(* invariants are not inductive by themselves: what the row says about the *)
(* executor rests on the snapshots the driver task works with, so each     *)
(* conjunct below says for how long one of them can be relied on.          *)

\* Program points of the driver after it took a generation, after it read the
\* row, and after it inspected the executor.
AfterWatch == {"reload", "inspect", "act", "finish", "retire", "wait", "recheck"}
AfterReload == {"inspect", "act", "finish", "retire", "wait", "recheck"}
AfterInspect == {"act", "finish", "retire"}
Sleeping == {"wait", "recheck"}

Over == Quiescent \cup {"retired"}

\* Nobody works on an execution that was never admitted.
WorkIsAdmitted ==
  stored.status = "none" =>
    run.pc = "none" /\ ~undriven /\ stored.settlement = "none"

\* A drive call that came after the row was read left its mark and its permit.
DesireIsCurrent ==
  run.pc \in AfterReload /\ ~undriven /\ (~dirty \/ ~permit)
    => run.desired = stored.desired

\* A driver about to park leaves nothing behind unless it is marked or failed.
ParkIsJustified ==
  run.pc = "park" /\ ~failed /\ ~undriven /\ ~dirty => ~Pending

\* An unmoved generation means that Watch has been connected all along ...
UnmovedIsWatched == run.pc \in AfterWatch /\ ~moved => watching

\* ... and that the fact in hand is the journal's, unless a reply was lost.
FactIsCurrent ==
  /\ run.pc \in AfterInspect /\ ~moved => run.fact = exec.fact
  /\ run.pc \in Sleeping /\ ~moved /\ ~restart => run.fact = exec.fact

\* However old it is, evidence that nothing runs stays true.
EvidenceStays ==
  /\ run.pc \in AfterInspect /\ run.fact \in Over => exec.fact \in Over
  /\ run.pc \in AfterInspect /\ run.fact = "retired" => exec.fact = "retired"

\* What the later program points rely on.
StepIsJustified ==
  /\ run.settlement # "none" => stored.settlement # "none"
  /\ run.pc = "finish" => run.fact = "retired" /\ stored.settlement # "none"
  /\ run.pc = "retire" => stored.settlement # "none"

EngineInv ==
  /\ WorkIsAdmitted /\ DesireIsCurrent /\ ParkIsJustified
  /\ UnmovedIsWatched /\ FactIsCurrent /\ EvidenceStays /\ StepIsJustified
  /\ SettlementIsEvidence /\ FinishedIsRetired /\ NothingForgotten

-----------------------------------------------------------------------------
\* The Boolean variables, typed by themselves.
EngineFlagsOK ==
  /\ dirty \in BOOLEAN /\ permit \in BOOLEAN /\ moved \in BOOLEAN
  /\ watching \in BOOLEAN /\ restart \in BOOLEAN
  /\ undriven \in BOOLEAN /\ failed \in BOOLEAN

\* Every step of Next keeps the Boolean variables Boolean.
LEMMA EngineStepFlags == EngineFlagsOK /\ [EngineNext]_engineVars => EngineFlagsOK'
<1> SUFFICES ASSUME EngineFlagsOK, [EngineNext]_engineVars PROVE EngineFlagsOK'
  OBVIOUS
<1> USE DEF EngineFlagsOK
<1>1. CASE Admit
  BY <1>1, Zenon DEF Admit, CallerOnly
<1>2. CASE DriveCommitted
  BY <1>2, Zenon DEF DriveCommitted, CallerOnly, Drive, IdleRun
<1>3. CASE RecoverTick
  BY <1>3, Zenon DEF RecoverTick, CallerOnly, Drive, IdleRun
<1>4. ASSUME NEW d \in Desires, Request(d) PROVE EngineFlagsOK'
  BY <1>4, Zenon DEF Request, CallerOnly
<1>5. CASE RunTop
  BY <1>5, Zenon DEF RunTop, RunOnly, Goto
<1>6. CASE CycleLoad
  BY <1>6, Zenon DEF CycleLoad, RunOnly, Goto
<1>7. CASE CycleWatch
  BY <1>7, Zenon DEF CycleWatch, RunOnly, Goto
<1>8. CASE CycleReload
  BY <1>8, Zenon DEF CycleReload, RunOnly
<1>9. CASE CycleInspect
  BY <1>9, Zenon DEF CycleInspect, RunOnly, Reconciled
<1>10. CASE InspectLost
  BY <1>10, Zenon DEF InspectLost, RunOnly, Goto, EngineFault
<1>11. CASE ActCommand
  BY <1>11, Zenon DEF ActCommand, RunOnly, Commanded, Goto, Prepared, Launched,
         Revoked
<1>12. CASE ActStop
  BY <1>12, Zenon DEF ActStop, RunOnly, Commanded, Goto, Stopped
<1>13. CASE ActWait
  BY <1>13, Zenon DEF ActWait, RunOnly, Goto
<1>14. CASE ActSettle
  BY <1>14, Zenon DEF ActSettle, RunOnly, Goto, Step, NextStep
<1>15. CASE ActFinish
  BY <1>15, Zenon DEF ActFinish, RunOnly, Goto
<1>16. CASE ActRetire
  BY <1>16, Zenon DEF ActRetire, RunOnly, Commanded, Goto, Retired
<1>17. CASE ReplyLost
  BY <1>17, Zenon DEF ReplyLost, RunOnly, Commanded, Goto, Prepared, Launched,
         Revoked, Stopped, Retired, EngineFault
<1>18. CASE StepFails
  BY <1>18, Zenon DEF StepFails, RunOnly, Goto, EngineFault
<1>19. CASE Wait
  BY <1>19, Zenon DEF Wait, RunOnly, Goto
<1>20. CASE Recheck
  BY <1>20, Zenon DEF Recheck, RunOnly, Goto
<1>21. CASE Park
  BY <1>21, Zenon DEF Park, RunOnly, Goto, Gone, IdleRun
<1>22. CASE ForkDone
  BY <1>22, Zenon DEF ForkDone, Changed
<1>23. CASE ScopeLost
  BY <1>23, Zenon DEF ScopeLost, Changed, EngineFault
<1>24. CASE LeaderExits
  BY <1>24, Zenon DEF LeaderExits, Changed
<1>25. CASE Drains
  BY <1>25, Zenon DEF Drains, Changed
<1>26. CASE OutputEnds
  BY <1>26, Zenon DEF OutputEnds, Changed
<1>27. CASE OriginalGone
  BY <1>27, Zenon DEF OriginalGone
<1>28. CASE ExecRestart
  BY <1>28, Zenon DEF ExecRestart, EngineFault
<1>29. CASE WatchRestart
  BY <1>29, Zenon DEF WatchRestart, WatchLost
<1>30. CASE WatchBreaks
  BY <1>30, Zenon DEF WatchBreaks, WatchLost, EngineFault
<1>31. CASE WatchBack
  BY <1>31, Zenon DEF WatchBack
<1>32. CASE ServerCrash
  BY <1>32, Zenon DEF ServerCrash, EngineFault, Gone, IdleRun, Pending
<1>33. CASE HostReboot
  BY <1>33, Zenon DEF HostReboot, EngineFault, Gone, IdleRun, Pending
<1>34. CASE UNCHANGED engineVars
  BY <1>34, Zenon DEF engineVars
<1>. QED   BY <1>1, <1>2, <1>3, <1>4, <1>5, <1>6, <1>7, <1>8, <1>9, <1>10,
         <1>11, <1>12, <1>13, <1>14, <1>15, <1>16, <1>17, <1>18, <1>19, <1>20,
         <1>21, <1>22, <1>23, <1>24, <1>25, <1>26, <1>27, <1>28, <1>29, <1>30,
         <1>31, <1>32, <1>33, <1>34
     DEF EngineNext, DriverStep

\* The initial state of engine, executor and row is well typed.
LEMMA EngineInitType == EngineInit => EngineTypeOK
<1> SUFFICES ASSUME EngineInit PROVE EngineTypeOK
  OBVIOUS
<1>1. EngineFlagsOK
  BY Zenon DEF EngineInit, EngineFlagsOK
<1>. QED
  BY <1>1, EngineAssumption
     DEF EngineInit, EngineFlagsOK, EngineTypeOK, IdleRun, Settlements, Journal, Quiescent, Facts, Desires

\* Every action of callers, driver, executor and Watch stream is well typed.
LEMMA EngineStepType == EngineTypeOK /\ [EngineNext]_engineVars => EngineTypeOK'
<1> SUFFICES ASSUME EngineTypeOK, [EngineNext]_engineVars PROVE EngineTypeOK'
  OBVIOUS
<1>0. EngineFlagsOK'
  BY EngineStepFlags, Zenon DEF EngineTypeOK, EngineFlagsOK
<1> USE <1>0, EngineAssumption DEF EngineTypeOK, EngineFlagsOK, Settlements, Journal, Quiescent, Facts, Desires
<1>1. CASE Admit
  BY <1>1 DEF Admit, CallerOnly
<1>2. CASE DriveCommitted
  BY <1>2 DEF DriveCommitted, CallerOnly, Drive, IdleRun
<1>3. CASE RecoverTick
  BY <1>3 DEF RecoverTick, CallerOnly, Drive, IdleRun
<1>4. ASSUME NEW d \in Desires, Request(d) PROVE EngineTypeOK'
  BY <1>4 DEF Request, CallerOnly
<1>5. CASE RunTop
  BY <1>5 DEF RunTop, RunOnly, Goto
<1>6. CASE CycleLoad
  BY <1>6 DEF CycleLoad, RunOnly, Goto
<1>7. CASE CycleWatch
  BY <1>7 DEF CycleWatch, RunOnly, Goto
<1>8. CASE CycleReload
  <2>1. CASE stored.status = "active"
    <3>1. stored.desired \in Desires /\ stored.settlement \in Settlements
      OBVIOUS
    <3> HIDE DEF Desires, Settlements, Facts
    <3>. QED
      BY <1>8, <2>1, <3>1 DEF CycleReload, RunOnly
  <2>2. CASE stored.status # "active"
    BY <1>8, <2>2 DEF CycleReload, RunOnly
  <2>. QED
    BY <2>1, <2>2
<1>9. CASE CycleInspect
  <2>1. exec' \in Journal /\ exec'.fact \in Facts
    BY <1>9 DEF CycleInspect, Reconciled
  <2>. QED
    BY <1>9, <2>1 DEF CycleInspect, RunOnly
<1>10. CASE InspectLost
  BY <1>10 DEF InspectLost, RunOnly, Goto, EngineFault
<1>11. CASE ActCommand
  BY <1>11 DEF ActCommand, RunOnly, Commanded, Goto, Prepared, Launched,
         Revoked
<1>12. CASE ActStop
  BY <1>12 DEF ActStop, RunOnly, Commanded, Goto, Stopped
<1>13. CASE ActWait
  BY <1>13 DEF ActWait, RunOnly, Goto
<1>14. CASE ActSettle
  BY <1>14 DEF ActSettle, RunOnly, Goto, Step, NextStep
<1>15. CASE ActFinish
  BY <1>15 DEF ActFinish, RunOnly, Goto
<1>16. CASE ActRetire
  BY <1>16 DEF ActRetire, RunOnly, Commanded, Goto, Retired
<1>17. CASE ReplyLost
  BY <1>17 DEF ReplyLost, RunOnly, Commanded, Goto, Prepared, Launched,
         Revoked, Stopped, Retired, EngineFault
<1>18. CASE StepFails
  BY <1>18 DEF StepFails, RunOnly, Goto, EngineFault
<1>19. CASE Wait
  BY <1>19 DEF Wait, RunOnly, Goto
<1>20. CASE Recheck
  BY <1>20 DEF Recheck, RunOnly, Goto
<1>21. CASE Park
  BY <1>21 DEF Park, RunOnly, Goto, Gone, IdleRun
<1>22. CASE ForkDone
  BY <1>22 DEF ForkDone, Changed
<1>23. CASE ScopeLost
  BY <1>23 DEF ScopeLost, Changed, EngineFault
<1>24. CASE LeaderExits
  BY <1>24 DEF LeaderExits, Changed
<1>25. CASE Drains
  BY <1>25 DEF Drains, Changed
<1>26. CASE OutputEnds
  BY <1>26 DEF OutputEnds, Changed
<1>27. CASE OriginalGone
  BY <1>27 DEF OriginalGone
<1>28. CASE ExecRestart
  <2>1. exec' \in Journal
    <3>1. CASE exec.fact = "prepared"
      BY <1>28, <3>1 DEF ExecRestart
    <3>2. CASE exec.fact \in {"forking", "spawned", "exited"}
      BY <1>28, <3>2 DEF ExecRestart
    <3>3. CASE exec.fact \notin {"prepared", "forking", "spawned", "exited"}
      BY <1>28, <3>3 DEF ExecRestart
    <3>. QED
      BY <3>1, <3>2, <3>3
  <2>. QED
    BY <1>28, <2>1 DEF ExecRestart, EngineFault
<1>29. CASE WatchRestart
  BY <1>29 DEF WatchRestart, WatchLost
<1>30. CASE WatchBreaks
  BY <1>30 DEF WatchBreaks, WatchLost, EngineFault
<1>31. CASE WatchBack
  BY <1>31 DEF WatchBack
<1>32. CASE ServerCrash
  BY <1>32 DEF ServerCrash, EngineFault, Gone, IdleRun, Pending
<1>33. CASE HostReboot
  <2>1. exec' \in Journal
    BY <1>33 DEF HostReboot
  <2>. QED
    BY <1>33, <2>1 DEF HostReboot, EngineFault, Gone, IdleRun, Pending
<1>34. CASE UNCHANGED engineVars
  BY <1>34 DEF engineVars
<1>. QED   BY <1>1, <1>2, <1>3, <1>4, <1>5, <1>6, <1>7, <1>8, <1>9, <1>10,
         <1>11, <1>12, <1>13, <1>14, <1>15, <1>16, <1>17, <1>18, <1>19, <1>20,
         <1>21, <1>22, <1>23, <1>24, <1>25, <1>26, <1>27, <1>28, <1>29, <1>30,
         <1>31, <1>32, <1>33, <1>34
     DEF EngineNext, DriverStep

\* The initial state satisfies the strengthened invariant.
LEMMA EngineInitInv == EngineInit => EngineInv
  BY DEF EngineInit, EngineInv, WorkIsAdmitted, DesireIsCurrent, ParkIsJustified,
         UnmovedIsWatched, FactIsCurrent, EvidenceStays, StepIsJustified,
         SettlementIsEvidence, FinishedIsRetired, NothingForgotten, Pending,
         IdleRun, AfterWatch, AfterReload, AfterInspect, Sleeping, Over

\* Every action keeps the strengthened invariant: what a snapshot is good for
\* survives the steps of the other actors, or its validity condition fails.
LEMMA EngineStepInv == EngineTypeOK /\ EngineTypeOK' /\ EngineInv /\ [EngineNext]_engineVars => EngineInv'
<1> SUFFICES ASSUME EngineTypeOK, EngineTypeOK', EngineInv, [EngineNext]_engineVars PROVE EngineInv'
  OBVIOUS
<1> USE DEF EngineTypeOK, EngineInv, WorkIsAdmitted, DesireIsCurrent, ParkIsJustified,
       UnmovedIsWatched, FactIsCurrent, EvidenceStays, StepIsJustified,
       SettlementIsEvidence, FinishedIsRetired, NothingForgotten, Pending,
       AfterWatch, AfterReload, AfterInspect, Sleeping, Over, Settlements,
       Journal, Quiescent, Facts, Desires
<1>1. CASE Admit
  BY <1>1 DEF Admit, CallerOnly
<1>2. CASE DriveCommitted
  BY <1>2 DEF DriveCommitted, CallerOnly, Drive, IdleRun
<1>3. CASE RecoverTick
  BY <1>3 DEF RecoverTick, CallerOnly, Drive, IdleRun
<1>4. ASSUME NEW d \in Desires, Request(d) PROVE EngineInv'
  BY <1>4 DEF Request, CallerOnly
<1>5. CASE RunTop
  BY <1>5 DEF RunTop, RunOnly, Goto
<1>6. CASE CycleLoad
  BY <1>6 DEF CycleLoad, RunOnly, Goto
<1>7. CASE CycleWatch
  BY <1>7 DEF CycleWatch, RunOnly, Goto
<1>8. CASE CycleReload
  BY <1>8 DEF CycleReload, RunOnly
<1>9. CASE CycleInspect
  BY <1>9 DEF CycleInspect, RunOnly, Reconciled
<1>10. CASE InspectLost
  BY <1>10 DEF InspectLost, RunOnly, Goto, EngineFault
<1>11. CASE ActCommand
  BY <1>11 DEF ActCommand, RunOnly, Commanded, Goto, Prepared, Launched,
         Revoked
<1>12. CASE ActStop
  BY <1>12 DEF ActStop, RunOnly, Commanded, Goto, Stopped
<1>13. CASE ActWait
  BY <1>13 DEF ActWait, RunOnly, Goto
<1>14. CASE ActSettle
  BY <1>14 DEF ActSettle, RunOnly, Goto, Step, NextStep
<1>15. CASE ActFinish
  BY <1>15 DEF ActFinish, RunOnly, Goto
<1>16. CASE ActRetire
  BY <1>16 DEF ActRetire, RunOnly, Commanded, Goto, Retired
<1>17. CASE ReplyLost
  BY <1>17 DEF ReplyLost, RunOnly, Commanded, Goto, Prepared, Launched,
         Revoked, Stopped, Retired, EngineFault
<1>18. CASE StepFails
  BY <1>18 DEF StepFails, RunOnly, Goto, EngineFault
<1>19. CASE Wait
  BY <1>19 DEF Wait, RunOnly, Goto
<1>20. CASE Recheck
  BY <1>20 DEF Recheck, RunOnly, Goto
<1>21. CASE Park
  BY <1>21 DEF Park, RunOnly, Goto, Gone, IdleRun
<1>22. CASE ForkDone
  BY <1>22 DEF ForkDone, Changed
<1>23. CASE ScopeLost
  BY <1>23 DEF ScopeLost, Changed, EngineFault
<1>24. CASE LeaderExits
  BY <1>24 DEF LeaderExits, Changed
<1>25. CASE Drains
  BY <1>25 DEF Drains, Changed
<1>26. CASE OutputEnds
  BY <1>26 DEF OutputEnds, Changed
<1>27. CASE OriginalGone
  BY <1>27 DEF OriginalGone
<1>28. CASE ExecRestart
  BY <1>28 DEF ExecRestart, EngineFault
<1>29. CASE WatchRestart
  BY <1>29 DEF WatchRestart, WatchLost
<1>30. CASE WatchBreaks
  BY <1>30 DEF WatchBreaks, WatchLost, EngineFault
<1>31. CASE WatchBack
  BY <1>31 DEF WatchBack
<1>32. CASE ServerCrash
  BY <1>32 DEF ServerCrash, EngineFault, Gone, IdleRun, Pending
<1>33. CASE HostReboot
  BY <1>33 DEF HostReboot, EngineFault, Gone, IdleRun, Pending
<1>34. CASE UNCHANGED engineVars
  BY <1>34 DEF engineVars
<1>. QED   BY <1>1, <1>2, <1>3, <1>4, <1>5, <1>6, <1>7, <1>8, <1>9, <1>10,
         <1>11, <1>12, <1>13, <1>14, <1>15, <1>16, <1>17, <1>18, <1>19, <1>20,
         <1>21, <1>22, <1>23, <1>24, <1>25, <1>26, <1>27, <1>28, <1>29, <1>30,
         <1>31, <1>32, <1>33, <1>34
     DEF EngineNext, DriverStep

-----------------------------------------------------------------------------
(* The theorems.                                                           *)

\* Every reachable state of the engine, its row and its executor is well typed.
THEOREM EngineTypeCorrect == EngineSpec => []EngineTypeOK
<1>1. EngineTypeOK /\ [EngineNext]_engineVars => EngineTypeOK'
  BY EngineStepType
<1>. QED
  BY EngineInitType, <1>1, PTL DEF EngineSpec

\* The strengthened invariant holds in every reachable state.
THEOREM EngineInvariance == EngineSpec => []EngineInv
<1>1. EngineTypeOK /\ EngineTypeOK' /\ EngineInv /\ [EngineNext]_engineVars => EngineInv'
  BY EngineStepInv
<1>. QED
  BY EngineInitInv, EngineTypeCorrect, <1>1, PTL DEF EngineSpec

\* The settlement ActSettle writes to the row stays the executor's own positive
\* evidence, however stale the driver's inspection was when it was written.
THEOREM SettlementSound == EngineSpec => []SettlementIsEvidence
<1>1. EngineInv => SettlementIsEvidence
  BY DEF EngineInv
<1>. QED
  BY EngineInvariance, <1>1, PTL

\* The secrets are dropped (ActFinish) only behind the executor's tombstone.
THEOREM FinishSound == EngineSpec => []FinishedIsRetired
<1>1. EngineInv => FinishedIsRetired
  BY DEF EngineInv
<1>. QED
  BY EngineInvariance, <1>1, PTL

\* The park handshake loses no request, in whatever order callers commit,
\* drive and the driver parks.
THEOREM ParkSound == EngineSpec => []NothingForgotten
<1>1. EngineInv => NothingForgotten
  BY DEF EngineInv
<1>. QED
  BY EngineInvariance, <1>1, PTL

\* No wake is lost between the driver's snapshots and its sleep.
THEOREM WakeSound == EngineSpec => []SleepIsCurrent
<1>1. EngineInv => SleepIsCurrent
  BY DEF EngineInv, DesireIsCurrent, FactIsCurrent, AfterReload, Sleeping, SleepIsCurrent
<1>. QED
  BY EngineInvariance, <1>1, PTL

\* What the row records of the executor is true of it: its settlement is the
\* executor's evidence and its secrets go only behind the tombstone.
THEOREM SettlementIsAlwaysSound == EngineSpec => []SettlementIsSound
<1>1. EngineTypeOK /\ SettlementIsEvidence /\ FinishedIsRetired => SettlementIsSound
  BY DEF SettlementIsSound
<1>. QED
  BY EngineTypeCorrect, SettlementSound, FinishSound, <1>1, PTL

\* Neither a park nor a sleep overlooks a request or an executor's fact.
THEOREM NoWakeIsLost == EngineSpec => []NoWakeLost
<1>1. NothingForgotten /\ SleepIsCurrent => NoWakeLost
  BY DEF NoWakeLost
<1>. QED
  BY ParkSound, WakeSound, <1>1, PTL

\* No request, from whoever it comes, weakens the desire the row holds.
THEOREM DesireMonotone == EngineSpec => DesireGrows
<1> DEFINE Grows == stored.status # "none" => Rank[stored'.desired] >= Rank[stored.desired]
<1>1. EngineTypeOK /\ [EngineNext]_engineVars => [Grows]_engineVars
  <2> SUFFICES ASSUME EngineTypeOK, EngineNext PROVE Grows
    OBVIOUS
  <2>1. stored.desired \in Desires /\ \A d \in Desires : Rank[d] \in Nat
    BY DEF EngineTypeOK, Desires, Rank
  <2>2. ASSUME NEW d \in Desires, Request(d) PROVE Grows
    BY <2>1, <2>2 DEF Request, EngineTypeOK
  <2>3. CASE stored'.desired = stored.desired
    BY <2>1, <2>3
  <2>4. ASSUME \A d \in Desires : ~Request(d) PROVE stored'.desired = stored.desired
    BY <2>4 DEF EngineNext, DriverStep, EngineTypeOK, Admit, DriveCommitted, RecoverTick, RunTop,
       CycleLoad, CycleWatch, CycleReload, CycleInspect, ActCommand, ActStop,
       ActWait, ActSettle, ActFinish, ActRetire, Wait, Park, Recheck, InspectLost,
       ReplyLost, StepFails, ForkDone, ScopeLost, LeaderExits, Drains, OutputEnds,
       OriginalGone, ExecRestart, WatchRestart, WatchBreaks, WatchBack, WatchLost,
       Changed, ServerCrash, HostReboot
  <2>. QED
    BY <2>2, <2>3, <2>4
<1>. QED
  BY EngineTypeCorrect, <1>1, PTL DEF EngineSpec, DesireGrows
=============================================================================
