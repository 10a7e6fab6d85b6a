-------------------------- MODULE KeyedSubmission --------------------------
(***************************************************************************)
(* Submission of an operation under an idempotency key                     *)
(* (calm-server/src/operation: driver.rs, repo_sqlite.rs, tx_only.rs).     *)
(* Requests with one key race through three doors:                         *)
(*                                                                         *)
(*   "submit"   keyed_replay, validate, insert_operation, then drive/wait  *)
(*   "execute"  execute_with_adapter: the same under the drive mutex       *)
(*   "commit"   commit_keyed: check, row, effect and settlement in one     *)
(*              BEGIN IMMEDIATE transaction                                *)
(*                                                                         *)
(* One kind is modelled; rows of different kinds never meet in the unique  *)
(* index (kind, idempotency_key). A request is a key and a payload hash;   *)
(* a caller that got no answer may send it again through the same door.    *)
(* What driving a row does is OperationRuntime's subject: here it is one   *)
(* step that has the operation's effect and settles the row.               *)
(***************************************************************************)
EXTENDS Naturals, FiniteSets

CONSTANTS
  Callers, Keys, Payloads,
  None,
  MaxSends,      \* bound: how often one caller sends its request
  MaxRows        \* bound: fresh operation ids

ASSUME SubmissionAssumption ==
  /\ None \notin Callers /\ None \notin Keys /\ None \notin Payloads
  /\ MaxSends \in Nat \ {0} /\ MaxRows \in Nat \ {0}

VARIABLES
  rows,      \* operations rows by id, in insertion order
  req,       \* each caller's request and the door it uses
  at,        \* where its handler is, "idle" when none runs
  op,        \* the operation id the handler has found or made
  answer,    \* the last answer the caller received
  sends,     \* requests sent by each caller
  drive,     \* the drive mutex
  effects    \* history: how often each row's effect was carried out

submissionVars == <<rows, req, at, op, answer, sends, drive, effects>>

Ids == 1 .. MaxRows
NoRow == [key |-> None, payload |-> None, phase |-> "none"]
KeyedRows == [key : Keys, payload : Payloads,
            phase : {"pending", "succeeded", "failed"}] \cup {NoRow}
Doors == {"submit", "execute", "commit"}
NoAnswer == [kind |-> "none", id |-> 0, result |-> "none"]

SubmissionTypeOK ==
  /\ rows \in [Ids -> KeyedRows]
  /\ req \in [Callers -> [key : Keys, payload : Payloads, door : Doors]]
  /\ at \in [Callers -> {"idle", "lock", "replay", "validate", "dedup", "insert",
                         "relookup", "begin", "wait"}]
  /\ op \in [Callers -> 0 .. MaxRows]
  /\ answer \in [Callers -> [kind : {"none", "result", "conflict", "refused", "error"},
                             id : 0 .. MaxRows,
                             result : {"none", "succeeded", "failed"}]]
  /\ sends \in [Callers -> 0 .. MaxSends]
  /\ drive \in Callers \cup {None}
  /\ effects \in [Ids -> 0 .. 2]

SubmissionInit ==
  /\ rows = [i \in Ids |-> NoRow]
  /\ req \in [Callers -> [key : Keys, payload : Payloads, door : Doors]]
  /\ at = [c \in Callers |-> "idle"]
  /\ op = [c \in Callers |-> 0]
  /\ answer = [c \in Callers |-> NoAnswer]
  /\ sends = [c \in Callers |-> 0]
  /\ drive = None
  /\ effects = [i \in Ids |-> 0]

-----------------------------------------------------------------------------
Free == {i \in Ids : rows[i] = NoRow}
NewRowId == CHOOSE i \in Free : \A j \in Free : i <= j     \* new_id
Bound(k) == {i \in Ids : rows[i].key = k}
HasSettled(i) == rows[i].phase \in {"succeeded", "failed"}

Goto(c, pc) == at' = [at EXCEPT ![c] = pc]

\* The handler returns; execute_with_adapter drops the drive guard.
ReturnHoldsDrive(c, kind, i) ==
  /\ answer' = [answer EXCEPT ![c] =
       [kind |-> kind, id |-> i, result |-> IF i = 0 THEN "none" ELSE rows[i].phase]]
  /\ Goto(c, "idle")
  /\ UNCHANGED drive
Return(c, kind, i) ==
  /\ answer' = [answer EXCEPT ![c] =
       [kind |-> kind, id |-> i, result |-> IF i = 0 THEN "none" ELSE rows[i].phase]]
  /\ Goto(c, "idle")
  /\ drive' = IF drive = c THEN None ELSE drive

\* A lookup by key: the row of the same payload is a replay, another payload
\* is idempotency_key_reused, no row goes on to `next`.
LookupIgnoringPayload(c, next) ==
  IF Bound(req[c].key) = {}
    THEN Goto(c, next) /\ UNCHANGED <<op, answer, drive>>
    ELSE LET i == CHOOSE i \in Bound(req[c].key) : TRUE
         IN op' = [op EXCEPT ![c] = i] /\ Goto(c, "wait") /\ UNCHANGED <<answer, drive>>
Lookup(c, next) ==
  IF Bound(req[c].key) = {}
    THEN Goto(c, next) /\ UNCHANGED <<op, answer, drive>>
    ELSE LET i == CHOOSE i \in Bound(req[c].key) : TRUE
         IN IF rows[i].payload = req[c].payload
              THEN /\ op' = [op EXCEPT ![c] = i]
                   /\ Goto(c, "wait")
                   /\ UNCHANGED <<answer, drive>>
              ELSE Return(c, "conflict", 0) /\ UNCHANGED op

\* A caller sends its request, the first time or because no answer came.
Send(c) ==
  /\ at[c] = "idle" /\ sends[c] < MaxSends /\ answer[c].kind \in {"none", "error"}
  /\ sends' = [sends EXCEPT ![c] = @ + 1]
  /\ Goto(c, CASE req[c].door = "submit" -> "replay"
               [] req[c].door = "execute" -> "lock"
               [] OTHER -> "validate")
  /\ op' = [op EXCEPT ![c] = 0]
  /\ UNCHANGED <<rows, req, answer, drive, effects>>

\* execute_with_adapter: the drive mutex, held until the result is there.
Lock(c) ==
  /\ at[c] = "lock" /\ drive = None
  /\ drive' = c /\ Goto(c, "replay")
  /\ UNCHANGED <<rows, req, op, answer, sends, effects>>

\* keyed_replay.
KeyedReplay(c) ==
  /\ at[c] = "replay"
  /\ Lookup(c, "validate")
  /\ UNCHANGED <<rows, req, sends, effects>>

\* adapter.validate, before any row.
Validate(c) ==
  /\ at[c] = "validate"
  /\ \/ Return(c, "refused", 0)
     \/ /\ Goto(c, IF req[c].door = "commit" THEN "begin" ELSE "dedup")
        /\ UNCHANGED <<answer, drive>>
  /\ UNCHANGED <<rows, req, op, sends, effects>>

\* insert_operation_for: a second lookup, on another connection than the insert.
Dedup(c) ==
  /\ at[c] = "dedup"
  /\ Lookup(c, "insert")
  /\ UNCHANGED <<rows, req, sends, effects>>

\* The INSERT: the unique index decides the race.
InsertUnchecked(c) ==
  /\ at[c] = "insert" /\ Free # {}
  /\ rows' = [rows EXCEPT ![NewRowId] = [key |-> req[c].key, payload |-> req[c].payload,
                                      phase |-> "pending"]]
  /\ op' = [op EXCEPT ![c] = NewRowId] /\ Goto(c, "wait")
  /\ UNCHANGED <<req, answer, sends, drive, effects>>
Insert(c) ==
  /\ at[c] = "insert"
  /\ IF Bound(req[c].key) = {}
       THEN /\ Free # {}
            /\ rows' = [rows EXCEPT ![NewRowId] =
                 [key |-> req[c].key, payload |-> req[c].payload, phase |-> "pending"]]
            /\ op' = [op EXCEPT ![c] = NewRowId] /\ Goto(c, "wait")
       ELSE Goto(c, "relookup") /\ UNCHANGED <<rows, op>>
  /\ UNCHANGED <<req, answer, sends, drive, effects>>

\* After the unique violation the winner's row is read; it cannot be gone.
Relookup(c) ==
  /\ at[c] = "relookup"
  /\ Lookup(c, "relookup")
  /\ UNCHANGED <<rows, req, sends, effects>>

\* commit_tx_only: the key's check, the row, the effect and `succeeded` commit
\* together, or nothing is bound to the key. The answer may be lost.
Commit(c) ==
  /\ at[c] = "begin"
  /\ \/ Bound(req[c].key) # {} /\ Lookup(c, "begin") /\ UNCHANGED <<rows, effects>>
     \/ /\ Bound(req[c].key) = {} /\ Free # {}
        /\ rows' = [rows EXCEPT ![NewRowId] =
             [key |-> req[c].key, payload |-> req[c].payload, phase |-> "succeeded"]]
        /\ effects' = [effects EXCEPT ![NewRowId] = @ + 1]
        /\ op' = [op EXCEPT ![c] = NewRowId] /\ Goto(c, "wait")
        /\ UNCHANGED <<answer, drive>>
     \/ Return(c, "error", 0) /\ UNCHANGED <<rows, op, effects>>
  /\ UNCHANGED <<req, sends>>

\* Driving a pending row to its end, by any driver: OperationRuntime.
Drive(i) ==
  /\ rows[i].phase = "pending"
  /\ \E phase \in {"succeeded", "failed"} : rows' = [rows EXCEPT ![i].phase = phase]
  /\ effects' = [effects EXCEPT ![i] = IF @ < 2 THEN @ + 1 ELSE @]
  /\ UNCHANGED <<req, at, op, answer, sends, drive>>

\* wait, or the loop of execute_with_adapter: the row's own settlement.
Answer(c) ==
  /\ at[c] = "wait" /\ HasSettled(op[c])
  /\ Return(c, "result", op[c])
  /\ UNCHANGED <<rows, req, op, sends, effects>>

\* The handler dies with its connection or its process; rows stay.
Lost(c) ==
  /\ at[c] # "idle"
  /\ Goto(c, "idle")
  /\ answer' = [answer EXCEPT ![c] = NoAnswer]
  /\ drive' = IF drive = c THEN None ELSE drive
  /\ UNCHANGED <<rows, req, op, sends, effects>>

Handle(c) ==
  \/ Lock(c) \/ KeyedReplay(c) \/ Validate(c) \/ Dedup(c) \/ Insert(c) \/ Relookup(c)
  \/ Commit(c) \/ Answer(c)

SubmissionNext ==
  \/ \E c \in Callers : Send(c) \/ Handle(c) \/ Lost(c)
  \/ \E i \in Ids : Drive(i)

SubmissionSpec == SubmissionInit /\ [][SubmissionNext]_submissionVars

\* Fairness: the server keeps polling a handler and driving rows.
SubmissionLiveSpec ==
  /\ SubmissionSpec
  /\ \A c \in Callers : SF_submissionVars(Handle(c))
  /\ \A i \in Ids : WF_submissionVars(Drive(i))

-----------------------------------------------------------------------------
(* Properties                                                              *)

\* A key names at most one operation and that operation is carried out once,
\* whatever doors its requests take and however often they are sent again.
OneEffectPerKey ==
  \A k \in Keys :
    /\ Cardinality(Bound(k)) <= 1
    /\ \A i \in Bound(k) : effects[i] <= 1

\* Every result a caller was given is the settlement of the one operation of
\* its own key and payload: equal requests get equal results, a request with
\* another payload gets none, and is told so (idempotency_key_reused) only
\* while such a row exists: an error of commit_keyed has bound nothing.
SameRequestSameResult ==
  \A c \in Callers :
    /\ answer[c].kind = "result" =>
         /\ answer[c].id \in Bound(req[c].key)
         /\ rows[answer[c].id].payload = req[c].payload
         /\ rows[answer[c].id].phase = answer[c].result
    /\ answer[c].kind = "conflict" =>
         \E i \in Bound(req[c].key) : rows[i].payload # req[c].payload

\* A caller in a handler gets an answer, or its connection is lost.
Answered == \A c \in Callers : (at[c] # "idle") ~> (at[c] = "idle")

\* One operation, one effect and one result per key (insert_operation_for,
\* commit_keyed), through whatever door and however often it is asked for.
KeyedOnce == SubmissionTypeOK /\ OneEffectPerKey /\ SameRequestSameResult
=============================================================================
