--------------------------- MODULE OverlayRetention ---------------------------
(***************************************************************************)
(* Retention of overlay.set rows.  The newest row of an overlay key is what *)
(* a replay folds to, so the pruner may only delete rows that a newer,      *)
(* readable row of the same key supersedes.  A pass interprets the history  *)
(* outside SQLite's writer: it observes the newest row of every key up to a *)
(* frontier, collects old candidates, and each delete checks under the      *)
(* writer that no overlay was appended and that the rows it relied on are   *)
(* still there.  Two passes may run at once (two servers on one database).  *)
(***************************************************************************)
EXTENDS Integers, FiniteSets, FiniteSetsExt, Sequences

CONSTANTS
  Pruners,  \* concurrent passes
  Quads,    \* overlay keys: plugin, entity kind, entity id, kind
  MaxId,    \* bound on the overlay rows ever appended
  Attempts, \* VALIDATION_ATTEMPTS
  Batch     \* policy.batch

ASSUME RetentionAssumption ==
  MaxId \in Nat /\ Attempts \in Nat \ {0} /\ Batch \in Nat \ {0}

VARIABLES
  row,       \* the overlay rows appended so far: key, and whether it can be read
  live,      \* ids still in the events table
  aged,      \* ids up to aged are older than the horizon
  watermark, \* retention_meta.events_prune_watermark
  pass       \* the state of every pass

vars == <<row, live, aged, watermark, pass>>

Ids  == 1..MaxId
(* A row carries a payload this version supports, one whose schemaVersion  *)
(* is newer, or text that is not JSON and belongs to no key.               *)
Reads == {"supported", "unsupported", "malformed"}
None == 0

Idle == [pc |-> "idle", frontier |-> 0, upper |-> 0, seen |-> [q \in Quads |-> None],
         found |-> 0, horizon |-> 0, cursor |-> 0, last |-> FALSE, pending |-> {}, tries |-> 0, ids |-> {}, witnesses |-> {}]

Init ==
  /\ row = <<>> /\ live = {} /\ aged = 0 /\ watermark = 0
  /\ pass = [p \in Pruners |-> Idle]

Frontier == IF live = {} THEN 0 ELSE Max(live)

(* A plugin writes an overlay. *)
AppendOverlay(q, r) ==
  /\ Len(row) < MaxId
  /\ row' = Append(row, [quad |-> q, reads |-> r])
  /\ live' = live \union {Len(row) + 1}
  /\ UNCHANGED <<aged, watermark, pass>>

Age ==
  /\ aged < Len(row)
  /\ aged' = aged + 1
  /\ UNCHANGED <<row, live, watermark, pass>>

Goto(p, st) == pass' = [pass EXCEPT ![p] = st]

(* overlay_latest.sql: the newest valid row of each key in (from, upto]. *)
NewestIn(q, from, upto) ==
  LET rows == {i \in live : from < i /\ i <= upto
                            /\ row[i].quad = q /\ row[i].reads # "malformed"}
  IN IF rows = {} THEN None ELSE Max(rows)

Observed(st) ==
  [st EXCEPT !.seen = [q \in Quads |-> Max({@[q], NewestIn(q, st.frontier, st.upper)})],
             !.frontier = st.upper]

(* The frontier is captured before the history is grouped. *)
Begin(p) ==
  /\ pass[p].pc = "idle"
  /\ Goto(p, [Idle EXCEPT !.pc = "observe", !.upper = Frontier, !.horizon = aged])
  /\ UNCHANGED <<row, live, aged, watermark>>

Observe(p) ==
  /\ pass[p].pc = "observe"
  /\ Goto(p, [Observed(pass[p]) EXCEPT !.pc = "scan", !.found = pass[p].upper])
  /\ UNCHANGED <<row, live, aged, watermark>>

(* The newest observed row of the candidate's key, when it can be read. *)
WitnessAnyRow(st, i) == LET w == st.seen[row[i].quad] IN IF i < w THEN w ELSE None

Witness(st, i) ==
  LET w == st.seen[row[i].quad]
  IN IF w # None /\ row[w].reads = "supported" /\ i < w THEN w ELSE None

(* The scan walks the old rows up to the frontier the pass began with and  *)
(* collects candidates until a batch is full or no row is left.            *)
OldRows(st) ==
  {i \in live : st.cursor < i /\ i <= st.found /\ i <= st.horizon
                /\ row[i].reads # "malformed"}

Scan(p) ==
  /\ pass[p].pc = "scan"
  /\ LET st == pass[p]
     IN IF OldRows(st) = {}
        THEN Goto(p, IF st.pending = {} THEN Idle
                     ELSE [st EXCEPT !.pc = "refresh", !.tries = 0, !.last = TRUE])
        ELSE LET i    == Min(OldRows(st))
                 some == IF Witness(st, i) = None THEN st.pending ELSE st.pending \union {i}
             IN Goto(p, [st EXCEPT !.cursor = i, !.pending = some, !.tries = 0,
                                   !.pc = IF Cardinality(some) >= Batch THEN "refresh" ELSE "scan"])
  /\ UNCHANGED <<row, live, aged, watermark>>

(* Observation::refresh_tail: first the frontier, then the rows up to it. *)
RefreshFrontier(p) ==
  /\ pass[p].pc = "refresh"
  /\ Goto(p, [pass[p] EXCEPT !.pc = "tail", !.upper = Max({Frontier, pass[p].frontier})])
  /\ UNCHANGED <<row, live, aged, watermark>>

(* flush is over for this batch: scan on, or end the pass. *)
Flushed(st) == IF st.last THEN Idle
               ELSE [st EXCEPT !.pc = "scan", !.pending = {}, !.ids = {}, !.witnesses = {}]

RefreshTail(p) ==
  /\ pass[p].pc = "tail"
  /\ LET st  == Observed(pass[p])
         ids == {i \in st.pending : Witness(st, i) # None}
     IN Goto(p, IF ids = {} THEN Flushed(st)
                ELSE [st EXCEPT !.pc = "delete", !.ids = ids,
                                !.witnesses = {Witness(st, i) : i \in ids}])
  /\ UNCHANGED <<row, live, aged, watermark>>

(* One BEGIN IMMEDIATE transaction: an append since the observation is     *)
(* another attempt, a vanished witness ends the pass, otherwise the rows   *)
(* go and the watermark moves with them.                                   *)
NotAdvanced(w, ids) == w

Advanced(w, ids) == Max(ids \union {w})

DeleteUnchecked(p) ==
  /\ pass[p].pc = "delete"
  /\ live' = live \ pass[p].ids
  /\ watermark' = Advanced(watermark, pass[p].ids \intersect live)
  /\ Goto(p, Flushed(pass[p]))
  /\ UNCHANGED <<row, aged>>

Delete(p) ==
  /\ pass[p].pc = "delete"
  /\ LET st == pass[p]
     IN \/ /\ Frontier > st.frontier
           /\ Goto(p, IF st.tries + 1 < Attempts
                      THEN [st EXCEPT !.pc = "refresh", !.tries = @ + 1] ELSE Idle)
           /\ UNCHANGED <<live, watermark>>
        \/ /\ Frontier <= st.frontier
           /\ LET gone == IF st.witnesses \subseteq live THEN st.ids \intersect live ELSE {}
              IN /\ live' = live \ gone
                 /\ watermark' = Advanced(watermark, gone)
           /\ Goto(p, IF st.witnesses \subseteq live THEN Flushed(st) ELSE Idle)
  /\ UNCHANGED <<row, aged>>

(* A read or the transaction fails, or the process ends: the pass is over  *)
(* and what its earlier batches committed stays.                           *)
Abort(p) ==
  /\ pass[p].pc # "idle"
  /\ Goto(p, Idle)
  /\ UNCHANGED <<row, live, aged, watermark>>

Next ==
  \/ \E q \in Quads, r \in Reads : AppendOverlay(q, r)
  \/ Age
  \/ \E p \in Pruners : \/ Begin(p) \/ Observe(p) \/ Scan(p)
                        \/ RefreshFrontier(p) \/ RefreshTail(p)
                        \/ Delete(p) \/ Abort(p)

Spec == Init /\ [][Next]_vars

------------------------------------------------------------------------------
Newest(q, from) ==
  LET rows == {i \in from : row[i].quad = q /\ row[i].reads # "malformed"}
  IN IF rows = {} THEN None ELSE Max(rows)

TypeOK ==
  /\ row \in Seq([quad : Quads, reads : Reads]) /\ Len(row) <= MaxId
  /\ live \subseteq 1..Len(row) /\ aged \in 0..Len(row) /\ watermark \in 0..aged
  /\ \A p \in Pruners :
       LET st == pass[p]
       IN /\ st.pc \in {"idle", "observe", "scan", "refresh", "tail", "delete"}
          /\ st.frontier \in 0..Len(row) /\ st.upper \in 0..Len(row)
          /\ st.found \in 0..Len(row) /\ st.horizon \in 0..aged
          /\ st.seen \in [Quads -> 0..Len(row)]
          /\ st.cursor \in 0..Len(row) /\ st.last \in BOOLEAN
          /\ st.pending \subseteq 1..aged /\ Cardinality(st.pending) <= Batch
          /\ st.ids \subseteq st.pending /\ st.witnesses \subseteq 1..Len(row)
          /\ st.tries \in 0..Attempts - 1

(* The last-writer-wins fold a replay computes is the one of the full      *)
(* history: the newest readable row of every key is still there.           *)
FoldUnchanged ==
  \A q \in Quads :
    LET readable == {i \in 1..Len(row) : row[i].quad = q /\ row[i].reads = "supported"}
    IN readable # {} => Max(readable) \in live

(* A key whose newest row this version cannot read is frozen: no row of it *)
(* is deleted, even when that row was appended after the pass looked.      *)
Frozen ==
  [][\A i \in live \ live' :
       LET w == Newest(row[i].quad, live)
       IN i < w /\ row[w].reads = "supported"]_vars

(* The replay guard can trust the watermark: no row above it was deleted,  *)
(* and it never moves back, with two passes deleting at once.              *)
WatermarkCovers == \A i \in 1..Len(row) : i \notin live => i <= watermark

(* What a pass deletes is never missed: the fold of every overlay key reads *)
(* the same, and clients below a deleted row are told (the watermark).      *)
PruneIsSound == TypeOK /\ FoldUnchanged /\ WatermarkCovers
=============================================================================
