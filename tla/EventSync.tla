------------------------------ MODULE EventSync ------------------------------
(***************************************************************************)
(* The event log, its retention pruner, the broadcast bus, the /api/events *)
(* WebSocket and the browser client that follows the log with a cursor.    *)
(*                                                                         *)
(* A row is committed under SQLite's single writer and broadcast after the *)
(* commit.  Two doors lead there: write_with_event broadcasts before it    *)
(* gives the writer up, the callers of write_in_tx_typed broadcast after   *)
(* it, so another row may be committed and broadcast in between.  A        *)
(* connection subscribes to the bus first and replays the log second; the  *)
(* reads of a replay are separate queries, each its own action here, and   *)
(* the pruner and the writers run between them.                            *)
(***************************************************************************)
EXTENDS Integers, Sequences, FiniteSets, FiniteSetsExt

CONSTANTS
  MaxId,       \* bound on the rows ever committed
  NewKinds,    \* kinds of the rows this version commits
  OldRows,     \* bound on the rows an earlier version of the program left
  Cap,         \* ws_replay_cap: rows one replay may stream
  BusCapacity, \* BUS_CAPACITY
  Late,        \* bound: ids whose committer may broadcast after giving the writer up
  Failures,    \* subset of {"read", "projection"}: which database reads may fail
  CancelFirst, \* which invalidations of the query cancel its read in flight first
  MaxFaults    \* bound on lost connections, server crashes and failed reads

ASSUME BoundsAssumption ==
  /\ MaxId \in Nat /\ OldRows \in 0..MaxId /\ Cap \in Nat /\ BusCapacity \in Nat \ {0} /\ MaxFaults \in Nat
  /\ NewKinds \subseteq {"kept", "prunable"} /\ Late \subseteq 1..MaxId
  /\ Failures \subseteq {"read", "projection"}
  /\ CancelFirst \subseteq {"event", "complete"}

VARIABLES
  kind,      \* kind of every row ever committed, a sequence over the ids
  live,      \* ids of the rows still in the events table
  aged,      \* rows with id <= aged are older than the retention horizon
  watermark, \* retention_meta.events_prune_watermark
  pend,      \* committed rows whose broadcast is still to come
  writer,    \* the row whose committer still holds the writer, 0 when free
  conn,      \* the server's side of the connection
  bus,       \* envelopes buffered for this subscriber
  lagged,    \* the subscriber fell more than BusCapacity envelopes behind
  net,       \* frames on their way to the client
  cursor,    \* the client's cursor, 0 for none
  cold,      \* no replay has completed since the client last connected without one
  base,      \* ids up to base came to the client with a snapshot
  seen,      \* ids of the event frames the client accepted
  query,     \* the client's cached query that every row is about
  faults,
  excused    \* history: a "read" or "projection" failed, a row was "overtaken" on the bus

logVars    == <<kind, live, aged, watermark, pend, writer>>
connVars   == <<conn, bus, lagged>>
clientVars == <<cursor, cold, base, seen, query>>
faultVars  == <<faults, excused>>
vars       == <<logVars, connVars, net, clientVars, faultVars>>

Kinds == {"kept", "prunable", "unmappable"}
Ids   == 1..MaxId
tip   == Len(kind)

PCs == {"none", "open", "guard", "probe", "fetch", "recheck", "tip", "stamp", "live", "closed"}

NoConn == [pc |-> "none", since |-> 0, anchor |-> 0, promoted |-> FALSE,
           rawMax |-> 0, rows |-> {}, lastId |-> 0, wm |-> 0,
           tip |-> 0, replayed |-> 0, sent |-> {}, begun |-> 0]

ConnType ==
  [pc : PCs, since : 0..MaxId, anchor : 0..MaxId, promoted : BOOLEAN,
   rawMax : 0..MaxId, rows : SUBSET Ids, lastId : 0..MaxId, wm : 0..MaxId,
   tip : 0..MaxId, replayed : 0..MaxId, sent : SUBSET Ids, begun : 0..MaxId]

(* The query reads for the first time or again; `at` is what was committed *)
(* when the read began, and once it shows an answer what the answer holds. *)
(* History: reused, its last invalidation left it to a read begun before.  *)
Reading   == {"first", "again"}
QueryType == [pc : {"none", "shown"} \union Reading, at : 0..MaxId, reused : BOOLEAN]
NoQuery   == [pc |-> "none", at |-> 0, reused |-> FALSE]

Event(i)    == [ev |-> "event", id |-> i]
Complete(i) == [ev |-> "_replay_complete", id |-> i]
Snapshot    == [ev |-> "_snapshot_required", id |-> 0]
Frames == [ev : {"event"}, id : Ids] \union [ev : {"_replay_complete"}, id : 0..MaxId] \union {Snapshot}

Init ==
  /\ \E n \in 0..OldRows : kind \in [1..n -> NewKinds \union {"unmappable"}]
  /\ live = 1..tip /\ aged = 0 /\ watermark = 0
  /\ pend = {} /\ writer = 0
  /\ conn = NoConn /\ bus = <<>> /\ lagged = FALSE /\ net = <<>>
  /\ cursor = 0 /\ cold = TRUE /\ base = 0 /\ seen = {}
  /\ query = NoQuery
  /\ faults = 0 /\ excused = {}

------------------------------------------------------------------------------
(* The log: writers, the bus and the pruner. *)

Commit(k, door) ==
  /\ tip < MaxId /\ writer = 0
  /\ door = "afterWriter" => tip + 1 \in Late
  /\ kind' = Append(kind, k)
  /\ live' = live \union {tip + 1}
  /\ pend' = pend \union {tip + 1}
  /\ writer' = IF door = "inWriter" THEN tip + 1 ELSE 0
  /\ UNCHANGED <<aged, watermark, connVars, net, clientVars, faultVars>>

(* tokio's broadcast channel keeps BusCapacity envelopes per receiver. *)
Buffered(i) ==
  IF conn.pc \in {"none", "closed"} THEN UNCHANGED <<bus, lagged>>
  ELSE IF Len(bus) < BusCapacity
       THEN bus' = Append(bus, i) /\ UNCHANGED lagged
       ELSE lagged' = TRUE /\ UNCHANGED bus

Emit(i) ==
  /\ i \in pend
  /\ pend' = pend \ {i}
  /\ writer' = IF writer = i THEN 0 ELSE writer
  /\ Buffered(i)
  /\ excused' = IF \E j \in pend : j < i THEN excused \union {"overtaken"} ELSE excused
  /\ UNCHANGED <<kind, live, aged, watermark, conn, net, clientVars, faults>>

(* Time passes.  A row cannot grow older than the horizon (a day or more)  *)
(* while the connection that was open when it was committed is replaying.  *)
Replaying == conn.pc \in {"guard", "probe", "fetch", "recheck", "tip", "stamp"}

Age ==
  /\ aged < tip
  /\ Replaying => aged < conn.begun
  /\ aged' = aged + 1
  /\ UNCHANGED <<kind, live, watermark, pend, writer, connVars, net, clientVars, faultVars>>

(* One batch: the DELETE and the watermark in one transaction. *)
Advanced(w, ids) == Max(ids \union {w})

Prune(ids) ==
  /\ writer = 0
  /\ ids # {}
  /\ ids \subseteq {i \in live : i <= aged /\ kind[i] = "prunable"}
  /\ live' = live \ ids
  /\ watermark' = Advanced(watermark, ids)
  /\ UNCHANGED <<kind, aged, pend, writer, connVars, net, clientVars, faultVars>>

------------------------------------------------------------------------------
(* The server's side of a connection. *)

Above(a)    == {i \in live : i > a}
Upto(S, n)  == {i \in S : Cardinality({j \in S : j < i}) < n}
Greatest(S) == IF S = {} THEN 0 ELSE Max(S)
latest      == Greatest(live)

CanFail == "read" \in Failures /\ faults < MaxFaults
Ok      == UNCHANGED faultVars
Failed  == CanFail /\ faults' = faults + 1 /\ excused' = excused \union {"read"}
Unprojected ==
  /\ "projection" \in Failures /\ faults < MaxFaults
  /\ faults' = faults + 1 /\ excused' = excused \union {"projection"}

Step(c)  == conn' = c /\ UNCHANGED <<bus, lagged>>
Close    == conn' = [NoConn EXCEPT !.pc = "closed"] /\ bus' = <<>> /\ lagged' = FALSE
Send(fs) == net' = net \o fs

(* The refusals and the degraded answers of run_replay. *)
SnapshotRequired == Send(<<Snapshot>>) /\ Close
Degraded == /\ Send(<<Complete(conn.anchor)>>)
            /\ Step([conn EXCEPT !.pc = "live", !.replayed = conn.anchor])

(* Before the subscription arrives no topic is subscribed: the select loop *)
(* discards what the bus delivers.                                         *)
DiscardUnsubscribed ==
  /\ conn.pc = "open" /\ ~lagged /\ bus # <<>>
  /\ bus' = Tail(bus)
  /\ UNCHANGED <<logVars, conn, lagged, net, clientVars, faultVars>>

(* The select loop takes the subscription message. *)
Subscribe ==
  /\ conn.pc = "open"
  /\ Step([conn EXCEPT !.pc = IF conn.since > 0 THEN "guard" ELSE "probe",
                       !.anchor = conn.since, !.begun = tip])
  /\ UNCHANGED <<logVars, net, clientVars, faultVars>>

(* A log with its head gone has every row above `since` missing from the   *)
(* front; a failed read counts as no head and no watermark.                *)
HeadPruned(since) == live # {} /\ since < Min(live) - 1
Guard ==
  /\ conn.pc = "guard"
  /\ \/ /\ HeadPruned(conn.since) \/ conn.since < watermark
        /\ SnapshotRequired /\ Ok
     \/ /\ ~HeadPruned(conn.since) /\ conn.since >= watermark
        /\ Step([conn EXCEPT !.pc = "probe"]) /\ UNCHANGED net /\ Ok
     \/ /\ Step([conn EXCEPT !.pc = "probe"]) /\ UNCHANGED net /\ Failed
  /\ UNCHANGED <<logVars, clientVars>>

RouteColdToSnapshot(anchor, rawPending, promoted) ==
  IF rawPending <= Cap THEN "Stream" ELSE "Snapshot"

ReplayCapRoute(anchor, rawPending, promoted) ==
  IF rawPending <= Cap THEN "Stream"
  ELSE IF anchor > 0 \/ promoted THEN "Snapshot" ELSE "PromoteAnchor"

Probe ==
  /\ conn.pc = "probe"
  /\ LET window == Upto(Above(conn.anchor), Cap + 1)
         route  == ReplayCapRoute(conn.anchor, Cardinality(window), conn.promoted)
     IN \/ /\ route = "Stream"
           /\ Step([conn EXCEPT !.pc = "fetch", !.rawMax = Greatest(window)])
           /\ UNCHANGED net /\ Ok
        \/ /\ route = "Snapshot"
           /\ SnapshotRequired /\ Ok
        \/ /\ route = "PromoteAnchor"
           /\ Step([conn EXCEPT !.anchor = latest, !.promoted = TRUE])
           /\ UNCHANGED net /\ Ok
        \/ /\ route = "PromoteAnchor"
           /\ Step([conn EXCEPT !.anchor = 0, !.promoted = TRUE])
           /\ UNCHANGED net /\ Failed
        \/ Degraded /\ Failed
  /\ UNCHANGED <<logVars, clientVars>>

(* events_since leaves out the rows it cannot map to an event. *)
Mappable(S) == {i \in S : kind[i] # "unmappable"}

Fetch ==
  /\ conn.pc = "fetch"
  /\ \/ /\ Step([conn EXCEPT !.pc = "recheck",
                             !.rows = Mappable(Upto(Above(conn.anchor), Cap))])
        /\ UNCHANGED net /\ Ok
     \/ Degraded /\ Failed
  /\ UNCHANGED <<logVars, clientVars>>

WatermarkInvalidatesWindow(since, w) == since > 0 /\ since < w

(* The recheck, then the rows go out; nothing is read between the frames   *)
(* but the projection of each, so they leave as one batch.  A row whose    *)
(* projection fails is not sent, and the cursor still passes it.           *)
InIdOrder(S) ==
  CHOOSE s \in [1..Cardinality(S) -> S] :
    /\ \A m, n \in 1..Cardinality(S) : m < n => s[m] < s[n]
    /\ \A i \in S : \E n \in 1..Cardinality(S) : s[n] = i

StreamRows(w, rows) ==
  /\ Send([n \in 1..Cardinality(rows) |-> Event(InIdOrder(rows)[n])])
  /\ Step([conn EXCEPT !.pc = "tip", !.wm = w, !.rows = {},
                       !.sent = @ \union rows,
                       !.lastId = Max({conn.anchor, Greatest(conn.rows)})])

Recheck ==
  /\ conn.pc = "recheck"
  /\ \/ WatermarkInvalidatesWindow(conn.since, watermark) /\ SnapshotRequired /\ Ok
     \/ ~WatermarkInvalidatesWindow(conn.since, watermark)
        /\ StreamRows(watermark, conn.rows) /\ Ok
     \/ StreamRows(0, conn.rows) /\ Failed
     \/ /\ ~WatermarkInvalidatesWindow(conn.since, watermark)
        /\ \E i \in conn.rows : StreamRows(watermark, conn.rows \ {i})
        /\ Unprojected
  /\ UNCHANGED <<logVars, clientVars>>

ReadTip ==
  /\ conn.pc = "tip"
  /\ \/ Step([conn EXCEPT !.pc = "stamp", !.tip = latest]) /\ Ok
     \/ Step([conn EXCEPT !.pc = "stamp", !.tip = conn.lastId]) /\ Failed
  /\ UNCHANGED <<logVars, net, clientVars>>

StampUncapped(serverTip, accountedEnd, w) == Max({serverTip, w})
StampUnfloored(serverTip, accountedEnd, w) == Min({serverTip, accountedEnd})

ReplayCompleteStamp(serverTip, accountedEnd, w) ==
  Max({Min({serverTip, accountedEnd}), w})

Stamp ==
  /\ conn.pc = "stamp"
  /\ LET end   == Max({conn.lastId, IF conn.rawMax = 0 THEN conn.anchor ELSE conn.rawMax})
         At(w) == LET stamp == ReplayCompleteStamp(conn.tip, end, w)
                  IN /\ Send(<<Complete(stamp)>>)
                     /\ Step([NoConn EXCEPT !.pc = "live", !.replayed = stamp,
                                            !.sent = conn.sent])
     IN \/ At(watermark) /\ Ok
        \/ At(conn.wm) /\ Failed
  /\ UNCHANGED <<logVars, clientVars>>

(* bus.recv in the select loop, once a replay has completed. *)
LiveWithoutDedup ==
  /\ conn.pc = "live" /\ ~lagged /\ bus # <<>>
  /\ bus' = Tail(bus)
  /\ Send(<<Event(Head(bus))>>)
  /\ conn' = [conn EXCEPT !.sent = @ \union {Head(bus)}]
  /\ Ok
  /\ UNCHANGED <<logVars, lagged, clientVars>>

Live ==
  /\ conn.pc = "live" /\ ~lagged /\ bus # <<>>
  /\ bus' = Tail(bus)
  /\ LET i == Head(bus)
     IN \/ i <= conn.replayed /\ UNCHANGED <<net, conn>> /\ Ok
        \/ /\ i > conn.replayed
           /\ Send(<<Event(i)>>)
           /\ conn' = [conn EXCEPT !.sent = @ \union {i}]
           /\ Ok
        \/ i > conn.replayed /\ UNCHANGED <<net, conn>> /\ Unprojected
  /\ UNCHANGED <<logVars, lagged, clientVars>>

Lagged ==
  /\ conn.pc \in {"open", "live"} /\ lagged
  /\ Close
  /\ UNCHANGED <<logVars, net, clientVars, faultVars>>

------------------------------------------------------------------------------
(* The client: one socket at a time, the reducer, and one query of the cache *)
(* that every row is about.                                                  *)

(* onopen sends the topics and the cursor at once. *)
Connect ==
  /\ conn.pc = "none"
  /\ conn' = [NoConn EXCEPT !.pc = "open", !.since = cursor]
  /\ bus' = <<>> /\ lagged' = FALSE /\ net' = <<>>
  /\ cold' = (cold \/ cursor = 0)
  /\ UNCHANGED <<logVars, cursor, base, seen, query, faultVars>>

Disconnected == /\ conn' = NoConn /\ bus' = <<>> /\ lagged' = FALSE /\ net' = <<>>

(* onclose: the server closed and every frame it had sent was read. *)
OnClose ==
  /\ conn.pc = "closed" /\ net = <<>>
  /\ Disconnected
  /\ UNCHANGED <<logVars, clientVars, faultVars>>

Advance(i) == cursor' = Max({cursor, i})

(* An invalidated query reads anew, and drops the answer of the read in    *)
(* flight.  Its first read it does not drop unless it is cancelled first:  *)
(* that read, begun before, answers for the invalidation too.              *)
ReadFrom(pc) == query' = [pc |-> pc, at |-> tip, reused |-> FALSE]

InvalidateIdle(from) ==
  \/ query.pc = "shown" /\ ReadFrom("again")
  \/ query.pc # "shown" /\ UNCHANGED query

Invalidate(from) ==
  \/ query.pc \in {"shown", "again"} /\ ReadFrom("again")
  \/ query.pc = "first" /\ from \in CancelFirst /\ ReadFrom("first")
  \/ query.pc = "first" /\ from \notin CancelFirst /\ query' = [query EXCEPT !.reused = TRUE]
  \/ query.pc = "none" /\ UNCHANGED query

ReduceEvent(i) ==
  /\ Advance(i)
  /\ seen' = seen \union {i}
  /\ Invalidate("event")
  /\ net' = Tail(net)
  /\ UNCHANGED <<connVars, cold, base>>

(* clear-cache and reconnect: cold until a replay completes. *)
Forget ==
  /\ cursor' = 0 /\ cold' = TRUE /\ base' = 0 /\ seen' = {}
  /\ query' = NoQuery
  /\ Disconnected

CompleteWithoutInvalidate(i) ==
  IF i < cursor THEN Forget
  ELSE /\ Advance(i)
       /\ base' = IF cold THEN Max({cursor, i}) ELSE base
       /\ cold' = FALSE
       /\ net' = Tail(net)
       /\ UNCHANGED <<connVars, seen, query>>

ReduceComplete(i) ==
  IF i < cursor THEN Forget
  ELSE /\ Advance(i)
       /\ Invalidate("complete")
       /\ base' = IF cold THEN Max({cursor, i}) ELSE base
       /\ cold' = FALSE
       /\ net' = Tail(net)
       /\ UNCHANGED <<connVars, seen>>

ReduceEventFrame ==
  /\ net # <<>>
  /\ LET f == Head(net)
     IN \/ f.ev = "event" /\ ReduceEvent(f.id)
        \/ f.ev = "_replay_complete" /\ ReduceComplete(f.id)
        \/ f.ev = "_snapshot_required" /\ Forget
  /\ UNCHANGED <<logVars, faultVars>>

(* A component that shows the query is rendered and finds no answer. *)
Mount ==
  /\ query.pc = "none"
  /\ ReadFrom("first")
  /\ UNCHANGED <<logVars, connVars, net, cursor, cold, base, seen, faultVars>>

(* A read is answered: it saw the log at some time since it began. *)
Answer ==
  /\ query.pc \in Reading
  /\ \E n \in query.at..tip : query' = [query EXCEPT !.pc = "shown", !.at = n]
  /\ UNCHANGED <<logVars, connVars, net, cursor, cold, base, seen, faultVars>>

(* The connection is lost with what was in flight. *)
Lose ==
  /\ conn.pc # "none" /\ faults < MaxFaults
  /\ Disconnected
  /\ faults' = faults + 1
  /\ UNCHANGED <<logVars, clientVars, excused>>

(* The server dies: broadcasts that were still to come never happen. *)
Crash ==
  /\ faults < MaxFaults
  /\ pend' = {} /\ writer' = 0
  /\ Disconnected
  /\ faults' = faults + 1
  /\ UNCHANGED <<kind, live, aged, watermark, clientVars, excused>>

------------------------------------------------------------------------------
Server == DiscardUnsubscribed \/ Subscribe \/ Guard \/ Probe \/ Fetch \/ Recheck
          \/ ReadTip \/ Stamp \/ Live \/ Lagged
Client == Connect \/ OnClose \/ ReduceEventFrame \/ Answer

Next ==
  \/ \E k \in NewKinds, d \in {"inWriter", "afterWriter"} : Commit(k, d)
  \/ \E i \in pend : Emit(i)
  \/ Age
  \/ \E ids \in SUBSET live : Prune(ids)
  \/ DiscardUnsubscribed \/ Subscribe \/ Guard \/ Probe \/ Fetch \/ Recheck
  \/ ReadTip \/ Stamp \/ Live \/ Lagged
  \/ Connect \/ OnClose \/ ReduceEventFrame \/ Mount \/ Answer
  \/ Lose \/ Crash

Spec == Init /\ [][Next]_vars

(* The handler's select loop, the committers that still have to broadcast  *)
(* and the client's event loop run on; nobody has to write or to prune.    *)
LiveSpec ==
  /\ Spec
  /\ WF_vars(Server)
  /\ WF_vars(Client)
  /\ WF_vars(\E i \in pend : Emit(i))

------------------------------------------------------------------------------
TypeOK ==
  /\ kind \in Seq(Kinds) /\ Len(kind) <= MaxId
  /\ live \subseteq 1..tip /\ aged \in 0..tip /\ watermark \in 0..aged
  /\ pend \subseteq 1..tip /\ writer \in pend \union {0}
  /\ conn \in ConnType
  /\ bus \in Seq(Ids) /\ Len(bus) <= BusCapacity /\ lagged \in BOOLEAN
  /\ net \in Seq(Frames)
  /\ cursor \in 0..tip /\ cold \in BOOLEAN /\ base \in 0..MaxId
  /\ seen \subseteq Ids
  /\ query \in QueryType
  /\ faults \in 0..MaxFaults /\ excused \subseteq Failures \union {"overtaken"}

(* A warm client has been sent every row its cursor has passed since its   *)
(* snapshot: neither the pruner, nor the cap, nor the hand-over from       *)
(* replay to live leaves a hole below the cursor.  What excuses one is  *)
(* a failed read, which run_replay answers by going live, or a committer   *)
(* that broadcasts after a later one, whose row may be taken for one that  *)
(* was replayed.                                                           *)
NoGap ==
  ~cold /\ excused = {} =>
    \A i \in 1..tip :
      base < i /\ i <= cursor /\ kind[i] # "unmappable" => i \in seen

(* Once everything sent was read, nothing is about to be broadcast and no  *)
(* read is in flight, an answer the client shows reflects the whole log,   *)
(* even when rows were broadcast out of order or the replay's reads failed.*)
(* A row whose projection failed is lost to the client.  The other excuse  *)
(* is a first read that was in flight when its last invalidation came and  *)
(* was not cancelled: its answer may be older than the invalidation.       *)
Quiet == conn.pc = "live" /\ ~lagged /\ bus = <<>> /\ net = <<>> /\ pend = {} /\ query.pc \notin Reading
Fresh ==
  /\ Quiet /\ query.pc = "shown"
  /\ "projection" \notin excused /\ ~query.reused
  => query.at = tip

(* One connection sends no event twice: what the bus delivers of the       *)
(* replayed window is dropped (`env.id <= last_replayed_id`), unless a read*)
(* that bounds the window failed.                                          *)
NoDuplicateFrame ==
  [][\A i \in Ids :
       /\ Len(net') = Len(net) + 1 /\ net'[Len(net')] = Event(i)
       /\ conn.pc = "live" /\ "read" \notin excused
       => i \notin conn.sent]_vars

(* No client takes a stamp for a reset of the log: the log is never reset  *)
(* here, so no _replay_complete is below the cursor it finds, whatever the *)
(* pruner deleted from the tail during the replay and whatever order the   *)
(* rows were broadcast in.  Only a failed read of the tip is mistaken.     *)
NoFalseReset ==
  /\ net # <<>> /\ Head(net).ev = "_replay_complete"
  /\ "read" \notin excused
  => Head(net).id >= cursor

(* A client is never caught in a loop of snapshots: once the faults and    *)
(* the writers pause it is connected, up to date and stays so.             *)
CatchesUp == <>[](Quiet /\ ~cold)

(* The client's cursor is sound: no hole below it and no stamp that takes  *)
(* it back (run_replay's guard, recheck and stamp).                        *)
CursorIsSound == TypeOK /\ NoGap /\ NoFalseReset
=============================================================================
