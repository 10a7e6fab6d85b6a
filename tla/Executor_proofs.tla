---------------------------- MODULE Executor_proofs ----------------------------
(***************************************************************************)
(* Proofs about Executor, for any executions, tickets and bounds. Memory   *)
(* and journal disagree whenever a write fails, so the invariant says of    *)
(* each phase how far the two may be apart, and that an execution which     *)
(* holds the alias in either of them is the one the slot names.            *)
(***************************************************************************)
EXTENDS Executor, WellFoundedInduction, TLAPS

\* Past the fork barrier, and not settled.
Past    == {"forking", "spawned", "exited", "unsure", "unknown"}
\* The alias is this execution's until it is durably settled.
Holding == Past \cup {"reserved"}

Buried(e) == grave[e] # NoTombstone

\* What holds of an execution's files at any time.
FilesOK(e) ==
  /\ child[e] \in Running => disk[e].phase \in Past /\ ~Buried(e)
  /\ child[e] # "none" => disk[e].phase # "absent" \/ Buried(e)
  /\ disk[e].phase # "absent" /\ ~Buried(e) => claim[e] # NoRequest
  /\ disk[e].phase = "absent" => disk[e] = NoRecord
  /\ disk[e].phase \in Holding => disk[e].version # 0
  /\ Buried(e) => disk[e].phase \notin Holding
  /\ told[e] # "none" => child[e] \notin Running
  /\ told[e] = "retired" => Buried(e)
  /\ told[e] \in Quiescent => disk[e].phase = told[e] \/ Buried(e)

\* What memory knows of it while the executor is down: nothing.
DownOK(e) ==
  /\ mem[e] = NoRecord /\ e \notin pend /\ e \notin retired
  /\ call[e].pc = "idle" /\ monitor[e] = "none"
  /\ claim[e] # NoRequest => ~Buried(e)

\* A retired execution, and one that has no record.
GoneOK(e) ==
  /\ e \in retired =>
       /\ Buried(e) /\ mem[e] = NoRecord /\ e \notin pend /\ claim[e] = NoRequest
       /\ call[e].pc = "idle" /\ monitor[e] = "none"
  /\ mem[e].phase = "absent" /\ e \notin retired =>
       /\ mem[e] = NoRecord /\ e \notin pend
       /\ disk[e].phase \in {"absent", "prepared"} /\ Kept(e) = 0
       /\ disk[e].version = 0
       /\ child[e] = "none" /\ told[e] = "none"
       /\ call[e].pc = "idle" /\ monitor[e] = "none"

\* One that has a record: how far the journal may be from it.
RecordOK(e) ==
  /\ mem[e].phase # "absent" =>
       /\ claim[e] # NoRequest /\ disk[e].phase # "absent"
       /\ Kept(e) \in {0, mem[e].version} /\ disk[e].version \in {0, mem[e].version}
       /\ Buried(e) => /\ mem[e].phase \in Quiescent
                       /\ grave[e] = [ticket |-> claim[e].ticket, version |-> mem[e].version]
       /\ told[e] \in {"none", mem[e].phase}
  /\ mem[e].phase \in {"prepared", "reserved"} => child[e] = "none" /\ mem[e].output = "open"
  /\ mem[e].phase = "prepared" => mem[e].version = 0
  /\ mem[e].phase \in Holding => mem[e].version # 0
  /\ mem[e].phase \in Quiescent => child[e] \notin Running
  /\ mem[e].phase \in Quiescent /\ (e \notin pend \/ mem[e].phase \in WithReceipt)
       => disk[e].phase = mem[e].phase

\* Where its launch is.
CallOK(e) ==
  /\ call[e].pc = "cas" => mem[e].phase \in {"prepared", "reserved"}
  /\ call[e].pc \in {"reserve", "fork"} => mem[e].phase = "reserved"
  /\ call[e].pc \in {"spawn", "spawned"} =>
       mem[e].phase = "forking" /\ disk[e].phase = "forking" /\ mem[e].output = "open"
  /\ call[e].pc = "spawn" => child[e] = "none"
  /\ call[e].pc = "spawned" => e \in handle
  /\ call[e].pc = "settle" => mem[e].phase = "nochild" /\ e \in pend

\* Its monitor.
MonitorOK(e) ==
  /\ monitor[e] # "none" =>
       /\ e \in handle /\ mem[e].output = "open" /\ call[e].pc = "idle"
       /\ mem[e].phase \in {"spawned", "exited", "unknown", "drained"}
  /\ monitor[e] = "drained" => mem[e].phase = "drained"

Local(e) ==
  /\ FilesOK(e)
  /\ ~up => DownOK(e)
  /\ up => GoneOK(e) /\ RecordOK(e) /\ CallOK(e) /\ MonitorOK(e)

\* The alias slot. Versions in memory and on disk are one execution's each, and
\* none is above the slot's.
Version(e) == {mem[e].version, Kept(e)}
Holds(e) == mem[e].phase \in Holding \/ disk[e].phase \in Holding

SlotOK ==
  /\ \A e \in Executions : Holds(e) => slot = [owner |-> e, version |-> mem[e].version]
  /\ \A e \in Executions : \A v \in Version(e) :
       /\ v <= slot.version
       /\ v = slot.version /\ v # 0 => e = slot.owner
  /\ \A e, f \in Executions : e # f => Version(e) \cap Version(f) \subseteq {0}
  /\ slot.owner \in {None, Legacy} <=> slot.version = 0
  /\ legacy => slot.owner = Legacy

\* While the executor is down, the holder of the alias has the newest version.
NewestOK ==
  /\ SlotsAgree
  /\ \A e \in Executions : disk[e].phase \in Holding => Newest(e)

\* Once read as settled, the predecessor stays so.
Over(p) == p \in retired \/ (mem[p].phase \in Quiescent /\ disk[p].phase = mem[p].phase)
CasOK ==
  \A e \in Executions : call[e].pc = "cas" /\ call[e].settled =>
    claim[e].previous \in Executions /\ Over(claim[e].previous)

\* Tickets: one claim for each, held in memory, and none of a buried one's.
TicketsOK ==
  /\ \A e, f \in Executions : claim[e] # NoRequest /\ claim[f] # NoRequest
       /\ claim[e].ticket = claim[f].ticket => e = f
  /\ \A e, f \in Executions : claim[e] # NoRequest /\ Buried(f)
       /\ claim[e].ticket = grave[f].ticket => e = f
  /\ up => \A e \in Executions :
       /\ claim[e] # NoRequest => holder[claim[e].ticket] = e
       /\ Buried(e) /\ e \notin retired => holder[grave[e].ticket] = e

\* A fork was paid for by an execution that still has the ticket or took it to
\* its grave.
PaidBy(t, e) ==
  /\ child[e] # "none"
  /\ IF claim[e] # NoRequest THEN claim[e].ticket = t ELSE grave[e].ticket = t
ForksOK == \A t \in Tickets : forks[t] <= 1 /\ (forks[t] = 1 => \E e \in Executions : PaidBy(t, e))

HostOK == host = "rebooted" => ~up /\ \A e \in Executions : child[e] \notin Running

\* The inductive invariant.
Inv ==
  /\ TypeOK /\ HostOK
  /\ \A e \in Executions : Local(e)
  /\ up => SlotOK /\ CasOK
  /\ ~up => NewestOK
  /\ TicketsOK /\ ForksOK

-----------------------------------------------------------------------------
(* Records and types.                                                      *)

LEMMA RecordTypes ==
  /\ NoRecord \in Record /\ NoRecord.phase = "absent" /\ NoRecord.version = 0 /\ NoRecord.output = "open"
  /\ NoTombstone.version = 0 /\ NoTombstone.ticket = None /\ NoRequest.ticket = None
  /\ NoRequest.previous = None
<1>1. 0 \in 0 .. MaxVersion
  BY ExecutorAssumption
<1>. QED
  BY <1>1 DEF NoRecord, Record, Phases, NoTombstone, NoRequest

\* settle_unspawned_output changes the output of a record only.
LEMMA SettledIs ==
  ASSUME NEW r \in Record
  PROVE  /\ Settled(r) \in Record /\ Settled(r).phase = r.phase /\ Settled(r).version = r.version
         /\ r.phase \notin {"revoked", "nochild"} => Settled(r).output = r.output
         /\ Settled(r).output = r.output \/ Settled(r).output = "ended"
BY DEF Settled, Record, Quiescent, WithReceipt

LEMMA AtIs ==
  ASSUME TypeOK, NEW e \in Executions, NEW p \in Phases
  PROVE  At(e, p) \in Record /\ At(e, p).phase = p /\ At(e, p).version = mem[e].version
         /\ At(e, p).output = mem[e].output
<1>1. mem[e] \in Record
  BY DEF TypeOK
<1>. QED
  BY <1>1 DEF At, Record

LEMMA RequestIs ==
  ASSUME NEW r \in Requests
  PROVE  r.ticket \in Tickets /\ r # NoRequest /\ r.previous \in Executions \cup {None}
BY ExecutorAssumption DEF Requests, NoRequest

LEMMA ClaimIs ==
  ASSUME TypeOK, NEW e \in Executions, claim[e] # NoRequest
  PROVE  claim[e].ticket \in Tickets /\ claim[e].previous \in Executions \cup {None}
BY RequestIs DEF TypeOK

\* A write of record `r` of `e`, whatever becomes of it.
LEMMA Writes ==
  ASSUME TypeOK, NEW e \in Executions, NEW r \in Record, Persist(e, r) \/ WriteFails(e, r)
  PROVE  /\ disk' \in [Executions -> Record] /\ faults' \in 0 .. MaxFaults
         /\ disk'[e] = disk[e] \/ disk'[e] = Settled(r)
         /\ \A f \in Executions : f # e => disk'[f] = disk[f]
<1>1. faults' \in 0 .. MaxFaults
  BY ExecutorAssumption DEF TypeOK, Persist, WriteFails, Fault
<1>2. disk' = disk \/ disk' = [disk EXCEPT ![e] = Settled(r)]
  BY DEF Persist, WriteFails
<1>. QED
  BY <1>1, <1>2, SettledIs DEF TypeOK

\* The three outcomes of a write of `r`: journal and memory, one of the two at
\* most, or memory ahead of the journal.
Wrote(e, r) ==
  /\ disk' \in [Executions -> Record] /\ mem' \in [Executions -> Record]
  /\ pend' \in SUBSET Executions /\ faults' \in 0 .. MaxFaults
  /\ \A f \in Executions : f # e =>
       disk'[f] = disk[f] /\ mem'[f] = mem[f] /\ (f \in pend' <=> f \in pend)
  /\ \/ mem'[e] = Settled(r) /\ disk'[e] = Settled(r) /\ e \notin pend'
     \/ mem'[e] = mem[e] /\ disk'[e] \in {disk[e], Settled(r)} /\ (e \in pend' <=> e \in pend)
     \/ mem'[e] = Settled(r) /\ disk'[e] \in {disk[e], Settled(r)} /\ e \in pend'

LEMMA PersistWrote ==
  ASSUME TypeOK, NEW e \in Executions, NEW r \in Record, Persist(e, r)
  PROVE  Wrote(e, r) /\ mem'[e] = Settled(r) /\ disk'[e] = Settled(r) /\ e \notin pend'
<1>1. mem' \in [Executions -> Record] /\ mem'[e] = Settled(r) /\ disk'[e] = Settled(r)
      /\ \A f \in Executions : f # e => mem'[f] = mem[f]
  BY SettledIs DEF TypeOK, Persist
<1>2. pend' \in SUBSET Executions /\ e \notin pend' /\ \A f \in Executions : f # e => (f \in pend' <=> f \in pend)
  BY DEF TypeOK, Persist
<1>. QED
  BY <1>1, <1>2, Writes DEF Wrote

LEMMA FailWrote ==
  ASSUME TypeOK, NEW e \in Executions, NEW r \in Record, PersistFails(e, r)
  PROVE  Wrote(e, r) /\ mem' = mem /\ pend' = pend
BY Writes DEF Wrote, PersistFails, TypeOK

LEMMA LatchIs ==
  ASSUME TypeOK, NEW e \in Executions, NEW r \in Record, Latch(e, r)
  PROVE  /\ mem' \in [Executions -> Record] /\ mem'[e] = Settled(r) /\ e \in pend'
         /\ pend' \in SUBSET Executions
         /\ \A f \in Executions : f # e => mem'[f] = mem[f] /\ (f \in pend' <=> f \in pend)
BY SettledIs DEF TypeOK, Latch

LEMMA LatchWrote ==
  ASSUME TypeOK, NEW e \in Executions, NEW r \in Record, NEW q \in Record, WriteFails(e, q), Latch(e, r)
  PROVE  /\ q = r => Wrote(e, r)
         /\ disk' \in [Executions -> Record] /\ faults' \in 0 .. MaxFaults
         /\ disk'[e] \in {disk[e], Settled(q)} /\ \A f \in Executions : f # e => disk'[f] = disk[f]
BY Writes, LatchIs DEF Wrote

-----------------------------------------------------------------------------
(* What the steps have in common.                                          *)

Same(f) ==
  /\ disk'[f] = disk[f] /\ mem'[f] = mem[f] /\ grave'[f] = grave[f] /\ claim'[f] = claim[f]
  /\ call'[f] = call[f] /\ monitor'[f] = monitor[f] /\ child'[f] = child[f] /\ told'[f] = told[f]
  /\ f \in pend' <=> f \in pend
  /\ f \in retired' <=> f \in retired
  /\ f \in handle' <=> f \in handle

LEMMA SameLocal ==
  ASSUME NEW f \in Executions, Local(f), Same(f), up' = up PROVE Local(f)'
<1>1. FilesOK(f)'
  BY DEF Local, FilesOK, Same, Buried
<1>2. ~up => DownOK(f)'
  BY DEF Local, DownOK, Same, Buried
<1>3. up => GoneOK(f)'
  BY DEF Local, GoneOK, Same, Buried, Kept
<1>4. up => RecordOK(f)'
  BY DEF Local, RecordOK, Same, Buried, Kept
<1>5. up => CallOK(f)' /\ MonitorOK(f)'
  BY DEF Local, CallOK, MonitorOK, Same
<1>. QED
  BY <1>1, <1>2, <1>3, <1>4, <1>5 DEF Local

\* The tickets and the forks, when only children and retired requests move.
LEMMA TicketsKept ==
  ASSUME Inv, UNCHANGED <<up, claim, grave, holder, retired>> PROVE TicketsOK'
BY DEF Inv, TicketsOK, Buried

LEMMA ForksKept ==
  ASSUME Inv, UNCHANGED <<claim, grave, forks>>,
         \A e \in Executions : child[e] # "none" => child'[e] # "none"
  PROVE  ForksOK'
<1> SUFFICES ASSUME NEW t \in Tickets
             PROVE  forks[t] <= 1 /\ (forks[t] = 1 => \E e \in Executions : PaidBy(t, e)')
  BY DEF ForksOK
<1>1. forks[t] <= 1 /\ (forks[t] = 1 => \E e \in Executions : PaidBy(t, e))
  BY DEF Inv, ForksOK
<1>2. \A e \in Executions : PaidBy(t, e) => PaidBy(t, e)'
  BY DEF PaidBy
<1>. QED
  BY <1>1, <1>2

\* A step of `e` while the executor is up, the slot staying where it is.
LEMMA UpStep ==
  ASSUME Inv, up, NEW e \in Executions, \A f \in Executions : f # e => Same(f), Local(e)', TypeOK',
         UNCHANGED <<up, host, legacy, slot>>, mem'[e].version \in {0, mem[e].version},
         Kept(e)' \in {0, Kept(e), mem[e].version}, Holds(e)' => Holds(e) /\ mem'[e].version = mem[e].version,
         Over(e) => Over(e)', call'[e].pc # "cas", \A f \in Executions : f # e => claim'[f] = claim[f],
         TicketsOK', ForksOK'
  PROVE  Inv'
<1>1. \A f \in Executions : Local(f)'
  BY SameLocal DEF Inv
<1>2. HostOK'
  BY DEF Inv, HostOK
<1>3. \A f \in Executions : f # e => Version(f)' = Version(f)
  BY DEF Version, Kept, Same
<1>4. \A v \in Version(e)' : v = 0 \/ v \in Version(e)
  BY DEF Version
<1>5. SlotOK'
  <2>1. SlotOK
    BY DEF Inv
  <2>2. \A f \in Executions : Holds(f)' => slot' = [owner |-> f, version |-> mem'[f].version]
    BY <2>1 DEF SlotOK, Holds, Same
  <2>3. \A f \in Executions : \A v \in Version(f)' : v <= slot'.version /\ (v = slot'.version /\ v # 0 => f = slot'.owner)
    <3>1. slot.version \in Nat
      BY ExecutorAssumption DEF Inv, TypeOK
    <3>. QED  BY <1>3, <1>4, <2>1, <3>1 DEF SlotOK
  <2>4. \A f, g \in Executions : f # g => Version(f)' \cap Version(g)' \subseteq {0}
    BY <1>3, <1>4, <2>1 DEF SlotOK
  <2>. QED  BY <2>1, <2>2, <2>3, <2>4 DEF SlotOK
<1>6. CasOK'
  <2>1. \A f \in Executions : Over(f) => Over(f)'
    BY DEF Over, Same
  <2>. QED  BY <2>1 DEF Inv, CasOK, Same
<1>. QED
  BY <1>1, <1>2, <1>5, <1>6 DEF Inv

-----------------------------------------------------------------------------
(* Steps of a record.                                                      *)

\* The step of `e` moves its record, its journal and its launch alone.
RecordOnly(e) ==
  /\ UNCHANGED <<up, closing, host, grave, legacy, retired, slot, claim, holder, forks, stop>>
  /\ \A f \in Executions : f # e =>
       /\ disk'[f] = disk[f] /\ mem'[f] = mem[f] /\ call'[f] = call[f] /\ monitor'[f] = monitor[f]
       /\ child'[f] = child[f] /\ told'[f] = told[f]
       /\ (f \in pend' <=> f \in pend) /\ (f \in handle' <=> f \in handle)

Typed ==
  /\ disk' \in [Executions -> Record] /\ mem' \in [Executions -> Record]
  /\ pend' \in SUBSET Executions /\ handle' \in SUBSET Executions
  /\ call' \in [Executions -> [pc : {"idle", "cas", "reserve", "fork", "spawn", "spawned", "settle"},
                               settled : BOOLEAN]]
  /\ monitor' \in [Executions -> {"none", "reading", "leader", "broken", "drained"}]
  /\ child' \in [Executions -> {"none", "live", "left", "gone"}]
  /\ told' \in [Executions -> Quiescent \cup {"none", "retired"}]
  /\ faults' \in 0 .. MaxFaults

\* A step of one record that is still to be settled, or that was settled before.
LEMMA RecordStep ==
  ASSUME Inv, up, NEW e \in Executions, RecordOnly(e), Typed, Local(e)',
         mem'[e].version = mem[e].version, disk'[e].version \in {disk[e].version, mem[e].version},
         mem'[e].phase \in Holding \/ disk'[e].phase \in Holding => Holds(e),
         Over(e) => Over(e)', call'[e].pc # "cas", child[e] # "none" => child'[e] # "none"
  PROVE  Inv'
<1>1. \A f \in Executions : f # e => Same(f)
  BY DEF RecordOnly, Same
<1>2. TypeOK'
  BY DEF Inv, TypeOK, RecordOnly, Typed
<1>3. TicketsOK' /\ ForksOK'
  BY TicketsKept, ForksKept DEF RecordOnly
<1>4. Kept(e)' \in {0, Kept(e), mem[e].version}
  BY DEF Kept, RecordOnly
<1>. QED
  BY <1>1, <1>2, <1>3, <1>4, UpStep DEF RecordOnly, Holds

\* Goto of a launch.
LEMMA Goes ==
  ASSUME TypeOK, NEW e \in Executions,
         NEW p \in {"idle", "cas", "reserve", "fork", "spawn", "spawned", "settle"}, Goto(e, p)
  PROVE  /\ call' \in [Executions -> [pc : {"idle", "cas", "reserve", "fork", "spawn", "spawned", "settle"},
                                      settled : BOOLEAN]]
         /\ call'[e].pc = p /\ call'[e].settled = call[e].settled
         /\ \A f \in Executions : f # e => call'[f] = call[f]
BY DEF TypeOK, Goto

\* Tell of a fact.
LEMMA Tells ==
  ASSUME TypeOK, NEW e \in Executions, NEW p, Tell(e, p)
  PROVE  /\ told' \in [Executions -> Quiescent \cup {"none", "retired"}]
         /\ p \in Quiescent \cup {"retired"} => told'[e] = p
         /\ p \notin Quiescent \cup {"retired"} => told'[e] = told[e]
         /\ \A f \in Executions : f # e => told'[f] = told[f]
BY DEF TypeOK, Tell

\* What is known of a record, in one place.
LEMMA Has ==
  ASSUME Inv, up, NEW e \in Executions
  PROVE  /\ FilesOK(e) /\ GoneOK(e) /\ RecordOK(e) /\ CallOK(e) /\ MonitorOK(e) /\ TypeOK
         /\ mem[e] \in Record /\ disk[e] \in Record
BY DEF Inv, Local, TypeOK

\* A settled record stays settled as it is: replayed, revoked again, told,
\* finished or ignored.
LEMMA SettledStep ==
  ASSUME Inv, up, NEW e \in Executions, mem[e].phase \in Quiescent, RecordOnly(e), Typed,
         mem'[e].phase = mem[e].phase, mem'[e].version = mem[e].version,
         disk'[e].phase \in {disk[e].phase, mem[e].phase},
         disk'[e].version \in {disk[e].version, mem[e].version},
         e \notin pend' => e \notin pend \/ disk'[e].phase = mem[e].phase,
         told'[e] = told[e] \/ (told'[e] = mem[e].phase /\ disk'[e].phase = mem[e].phase),
         child'[e] = child[e], call'[e].pc = "idle",
         monitor'[e] # "none" =>
           /\ mem[e].phase = "drained" /\ mem'[e].output = "open" /\ e \in handle'
  PROVE  Inv'
<1>1. /\ FilesOK(e) /\ GoneOK(e) /\ RecordOK(e) /\ CallOK(e) /\ MonitorOK(e) /\ TypeOK
      /\ mem[e] \in Record /\ disk[e] \in Record
  BY Has
<1>2. /\ mem[e].phase \notin Holding /\ mem[e].phase \notin {"absent", "prepared", "reserved", "none", "retired"}
  BY DEF Quiescent, Holding, Past
<1>3. e \notin retired
  BY <1>1, <1>2, RecordTypes DEF GoneOK
<1>4. FilesOK(e)'
  <2>1. child[e] \notin Running /\ claim[e] # NoRequest /\ told[e] \in {"none", mem[e].phase}
    BY <1>1, <1>2 DEF RecordOK
  <2>2. disk'[e].phase \in Holding => disk'[e].version # 0 /\ ~Buried(e)
    <3>1. disk[e].phase \in Holding => disk[e].version # 0 /\ ~Buried(e)
      BY <1>1 DEF FilesOK
    <3>2. disk[e].version \in {0, mem[e].version}
      BY <1>1, <1>2 DEF RecordOK
    <3>. QED  BY <1>2, <3>1, <3>2
  <2>3. told'[e] \in Quiescent => disk'[e].phase = told'[e] \/ Buried(e)
    BY <1>1, <2>1 DEF FilesOK, Quiescent
  <2>4. child[e] # "none" => disk'[e].phase # "absent" \/ Buried(e)
    BY <1>1, <1>2 DEF FilesOK
  <2>5. Buried(e)' = Buried(e) /\ claim' = claim
    BY DEF Buried, RecordOnly
  <2>6. told'[e] # "retired"
    BY <1>2, <2>1
  <2>7. disk'[e].phase # "absent"
    BY <1>1, <1>2 DEF RecordOK
  <2>. QED  BY <2>1, <2>2, <2>3, <2>4, <2>5, <2>6, <2>7 DEF FilesOK
<1>5. GoneOK(e)'
  BY <1>2, <1>3 DEF GoneOK, RecordOnly
<1>6. RecordOK(e)'
  BY <1>1, <1>2 DEF RecordOK, RecordOnly, Buried, Kept
<1>7. CallOK(e)'
  BY DEF CallOK
<1>8. MonitorOK(e)'
  BY DEF MonitorOK
<1>9. Local(e)'
  BY <1>4, <1>5, <1>6, <1>7, <1>8 DEF Local, RecordOnly
<1>10. mem'[e].phase \in Holding \/ disk'[e].phase \in Holding => Holds(e)
  BY <1>2 DEF Holds
<1>11. Over(e) => Over(e)'
  BY <1>3 DEF Over
<1>. QED
  BY <1>9, <1>10, <1>11, RecordStep

\* The same record is written again.
LEMMA Rewrites ==
  ASSUME TypeOK, NEW e \in Executions, Wrote(e, mem[e])
  PROVE  /\ mem'[e].phase = mem[e].phase /\ mem'[e].version = mem[e].version
         /\ disk'[e].phase \in {disk[e].phase, mem[e].phase}
         /\ disk'[e].version \in {disk[e].version, mem[e].version}
         /\ e \notin pend' => e \notin pend \/ disk'[e].phase = mem[e].phase
         /\ mem[e].phase = "drained" => mem'[e].output = mem[e].output
<1>1. mem[e] \in Record
  BY DEF TypeOK
<1>. QED
  BY <1>1, SettledIs DEF Wrote

LEMMA ReplayStep == ASSUME Inv, NEW e \in Executions, Replay(e) PROVE Inv'
<1>1. /\ up /\ call[e].pc = "idle" /\ mem[e].phase \in Quiescent
      /\ UNCHANGED <<up, closing, host, grave, legacy, index, call, process, forks>>
      /\ \/ e \in pend /\ Persist(e, mem[e]) /\ Tell(e, mem[e].phase)
         \/ e \in pend /\ PersistFails(e, mem[e]) /\ UNCHANGED told
         \/ e \notin pend /\ Tell(e, mem[e].phase) /\ UNCHANGED <<disk, mem, pend, faults>>
  BY DEF Replay, Gate
<1>2. TypeOK /\ mem[e] \in Record /\ MonitorOK(e) /\ RecordOK(e)
  BY <1>1, Has
<1>3. monitor[e] # "none" => mem[e].phase = "drained" /\ mem[e].output = "open" /\ e \in handle
  BY <1>1, <1>2 DEF MonitorOK, Quiescent
<1>4. CASE e \in pend /\ Persist(e, mem[e]) /\ Tell(e, mem[e].phase)
  <2>1. Wrote(e, mem[e]) /\ mem'[e] = Settled(mem[e]) /\ disk'[e] = Settled(mem[e])
    BY <1>2, <1>4, PersistWrote
  <2>2. RecordOnly(e) /\ Typed /\ told'[e] = mem[e].phase /\ disk'[e].phase = mem[e].phase
    BY <1>1, <1>2, <1>4, <2>1, Tells, SettledIs DEF Wrote, RecordOnly, Typed, TypeOK, index, process
  <2>. QED  BY <1>1, <1>2, <1>3, <2>1, <2>2, Rewrites, SettledStep DEF process
<1>5. CASE e \in pend /\ PersistFails(e, mem[e]) /\ UNCHANGED told
  <2>1. Wrote(e, mem[e])
    BY <1>2, <1>5, FailWrote
  <2>2. RecordOnly(e) /\ Typed
    BY <1>1, <1>2, <1>5, <2>1 DEF Wrote, RecordOnly, Typed, TypeOK, index, process
  <2>. QED  BY <1>1, <1>2, <1>3, <1>5, <2>1, <2>2, Rewrites, SettledStep DEF process
<1>6. CASE e \notin pend /\ Tell(e, mem[e].phase) /\ UNCHANGED <<disk, mem, pend, faults>>
  <2>1. RecordOnly(e) /\ Typed /\ told'[e] = mem[e].phase /\ disk'[e].phase = mem[e].phase
    BY <1>1, <1>2, <1>6, Tells DEF RecordOnly, Typed, TypeOK, index, process, RecordOK
  <2>. QED  BY <1>1, <1>2, <1>3, <1>6, <2>1, SettledStep DEF process
<1>. QED
  BY <1>1, <1>4, <1>5, <1>6

\* inspect and Observe tell a settled fact.
LEMMA TellStep == ASSUME Inv, NEW e \in Executions, Inspect(e) \/ Observe(e) PROVE Inv'
<1>1. /\ up /\ mem[e].phase \in Quiescent /\ (e \notin pend \/ mem[e].phase \in WithReceipt)
      /\ Tell(e, mem[e].phase)
      /\ UNCHANGED <<up, closing, host, durable, mem, pend, index, call, process, forks, faults>>
  BY DEF Inspect, Observe, Gate
<1>2. TypeOK /\ MonitorOK(e) /\ RecordOK(e) /\ CallOK(e)
  BY <1>1, Has
<1>3. monitor[e] # "none" => mem[e].phase = "drained" /\ mem[e].output = "open" /\ e \in handle
  BY <1>1, <1>2 DEF MonitorOK, Quiescent
<1>4. /\ RecordOnly(e) /\ Typed /\ told'[e] = mem[e].phase /\ disk[e].phase = mem[e].phase
      /\ UNCHANGED <<disk, mem, pend, call, monitor, handle, child>>
  BY <1>1, <1>2, Tells DEF RecordOnly, Typed, TypeOK, durable, index, process, RecordOK
<1>5. call[e].pc = "idle"
  BY <1>1, <1>2 DEF CallOK, TypeOK, Quiescent, WithReceipt
<1>. QED
  BY <1>1, <1>3, <1>4, <1>5, SettledStep

LEMMA FinishOutputStep == ASSUME Inv, NEW e \in Executions, FinishOutput(e) PROVE Inv'
<1> DEFINE ended == [mem[e] EXCEPT !.output = "ended"]
<1>1. /\ up /\ call[e].pc = "idle" /\ monitor[e] = "drained"
      /\ monitor' = [monitor EXCEPT ![e] = "none"]
      /\ \/ Persist(e, ended) /\ handle' = handle \ {e}
         \/ PersistFails(e, ended) /\ UNCHANGED handle
      /\ UNCHANGED <<up, closing, host, grave, legacy, index, call, stop, child, told, forks>>
  BY DEF FinishOutput, Gate
<1>2. TypeOK /\ mem[e] \in Record /\ MonitorOK(e) /\ RecordOK(e)
  BY <1>1, Has
<1>3. ended \in Record /\ ended.phase = mem[e].phase /\ ended.version = mem[e].version
  BY <1>2 DEF Record
<1> HIDE DEF ended
<1>4. mem[e].phase = "drained" /\ mem[e].phase \in Quiescent /\ mem[e].phase \in WithReceipt
  BY <1>1, <1>2 DEF MonitorOK, Quiescent, WithReceipt
<1>5. Wrote(e, ended)
  BY <1>1, <1>2, <1>3, PersistWrote, FailWrote
<1>6. /\ mem'[e].phase = mem[e].phase /\ mem'[e].version = mem[e].version
      /\ disk'[e].phase \in {disk[e].phase, mem[e].phase}
      /\ disk'[e].version \in {disk[e].version, mem[e].version}
  BY <1>3, <1>5, SettledIs DEF Wrote
<1>7. disk[e].phase = mem[e].phase
  BY <1>2, <1>4 DEF RecordOK
<1>8. RecordOnly(e) /\ Typed /\ monitor'[e] = "none"
  BY <1>1, <1>2, <1>5 DEF Wrote, RecordOnly, Typed, TypeOK, index
<1>. QED
  BY <1>1, <1>4, <1>6, <1>7, <1>8, SettledStep

LEMMA LaunchSettleStep == ASSUME Inv, NEW e \in Executions, LaunchSettle(e) PROVE Inv'
<1>1. /\ up /\ call[e].pc = "settle" /\ Goto(e, "idle")
      /\ \/ Persist(e, mem[e]) /\ Tell(e, mem[e].phase)
         \/ PersistFails(e, mem[e]) /\ UNCHANGED told
      /\ UNCHANGED <<up, closing, host, grave, legacy, retired, claim, holder, slot, process, forks>>
  BY DEF LaunchSettle, LaunchOnly
<1>2. TypeOK /\ mem[e] \in Record /\ MonitorOK(e) /\ CallOK(e) /\ RecordOK(e)
  BY <1>1, Has
<1>3. mem[e].phase = "nochild" /\ mem[e].phase \in Quiescent /\ monitor[e] = "none"
  BY <1>1, <1>2 DEF CallOK, MonitorOK, Quiescent
<1>4. Wrote(e, mem[e])
  BY <1>1, <1>2, PersistWrote, FailWrote
<1>5. call'[e].pc = "idle" /\ told'[e] \in {told[e], mem[e].phase}
      /\ told' \in [Executions -> Quiescent \cup {"none", "retired"}]
      /\ \A f \in Executions : f # e => told'[f] = told[f]
  BY <1>1, <1>2, <1>3, Goes, Tells DEF TypeOK
<1>6. RecordOnly(e) /\ Typed
  BY <1>1, <1>2, <1>4, <1>5, Goes DEF Wrote, RecordOnly, Typed, TypeOK, process
<1>7. told'[e] = told[e] \/ (told'[e] = mem[e].phase /\ disk'[e].phase = mem[e].phase)
  BY <1>1, <1>2, <1>3, <1>5, PersistWrote, SettledIs
<1>. QED
  BY <1>1, <1>2, <1>3, <1>4, <1>5, <1>6, <1>7, Rewrites, SettledStep DEF process

-----------------------------------------------------------------------------
(* Records on their way.                                                   *)

\* A record that is not settled: it is not retired, not buried, nothing was told.
LEMMA Unsettled ==
  ASSUME Inv, up, NEW e \in Executions, mem[e].phase \in Holding \cup {"prepared"}
  PROVE  /\ e \notin retired /\ ~Buried(e) /\ told[e] = "none" /\ ~Over(e)
         /\ mem[e].phase \notin Quiescent /\ mem[e].phase # "absent" /\ claim[e] # NoRequest
<1>1. FilesOK(e) /\ GoneOK(e) /\ RecordOK(e)
  BY Has
<1>2. mem[e].phase \notin Quiescent \cup {"retired", "absent"}
  BY DEF Quiescent, Holding, Past
<1>3. e \notin retired /\ ~Buried(e) /\ claim[e] # NoRequest
  BY <1>1, <1>2, RecordTypes DEF GoneOK, RecordOK
<1>4. told[e] = "none"
  <2>1. TypeOK /\ told[e] \in {"none", mem[e].phase}
    BY <1>1, <1>2, Has DEF RecordOK
  <2>. QED  BY <1>2, <2>1 DEF TypeOK
<1>. QED
  BY <1>2, <1>3, <1>4 DEF Over

\* It moves on without being settled.
LEMMA AdvanceStep ==
  ASSUME Inv, up, NEW e \in Executions, mem[e].phase \in Holding, mem'[e].phase \in Holding,
         RecordOnly(e), Typed, mem'[e].version = mem[e].version,
         mem'[e].phase = "reserved" => mem[e].phase = "reserved" /\ mem'[e].output = mem[e].output,
         \/ disk'[e].phase = disk[e].phase /\ disk'[e].version = disk[e].version
         \/ /\ disk'[e].phase \in Holding /\ disk'[e].version = mem[e].version
            /\ disk'[e].phase = "reserved" => mem[e].phase = "reserved",
         child'[e] = child[e], told'[e] = told[e], call'[e].pc # "cas", CallOK(e)', MonitorOK(e)'
  PROVE  Inv'
<1>1. /\ FilesOK(e) /\ GoneOK(e) /\ RecordOK(e) /\ TypeOK
  BY Has
<1>2. /\ e \notin retired /\ ~Buried(e) /\ told[e] = "none" /\ ~Over(e) /\ claim[e] # NoRequest
      /\ mem[e].phase # "absent" /\ mem[e].version # 0
  BY <1>1, Unsettled DEF RecordOK
<1>3. mem'[e].phase \notin Quiescent \cup {"absent", "prepared"}
  BY DEF Quiescent, Holding, Past
<1>4. child[e] \in Running => mem[e].phase # "reserved"
  BY <1>1 DEF RecordOK, Running
<1>5. disk'[e].phase # "absent"
  BY <1>1, <1>2 DEF RecordOK, Holding, Past
<1>6. FilesOK(e)'
  <2>1. child[e] \in Running => disk'[e].phase \in Past
    BY <1>1, <1>4 DEF FilesOK, Holding
  <2>2. disk'[e].phase \in Holding => disk'[e].version # 0
    BY <1>1, <1>2 DEF FilesOK
  <2>. QED  BY <1>2, <1>5, <2>1, <2>2 DEF FilesOK, Buried, RecordOnly, Quiescent
<1>7. GoneOK(e)'
  BY <1>2, <1>3 DEF GoneOK, RecordOnly
<1>8. RecordOK(e)'
  BY <1>1, <1>2, <1>3, <1>5 DEF RecordOK, RecordOnly, Buried, Kept
<1>9. Local(e)'
  BY <1>6, <1>7, <1>8 DEF Local, RecordOnly
<1>. QED
  BY <1>2, <1>9, RecordStep DEF Holds

\* It is settled, nothing of it running: in memory and on disk, on disk only, or
\* in memory first if it never had a receipt.
LEMMA SealStep ==
  ASSUME Inv, up, NEW e \in Executions, mem[e].phase \in Holding \cup {"prepared"},
         RecordOnly(e), Typed, mem'[e].version = mem[e].version, NEW q \in Quiescent,
         child[e] \notin Running, child'[e] = child[e],
         \/ mem'[e].phase = mem[e].phase /\ mem'[e].output = mem[e].output /\ (e \in pend' <=> e \in pend)
         \/ mem'[e].phase = q /\ ((q \notin WithReceipt /\ e \in pend') \/ disk'[e].phase = q),
         \/ disk'[e].phase = disk[e].phase /\ disk'[e].version = disk[e].version
         \/ disk'[e].phase = q /\ disk'[e].version = mem[e].version,
         told'[e] = told[e] \/ (told'[e] = q /\ mem'[e].phase = q /\ disk'[e].phase = q),
         call'[e].pc # "cas", CallOK(e)', MonitorOK(e)'
  PROVE  Inv'
<1>1. /\ FilesOK(e) /\ GoneOK(e) /\ RecordOK(e) /\ TypeOK
  BY Has
<1>2. /\ e \notin retired /\ ~Buried(e) /\ told[e] = "none" /\ ~Over(e) /\ claim[e] # NoRequest
      /\ mem[e].phase \notin Quiescent /\ mem[e].phase # "absent"
  BY <1>1, Unsettled
<1>3. q \notin Holding \cup {"absent", "none", "retired", "prepared", "reserved"}
  BY DEF Quiescent, Holding, Past
<1>4. mem'[e].phase # "absent" /\ told'[e] \in {"none", q} /\ told'[e] \in {"none", mem'[e].phase}
  BY <1>2, <1>3
<1>5. disk'[e].phase # "absent"
  BY <1>1, <1>2, <1>3 DEF RecordOK
<1>6. FilesOK(e)'
  <2>2. disk'[e].phase \in Holding => disk'[e].version # 0
    BY <1>1, <1>3 DEF FilesOK
  <2>4. told'[e] # "retired" /\ (told'[e] \in Quiescent => disk'[e].phase = told'[e])
    BY <1>2, <1>3 DEF Quiescent
  <2>. QED  BY <1>2, <1>5, <2>2, <2>4 DEF FilesOK, Buried, RecordOnly
<1>7. GoneOK(e)'
  BY <1>2, <1>4 DEF GoneOK, RecordOnly
<1>8. RecordOK(e)'
  <2>1. disk'[e].version \in {0, mem'[e].version} /\ ~Buried(e)' /\ Kept(e)' = disk'[e].version
    BY <1>1, <1>2 DEF RecordOK, RecordOnly, Buried, Kept
  <2>2. CASE mem'[e].phase = q
    BY <1>2, <1>3, <1>4, <1>5, <2>1, <2>2 DEF RecordOK, RecordOnly
  <2>3. CASE mem'[e].phase = mem[e].phase /\ mem'[e].output = mem[e].output
    BY <1>1, <1>2, <1>4, <1>5, <2>1, <2>3 DEF RecordOK, RecordOnly
  <2>. QED  BY <2>2, <2>3
<1>9. Local(e)'
  BY <1>6, <1>7, <1>8 DEF Local, RecordOnly
<1>10. mem'[e].phase \in Holding \/ disk'[e].phase \in Holding => Holds(e)
  BY <1>3 DEF Holds
<1>. QED
  BY <1>2, <1>9, <1>10, RecordStep

\* What Revoke and the shutdown write: the end of what has not passed the
\* barrier, or the record as it is.
LEMMA RevokedIs ==
  ASSUME Inv, up, NEW e \in Executions
  PROVE  /\ RevokedRecord(e) \in Record /\ RevokedRecord(e).version = mem[e].version
         /\ mem[e].phase \in {"prepared", "reserved"} => RevokedRecord(e).phase \in {"revoked", "nochild"}
         /\ mem[e].phase \notin {"prepared", "reserved"} => RevokedRecord(e) = mem[e]
<1>1. TypeOK /\ mem[e] \in Record /\ "revoked" \in Phases /\ "nochild" \in Phases
  BY Has DEF Phases, Quiescent
<1>. QED
  BY <1>1, AtIs DEF RevokedRecord

LEMMA RevokeStep == ASSUME Inv, NEW e \in Executions, Revoke(e) PROVE Inv'
<1> DEFINE r == RevokedRecord(e)
<1>1. /\ up /\ call[e].pc = "idle" /\ mem[e].phase # "absent"
      /\ \/ Persist(e, r) /\ Tell(e, r.phase)
         \/ WriteFails(e, r) /\ Latch(e, r) /\ UNCHANGED told
      /\ UNCHANGED <<up, closing, host, grave, legacy, index, call, process, forks>>
  BY DEF Revoke, Gate, HasRecord
<1>2. TypeOK /\ mem[e] \in Record /\ MonitorOK(e) /\ RecordOK(e) /\ CallOK(e)
  BY <1>1, Has
<1>3. /\ r \in Record /\ r.version = mem[e].version
      /\ mem[e].phase \in {"prepared", "reserved"} => r.phase \in {"revoked", "nochild"}
      /\ mem[e].phase \notin {"prepared", "reserved"} => r = mem[e]
  BY <1>1, RevokedIs
<1> HIDE DEF r
<1>4. Wrote(e, r) /\ mem'[e] = Settled(r) /\ disk'[e] \in {disk[e], Settled(r)}
  BY <1>1, <1>2, <1>3, PersistWrote, LatchWrote, LatchIs
<1>5. /\ told' \in [Executions -> Quiescent \cup {"none", "retired"}]
      /\ told'[e] = told[e] \/ (told'[e] = r.phase /\ disk'[e] = Settled(r))
      /\ \A f \in Executions : f # e => told'[f] = told[f]
  BY <1>1, <1>2, <1>3, Tells, PersistWrote DEF TypeOK
<1>6. e \in pend' \/ disk'[e] = Settled(r)
  BY <1>1, <1>2, <1>3, PersistWrote, LatchIs
<1>7. RecordOnly(e) /\ Typed /\ call'[e] = call[e] /\ monitor'[e] = monitor[e] /\ child'[e] = child[e]
      /\ handle' = handle
  BY <1>1, <1>2, <1>4, <1>5 DEF Wrote, RecordOnly, Typed, TypeOK, index, process
<1>8. /\ Settled(r).phase = r.phase /\ Settled(r).version = mem[e].version
      /\ r.phase \notin {"revoked", "nochild"} => Settled(r).output = r.output
  BY <1>3, SettledIs
<1>9. CASE mem[e].phase \in {"prepared", "reserved"}
  <2>1. r.phase \in Quiescent /\ r.phase \notin WithReceipt /\ mem[e].phase \in Holding \cup {"prepared"}
    BY <1>3, <1>9 DEF Quiescent, WithReceipt, Holding
  <2>2. child[e] \notin Running /\ monitor[e] = "none"
    BY <1>2, <1>9 DEF RecordOK, Running, MonitorOK
  <2>3. CallOK(e)' /\ MonitorOK(e)' /\ call'[e].pc # "cas"
    BY <1>1, <1>7, <2>2 DEF CallOK, MonitorOK
  <2>. QED
    BY <1>1, <1>4, <1>5, <1>6, <1>7, <1>8, <2>1, <2>2, <2>3, SealStep
<1>10. CASE mem[e].phase \in Past
  <2>1. r = mem[e] /\ mem[e].phase \in Holding /\ r.phase \notin {"reserved", "revoked", "nochild"}
    BY <1>3, <1>10 DEF Holding, Past
  <2>2. CallOK(e)' /\ MonitorOK(e)' /\ call'[e].pc # "cas"
    BY <1>1, <1>2, <1>4, <1>7, <1>8, <2>1 DEF CallOK, MonitorOK
  <2>3. told'[e] = told[e]
    BY <1>1, <1>2, <2>1, <1>10, Tells DEF Past, Quiescent
  <2>. QED
    BY <1>1, <1>4, <1>7, <1>8, <2>1, <2>2, <2>3, AdvanceStep
<1>11. CASE mem[e].phase \in Quiescent
  <2>1. r = mem[e]
    BY <1>3, <1>11 DEF Quiescent
  <2>2. monitor[e] # "none" => mem[e].phase = "drained" /\ mem[e].output = "open" /\ e \in handle
    BY <1>2, <1>11 DEF MonitorOK, Quiescent
  <2>. QED
    BY <1>1, <1>4, <1>5, <1>6, <1>7, <1>8, <1>11, <2>1, <2>2, SettledStep
<1>. QED
  BY <1>1, <1>2, <1>9, <1>10, <1>11 DEF Record, Phases, Past

LEMMA ShutdownStep == ASSUME Inv, NEW e \in Executions, ShutdownSettle(e) PROVE Inv'
<1> DEFINE r == RevokedRecord(e)
<1>1. /\ up /\ call[e].pc = "idle" /\ mem[e].phase \in {"prepared", "reserved"}
      /\ Persist(e, r) \/ PersistFails(e, r)
      /\ UNCHANGED <<up, closing, host, grave, legacy, index, call, process, told, forks>>
  BY DEF ShutdownSettle, Gate
<1>2. TypeOK /\ MonitorOK(e) /\ RecordOK(e)
  BY <1>1, Has
<1>3. r \in Record /\ r.version = mem[e].version /\ r.phase \in {"revoked", "nochild"}
  BY <1>1, RevokedIs
<1> HIDE DEF r
<1>4. /\ Wrote(e, r) /\ disk'[e] \in {disk[e], Settled(r)}
      /\ \/ mem'[e] = Settled(r) /\ disk'[e] = Settled(r)
         \/ mem'[e] = mem[e] /\ pend' = pend
  BY <1>1, <1>2, <1>3, PersistWrote, FailWrote DEF Wrote
<1>5. RecordOnly(e) /\ Typed /\ UNCHANGED <<call, monitor, child, handle, told>>
  BY <1>1, <1>2, <1>4 DEF Wrote, RecordOnly, Typed, TypeOK, index, process
<1>6. Settled(r).phase = r.phase /\ Settled(r).version = mem[e].version
  BY <1>3, SettledIs
<1>7. r.phase \in Quiescent /\ mem[e].phase \in Holding \cup {"prepared"}
  BY <1>1, <1>3 DEF Quiescent, Holding
<1>8. child[e] \notin Running /\ monitor[e] = "none"
  BY <1>1, <1>2 DEF RecordOK, Running, MonitorOK
<1>9. CallOK(e)' /\ MonitorOK(e)' /\ call'[e].pc # "cas"
  BY <1>1, <1>5, <1>8 DEF CallOK, MonitorOK
<1>. QED
  BY <1>1, <1>4, <1>5, <1>6, <1>7, <1>8, <1>9, SealStep

LEMMA ReconcileStep == ASSUME Inv, NEW e \in Executions, Reconcile(e) PROVE Inv'
<1> DEFINE r == At(e, "interrupted")
<1>1. /\ up /\ call[e].pc = "idle" /\ mem[e].phase = "unknown" /\ e \notin handle /\ child[e] \notin Running
      /\ Persist(e, r) \/ PersistFails(e, r)
      /\ UNCHANGED <<up, closing, host, grave, legacy, index, call, process, told, forks>>
  BY DEF Reconcile, Gate
<1>2. TypeOK /\ MonitorOK(e)
  BY <1>1, Has
<1>3. r \in Record /\ r.version = mem[e].version /\ r.phase = "interrupted" /\ r.phase \in Quiescent
  BY <1>1, <1>2, AtIs DEF Quiescent, Phases
<1> HIDE DEF r
<1>4. /\ Wrote(e, r) /\ disk'[e] \in {disk[e], Settled(r)}
      /\ \/ mem'[e] = Settled(r) /\ disk'[e] = Settled(r)
         \/ mem'[e] = mem[e] /\ pend' = pend
  BY <1>1, <1>2, <1>3, PersistWrote, FailWrote DEF Wrote
<1>5. RecordOnly(e) /\ Typed /\ UNCHANGED <<call, monitor, child, handle, told>>
  BY <1>1, <1>2, <1>4 DEF Wrote, RecordOnly, Typed, TypeOK, index, process
<1>6. Settled(r).phase = r.phase /\ Settled(r).version = mem[e].version
  BY <1>3, SettledIs
<1>7. mem[e].phase \in Holding \cup {"prepared"} /\ monitor[e] = "none"
  BY <1>1, <1>2 DEF Holding, Past, MonitorOK
<1>8. CallOK(e)' /\ MonitorOK(e)' /\ call'[e].pc # "cas"
  BY <1>1, <1>5, <1>7 DEF CallOK, MonitorOK
<1>. QED
  BY <1>1, <1>3, <1>4, <1>5, <1>6, <1>7, <1>8, SealStep

-----------------------------------------------------------------------------
(* The monitor.                                                            *)

\* What the monitor can find: a record with its receipt, or one drained.
LEMMA Monitored ==
  ASSUME Inv, up, NEW e \in Executions, monitor[e] # "none"
  PROVE  /\ TypeOK /\ mem[e] \in Record /\ e \in handle /\ mem[e].output = "open" /\ call[e].pc = "idle"
         /\ \/ mem[e].phase \in {"spawned", "exited", "unknown"} /\ mem[e].phase \in Holding
               /\ mem[e].phase \notin Quiescent
            \/ mem[e].phase = "drained" /\ mem[e].phase \in Quiescent
BY Has DEF MonitorOK, Quiescent, Holding, Past

LEMMA ReportExitStep == ASSUME Inv, NEW e \in Executions, ReportExit(e) PROVE Inv'
<1>1. PICK p \in {"exited", "unknown"} : up /\ monitor[e] = "reading" /\ Apply(e, p, "leader")
  BY DEF ReportExit, Gate
<1>2. /\ TypeOK /\ mem[e] \in Record /\ e \in handle /\ mem[e].output = "open" /\ call[e].pc = "idle"
      /\ \/ mem[e].phase \in {"spawned", "exited", "unknown"} /\ mem[e].phase \in Holding
            /\ mem[e].phase \notin Quiescent
         \/ mem[e].phase = "drained" /\ mem[e].phase \in Quiescent
  BY <1>1, Monitored
<1>3. UNCHANGED <<up, closing, host, grave, legacy, index, call, handle, stop, child, told, forks>>
  BY <1>1 DEF Apply
<1>4. CASE mem[e].phase \in Quiescent
  <2>1. monitor' = [monitor EXCEPT ![e] = "leader"] /\ UNCHANGED <<disk, mem, pend, faults>>
    BY <1>1, <1>4 DEF Apply
  <2>2. RecordOnly(e) /\ Typed
    BY <1>2, <1>3, <2>1 DEF RecordOnly, Typed, TypeOK, index
  <2>. QED  BY <1>1, <1>2, <1>3, <1>4, <2>1, <2>2, SettledStep
<1>5. CASE mem[e].phase \notin Quiescent
  <2> DEFINE r == At(e, p)
  <2>1. r \in Record /\ r.version = mem[e].version /\ r.phase = p /\ r.output = mem[e].output
    BY <1>2, AtIs DEF Phases
  <2>2. PICK nx \in {"leader", "broken"} :
          (Persist(e, r) \/ PersistFails(e, r)) /\ monitor' = [monitor EXCEPT ![e] = nx]
    BY <1>1, <1>5 DEF Apply
  <2> HIDE DEF r
  <2>3. Wrote(e, r) /\ disk'[e] \in {disk[e], Settled(r)} /\ mem'[e] \in {mem[e], Settled(r)}
    BY <1>2, <2>1, <2>2, PersistWrote, FailWrote DEF Wrote
  <2>4. RecordOnly(e) /\ Typed /\ monitor'[e] = nx
    BY <1>2, <1>3, <2>2, <2>3 DEF Wrote, RecordOnly, Typed, TypeOK, index
  <2>5. Settled(r).phase = p /\ Settled(r).version = mem[e].version /\ Settled(r).output = "open" /\ p \in Holding
    BY <1>2, <2>1, SettledIs DEF Holding, Past
  <2>6. CallOK(e)' /\ MonitorOK(e)' /\ call'[e].pc # "cas"
    BY <1>2, <1>3, <1>5, <2>3, <2>4, <2>5 DEF CallOK, MonitorOK
  <2>. QED
    BY <1>1, <1>2, <1>3, <1>5, <2>3, <2>4, <2>5, <2>6, AdvanceStep
<1>. QED
  BY <1>4, <1>5

LEMMA ReportDrainedStep == ASSUME Inv, NEW e \in Executions, ReportDrained(e) PROVE Inv'
<1>1. up /\ monitor[e] = "leader" /\ child[e] = "gone" /\ Apply(e, "drained", "drained")
  BY DEF ReportDrained, Gate
<1>2. /\ TypeOK /\ mem[e] \in Record /\ e \in handle /\ mem[e].output = "open" /\ call[e].pc = "idle"
      /\ \/ mem[e].phase \in {"spawned", "exited", "unknown"} /\ mem[e].phase \in Holding
            /\ mem[e].phase \notin Quiescent
         \/ mem[e].phase = "drained" /\ mem[e].phase \in Quiescent
  BY <1>1, Monitored
<1>3. UNCHANGED <<up, closing, host, grave, legacy, index, call, handle, stop, child, told, forks>>
  BY <1>1 DEF Apply
<1>4. CASE mem[e].phase \in Quiescent
  <2>1. monitor' = [monitor EXCEPT ![e] = "drained"] /\ UNCHANGED <<disk, mem, pend, faults>>
    BY <1>1, <1>4 DEF Apply
  <2>2. RecordOnly(e) /\ Typed
    BY <1>2, <1>3, <2>1 DEF RecordOnly, Typed, TypeOK, index
  <2>. QED  BY <1>1, <1>2, <1>3, <1>4, <2>1, <2>2, SettledStep
<1>5. CASE mem[e].phase \notin Quiescent
  <2> DEFINE r == At(e, "drained")
  <2>1. r \in Record /\ r.version = mem[e].version /\ r.phase = "drained" /\ r.output = mem[e].output
        /\ r.phase \in Quiescent
    BY <1>2, AtIs DEF Phases, Quiescent
  <2>2. \/ Persist(e, r) /\ monitor' = [monitor EXCEPT ![e] = "drained"]
        \/ PersistFails(e, r) /\ monitor' = [monitor EXCEPT ![e] = "broken"]
    BY <1>1, <1>5 DEF Apply
  <2> HIDE DEF r
  <2>3. /\ Wrote(e, r) /\ disk'[e] \in {disk[e], Settled(r)}
        /\ \/ mem'[e] = Settled(r) /\ disk'[e] = Settled(r)
           \/ mem'[e] = mem[e] /\ pend' = pend /\ monitor' = [monitor EXCEPT ![e] = "broken"]
    BY <1>2, <2>1, <2>2, PersistWrote, FailWrote DEF Wrote
  <2>4. RecordOnly(e) /\ Typed /\ monitor'[e] \in {"drained", "broken"}
        /\ (monitor'[e] = "drained" => mem'[e] = Settled(r))
    BY <1>2, <1>3, <2>2, <2>3, ZenonT(60) DEF Wrote, RecordOnly, Typed, TypeOK, index
  <2>5. Settled(r).phase = "drained" /\ Settled(r).version = mem[e].version /\ Settled(r).output = "open"
    BY <1>2, <2>1, SettledIs
  <2>6. CallOK(e)' /\ MonitorOK(e)' /\ call'[e].pc # "cas"
    BY <1>2, <1>3, <1>5, <2>3, <2>4, <2>5 DEF CallOK, MonitorOK
  <2>7. child[e] \notin Running
    BY <1>1 DEF Running
  <2>. QED
    BY <1>1, <1>2, <1>3, <1>5, <2>1, <2>3, <2>4, <2>5, <2>6, <2>7, SealStep
<1>. QED
  BY <1>4, <1>5

LEMMA ReportsEndStep == ASSUME Inv, NEW e \in Executions, ReportsEnd(e) PROVE Inv'
<1>1. /\ up /\ monitor[e] \in {"reading", "leader"} /\ Fault
      /\ monitor' = [monitor EXCEPT ![e] = "broken"]
      /\ UNCHANGED <<up, closing, host, durable, mem, pend, index, call, handle, stop, child, told, forks>>
  BY DEF ReportsEnd
<1>2. /\ TypeOK /\ mem[e] \in Record /\ e \in handle /\ mem[e].output = "open" /\ call[e].pc = "idle"
      /\ \/ mem[e].phase \in {"spawned", "exited", "unknown"} /\ mem[e].phase \in Holding
            /\ mem[e].phase \notin Quiescent
         \/ mem[e].phase = "drained" /\ mem[e].phase \in Quiescent
  BY <1>1, Monitored
<1>3. faults' \in 0 .. MaxFaults
  BY <1>1, <1>2, ExecutorAssumption DEF Fault, TypeOK
<1>4. RecordOnly(e) /\ Typed /\ monitor'[e] = "broken" /\ disk' = disk
  BY <1>1, <1>2, <1>3 DEF RecordOnly, Typed, TypeOK, index, durable
<1>5. CASE mem[e].phase \in Quiescent
  BY <1>1, <1>2, <1>4, <1>5, SettledStep
<1>6. CASE mem[e].phase \notin Quiescent
  <2>1. CallOK(e)' /\ MonitorOK(e)' /\ call'[e].pc # "cas"
    BY <1>1, <1>2, <1>4, <1>6 DEF CallOK, MonitorOK
  <2>. QED  BY <1>1, <1>2, <1>4, <1>6, <2>1, AdvanceStep
<1>. QED
  BY <1>5, <1>6

LEMMA ReportLostStep == ASSUME Inv, NEW e \in Executions, ReportLost(e) PROVE Inv'
<1> DEFINE r == At(e, "unknown")
<1>1. /\ up /\ monitor[e] = "broken" /\ monitor' = [monitor EXCEPT ![e] = "none"]
      /\ \/ mem[e].phase \notin Quiescent /\ (Persist(e, r) \/ PersistFails(e, r))
         \/ mem[e].phase \in Quiescent /\ UNCHANGED <<disk, mem, pend, faults>>
      /\ UNCHANGED <<up, closing, host, grave, legacy, index, call, handle, stop, child, told, forks>>
  BY DEF ReportLost, Gate
<1>2. /\ TypeOK /\ mem[e] \in Record /\ e \in handle /\ mem[e].output = "open" /\ call[e].pc = "idle"
      /\ \/ mem[e].phase \in {"spawned", "exited", "unknown"} /\ mem[e].phase \in Holding
            /\ mem[e].phase \notin Quiescent
         \/ mem[e].phase = "drained" /\ mem[e].phase \in Quiescent
  BY <1>1, Monitored
<1>3. CASE mem[e].phase \in Quiescent
  <2>1. RecordOnly(e) /\ Typed /\ monitor'[e] = "none" /\ UNCHANGED <<disk, mem, pend>>
    BY <1>1, <1>2, <1>3 DEF RecordOnly, Typed, TypeOK, index
  <2>. QED  BY <1>1, <1>2, <1>3, <2>1, SettledStep
<1>4. CASE mem[e].phase \notin Quiescent
  <2>1. r \in Record /\ r.version = mem[e].version /\ r.phase = "unknown"
    BY <1>2, AtIs DEF Phases
  <2> HIDE DEF r
  <2>2. Wrote(e, r) /\ disk'[e] \in {disk[e], Settled(r)} /\ mem'[e] \in {mem[e], Settled(r)}
    BY <1>1, <1>2, <1>4, <2>1, PersistWrote, FailWrote DEF Wrote
  <2>3. RecordOnly(e) /\ Typed /\ monitor'[e] = "none"
    BY <1>1, <1>2, <2>2 DEF Wrote, RecordOnly, Typed, TypeOK, index
  <2>4. Settled(r).phase = "unknown" /\ Settled(r).version = mem[e].version /\ "unknown" \in Holding
    BY <2>1, SettledIs DEF Holding, Past
  <2>5. CallOK(e)' /\ MonitorOK(e)' /\ call'[e].pc # "cas"
    BY <1>1, <1>2, <2>3 DEF CallOK, MonitorOK
  <2>. QED
    BY <1>1, <1>2, <1>4, <2>2, <2>3, <2>4, <2>5, AdvanceStep
<1>. QED
  BY <1>3, <1>4

-----------------------------------------------------------------------------
(* launch.                                                                 *)

\* A launch that moves before its reservation.
LEMMA CallStep ==
  ASSUME Inv, up, NEW e \in Executions, mem[e].phase \in {"prepared", "reserved"},
         NEW c \in [pc : {"idle", "cas"}, settled : BOOLEAN], call' = [call EXCEPT ![e] = c],
         c.pc = "cas" /\ c.settled => claim[e].previous \in Executions /\ Over(claim[e].previous),
         UNCHANGED <<up, closing, host, disk, grave, legacy, mem, pend, retired, slot, claim, holder,
                     handle, monitor, stop, child, told, forks, faults>>
  PROVE  Inv'
<1>1. /\ FilesOK(e) /\ GoneOK(e) /\ RecordOK(e) /\ MonitorOK(e) /\ TypeOK
  BY Has
<1>2. TypeOK'
  BY <1>1 DEF TypeOK
<1>3. call'[e] = c /\ \A f \in Executions : f # e => Same(f)
  BY <1>1 DEF TypeOK, Same
<1>4. Local(e)'
  <2>1. FilesOK(e)' /\ RecordOK(e)'
    BY <1>1 DEF FilesOK, RecordOK, Buried, Kept
  <2>2. GoneOK(e)'
    BY <1>1, RecordTypes DEF GoneOK
  <2>3. CallOK(e)' /\ MonitorOK(e)'
    BY <1>1, <1>3 DEF CallOK, MonitorOK
  <2>. QED  BY <2>1, <2>2, <2>3 DEF Local
<1>5. \A f \in Executions : Local(f)'
  BY <1>3, <1>4, SameLocal DEF Inv
<1>6. SlotOK' /\ HostOK'
  BY DEF Inv, SlotOK, HostOK, Holds, Version, Kept
<1>7. CasOK'
  BY <1>3 DEF Inv, CasOK, Over, Same
<1>. QED
  BY <1>2, <1>5, <1>6, <1>7, TicketsKept, ForksKept DEF Inv

LEMMA LaunchResolveStep == ASSUME Inv, NEW e \in Executions, LaunchResolve(e) PROVE Inv'
<1> DEFINE c == [pc |-> "cas",
                 settled |-> claim[e].previous # None /\ DurablySettled(claim[e].previous)]
<1>1. /\ up /\ call[e].pc = "idle" /\ mem[e].phase \in {"prepared", "reserved"}
      /\ NoChild(e) \/ (call' = [call EXCEPT ![e] = c] /\ UNCHANGED <<mem, pend>>)
      /\ UNCHANGED <<up, closing, host, grave, legacy, retired, claim, holder, disk, slot, process, told,
                     forks, faults>>
  BY DEF LaunchResolve, LaunchOnly, Gate
<1>2. TypeOK /\ RecordOK(e) /\ MonitorOK(e) /\ claim[e] # NoRequest
  BY <1>1, Has DEF RecordOK
<1>3. CASE NoChild(e)
  <2> DEFINE r == At(e, "nochild")
  <2>1. r \in Record /\ r.version = mem[e].version /\ r.phase = "nochild"
    BY <1>2, AtIs DEF Phases, Quiescent
  <2>2. Latch(e, r) /\ Goto(e, "settle")
    BY <1>3 DEF NoChild
  <2> HIDE DEF r
  <2>3. RecordOnly(e) /\ Typed /\ mem'[e] = Settled(r) /\ e \in pend' /\ call'[e].pc = "settle"
    BY <1>1, <1>2, <2>1, <2>2, LatchIs, Goes DEF RecordOnly, Typed, TypeOK, process
  <2>4. Settled(r).phase = "nochild" /\ Settled(r).version = mem[e].version
    BY <2>1, SettledIs
  <2>5. "nochild" \in Quiescent /\ "nochild" \notin WithReceipt /\ mem[e].phase \in Holding \cup {"prepared"}
    BY <1>1 DEF Quiescent, WithReceipt, Holding
  <2>6. child[e] \notin Running /\ monitor[e] = "none"
    BY <1>1, <1>2 DEF RecordOK, Running, MonitorOK
  <2>7. CallOK(e)' /\ MonitorOK(e)'
    BY <1>1, <2>3, <2>4, <2>6 DEF CallOK, MonitorOK, process
  <2>. QED
    BY <1>1, <2>3, <2>4, <2>5, <2>6, <2>7, SealStep DEF process
<1>4. CASE call' = [call EXCEPT ![e] = c] /\ UNCHANGED <<mem, pend>>
  <2>1. c \in [pc : {"idle", "cas"}, settled : BOOLEAN] /\ c.pc = "cas"
    BY DEF DurablySettled
  <2>2. c.settled => claim[e].previous \in Executions /\ Over(claim[e].previous)
    <3>1. SUFFICES ASSUME claim[e].previous # None, DurablySettled(claim[e].previous)
                   PROVE  claim[e].previous \in Executions /\ Over(claim[e].previous)
      OBVIOUS
    <3>2. claim[e].previous \in Executions
      BY <1>2, <3>1, ClaimIs
    <3>3. RecordOK(claim[e].previous)
      BY <1>1, <3>2, Has
    <3>. QED  BY <3>1, <3>2, <3>3 DEF DurablySettled, RecordOK, Over
  <2> HIDE DEF c
  <2>. QED  BY <1>1, <1>4, <2>1, <2>2, CallStep DEF process
<1>. QED
  BY <1>1, <1>3, <1>4

\* The reservation and the fork barrier are written down, or the launch ends.
LEMMA BarrierStep ==
  ASSUME Inv, up, NEW e \in Executions, NEW r \in Record, NEW nx \in {"fork", "spawn"}, call[e].pc \in {"reserve", "fork"},
         r.version = mem[e].version, r.output = mem[e].output,
         (nx = "fork" /\ r.phase = "reserved") \/ (nx = "spawn" /\ r.phase = "forking"),
         (Persist(e, r) /\ Goto(e, nx)) \/ (PersistFails(e, r) /\ Goto(e, "idle")),
         UNCHANGED <<up, closing, host, grave, legacy, retired, claim, holder, slot, process, told, forks>>
  PROVE  Inv'
<1>1. UNCHANGED <<handle, monitor, child, stop>>
  BY DEF process
<1>2. TypeOK /\ mem[e] \in Record /\ RecordOK(e) /\ MonitorOK(e) /\ mem[e].phase = "reserved"
  BY <1>1, Has DEF CallOK
<1>3. r.phase \in {"reserved", "forking"} /\ (nx = "spawn" => r.phase = "forking")
      /\ (nx = "fork" => r.phase = "reserved")
  OBVIOUS
<1>4. /\ Settled(r).phase = r.phase /\ Settled(r).version = mem[e].version /\ Settled(r).output = mem[e].output
      /\ mem[e].output = "open" /\ child[e] = "none" /\ monitor[e] = "none"
  BY <1>2, <1>3, SettledIs DEF RecordOK, MonitorOK
<1>5. /\ Wrote(e, r) /\ disk'[e] \in {disk[e], Settled(r)} /\ mem'[e] \in {mem[e], Settled(r)}
      /\ \/ mem'[e] = Settled(r) /\ disk'[e] = Settled(r) /\ Goto(e, nx)
         \/ Goto(e, "idle")
  BY <1>1, <1>2, <1>3, PersistWrote, FailWrote DEF Wrote
<1>6. /\ RecordOnly(e) /\ Typed
      /\ (call'[e].pc = nx /\ mem'[e] = Settled(r) /\ disk'[e] = Settled(r)) \/ call'[e].pc = "idle"
  BY <1>1, <1>2, <1>5, Goes DEF Wrote, RecordOnly, Typed, TypeOK, process
<1>7. CallOK(e)' /\ MonitorOK(e)' /\ call'[e].pc # "cas"
  BY <1>1, <1>3, <1>4, <1>6 DEF CallOK, MonitorOK, process
<1>8. mem[e].phase \in Holding /\ r.phase \in Holding
  BY <1>2, <1>3 DEF Holding, Past
<1>. QED
  BY <1>1, <1>2, <1>3, <1>4, <1>5, <1>6, <1>7, <1>8, AdvanceStep DEF process

LEMMA LaunchBarriers == ASSUME Inv, NEW e \in Executions, LaunchReserve(e) \/ LaunchFork(e) PROVE Inv'
<1>1. up /\ call[e].pc \in {"reserve", "fork"}
      /\ UNCHANGED <<up, closing, host, grave, legacy, retired, claim, holder, slot, process, told, forks>>
  BY DEF LaunchReserve, LaunchFork, LaunchOnly
<1>2. TypeOK /\ mem[e] \in Record /\ mem[e].phase = "reserved"
  BY <1>1, Has DEF CallOK
<1>3. CASE (Persist(e, mem[e]) /\ Goto(e, "fork")) \/ (PersistFails(e, mem[e]) /\ Goto(e, "idle"))
  <2>1. PICK r \in Record : r = mem[e]
    BY <1>2
  <2>2. (Persist(e, r) /\ Goto(e, "fork")) \/ (PersistFails(e, r) /\ Goto(e, "idle"))
    BY <1>3, <2>1
  <2>3. r.version = mem[e].version /\ r.output = mem[e].output /\ r.phase = "reserved"
    BY <1>2, <2>1
  <2>. QED  BY <1>1, <2>2, <2>3, BarrierStep
<1>4. CASE LaunchFork(e)
  <2>1. /\ At(e, "forking") \in Record /\ At(e, "forking").phase = "forking"
        /\ At(e, "forking").version = mem[e].version /\ At(e, "forking").output = mem[e].output
    BY <1>2, AtIs DEF Phases
  <2>. QED  BY <1>1, <1>4, <2>1, BarrierStep DEF LaunchFork
<1>. QED
  BY <1>3, <1>4 DEF LaunchReserve

LEMMA LaunchSpawnedStep == ASSUME Inv, NEW e \in Executions, LaunchSpawned(e) PROVE Inv'
<1> DEFINE r == At(e, "spawned")
           u == At(e, "unknown")
<1>1. /\ up /\ call[e].pc = "spawned" /\ Goto(e, "idle") /\ monitor' = [monitor EXCEPT ![e] = "reading"]
      /\ Persist(e, r) \/ (WriteFails(e, r) /\ Latch(e, u))
      /\ UNCHANGED <<up, closing, host, grave, legacy, retired, claim, holder, slot, handle, stop, child,
                     told, forks>>
  BY DEF LaunchSpawned, LaunchOnly
<1>2. TypeOK /\ mem[e].phase = "forking" /\ mem[e].output = "open" /\ e \in handle
  BY <1>1, Has DEF CallOK
<1>3. /\ r \in Record /\ r.version = mem[e].version /\ r.output = "open" /\ r.phase = "spawned"
      /\ u \in Record /\ u.version = mem[e].version /\ u.output = "open" /\ u.phase = "unknown"
  BY <1>2, AtIs DEF Phases
<1> HIDE DEF r, u
<1>4. /\ Settled(r).phase = "spawned" /\ Settled(r).version = mem[e].version /\ Settled(r).output = "open"
      /\ Settled(u).phase = "unknown" /\ Settled(u).version = mem[e].version /\ Settled(u).output = "open"
  BY <1>3, SettledIs
<1>5. CASE Persist(e, r)
  <2>1. Wrote(e, r) /\ mem'[e] = Settled(r) /\ disk'[e] = Settled(r)
    BY <1>2, <1>3, <1>5, PersistWrote
  <2>2. RecordOnly(e) /\ Typed /\ monitor'[e] = "reading" /\ call'[e].pc = "idle"
    BY <1>1, <1>2, <2>1, Goes DEF Wrote, RecordOnly, Typed, TypeOK
  <2>3. CallOK(e)' /\ MonitorOK(e)'
    BY <1>1, <1>2, <1>4, <2>1, <2>2 DEF CallOK, MonitorOK
  <2>. QED
    BY <1>1, <1>2, <1>4, <2>1, <2>2, <2>3, AdvanceStep DEF Holding, Past
<1>6. CASE WriteFails(e, r) /\ Latch(e, u)
  <2>1. /\ disk' \in [Executions -> Record] /\ faults' \in 0 .. MaxFaults
        /\ disk'[e] \in {disk[e], Settled(r)} /\ \A f \in Executions : f # e => disk'[f] = disk[f]
    BY <1>2, <1>3, <1>6, LatchWrote
  <2>2. RecordOnly(e) /\ Typed /\ monitor'[e] = "reading" /\ call'[e].pc = "idle" /\ mem'[e] = Settled(u)
    BY <1>1, <1>2, <1>3, <1>6, <2>1, Goes, LatchIs DEF RecordOnly, Typed, TypeOK
  <2>3. CallOK(e)' /\ MonitorOK(e)'
    BY <1>1, <1>2, <1>4, <2>1, <2>2 DEF CallOK, MonitorOK
  <2>. QED
    BY <1>1, <1>2, <1>4, <2>1, <2>2, <2>3, AdvanceStep DEF Holding, Past
<1>. QED
  BY <1>1, <1>5, <1>6

\* A ticket whose execution stands before the fork has paid for none.
LEMMA Unpaid ==
  ASSUME Inv, NEW e \in Executions, claim[e] # NoRequest, child[e] = "none"
  PROVE  forks[claim[e].ticket] = 0
<1>1. claim[e].ticket \in Tickets /\ claim[e].ticket # None
  BY ClaimIs, ExecutorAssumption DEF Inv
<1>2. forks[claim[e].ticket] \in Nat /\ forks[claim[e].ticket] <= 1
  BY <1>1, SMTT(30) DEF Inv, ForksOK, TypeOK
<1>3. ASSUME NEW x \in Executions, PaidBy(claim[e].ticket, x) PROVE FALSE
  <2>1. x # e
    BY <1>3 DEF PaidBy
  <2>2. claim[x] = NoRequest
    BY <1>3, <2>1 DEF PaidBy, Inv, TicketsOK
  <2>3. grave[x].ticket = claim[e].ticket
    BY <1>3, <2>2 DEF PaidBy
  <2>4. Buried(x)
    BY <1>1, <2>3, RecordTypes DEF Buried
  <2>. QED  BY <2>1, <2>3, <2>4 DEF Inv, TicketsOK
<1>. QED
  BY <1>1, <1>2, <1>3 DEF Inv, ForksOK

\* The fork.
LEMMA ForkStep ==
  ASSUME Inv, up, NEW e \in Executions, call[e].pc = "spawn", child' = [child EXCEPT ![e] = "live"],
         Forked(e), Typed, mem'[e].phase \in Past, mem'[e].version = mem[e].version,
         disk'[e].phase \in Past, disk'[e].version \in {disk[e].version, mem[e].version},
         UNCHANGED <<up, closing, host, grave, legacy, retired, claim, holder, slot, monitor, stop, told>>,
         \A f \in Executions : f # e =>
           /\ disk'[f] = disk[f] /\ mem'[f] = mem[f] /\ call'[f] = call[f]
           /\ (f \in pend' <=> f \in pend) /\ (f \in handle' <=> f \in handle),
         CallOK(e)', call'[e].pc # "cas"
  PROVE  Inv'
<1>1. /\ FilesOK(e) /\ GoneOK(e) /\ RecordOK(e) /\ CallOK(e) /\ MonitorOK(e) /\ TypeOK
  BY Has
<1>2. mem[e].phase = "forking" /\ disk[e].phase = "forking" /\ child[e] = "none" /\ mem[e].phase \in Holding
  BY <1>1 DEF CallOK, Holding, Past
<1>3. /\ e \notin retired /\ ~Buried(e) /\ told[e] = "none" /\ ~Over(e) /\ claim[e] # NoRequest
      /\ mem[e].version # 0 /\ disk[e].version # 0 /\ monitor[e] = "none"
  BY <1>1, <1>2, Unsettled DEF RecordOK, FilesOK, Holding, Past, MonitorOK
<1>4. child'[e] = "live" /\ child'[e] \in Running /\ \A f \in Executions : f # e => Same(f)
  BY <1>1 DEF TypeOK, Same, Running
<1>5. claim[e].ticket \in Tickets /\ forks[claim[e].ticket] = 0
  BY <1>1, <1>2, <1>3, ClaimIs, Unpaid
<1>6. /\ forks' \in [Tickets -> 0 .. 2] /\ forks'[claim[e].ticket] = 1
      /\ \A t \in Tickets : t # claim[e].ticket => forks'[t] = forks[t]
  BY <1>1, <1>5 DEF Forked, TypeOK
<1>7. TypeOK'
  BY <1>1, <1>6 DEF TypeOK, Typed
<1>8. ForksOK'
  <2> SUFFICES ASSUME NEW t \in Tickets
               PROVE  forks'[t] <= 1 /\ (forks'[t] = 1 => \E x \in Executions : PaidBy(t, x)')
    BY DEF ForksOK
  <2>1. CASE t = claim[e].ticket
    BY <1>3, <1>4, <1>6, <2>1 DEF PaidBy
  <2>2. CASE t # claim[e].ticket
    <3>1. forks[t] <= 1 /\ (forks[t] = 1 => \E x \in Executions : PaidBy(t, x))
      BY DEF Inv, ForksOK
    <3>2. \A x \in Executions : PaidBy(t, x) => PaidBy(t, x)'
      BY <1>2, <1>4 DEF PaidBy, Same
    <3>. QED  BY <1>6, <2>2, <3>1, <3>2
  <2>. QED  BY <2>1, <2>2
<1>9. Local(e)'
  <2>1. mem'[e].phase \notin Quiescent \cup {"absent", "prepared", "reserved"} /\ disk'[e].phase # "absent"
    BY DEF Past, Quiescent
  <2>2. FilesOK(e)'
    <3>1. disk'[e].version # 0
      BY <1>3
    <3>. QED  BY <1>3, <2>1, <3>1 DEF FilesOK, Buried, Quiescent
  <2>3. GoneOK(e)'
    BY <1>3, <2>1 DEF GoneOK
  <2>4. RecordOK(e)'
    BY <1>1, <1>2, <1>3, <2>1 DEF RecordOK, Buried, Kept
  <2>5. MonitorOK(e)'
    BY <1>3 DEF MonitorOK
  <2>. QED  BY <2>2, <2>3, <2>4, <2>5 DEF Local
<1>10. Holds(e) /\ Kept(e)' \in {0, Kept(e), mem[e].version}
  BY <1>2 DEF Holds, Kept
<1>11. TicketsOK'
  BY TicketsKept
<1>. QED
  BY <1>3, <1>4, <1>7, <1>8, <1>9, <1>10, <1>11, UpStep

LEMMA LaunchSpawnStep == ASSUME Inv, NEW e \in Executions, LaunchSpawn(e) PROVE Inv'
<1> DEFINE n == At(e, "nochild")
           r == At(e, "unsure")
<1>1. /\ up /\ call[e].pc = "spawn"
      /\ UNCHANGED <<up, closing, host, grave, legacy, retired, claim, holder, slot, monitor, stop, told>>
  BY DEF LaunchSpawn, LaunchOnly
<1>2. /\ TypeOK /\ CallOK(e) /\ MonitorOK(e) /\ mem[e].phase = "forking" /\ disk[e].phase = "forking"
      /\ mem[e].output = "open" /\ child[e] = "none" /\ monitor[e] = "none"
  BY <1>1, Has DEF CallOK, MonitorOK
<1>3. /\ n \in Record /\ n.version = mem[e].version /\ n.phase = "nochild"
      /\ r \in Record /\ r.version = mem[e].version /\ r.phase = "unsure"
  BY <1>2, AtIs DEF Phases, Quiescent
<1>4. child[e] \notin Running /\ mem[e].phase \in Holding \cup {"prepared"} /\ mem[e].phase \in Holding
      /\ mem[e].phase \in Past
  BY <1>2 DEF Running, Holding, Past
<1>5. \/ NoChild(e) /\ UNCHANGED <<disk, handle, child, forks, faults>>
      \/ /\ child' = child /\ UNCHANGED forks /\ Goto(e, "idle") /\ UNCHANGED handle
         /\ Persist(e, r) \/ PersistFails(e, r)
      \/ /\ child' = [child EXCEPT ![e] = "live"] /\ Forked(e) /\ Goto(e, "idle") /\ UNCHANGED handle
         /\ Persist(e, r) \/ PersistFails(e, r)
      \/ /\ child' = [child EXCEPT ![e] = "live"] /\ Forked(e) /\ handle' = handle \cup {e}
         /\ Goto(e, "spawned") /\ UNCHANGED <<disk, mem, pend, faults>>
  BY DEF LaunchSpawn
<1>6. CASE NoChild(e) /\ UNCHANGED <<disk, handle, child, forks, faults>>
  <2>1. Latch(e, n) /\ Goto(e, "settle")
    BY <1>6 DEF NoChild
  <2> HIDE DEF n
  <2>2. RecordOnly(e) /\ Typed /\ mem'[e] = Settled(n) /\ e \in pend' /\ call'[e].pc = "settle"
    BY <1>1, <1>2, <1>3, <1>6, <2>1, LatchIs, Goes DEF RecordOnly, Typed, TypeOK
  <2>3. Settled(n).phase = "nochild" /\ Settled(n).version = mem[e].version
    BY <1>3, SettledIs
  <2>4. "nochild" \in Quiescent /\ "nochild" \notin WithReceipt
    BY DEF Quiescent, WithReceipt
  <2>5. CallOK(e)' /\ MonitorOK(e)'
    BY <1>1, <1>2, <2>2, <2>3 DEF CallOK, MonitorOK
  <2>. QED
    BY <1>1, <1>4, <1>6, <2>2, <2>3, <2>4, <2>5, SealStep
<1> HIDE DEF n, r
<1>7. ASSUME Persist(e, r) \/ PersistFails(e, r)
      PROVE  /\ Wrote(e, r) /\ mem'[e].phase \in Past /\ mem'[e].version = mem[e].version
             /\ \/ disk'[e].phase = disk[e].phase /\ disk'[e].version = disk[e].version
                \/ disk'[e].phase = "unsure" /\ disk'[e].version = mem[e].version
  <2>1. Wrote(e, r)
    BY <1>2, <1>3, <1>7, PersistWrote, FailWrote
  <2>2. Settled(r).phase = "unsure" /\ Settled(r).version = mem[e].version
    BY <1>3, SettledIs
  <2>. QED  BY <1>4, <2>1, <2>2 DEF Wrote, Past
<1>8. CASE /\ child' = child /\ UNCHANGED forks /\ Goto(e, "idle") /\ UNCHANGED handle
           /\ Persist(e, r) \/ PersistFails(e, r)
  <2>1. RecordOnly(e) /\ Typed /\ call'[e].pc = "idle"
    BY <1>1, <1>2, <1>7, <1>8, Goes DEF Wrote, RecordOnly, Typed, TypeOK
  <2>2. CallOK(e)' /\ MonitorOK(e)'
    BY <1>1, <1>2, <2>1 DEF CallOK, MonitorOK
  <2>. QED
    BY <1>1, <1>2, <1>4, <1>7, <1>8, <2>1, <2>2, AdvanceStep DEF Holding, Past
<1>9. CASE /\ child' = [child EXCEPT ![e] = "live"] /\ Forked(e) /\ Goto(e, "idle") /\ UNCHANGED handle
           /\ Persist(e, r) \/ PersistFails(e, r)
  <2>1. Typed /\ call'[e].pc = "idle" /\ \A f \in Executions : f # e => call'[f] = call[f]
    BY <1>1, <1>2, <1>7, <1>9, Goes DEF Wrote, Typed, TypeOK
  <2>2. CallOK(e)'
    BY <2>1 DEF CallOK
  <2>3. disk'[e].phase \in Past /\ disk'[e].version \in {disk[e].version, mem[e].version}
    BY <1>2, <1>7, <1>9 DEF Past
  <2>. QED
    BY <1>1, <1>7, <1>9, <2>1, <2>2, <2>3, ForkStep DEF Wrote
<1>10. CASE /\ child' = [child EXCEPT ![e] = "live"] /\ Forked(e) /\ handle' = handle \cup {e}
            /\ Goto(e, "spawned") /\ UNCHANGED <<disk, mem, pend, faults>>
  <2>1. Typed /\ call'[e].pc = "spawned" /\ \A f \in Executions : f # e => call'[f] = call[f]
    BY <1>1, <1>2, <1>10, Goes DEF Typed, TypeOK
  <2>2. CallOK(e)'
    BY <1>2, <1>10, <2>1 DEF CallOK
  <2>. QED
    BY <1>1, <1>2, <1>4, <1>10, <2>1, <2>2, ForkStep
<1>. QED
  BY <1>5, <1>6, <1>8, <1>9, <1>10

\* What the CAS on the alias slot may find.
LEMMA CasMeans ==
  ASSUME Inv, up, NEW e \in Executions, call[e].pc = "cas", CasVersion(e) # 0
  PROVE  /\ CasVersion(e) \in Nat
         /\ \/ slot.owner = None /\ CasVersion(e) = 1 /\ mem[e].phase = "prepared"
            \/ slot.owner = e /\ mem[e].phase = "reserved" /\ mem[e].version = slot.version
               /\ CasVersion(e) = slot.version
            \/ slot.owner \in Executions /\ slot.owner # e /\ Over(slot.owner)
               /\ CasVersion(e) = slot.version + 1 /\ mem[e].phase = "prepared"
<1>1. /\ TypeOK /\ mem[e].phase \in {"prepared", "reserved"} /\ SlotOK /\ ~Over(e)
  BY Has, Unsettled DEF CallOK, Holding, Inv
<1>2. slot.version \in Nat
  BY <1>1, ExecutorAssumption DEF TypeOK
<1>3. mem[e].phase = "reserved" => slot.owner = e
  BY <1>1 DEF SlotOK, Holds, Holding
<1>4. slot.owner # e => mem[e].phase = "prepared"
  BY <1>1, <1>3
<1>5. None # e
  BY ExecutorAssumption
<1>6. \/ slot.owner = None /\ CasVersion(e) = 1
      \/ slot.owner = e /\ mem[e].phase = "reserved" /\ mem[e].version = slot.version
         /\ CasVersion(e) = slot.version
      \/ slot.owner # None /\ slot.owner = claim[e].previous /\ call[e].settled /\ CasVersion(e) = slot.version + 1
  BY DEF CasVersion
<1>7. CASE slot.owner # None /\ slot.owner = claim[e].previous /\ call[e].settled /\ CasVersion(e) = slot.version + 1
  <2>1. slot.owner \in Executions /\ Over(slot.owner)
    BY <1>7 DEF Inv, CasOK
  <2>. QED  BY <1>1, <1>2, <1>4, <1>7, <2>1
<1>. QED
  BY <1>2, <1>4, <1>5, <1>6, <1>7

\* Slot versions, wherever they are kept.
LEMMA VersionsAreNat ==
  ASSUME TypeOK, NEW f \in Executions
  PROVE  /\ mem[f].version \in 0 .. MaxVersion /\ Kept(f) \in 0 .. MaxVersion
         /\ disk[f].version \in 0 .. MaxVersion
         /\ Version(f) \subseteq Nat /\ \A v \in Version(f) : v \in Nat
<1>1. 0 \in 0 .. MaxVersion /\ 0 .. MaxVersion \subseteq Nat
  BY ExecutorAssumption
<1>2. mem[f].version \in 0 .. MaxVersion /\ disk[f].version \in 0 .. MaxVersion
  BY DEF TypeOK, Record
<1>3. grave[f].version \in 0 .. MaxVersion
  BY <1>1, RecordTypes DEF TypeOK, Tombstones
<1>. QED
  BY <1>1, <1>2, <1>3 DEF Version, Kept

\* The slot is taken by a reservation latched in memory.
LEMMA TakeStep ==
  ASSUME Inv, up, NEW e \in Executions, call[e].pc = "cas", CasVersion(e) # 0, CasVersion(e) <= MaxVersion,
         slot' = [owner |-> e, version |-> CasVersion(e)], Goto(e, "reserve"),
         Latch(e, [At(e, "reserved") EXCEPT !.version = CasVersion(e)]),
         UNCHANGED <<up, closing, host, disk, grave, legacy, retired, claim, holder, process, told, forks, faults>>
  PROVE  Inv'
<1> DEFINE v == CasVersion(e)
           r == [At(e, "reserved") EXCEPT !.version = v]
<1>1. /\ FilesOK(e) /\ GoneOK(e) /\ RecordOK(e) /\ CallOK(e) /\ MonitorOK(e) /\ TypeOK /\ SlotOK
      /\ mem[e].phase \in {"prepared", "reserved"}
  BY Has DEF Inv, CallOK
<1>2. /\ v \in Nat
      /\ \/ slot.owner = None /\ v = 1 /\ mem[e].phase = "prepared"
         \/ slot.owner = e /\ mem[e].phase = "reserved" /\ mem[e].version = slot.version /\ v = slot.version
         \/ slot.owner \in Executions /\ slot.owner # e /\ Over(slot.owner) /\ v = slot.version + 1
            /\ mem[e].phase = "prepared"
  BY CasMeans
<1>3. r \in Record /\ r.phase = "reserved" /\ r.version = v /\ r.output = mem[e].output
  <2>1. At(e, "reserved") \in Record /\ At(e, "reserved").phase = "reserved"
        /\ At(e, "reserved").output = mem[e].output
    BY <1>1, AtIs DEF Phases
  <2>2. v \in 0 .. MaxVersion
    BY <1>2, ExecutorAssumption
  <2>. QED  BY <2>1, <2>2 DEF Record
<1>4. Latch(e, r)
  OBVIOUS
<1>. HIDE DEF r
<1>5. /\ Settled(r).phase = "reserved" /\ Settled(r).version = v /\ Settled(r).output = "open"
  BY <1>1, <1>3, SettledIs DEF RecordOK
<1>6. /\ mem'[e] = Settled(r) /\ e \in pend' /\ call'[e].pc = "reserve"
      /\ UNCHANGED <<handle, monitor, child, stop>> /\ \A f \in Executions : f # e => Same(f)
  BY <1>1, <1>3, <1>4, LatchIs, Goes DEF Same, process
<1>7. TypeOK'
  <2>1. slot' \in [owner : Executions \cup {None, Legacy}, version : 0 .. MaxVersion]
    BY <1>2, ExecutorAssumption
  <2>. QED  BY <1>1, <1>3, <1>4, <1>6, <2>1, LatchIs, Goes DEF TypeOK
<1>8. /\ e \notin retired /\ ~Buried(e) /\ told[e] = "none" /\ ~Over(e) /\ claim[e] # NoRequest
      /\ child[e] = "none" /\ monitor[e] = "none"
  BY <1>1, Unsettled DEF RecordOK, MonitorOK, Holding
<1>9. disk[e].version \in {0, v} /\ Kept(e) = disk[e].version /\ Kept(e)' = Kept(e)
      /\ (v # slot.version => disk[e].version = 0)
  <2>1. disk[e].version \in {0, mem[e].version} /\ (mem[e].phase = "prepared" => mem[e].version = 0)
    BY <1>1 DEF RecordOK
  <2>2. Kept(e) = disk[e].version /\ Kept(e)' = Kept(e)
    BY <1>8 DEF Kept, Buried
  <2>. QED  BY <1>2, <2>1, <2>2
<1>10. Local(e)'
  <2>1. FilesOK(e)'
    BY <1>1, <1>6, <1>8 DEF FilesOK, Buried, Running
  <2>2. GoneOK(e)'
    BY <1>5, <1>6, <1>8 DEF GoneOK
  <2>3. RecordOK(e)'
    <3>1. disk[e].phase # "absent"
      BY <1>1 DEF RecordOK
    <3>. QED  BY <1>5, <1>6, <1>8, <1>9, <3>1 DEF RecordOK, Buried, Quiescent
  <2>4. CallOK(e)' /\ MonitorOK(e)'
    BY <1>5, <1>6, <1>8 DEF CallOK, MonitorOK
  <2>. QED  BY <2>1, <2>2, <2>3, <2>4 DEF Local
<1>11. \A f \in Executions : Local(f)'
  BY <1>6, <1>10, SameLocal DEF Inv
<1>12. SlotOK'
  <2>0. slot.version \in Nat /\ None \notin Executions /\ Legacy \notin Executions /\ None # Legacy
        /\ slot'.owner = e /\ slot'.version = v
    BY <1>1, ExecutorAssumption DEF TypeOK
  <2>1. ASSUME NEW f \in Executions, f # e PROVE ~Holds(f)'
    <3>1. CASE slot.owner = f
      <4>1. Over(f) /\ GoneOK(f) /\ FilesOK(f)
        BY <1>2, <2>0, <2>1, <3>1, Has
      <4>2. CASE f \in retired
        BY <4>1, <4>2, <1>6, <2>1, RecordTypes DEF GoneOK, FilesOK, Holds, Same, Holding, Past
      <4>3. CASE mem[f].phase \in Quiescent /\ disk[f].phase = mem[f].phase
        BY <4>3, <1>6, <2>1 DEF Holds, Same, Holding, Past, Quiescent
      <4>. QED  BY <4>1, <4>2, <4>3 DEF Over
    <3>2. CASE slot.owner # f
      BY <1>1, <1>6, <2>1, <3>2 DEF SlotOK, Holds, Same
    <3>. QED  BY <3>1, <3>2
  <2>2. \A f \in Executions : Holds(f)' => slot' = [owner |-> f, version |-> mem'[f].version]
    BY <1>5, <1>6, <2>1
  <2>3. \A f \in Executions : f # e => Version(f)' = Version(f)
    BY <1>6 DEF Version, Kept, Same
  <2>4. Version(e)' = {v, disk[e].version}
    BY <1>5, <1>6, <1>9 DEF Version
  <2>5. \A f \in Executions : \A w \in Version(f) : w \in Nat
    BY <1>1, VersionsAreNat
  <2>6. v # 0
    OBVIOUS
  <2>7. ASSUME NEW f \in Executions, f # e, NEW w \in Version(f) PROVE w <= v /\ (w = v => w = 0)
    <3>1. w \in Nat /\ w <= slot.version /\ (w = slot.version /\ w # 0 => f = slot.owner)
      BY <1>1, <2>5, <2>7 DEF SlotOK
    <3>2. CASE slot.owner = None
      <4>1. slot.version = 0
        BY <1>1, <3>2 DEF SlotOK
      <4>. QED  BY <1>2, <2>0, <3>1, <3>2, <4>1
    <3>3. CASE slot.owner = e
      BY <1>2, <2>0, <2>7, <3>1, <3>3
    <3>4. CASE v = slot.version + 1
      BY <2>0, <3>1, <3>4
    <3>. QED  BY <1>2, <3>2, <3>3, <3>4
  <2>8. \A f \in Executions : \A w \in Version(f)' :
          w <= slot'.version /\ (w = slot'.version /\ w # 0 => f = slot'.owner)
    BY <1>2, <1>9, <2>0, <2>3, <2>4, <2>7
  <2>9. \A f, g \in Executions : f # g => Version(f)' \cap Version(g)' \subseteq {0}
    <3>1. \A f \in Executions : f # e => Version(f)' \cap Version(e)' \subseteq {0}
      BY <1>9, <2>3, <2>4, <2>7
    <3>2. \A f, g \in Executions : f # g => Version(f) \cap Version(g) \subseteq {0}
      BY <1>1 DEF SlotOK
    <3>. QED  BY <2>3, <3>1, <3>2
  <2>10. ~legacy
    <3>1. legacy => slot.owner = Legacy
      BY <1>1 DEF SlotOK
    <3>. QED  BY <1>2, <2>0, <3>1
  <2>11. slot'.owner \in {None, Legacy} <=> slot'.version = 0
    BY <2>0, <2>6
  <2>12. legacy' => slot'.owner = Legacy
    BY <2>10
  <2>. QED  BY <2>2, <2>8, <2>9, <2>11, <2>12 DEF SlotOK
<1>13. CasOK'
  <2>1. \A f \in Executions : Over(f) => Over(f)'
    BY <1>6, <1>8 DEF Over, Same
  <2>. QED  BY <1>6, <2>1 DEF Inv, CasOK, Same
<1>14. HostOK'
  BY DEF Inv, HostOK
<1>15. TicketsOK' /\ ForksOK'
  BY <1>6, TicketsKept, ForksKept
<1>. QED
  BY <1>7, <1>11, <1>12, <1>13, <1>14, <1>15 DEF Inv

LEMMA LaunchCasStep == ASSUME Inv, NEW e \in Executions, LaunchCas(e) PROVE Inv'
<1>1. /\ up /\ call[e].pc = "cas" /\ CasVersion(e) <= MaxVersion
      /\ UNCHANGED <<up, closing, host, disk, grave, legacy, retired, claim, holder, process, told, forks, faults>>
  BY DEF LaunchCas, LaunchOnly
<1>2. CASE CasVersion(e) = 0
  <2>1. Goto(e, "idle") /\ UNCHANGED <<slot, mem, pend, handle, monitor, stop, child>>
    BY <1>2 DEF LaunchCas, process
  <2>2. TypeOK /\ mem[e].phase \in {"prepared", "reserved"}
    BY <1>1, Has DEF CallOK
  <2> DEFINE c == [call[e] EXCEPT !.pc = "idle"]
  <2>3. c \in [pc : {"idle", "cas"}, settled : BOOLEAN] /\ c.pc = "idle" /\ call' = [call EXCEPT ![e] = c]
    BY <2>1, <2>2 DEF TypeOK, Goto
  <2> HIDE DEF c
  <2>. QED  BY <1>1, <2>1, <2>2, <2>3, CallStep
<1>3. CASE CasVersion(e) # 0
  BY <1>1, <1>3, TakeStep DEF LaunchCas
<1>. QED
  BY <1>2, <1>3

-----------------------------------------------------------------------------
(* Steps that leave every record and every journal as it is.               *)

\* Stop and Close.
LEMMA QuietStep ==
  ASSUME Inv, up, UNCHANGED <<up, host, disk, grave, legacy, mem, pend, retired, slot, claim, holder,
                              call, handle, monitor, child, told, forks, faults>>,
         closing' \in BOOLEAN, stop' \in SUBSET Executions
  PROVE  Inv'
<1>1. TypeOK' /\ HostOK'
  BY DEF Inv, TypeOK, HostOK
<1>2. \A f \in Executions : Local(f)'
  BY SameLocal DEF Inv, Same
<1>3. SlotOK' /\ CasOK'
  BY DEF Inv, SlotOK, CasOK, Holds, Version, Kept, Over
<1>. QED
  BY <1>1, <1>2, <1>3, TicketsKept, ForksKept DEF Inv

LEMMA StopStep == ASSUME Inv, NEW e \in Executions, Stop(e) PROVE Inv'
<1>1. up /\ stop' = stop \cup {e} /\ closing' = closing /\ TypeOK
  BY DEF Stop, Gate, Inv
<1>2. closing' \in BOOLEAN /\ stop' \in SUBSET Executions
  BY <1>1 DEF TypeOK
<1>. QED
  BY <1>1, <1>2, QuietStep DEF Stop, durable, index

LEMMA CloseStep == ASSUME Inv, Close PROVE Inv'
<1>1. up /\ stop' = stop /\ closing' = TRUE /\ TypeOK
  BY DEF Close, Inv, process
<1>2. closing' \in BOOLEAN /\ stop' \in SUBSET Executions
  BY <1>1 DEF TypeOK
<1>. QED
  BY <1>1, <1>2, QuietStep DEF Close, durable, index, process

\* A child leaves by itself, or is killed: the journal that says it may run is
\* unsettled and has passed the barrier.
LEMMA ChildStep ==
  ASSUME Inv, NEW e \in Executions, LeaderExits(e) \/ GroupEmpties(e) \/ Kill(e) PROVE Inv'
<1>1. PICK c \in {"left", "gone"} : child' = [child EXCEPT ![e] = c]
  BY DEF LeaderExits, GroupEmpties, Kill
<1>2. /\ child[e] \in Running
      /\ UNCHANGED <<up, closing, host, disk, grave, legacy, mem, pend, retired, slot, claim, holder,
                     call, handle, stop, monitor, told, forks, faults>>
  BY DEF LeaderExits, GroupEmpties, Kill, ChildOnly, durable, index, Running
<1>3. child'[e] = c /\ c # "none" /\ child[e] # "none" /\ TypeOK /\ FilesOK(e)
      /\ \A f \in Executions : f # e => child'[f] = child[f]
  BY <1>1, <1>2 DEF Inv, TypeOK, Local, Running
<1>4. \A f \in Executions : f # e => Same(f)
  BY <1>2, <1>3 DEF Same
<1>5. TypeOK' /\ HostOK'
  BY <1>1, <1>2, <1>3 DEF Inv, TypeOK, HostOK, Running
<1>6. FilesOK(e)'
  BY <1>2, <1>3 DEF FilesOK, Buried
<1>7. CASE ~up
  <2>1. Local(e)'
    BY <1>2, <1>6, <1>7 DEF Inv, Local, DownOK, Buried
  <2>2. \A f \in Executions : Local(f)'
    BY <1>2, <1>4, <2>1, SameLocal DEF Inv
  <2>3. NewestOK'
    BY <1>2, <1>7 DEF Inv, NewestOK, SlotsAgree, Newest, Kept
  <2>. QED  BY <1>2, <1>3, <1>5, <1>7, <2>2, <2>3, TicketsKept, ForksKept DEF Inv
<1>8. CASE up
  <2>1. GoneOK(e) /\ RecordOK(e) /\ CallOK(e) /\ MonitorOK(e)
    BY <1>8, Has
  <2>2. GoneOK(e)' /\ RecordOK(e)'
    BY <1>2, <1>3, <2>1 DEF GoneOK, RecordOK, Buried, Kept
  <2>3. CallOK(e)' /\ MonitorOK(e)'
    BY <1>2, <1>3, <2>1 DEF CallOK, MonitorOK
  <2>4. \A f \in Executions : Local(f)'
    BY <1>2, <1>4, <1>6, <1>8, <2>2, <2>3, SameLocal DEF Inv, Local
  <2>5. SlotOK' /\ CasOK'
    BY <1>2, <1>8 DEF Inv, SlotOK, CasOK, Holds, Version, Kept, Over
  <2>. QED  BY <1>2, <1>3, <1>5, <1>8, <2>4, <2>5, TicketsKept, ForksKept DEF Inv
<1>. QED
  BY <1>7, <1>8

\* A legacy launch takes a slot that no execution ever had.
LEMMA ReserveLegacyStep == ASSUME Inv, ReserveLegacy PROVE Inv'
<1>1. /\ up /\ slot.owner \in {None, Legacy} /\ slot' = [owner |-> Legacy, version |-> 0]
      /\ legacy' \in {legacy, TRUE} /\ (faults' = faults \/ Fault)
      /\ UNCHANGED <<up, closing, host, disk, grave, mem, pend, retired, claim, holder, call, handle, monitor,
                     stop, child, told, forks>>
  BY DEF ReserveLegacy, process
<1>2. TypeOK /\ SlotOK /\ slot.version = 0
  BY <1>1 DEF Inv, SlotOK
<1>3. TypeOK'
  <2>1. faults' \in 0 .. MaxFaults
    BY <1>1, <1>2, ExecutorAssumption DEF TypeOK, Fault
  <2>2. slot' \in [owner : Executions \cup {None, Legacy}, version : 0 .. MaxVersion]
    BY <1>1, ExecutorAssumption
  <2>. QED  BY <1>1, <1>2, <2>1, <2>2 DEF TypeOK
<1>4. \A f \in Executions : Local(f)'
  BY <1>1, SameLocal DEF Inv, Same
<1>5. SlotOK'
  <2>1. \A f \in Executions : ~Holds(f)
    BY <1>1, <1>2, ExecutorAssumption DEF SlotOK
  <2>2. \A f \in Executions : Version(f)' = Version(f) /\ (Holds(f)' <=> Holds(f))
    BY <1>1 DEF Version, Kept, Holds
  <2>3. slot'.version = slot.version /\ slot'.owner = Legacy
    BY <1>1, <1>2
  <2>4. \A f \in Executions : \A v \in Version(f) : v = 0
    BY <1>2, VersionsAreNat DEF SlotOK
  <2>5. \A f, g \in Executions : f # g => Version(f)' \cap Version(g)' \subseteq {0}
    BY <1>2, <2>2 DEF SlotOK
  <2>. QED  BY <1>2, <2>1, <2>2, <2>3, <2>4, <2>5 DEF SlotOK
<1>6. CasOK' /\ HostOK'
  BY <1>1 DEF Inv, CasOK, HostOK, Over
<1>. QED
  BY <1>1, <1>3, <1>4, <1>5, <1>6, TicketsKept, ForksKept DEF Inv

-----------------------------------------------------------------------------
(* Tickets change hands: prepare, the tombstones.                          *)

\* A ticket that nobody else has gets a holder.
LEMMA HolderKept ==
  ASSUME Inv, up, NEW e \in Executions, NEW t \in Tickets, holder[t] \in {None, e},
         holder' = [holder EXCEPT ![t] = e]
  PROVE  /\ holder' \in [Tickets -> Executions \cup {None}] /\ holder'[t] = e
         /\ \A f \in Executions : claim[f] # NoRequest => holder'[claim[f].ticket] = f
         /\ \A f \in Executions : Buried(f) /\ f \notin retired => holder'[grave[f].ticket] = f
<1>1. TypeOK /\ TicketsOK
  BY DEF Inv
<1>2. holder' \in [Tickets -> Executions \cup {None}] /\ holder'[t] = e
      /\ \A u \in Tickets : u # t => holder'[u] = holder[u]
  BY <1>1 DEF TypeOK
<1>3. \A f \in Executions : claim[f] # NoRequest => claim[f].ticket \in Tickets /\ holder[claim[f].ticket] = f
  BY <1>1, ClaimIs DEF TicketsOK
<1>4. \A f \in Executions : Buried(f) /\ f \notin retired =>
        grave[f].ticket \in Tickets /\ holder[grave[f].ticket] = f
  BY <1>1 DEF TicketsOK, TypeOK, Buried, Tombstones
<1>5. \A f \in Executions : holder[t] = f => f = e
  BY ExecutorAssumption
<1>. QED
  BY <1>2, <1>3, <1>4, <1>5

LEMMA PrepareStep ==
  ASSUME Inv, NEW e \in Executions, NEW r \in Requests, Prepare(e, r) PROVE Inv'
<1> DEFINE new == [NoRecord EXCEPT !.phase = "prepared"]
<1>1. /\ up /\ call[e].pc = "idle" /\ e \notin retired /\ ~TicketBuried(r.ticket) /\ ~Buried(e)
      /\ mem[e].phase = "absent" /\ Reserve(e, r)
      /\ Persist(e, new) \/ PersistFails(e, new)
      /\ UNCHANGED <<up, closing, host, grave, legacy, retired, slot, call, handle, monitor, stop, child, told, forks>>
  BY DEF Prepare, Gate, HasRecord, process, Buried
<1>2. /\ FilesOK(e) /\ GoneOK(e) /\ RecordOK(e) /\ CallOK(e) /\ MonitorOK(e) /\ TypeOK /\ TicketsOK
  BY <1>1, Has DEF Inv
<1>3. /\ r.ticket \in Tickets /\ r # NoRequest
      /\ new \in Record /\ new.phase = "prepared" /\ new.version = 0 /\ new.output = "open"
  BY RequestIs, RecordTypes DEF Record, Phases
<1> HIDE DEF new
<1>4. /\ Settled(new).phase = "prepared" /\ Settled(new).version = 0 /\ Settled(new).output = "open"
      /\ Settled(new) \in Record
  BY <1>3, SettledIs
<1>5. /\ mem[e] = NoRecord /\ e \notin pend /\ disk[e].phase \in {"absent", "prepared"} /\ disk[e].version = 0
      /\ child[e] = "none" /\ told[e] = "none" /\ monitor[e] = "none"
  BY <1>1, <1>2 DEF GoneOK
<1>6. /\ Wrote(e, new)
      /\ \/ mem'[e] = Settled(new) /\ disk'[e] = Settled(new) /\ e \notin pend'
         \/ mem'[e] = NoRecord /\ disk'[e] \in {disk[e], Settled(new)} /\ e \notin pend'
  BY <1>1, <1>2, <1>3, <1>5, PersistWrote, FailWrote DEF Wrote
<1>7. /\ claim' = [claim EXCEPT ![e] = r] /\ holder' = [holder EXCEPT ![r.ticket] = e]
      /\ claim[e] = r \/ (claim[e] = NoRequest /\ holder[r.ticket] = None)
  BY <1>1 DEF Reserve
<1>8. claim'[e] = r /\ (\A f \in Executions : f # e => claim'[f] = claim[f])
      /\ claim' \in [Executions -> Requests \cup {NoRequest}]
  BY <1>2, <1>7 DEF TypeOK
<1>9. holder[r.ticket] \in {None, e}
  BY <1>2, <1>1, <1>3, <1>7 DEF TicketsOK
<1>10. /\ holder' \in [Tickets -> Executions \cup {None}] /\ holder'[r.ticket] = e
       /\ \A f \in Executions : claim[f] # NoRequest => holder'[claim[f].ticket] = f
       /\ \A f \in Executions : Buried(f) /\ f \notin retired => holder'[grave[f].ticket] = f
  BY <1>1, <1>3, <1>7, <1>9, HolderKept
<1>11. \A f \in Executions : f # e => Same(f)
  BY <1>1, <1>6, <1>8 DEF Same, Wrote
<1>12. TypeOK'
  BY <1>1, <1>2, <1>6, <1>8, <1>10 DEF TypeOK, Wrote
<1>13. Local(e)'
  <2>1. FilesOK(e)'
    BY <1>1, <1>2, <1>3, <1>4, <1>5, <1>6, <1>8 DEF FilesOK, Buried, Running, Holding, Past, Quiescent
  <2>2. Kept(e)' = 0 /\ disk'[e].version = 0 /\ disk'[e].phase \in {"absent", "prepared"} /\ ~Buried(e)'
    BY <1>1, <1>4, <1>5, <1>6 DEF Kept, Buried
  <2>3. GoneOK(e)'
    BY <1>1, <1>4, <1>5, <1>6, <2>2 DEF GoneOK
  <2>4. RecordOK(e)'
    <3>1. CASE mem'[e] = NoRecord
      BY <3>1, RecordTypes DEF RecordOK, Holding, Past, Quiescent
    <3>2. CASE mem'[e] = Settled(new) /\ disk'[e] = Settled(new)
      BY <1>1, <1>3, <1>4, <1>5, <1>8, <2>2, <3>2 DEF RecordOK, Holding, Past, Quiescent
    <3>. QED  BY <1>6, <3>1, <3>2
  <2>5. CallOK(e)' /\ MonitorOK(e)'
    BY <1>1, <1>5 DEF CallOK, MonitorOK
  <2>. QED  BY <1>1, <2>1, <2>3, <2>4, <2>5 DEF Local
<1>14. /\ mem'[e].version = 0 /\ Kept(e)' = 0 /\ ~Holds(e)' /\ ~Over(e)
  <2>1. Kept(e)' = 0
    BY <1>1, <1>4, <1>5, <1>6 DEF Kept, Buried
  <2>2. ~Holds(e)'
    BY <1>4, <1>5, <1>6, RecordTypes DEF Holds, Holding, Past
  <2>. QED  BY <1>1, <1>4, <1>6, <2>1, <2>2, RecordTypes DEF Over, Quiescent
<1>15. TicketsOK'
  <2>1. \A f \in Executions : f # e /\ claim[f] # NoRequest => claim[f].ticket # r.ticket
    BY <1>10
  <2>2. \A f \in Executions : f # e /\ Buried(f) => grave[f].ticket # r.ticket
    <3>1. \A f \in Executions : f \in retired => grave[f].ticket # r.ticket
      BY <1>1 DEF TicketBuried
    <3>. QED  BY <1>10, <3>1
  <2>3. \A f \in Executions : Buried(f)' = Buried(f)
    BY <1>1 DEF Buried
  <2>. QED  BY <1>1, <1>2, <1>8, <1>10, <2>1, <2>2, <2>3 DEF TicketsOK
<1>16. ForksOK'
  <2> SUFFICES ASSUME NEW t \in Tickets
               PROVE  forks[t] <= 1 /\ (forks[t] = 1 => \E x \in Executions : PaidBy(t, x)')
    BY <1>1 DEF ForksOK
  <2>1. forks[t] <= 1 /\ (forks[t] = 1 => \E x \in Executions : PaidBy(t, x))
    BY DEF Inv, ForksOK
  <2>2. \A x \in Executions : PaidBy(t, x) => PaidBy(t, x)'
    BY <1>1, <1>5, <1>8 DEF PaidBy
  <2>. QED  BY <2>1, <2>2
<1>. QED
  BY <1>1, <1>8, <1>11, <1>12, <1>13, <1>14, <1>15, <1>16, UpStep

\* A settled execution, or one that was never prepared, is buried; or the
\* tombstone is written and its sync fails.
LEMMA BuryStep ==
  ASSUME Inv, up, NEW e \in Executions, NEW t \in Tombstones, Bury(e, t),
         e \notin retired, call[e].pc = "idle", monitor[e] = "none", e \notin pend,
         child[e] \notin Running, disk[e].phase \notin Holding, mem[e].phase \notin Holding \cup {"prepared"},
         t.version = mem[e].version,
         mem[e].phase # "absent" => t = [ticket |-> claim[e].ticket, version |-> mem[e].version],
         child[e] # "none" => claim[e] # NoRequest /\ claim[e].ticket = t.ticket,
         holder' \in [Tickets -> Executions \cup {None}], holder'[t.ticket] = e,
         \A f \in Executions : claim[f] # NoRequest => holder'[claim[f].ticket] = f,
         \A f \in Executions : Buried(f) /\ f \notin retired => holder'[grave[f].ticket] = f
  PROVE  Inv'
<1>1. /\ FilesOK(e) /\ GoneOK(e) /\ RecordOK(e) /\ TypeOK /\ TicketsOK
  BY Has DEF Inv
<1>2. /\ UNCHANGED <<up, closing, host, legacy, slot, call, monitor, stop, child, forks>>
      /\ faults' = faults \/ Fault
      /\ \/ /\ grave' = [grave EXCEPT ![e] = t] /\ retired' = retired \cup {e}
            /\ mem' = [mem EXCEPT ![e] = NoRecord] /\ pend' = pend \ {e}
            /\ claim' = [claim EXCEPT ![e] = NoRequest] /\ handle' = handle \ {e}
            /\ RemoveJournal(e)
         \/ /\ grave' \in {grave, [grave EXCEPT ![e] = t]}
            /\ UNCHANGED <<retired, mem, pend, claim, handle, disk, told>>
  BY DEF Bury, RemoveJournal
<1>3. t # NoTombstone /\ t.ticket \in Tickets /\ t \in Tombstones
  BY ExecutorAssumption, RecordTypes DEF Tombstones
<1>4. faults' \in 0 .. MaxFaults
  BY <1>1, <1>2, ExecutorAssumption DEF TypeOK, Fault
<1>5. CASE /\ grave' = [grave EXCEPT ![e] = t] /\ retired' = retired \cup {e}
           /\ mem' = [mem EXCEPT ![e] = NoRecord] /\ pend' = pend \ {e}
           /\ claim' = [claim EXCEPT ![e] = NoRequest] /\ handle' = handle \ {e}
           /\ RemoveJournal(e)
  <2>1. /\ grave'[e] = t /\ mem'[e] = NoRecord /\ claim'[e] = NoRequest /\ e \in retired' /\ e \notin pend'
        /\ \A f \in Executions : f # e => grave'[f] = grave[f] /\ mem'[f] = mem[f] /\ claim'[f] = claim[f]
    BY <1>1, <1>5 DEF TypeOK
  <2>2. /\ disk' \in [Executions -> Record] /\ told' \in [Executions -> Quiescent \cup {"none", "retired"}]
        /\ disk'[e] \in {NoRecord, disk[e]} /\ told'[e] \in {told[e], "retired"}
        /\ \A f \in Executions : f # e => disk'[f] = disk[f] /\ told'[f] = told[f]
    BY <1>1, <1>5, RecordTypes, Tells, SMTT(30) DEF RemoveJournal, TypeOK
  <2>3. TypeOK'
    <3>1. /\ grave' \in [Executions -> Tombstones \cup {NoTombstone}] /\ mem' \in [Executions -> Record]
          /\ claim' \in [Executions -> Requests \cup {NoRequest}]
      BY <1>1, <1>3, <1>5, RecordTypes DEF TypeOK
    <3>2. retired' \in SUBSET Executions /\ pend' \in SUBSET Executions /\ handle' \in SUBSET Executions
      BY <1>1, <1>5 DEF TypeOK
    <3>. QED  BY <1>1, <1>2, <1>4, <2>2, <3>1, <3>2 DEF TypeOK
  <2>4. \A f \in Executions : f # e => Same(f)
    BY <1>2, <1>5, <2>1, <2>2 DEF Same
  <2>5. Local(e)'
    <3>1. FilesOK(e)'
      BY <1>1, <1>2, <1>3, <2>1, <2>2, RecordTypes DEF FilesOK, Buried, Holding, Past
    <3>2. GoneOK(e)'
      BY <1>2, <1>3, <2>1 DEF GoneOK, Buried
    <3>3. RecordOK(e)'
      BY <2>1, RecordTypes DEF RecordOK, Holding, Past, Quiescent
    <3>4. CallOK(e)' /\ MonitorOK(e)'
      BY <1>2 DEF CallOK, MonitorOK
    <3>. QED  BY <1>2, <3>1, <3>2, <3>3, <3>4 DEF Local
  <2>6. mem'[e].version = 0 /\ Kept(e)' = mem[e].version /\ ~Holds(e)' /\ Over(e)'
    <3>1. Kept(e)' = mem[e].version
      BY <1>3, <2>1 DEF Kept
    <3>2. ~Holds(e)'
      BY <2>1, <2>2, RecordTypes DEF Holds, Holding, Past
    <3>. QED  BY <2>1, <3>1, <3>2, RecordTypes DEF Over
  <2>7. TicketsOK'
    <3>1. \A f \in Executions : f # e => (Buried(f)' <=> Buried(f))
      BY <2>1 DEF Buried
    <3>2. \A f \in Executions : f # e => (f \in retired' <=> f \in retired)
      BY <1>5
    <3>. QED  BY <1>1, <1>2, <2>1, <3>1, <3>2 DEF TicketsOK
  <2>8. ForksOK'
    <3> SUFFICES ASSUME NEW u \in Tickets
                 PROVE  forks[u] <= 1 /\ (forks[u] = 1 => \E x \in Executions : PaidBy(u, x)')
      BY <1>2 DEF ForksOK
    <3>1. forks[u] <= 1 /\ (forks[u] = 1 => \E x \in Executions : PaidBy(u, x))
      BY DEF Inv, ForksOK
    <3>2. \A x \in Executions : PaidBy(u, x) => PaidBy(u, x)'
      BY <1>2, <2>1 DEF PaidBy
    <3>. QED  BY <3>1, <3>2
  <2>. QED
    BY <1>2, <2>1, <2>3, <2>4, <2>5, <2>6, <2>7, <2>8, UpStep
<1>6. CASE /\ grave' \in {grave, [grave EXCEPT ![e] = t]}
           /\ UNCHANGED <<retired, mem, pend, claim, handle, disk, told>>
  <2>1. /\ grave'[e] \in {grave[e], t} /\ \A f \in Executions : f # e => grave'[f] = grave[f]
        /\ grave' \in [Executions -> Tombstones \cup {NoTombstone}]
    BY <1>1, <1>3, <1>6, SMTT(30) DEF TypeOK
  <2>2. TypeOK'
    BY <1>1, <1>2, <1>4, <1>6, <2>1 DEF TypeOK
  <2>3. \A f \in Executions : f # e => Same(f)
    BY <1>2, <1>6, <2>1 DEF Same
  <2>4. Kept(e)' \in {Kept(e), mem[e].version}
    BY <1>3, <1>6, <2>1 DEF Kept
  <2>5. Local(e)'
    <3>1. FilesOK(e)'
      BY <1>1, <1>2, <1>3, <1>6, <2>1 DEF FilesOK, Buried
    <3>2. GoneOK(e)'
      BY <1>1, <1>2, <1>6, <2>4, RecordTypes DEF GoneOK
    <3>3. RecordOK(e)'
      <4>1. mem[e].phase # "absent" => mem[e].phase \in Quiescent
        BY <1>1 DEF TypeOK, Record, Phases, Holding, Past
      <4>2. grave'[e] = grave[e] => (Buried(e)' <=> Buried(e))
        BY DEF Buried
      <4>. QED  BY <1>1, <1>2, <1>6, <2>1, <2>4, <4>1, <4>2 DEF RecordOK
    <3>4. CallOK(e)' /\ MonitorOK(e)'
      BY <1>2 DEF CallOK, MonitorOK
    <3>. QED  BY <1>2, <3>1, <3>2, <3>3, <3>4 DEF Local
  <2>6. mem'[e].version = mem[e].version /\ ~Holds(e)' /\ (Over(e) => Over(e)')
    BY <1>6 DEF Holds, Over
  <2>7. TicketsOK'
    <3>1. \A f \in Executions : f # e => (Buried(f)' <=> Buried(f))
      BY <2>1 DEF Buried
    <3>2. Buried(e)' => holder'[grave'[e].ticket] = e
      BY <2>1 DEF Buried
    <3>3. \A f \in Executions : Buried(f)' /\ f \notin retired => holder'[grave'[f].ticket] = f
      BY <2>1, <3>1, <3>2
    <3>4. ASSUME NEW x \in Executions, NEW f \in Executions, claim[x] # NoRequest, Buried(f)',
                 claim[x].ticket = grave'[f].ticket
          PROVE  x = f
      BY <1>1, <2>1, <3>1, <3>2, <3>4 DEF TicketsOK
    <3>. QED  BY <1>1, <1>2, <1>6, <3>3, <3>4 DEF TicketsOK
  <2>8. ForksOK'
    <3> SUFFICES ASSUME NEW u \in Tickets
                 PROVE  forks[u] <= 1 /\ (forks[u] = 1 => \E x \in Executions : PaidBy(u, x)')
      BY <1>2 DEF ForksOK
    <3>1. forks[u] <= 1 /\ (forks[u] = 1 => \E x \in Executions : PaidBy(u, x))
      BY DEF Inv, ForksOK
    <3>2. \A x \in Executions : PaidBy(u, x) => PaidBy(u, x)'
      BY <1>2, <1>6, <2>1 DEF PaidBy
    <3>. QED  BY <3>1, <3>2
  <2>. QED
    BY <1>2, <1>6, <2>2, <2>3, <2>4, <2>5, <2>6, <2>7, <2>8, UpStep
<1>. QED
  BY <1>2, <1>5, <1>6

LEMMA RetireStep == ASSUME Inv, NEW e \in Executions, Retire(e) PROVE Inv'
<1> DEFINE t == [ticket |-> claim[e].ticket, version |-> mem[e].version]
<1>1. /\ up /\ call[e].pc = "idle" /\ e \notin retired /\ mem[e].phase # "absent" /\ mem[e].output = "ended"
      /\ e \notin pend /\ mem[e].phase \in Quiescent /\ Bury(e, t) /\ holder' = holder
  BY DEF Retire, Gate, HasRecord, DurablySettled
<1>2. /\ RecordOK(e) /\ MonitorOK(e) /\ TypeOK /\ TicketsOK /\ mem[e] \in Record
  BY <1>1, Has DEF Inv
<1>3. claim[e] # NoRequest /\ claim[e].ticket \in Tickets /\ t \in Tombstones
      /\ t.ticket = claim[e].ticket /\ t.version = mem[e].version
  BY <1>1, <1>2, ClaimIs DEF RecordOK, Tombstones, Record
<1> HIDE DEF t
<1>4. monitor[e] = "none" /\ child[e] \notin Running /\ disk[e].phase = mem[e].phase
  BY <1>1, <1>2 DEF MonitorOK, RecordOK
<1>5. mem[e].phase \notin Holding \cup {"prepared"}
  BY <1>1 DEF Holding, Past, Quiescent
<1>6. /\ holder' \in [Tickets -> Executions \cup {None}] /\ holder'[t.ticket] = e
      /\ \A f \in Executions : claim[f] # NoRequest => holder'[claim[f].ticket] = f
      /\ \A f \in Executions : Buried(f) /\ f \notin retired => holder'[grave[f].ticket] = f
  BY <1>1, <1>2, <1>3 DEF TicketsOK, TypeOK
<1>7. t = [ticket |-> claim[e].ticket, version |-> mem[e].version]
  BY DEF t
<1>. QED
  BY <1>1, <1>3, <1>4, <1>5, <1>6, <1>7, BuryStep

LEMMA RevokeUnpreparedStep ==
  ASSUME Inv, NEW e \in Executions, NEW t \in Tickets, RevokeUnprepared(e, t) PROVE Inv'
<1> DEFINE g == [ticket |-> t, version |-> 0]
<1>1. /\ up /\ call[e].pc = "idle" /\ e \notin retired /\ mem[e].phase = "absent"
      /\ holder[t] \in {None, e} /\ holder' = [holder EXCEPT ![t] = e]
  BY DEF RevokeUnprepared, Gate, HasRecord
<1>2. /\ GoneOK(e) /\ TypeOK /\ TicketsOK
  BY <1>1, Has DEF Inv
<1>3. /\ holder' \in [Tickets -> Executions \cup {None}] /\ holder'[t] = e
      /\ \A f \in Executions : claim[f] # NoRequest => holder'[claim[f].ticket] = f
      /\ \A f \in Executions : Buried(f) /\ f \notin retired => holder'[grave[f].ticket] = f
  BY <1>1, HolderKept
<1>4. CASE TicketBuried(t)
  <2>1. UNCHANGED <<up, closing, host, disk, grave, legacy, mem, pend, retired, slot, claim, call, handle,
                    monitor, stop, child, told, forks, faults>>
    BY <1>4 DEF RevokeUnprepared, durable, process
  <2>2. TypeOK' /\ HostOK'
    BY <1>2, <1>3, <2>1 DEF Inv, TypeOK, HostOK
  <2>3. \A f \in Executions : Local(f)'
    BY <2>1, SameLocal DEF Inv, Same
  <2>4. SlotOK' /\ CasOK'
    BY <1>1, <2>1 DEF Inv, SlotOK, CasOK, Holds, Version, Kept, Over
  <2>5. TicketsOK'
    BY <1>2, <1>3, <2>1 DEF TicketsOK, Buried
  <2>. QED  BY <1>1, <2>1, <2>2, <2>3, <2>4, <2>5, ForksKept DEF Inv
<1>5. CASE ~TicketBuried(t)
  <2>1. Bury(e, g)
    BY <1>5 DEF RevokeUnprepared
  <2>2. g \in Tombstones /\ g.ticket = t /\ g.version = 0
    BY ExecutorAssumption DEF Tombstones
  <2> HIDE DEF g
  <2>3. /\ mem[e] = NoRecord /\ mem[e].version = 0 /\ e \notin pend /\ disk[e].phase \notin Holding
        /\ child[e] = "none" /\ child[e] \notin Running /\ monitor[e] = "none"
        /\ mem[e].phase \notin Holding \cup {"prepared"}
    BY <1>1, <1>2, RecordTypes DEF GoneOK, Holding, Past, Running
  <2>. QED  BY <1>1, <1>3, <2>1, <2>2, <2>3, BuryStep
<1>. QED
  BY <1>4, <1>5

\* A tombstone answers again.
LEMMA ReplayRetiredStep == ASSUME Inv, NEW e \in Executions, ReplayRetired(e) PROVE Inv'
<1>1. /\ up /\ e \in retired /\ RemoveJournal(e)
      /\ UNCHANGED <<up, closing, host, grave, legacy, mem, pend, retired, slot, claim, holder, call, handle,
                     monitor, stop, child, forks>>
  BY DEF ReplayRetired, index, process
<1>2. FilesOK(e) /\ GoneOK(e) /\ TypeOK /\ Buried(e) /\ mem[e] = NoRecord /\ call[e].pc = "idle"
      /\ monitor[e] = "none" /\ e \notin pend /\ claim[e] = NoRequest
  BY <1>1, Has DEF GoneOK
<1>3. /\ disk' \in [Executions -> Record] /\ told' \in [Executions -> Quiescent \cup {"none", "retired"}]
      /\ disk'[e] \in {NoRecord, disk[e]} /\ told'[e] \in {told[e], "retired"}
      /\ \A f \in Executions : f # e => disk'[f] = disk[f] /\ told'[f] = told[f]
      /\ faults' \in 0 .. MaxFaults
  BY <1>1, <1>2, RecordTypes, Tells, ExecutorAssumption DEF RemoveJournal, TypeOK, Fault
<1>4. RecordOnly(e) /\ Typed
  BY <1>1, <1>2, <1>3 DEF RecordOnly, Typed, TypeOK
<1>5. child[e] \notin Running /\ disk'[e].phase \notin Holding /\ disk'[e].version \in {disk[e].version, mem[e].version}
  BY <1>2, <1>3, RecordTypes DEF FilesOK, Holding, Past
<1>6. Local(e)'
  <2>1. FilesOK(e)'
    BY <1>1, <1>2, <1>3, <1>5 DEF FilesOK, Buried
  <2>2. GoneOK(e)'
    BY <1>1, <1>2 DEF GoneOK, Buried
  <2>3. RecordOK(e)'
    BY <1>1, <1>2, RecordTypes DEF RecordOK, Holding, Past, Quiescent
  <2>4. CallOK(e)' /\ MonitorOK(e)'
    BY <1>1, <1>2 DEF CallOK, MonitorOK
  <2>. QED  BY <1>1, <2>1, <2>2, <2>3, <2>4 DEF Local
<1>7. mem'[e].phase \notin Holding /\ Over(e)'
  BY <1>1, <1>2, RecordTypes DEF Over, Holding, Past
<1>. QED
  BY <1>1, <1>2, <1>4, <1>5, <1>6, <1>7, RecordStep

-----------------------------------------------------------------------------
(* Crash, reboot and restart.                                              *)

\* What memory held is lost; the journals say enough.
LEMMA LostStep ==
  ASSUME Inv, Fault, LoseMemory, host' \in {host, "rebooted"},
         child' \in [Executions -> {"none", "live", "left", "gone"}],
         \A e \in Executions : child'[e] \in Running => child'[e] = child[e],
         \A e \in Executions : child'[e] = "none" <=> child[e] = "none",
         host' = "rebooted" => \A e \in Executions : child'[e] \notin Running
  PROVE  Inv'
<1>1. /\ up' = FALSE /\ closing' = FALSE /\ mem' = [e \in Executions |-> NoRecord] /\ pend' = {} /\ retired' = {}
      /\ slot' = NoSlot /\ holder' = [t \in Tickets |-> None] /\ call' = [e \in Executions |-> Idle]
      /\ handle' = {} /\ stop' = {} /\ monitor' = [e \in Executions |-> "none"]
      /\ UNCHANGED <<disk, grave, legacy, told, forks>>
  BY DEF LoseMemory, durable
<1>2. \A e \in Executions : claim'[e] = IF disk[e].phase # "absent" /\ ~Buried(e) THEN claim[e] ELSE NoRequest
  BY DEF LoseMemory, Buried
<1>3. TypeOK /\ TicketsOK /\ \A e \in Executions : FilesOK(e)
  BY DEF Inv, Local
<1>4. TypeOK'
  <2>1. claim' \in [Executions -> Requests \cup {NoRequest}]
    BY <1>3 DEF LoseMemory, TypeOK
  <2>2. slot' \in [owner : Executions \cup {None, Legacy}, version : 0 .. MaxVersion] /\ faults' \in 0 .. MaxFaults
    BY <1>1, <1>3, ExecutorAssumption DEF NoSlot, Fault, TypeOK
  <2>3. mem' \in [Executions -> Record]
    BY <1>1, RecordTypes
  <2>. QED  BY <1>1, <1>3, <2>1, <2>2, <2>3 DEF TypeOK, Idle
<1>5. HostOK'
  BY <1>1 DEF HostOK
<1>6. ASSUME NEW e \in Executions PROVE Local(e)'
  <2>1. FilesOK(e)
    BY <1>3
  <2>2. FilesOK(e)'
    <3>1. Buried(e)' <=> Buried(e)
      BY <1>1 DEF Buried
    <3>. QED  BY <1>1, <1>2, <2>1, <3>1 DEF FilesOK, Running
  <2>3. DownOK(e)'
    BY <1>1, <1>2 DEF DownOK, Buried, Idle
  <2>. QED  BY <1>1, <2>2, <2>3 DEF Local
<1>7. NewestOK'
  <2>1. \A e \in Executions : Kept(e)' = Kept(e)
    BY <1>1 DEF Kept
  <2>2. CASE ~up
    BY <1>1, <2>1, <2>2 DEF Inv, NewestOK, SlotsAgree, Newest
  <2>3. CASE up
    <3>1. SlotOK
      BY <2>3 DEF Inv
    <3>2. \A e \in Executions : Kept(e) \in Nat /\ Kept(e) \in Version(e)
      BY <1>3, VersionsAreNat DEF Version
    <3>3. \A e, f \in Executions : e # f /\ Kept(e) = Kept(f) => Kept(e) = 0
      BY <3>1, <3>2 DEF SlotOK
    <3>4. legacy => \A e \in Executions : Kept(e) = 0
      BY <3>1, <3>2 DEF SlotOK
    <3>5. ASSUME NEW e \in Executions, disk[e].phase \in Holding PROVE Newest(e)
      <4>1. slot = [owner |-> e, version |-> mem[e].version]
        BY <3>1, <3>5 DEF SlotOK, Holds
      <4>2. Kept(e) = disk[e].version /\ disk[e].version # 0
        BY <1>3, <3>5 DEF FilesOK, Kept, Buried
      <4>3. disk[e].version = mem[e].version
        <5>1. GoneOK(e) /\ RecordOK(e) /\ FilesOK(e)
          BY <2>3, Has
        <5>2. mem[e].phase # "absent"
          BY <3>5, <5>1 DEF GoneOK, FilesOK, Holding, Past
        <5>. QED  BY <4>2, <5>1, <5>2 DEF RecordOK
      <4>4. \A f \in Executions : Kept(f) <= Kept(e)
        BY <3>1, <3>2, <4>1, <4>2, <4>3 DEF SlotOK
      <4>. QED  BY <4>2, <4>4 DEF Newest
    <3>. QED  BY <1>1, <2>1, <3>3, <3>4, <3>5 DEF NewestOK, SlotsAgree, Newest
  <2>. QED  BY <2>2, <2>3
<1>8. TicketsOK'
  <2>1. \A e \in Executions : claim'[e] # NoRequest => claim'[e] = claim[e]
    BY <1>2
  <2>2. \A e \in Executions : Buried(e)' <=> Buried(e)
    BY <1>1 DEF Buried
  <2>. QED  BY <1>1, <1>3, <2>1, <2>2 DEF TicketsOK
<1>9. ForksOK'
  <2> SUFFICES ASSUME NEW t \in Tickets
               PROVE  forks[t] <= 1 /\ (forks[t] = 1 => \E x \in Executions : PaidBy(t, x)')
    BY <1>1 DEF ForksOK
  <2>1. forks[t] <= 1 /\ (forks[t] = 1 => \E x \in Executions : PaidBy(t, x))
    BY DEF Inv, ForksOK
  <2>2. ASSUME NEW x \in Executions, PaidBy(t, x) PROVE PaidBy(t, x)'
    <3>1. child[x] # "none" /\ FilesOK(x)
      BY <1>3, <2>2 DEF PaidBy
    <3>2. CASE ~Buried(x)
      <4>1. disk[x].phase # "absent" /\ claim[x] # NoRequest
        BY <3>1, <3>2 DEF FilesOK
      <4>. QED  BY <1>2, <2>2, <3>2, <4>1 DEF PaidBy
    <3>3. CASE Buried(x) /\ claim[x] = NoRequest
      BY <1>1, <1>2, <2>2, <3>3 DEF PaidBy
    <3>4. CASE Buried(x) /\ claim[x] # NoRequest
      <4>1. claim[x].ticket = t /\ claim'[x] = NoRequest
        BY <1>2, <2>2, <3>4 DEF PaidBy
      <4>2. up
        BY <3>4 DEF Inv, Local, DownOK
      <4>3. GoneOK(x) /\ RecordOK(x)
        BY <4>2, Has
      <4>4. mem[x].phase # "absent"
        BY <3>1, <3>4, <4>3 DEF GoneOK
      <4>5. grave[x].ticket = t
        BY <3>4, <4>1, <4>3, <4>4 DEF RecordOK
      <4>. QED  BY <1>1, <2>2, <4>1, <4>5 DEF PaidBy
    <3>. QED  BY <3>2, <3>3, <3>4
  <2>. QED  BY <2>1, <2>2
<1>. QED
  BY <1>1, <1>4, <1>5, <1>6, <1>7, <1>8, <1>9 DEF Inv

LEMMA CrashStep == ASSUME Inv, Crash PROVE Inv'
<1>1. /\ Fault /\ LoseMemory /\ host' = host /\ child' = child /\ TypeOK /\ up
  BY DEF Crash, Inv
<1>2. host # "rebooted"
  BY <1>1 DEF Inv, HostOK
<1>3. child' \in [Executions -> {"none", "live", "left", "gone"}]
  BY <1>1 DEF TypeOK
<1>. QED
  BY <1>1, <1>2, <1>3, LostStep

LEMMA RebootStep == ASSUME Inv, Reboot PROVE Inv'
<1>1. /\ Fault /\ LoseMemory /\ host' = "rebooted" /\ TypeOK
      /\ child' = [e \in Executions |-> IF child[e] \in Running THEN "gone" ELSE child[e]]
  BY DEF Reboot, Inv
<1>2. /\ child' \in [Executions -> {"none", "live", "left", "gone"}]
      /\ \A e \in Executions : child'[e] \notin Running /\ (child'[e] = "none" <=> child[e] = "none")
  BY <1>1 DEF TypeOK, Running
<1>. QED
  BY <1>1, <1>2, LostStep

\* What a restart makes of one journal.
LEMMA Reopened ==
  ASSUME Inv, NEW e \in Executions
  PROVE  /\ OpenRecord(e) \in Record
         /\ Buried(e) => OpenRecord(e) = NoRecord
         /\ ~Buried(e) => OpenRecord(e).version = disk[e].version
         /\ ~Buried(e) /\ disk[e].phase # "absent" => OpenRecord(e).phase # "absent"
         /\ disk[e].phase = "absent" => OpenRecord(e) = NoRecord
         /\ ~Buried(e) /\ disk[e].phase \in Quiescent => OpenRecord(e).phase = disk[e].phase
         /\ OpenRecord(e).phase \in Quiescent \cup {"absent", "unknown", "unsure"}
         /\ OpenRecord(e).phase \in Holding => disk[e].phase \in Past /\ ~Buried(e)
         /\ child[e] \in Running => OpenRecord(e).phase \in {"unknown", "unsure"} /\ ~Buried(e)
<1>1. TypeOK /\ FilesOK(e) /\ disk[e] \in Record
  BY DEF Inv, Local, TypeOK
<1>2. child[e] \in Running => host # "rebooted" /\ disk[e].phase \in Past /\ ~Buried(e)
  BY <1>1 DEF Inv, HostOK, FilesOK
<1>3. CASE Buried(e)
  BY <1>2, <1>3, RecordTypes DEF OpenRecord, Buried, Holding, Past
<1>4. CASE ~Buried(e) /\ disk[e].phase = "absent"
  <2>1. OpenRecord(e) = disk[e]
    BY <1>4 DEF OpenRecord, Recovered, Buried
  <2>. QED  BY <1>1, <1>2, <1>4, <2>1, RecordTypes DEF FilesOK, Holding, Past, Quiescent
<1>5. CASE ~Buried(e) /\ disk[e].phase \in Quiescent
  <2>1. disk[e].phase # "absent"
    BY <1>5 DEF Quiescent
  <2>2. OpenRecord(e) \in Record /\ OpenRecord(e).phase = disk[e].phase /\ OpenRecord(e).version = disk[e].version
    BY <1>1, <1>5, <2>1 DEF OpenRecord, Recovered, Buried, Record
  <2>. QED  BY <1>2, <1>5, <2>2 DEF Holding, Past, Quiescent
<1>6. CASE ~Buried(e) /\ disk[e].phase \notin Quiescent \cup {"absent"}
  <2>1. PICK p \in {"nochild", "revoked", "unknown", "unsure"} :
          /\ OpenRecord(e) = [disk[e] EXCEPT !.output = "ended", !.phase = p]
          /\ host = "rebooted" => p = "nochild"
          /\ host # "rebooted" /\ disk[e].phase \in Past => p \in {"unknown", "unsure"}
          /\ p \in {"unknown", "unsure"} => disk[e].phase \in Past
    <3>1. disk[e].phase \in Past \cup {"prepared", "reserved"}
      BY <1>1, <1>6 DEF Record, Phases, Past
    <3>2. "prepared" \notin Past /\ "reserved" \notin Past
      BY DEF Past
    <3>. QED  BY <1>6, <3>1, <3>2 DEF OpenRecord, Recovered, Buried
  <2>2. OpenRecord(e) \in Record /\ OpenRecord(e).phase = p /\ OpenRecord(e).version = disk[e].version
    BY <1>1, <2>1 DEF Record, Phases, Quiescent
  <2>3. p \in Holding => p \in {"unknown", "unsure"}
    BY DEF Holding, Past
  <2>4. p \in Quiescent \cup {"absent", "unknown", "unsure"} /\ p # "absent"
    BY DEF Quiescent
  <2>. QED  BY <1>2, <1>6, <2>1, <2>2, <2>3, <2>4
<1>. QED
  BY <1>3, <1>4, <1>5, <1>6

\* The files of an execution after all or a part of the recovery's writes.
LEMMA FilesReopened ==
  ASSUME Inv, NEW e \in Executions, disk'[e] \in {disk[e], OpenRecord(e)},
         UNCHANGED <<grave, claim, child, told>>
  PROVE  FilesOK(e)' /\ Kept(e)' = Kept(e) /\ (disk'[e].phase \in Holding => disk[e].phase \in Holding)
<1>1. FilesOK(e) /\ Buried(e)' = Buried(e)
  BY DEF Inv, Local, Buried
<1>2. CASE disk'[e] = disk[e]
  BY <1>1, <1>2 DEF FilesOK, Kept
<1>3. CASE disk'[e] = OpenRecord(e)
  <2>1. /\ Buried(e) => OpenRecord(e) = NoRecord
        /\ ~Buried(e) => OpenRecord(e).version = disk[e].version
        /\ ~Buried(e) /\ disk[e].phase # "absent" => OpenRecord(e).phase # "absent"
        /\ disk[e].phase = "absent" => OpenRecord(e) = NoRecord
        /\ ~Buried(e) /\ disk[e].phase \in Quiescent => OpenRecord(e).phase = disk[e].phase
        /\ OpenRecord(e).phase \in Holding => disk[e].phase \in Holding /\ ~Buried(e)
        /\ child[e] \in Running => OpenRecord(e).phase \in Past /\ ~Buried(e)
    BY Reopened DEF Past, Holding
  <2>2. Kept(e)' = Kept(e)
    BY <1>3, <2>1 DEF Kept, Buried
  <2>3. FilesOK(e)'
    BY <1>1, <1>3, <2>1, RecordTypes DEF FilesOK
  <2>. QED  BY <1>3, <2>1, <2>2, <2>3
<1>. QED
  BY <1>2, <1>3

LEMMA OpenFailsStep == ASSUME Inv, OpenFails PROVE Inv'
<1>1. /\ ~up /\ Fault
      /\ UNCHANGED <<up, closing, host, grave, legacy, mem, pend, retired, slot, claim, holder, call, handle,
                     monitor, stop, child, told, forks>>
  BY DEF OpenFails, index, process
<1>2. PICK done \in SUBSET Executions :
        disk' = [e \in Executions |-> IF e \in done THEN OpenRecord(e) ELSE disk[e]]
  BY DEF OpenFails
<1>3. \A e \in Executions : disk'[e] \in {disk[e], OpenRecord(e)}
  BY <1>2
<1>4. \A e \in Executions : FilesOK(e)' /\ Kept(e)' = Kept(e) /\ (disk'[e].phase \in Holding => disk[e].phase \in Holding)
  BY <1>1, <1>3, FilesReopened
<1>5. TypeOK' /\ HostOK'
  <2>1. disk' \in [Executions -> Record]
    BY <1>2, Reopened DEF Inv, TypeOK
  <2>2. faults' \in 0 .. MaxFaults
    BY <1>1, ExecutorAssumption DEF Inv, TypeOK, Fault
  <2>. QED  BY <1>1, <2>1, <2>2 DEF Inv, TypeOK, HostOK
<1>6. \A e \in Executions : Local(e)'
  BY <1>1, <1>4 DEF Inv, Local, DownOK, Buried
<1>7. NewestOK'
  BY <1>1, <1>4 DEF Inv, NewestOK, SlotsAgree, Newest
<1>. QED
  BY <1>1, <1>5, <1>6, <1>7, TicketsKept, ForksKept DEF Inv

\* A nonempty set of naturals has a least element.
LEMMA LeastOf ==
  ASSUME NEW T \in SUBSET Nat, T # {} PROVE \E x \in T : \A y \in T : x <= y
<1> DEFINE R == {q \in Nat \X Nat : q[1] < q[2]}
<1>1. IsWellFoundedOn(R, Nat)
  BY NatLessThanWellFounded DEF OpToRel
<1>2. PICK x \in T : \A y \in T : <<y, x>> \notin R
  <2> HIDE DEF R
  <2>. QED  BY <1>1, WFMin
<1>3. ASSUME NEW y \in T PROVE x <= y
  <2>1. x \in Nat /\ y \in Nat /\ ~(y < x)
    BY <1>2
  <2>. QED  BY <2>1
<1>. QED
  BY <1>3

\* If a file keeps an alias version, some file keeps the newest.
LEMMA SomeNewest ==
  ASSUME TypeOK, NEW e \in Executions, Kept(e) # 0 PROVE \E f \in Executions : Newest(f)
<1> DEFINE T == {MaxVersion - Kept(f) : f \in Executions}
<1>1. MaxVersion \in Nat /\ \A f \in Executions : Kept(f) \in 0 .. MaxVersion
  BY VersionsAreNat, ExecutorAssumption
<1>2. T \in SUBSET Nat /\ T # {}
  BY <1>1
<1>3. PICK x \in T : \A y \in T : x <= y
  <2> HIDE DEF T
  <2>. QED  BY <1>2, LeastOf
<1>4. PICK f \in Executions : x = MaxVersion - Kept(f)
  BY <1>3
<1>5. ASSUME NEW g \in Executions PROVE Kept(g) <= Kept(f)
  <2>1. MaxVersion - Kept(f) <= MaxVersion - Kept(g)
    BY <1>3, <1>4
  <2>. QED  BY <1>1, <2>1
<1>6. Kept(f) # 0
  <2>1. Kept(e) <= Kept(f) /\ Kept(e) \in 0 .. MaxVersion /\ Kept(f) \in 0 .. MaxVersion
    BY <1>1, <1>5
  <2>. QED  BY <2>1
<1>. QED
  BY <1>5, <1>6 DEF Newest

\* The slot a restart rebuilds: the newest version on disk and its owner.
LEMMA OpenSlotIs ==
  ASSUME TypeOK, SlotsAgree
  PROVE  /\ OpenSlot \in [owner : Executions \cup {None, Legacy}, version : 0 .. MaxVersion]
         /\ \A e \in Executions : Newest(e) => OpenSlot = [owner |-> e, version |-> Kept(e)]
         /\ \A e \in Executions : Kept(e) <= OpenSlot.version
         /\ \A e \in Executions : Kept(e) = OpenSlot.version /\ Kept(e) # 0 => e = OpenSlot.owner
         /\ OpenSlot.owner \in {None, Legacy} <=> OpenSlot.version = 0
         /\ legacy => OpenSlot.owner = Legacy
<1>1. \A e \in Executions : Kept(e) \in 0 .. MaxVersion
  BY VersionsAreNat
<1>2. \A e, f \in Executions : Newest(e) /\ Newest(f) => e = f
  <2> SUFFICES ASSUME NEW e \in Executions, NEW f \in Executions, Newest(e), Newest(f) PROVE e = f
    OBVIOUS
  <2>1. Kept(e) \in Int /\ Kept(f) \in Int /\ Kept(e) <= Kept(f) /\ Kept(f) <= Kept(e) /\ Kept(e) # 0
    BY <1>1 DEF Newest
  <2>. QED  BY <2>1 DEF SlotsAgree
<1>3. CASE \E e \in Executions : Newest(e)
  <2>1. PICK e \in Executions : Newest(e)
    BY <1>3
  <2>2. Kept(e) # 0 /\ \A f \in Executions : Kept(f) <= Kept(e)
    BY <2>1 DEF Newest
  <2>3. ~legacy
    BY <2>2 DEF SlotsAgree
  <2>4. (CHOOSE f \in Executions : Newest(f)) = e
    BY <1>2, <2>1
  <2>5. OpenSlot = [owner |-> e, version |-> Kept(e)]
    BY <1>3, <2>3, <2>4 DEF OpenSlot
  <2>6. OpenSlot.owner = e /\ OpenSlot.version = Kept(e)
    BY <2>5
  <2>7. \A f \in Executions : Kept(f) = Kept(e) /\ Kept(f) # 0 => f = e
    BY DEF SlotsAgree
  <2>8. e \notin {None, Legacy}
    BY ExecutorAssumption
  <2>. QED  BY <1>1, <1>2, <2>1, <2>2, <2>3, <2>5, <2>6, <2>7, <2>8
<1>4. CASE ~\E e \in Executions : Newest(e)
  <2>1. \A e \in Executions : Kept(e) = 0
    BY <1>4, SomeNewest
  <2>2. OpenSlot = IF legacy THEN [owner |-> Legacy, version |-> 0] ELSE NoSlot
    BY <1>4 DEF OpenSlot
  <2>3. OpenSlot.version = 0 /\ OpenSlot.owner = IF legacy THEN Legacy ELSE None
    BY <2>2 DEF NoSlot
  <2>4. OpenSlot \in [owner : Executions \cup {None, Legacy}, version : 0 .. MaxVersion]
    BY <2>2, ExecutorAssumption DEF NoSlot
  <2>. QED  BY <1>4, <2>1, <2>3, <2>4
<1>. QED
  BY <1>3, <1>4

LEMMA OpenStep == ASSUME Inv, Open PROVE Inv'
<1>1. /\ ~up /\ SlotsAgree /\ up' = TRUE /\ host' = "same"
      /\ \A e \in Executions : disk'[e] = OpenRecord(e) /\ mem'[e] = OpenRecord(e)
      /\ disk' = [e \in Executions |-> OpenRecord(e)] /\ mem' = [e \in Executions |-> OpenRecord(e)]
      /\ retired' = {e \in Executions : Buried(e)} /\ slot' = OpenSlot
      /\ UNCHANGED <<closing, grave, legacy, pend, claim, call, handle, monitor, stop, child, told, forks, faults>>
  BY DEF Open, process, Buried
<1>2. \A t \in Tickets : holder'[t] = IF \E e \in Executions : claim[e].ticket = t
                                        THEN CHOOSE e \in Executions : claim[e].ticket = t ELSE None
  BY DEF Open
<1>3. TypeOK /\ NewestOK /\ TicketsOK /\ \A e \in Executions : FilesOK(e) /\ DownOK(e)
  BY <1>1 DEF Inv, Local
<1>4. \A e \in Executions : FilesOK(e)' /\ Kept(e)' = Kept(e) /\ (disk'[e].phase \in Holding => disk[e].phase \in Holding)
  BY <1>1, FilesReopened
<1>5. TypeOK'
  <2>1. disk' \in [Executions -> Record] /\ mem' \in [Executions -> Record]
    BY <1>1, Reopened
  <2>2. holder' \in [Tickets -> Executions \cup {None}]
    BY DEF Open
  <2>3. slot' \in [owner : Executions \cup {None, Legacy}, version : 0 .. MaxVersion]
    BY <1>1, <1>3, OpenSlotIs
  <2>. QED  BY <1>1, <1>3, <2>1, <2>2, <2>3 DEF TypeOK
<1>6. ASSUME NEW e \in Executions PROVE Local(e)'
  <2>1. /\ FilesOK(e) /\ DownOK(e) /\ FilesOK(e)' /\ (Buried(e)' <=> Buried(e)) /\ (e \in retired' <=> Buried(e))
    BY <1>1, <1>3, <1>4 DEF Buried
  <2>2. /\ Buried(e) => OpenRecord(e) = NoRecord
        /\ ~Buried(e) /\ disk[e].phase # "absent" => OpenRecord(e).phase # "absent"
        /\ disk[e].phase = "absent" => OpenRecord(e) = NoRecord
        /\ ~Buried(e) /\ disk[e].phase \in Quiescent => OpenRecord(e).phase = disk[e].phase
        /\ OpenRecord(e).phase \in Quiescent \cup {"absent", "unknown", "unsure"}
        /\ child[e] \in Running => OpenRecord(e).phase \in {"unknown", "unsure"} /\ ~Buried(e)
    BY Reopened
  <2>3. OpenRecord(e).phase = "absent" => OpenRecord(e) = NoRecord
    BY <2>2
  <2>4. GoneOK(e)'
    <3>1. e \in retired' => /\ Buried(e)' /\ mem'[e] = NoRecord /\ e \notin pend' /\ claim'[e] = NoRequest
                            /\ call'[e].pc = "idle" /\ monitor'[e] = "none"
      BY <1>1, <2>1, <2>2 DEF DownOK
    <3>2. ASSUME mem'[e].phase = "absent", e \notin retired'
          PROVE  /\ mem'[e] = NoRecord /\ e \notin pend' /\ disk'[e] = NoRecord /\ Kept(e)' = 0
                 /\ child'[e] = "none" /\ told'[e] = "none" /\ call'[e].pc = "idle" /\ monitor'[e] = "none"
      <4>1. OpenRecord(e) = NoRecord /\ ~Buried(e) /\ disk[e].phase = "absent"
        BY <1>1, <2>1, <2>2, <2>3, <3>2
      <4>2. child[e] = "none" /\ told[e] = "none"
        BY <1>3, <2>1, <4>1 DEF FilesOK, TypeOK, Quiescent
      <4>3. Kept(e)' = 0
        BY <1>1, <2>1, <4>1, RecordTypes DEF Kept, Buried
      <4>. QED  BY <1>1, <2>1, <4>1, <4>2, <4>3 DEF DownOK
    <3>. QED  BY <3>1, <3>2, RecordTypes DEF GoneOK
  <2>5. RecordOK(e)'
    <3>1. CASE OpenRecord(e).phase = "absent"
      BY <1>1, <3>1 DEF RecordOK, Holding, Past, Quiescent
    <3>2. CASE OpenRecord(e).phase # "absent"
      <4>1. ~Buried(e) /\ claim[e] # NoRequest
        BY <1>1, <2>1, <2>2, <3>2, RecordTypes DEF FilesOK
      <4>2. Kept(e)' = mem'[e].version
        BY <1>1, <2>1, <4>1 DEF Kept, Buried
      <4>3. told[e] \in {"none", OpenRecord(e).phase}
        BY <1>3, <2>1, <2>2, <4>1 DEF FilesOK, TypeOK
      <4>4. OpenRecord(e).phase \notin {"prepared", "reserved"}
        BY <2>2 DEF Quiescent
      <4>5. OpenRecord(e).phase \in Holding => mem'[e].version # 0
        BY <1>1, <2>1 DEF FilesOK
      <4>6. OpenRecord(e).phase \in Quiescent => child[e] \notin Running
        BY <2>2 DEF Quiescent
      <4>. QED  BY <1>1, <2>1, <3>2, <4>1, <4>2, <4>3, <4>4, <4>5, <4>6 DEF RecordOK
    <3>. QED  BY <3>1, <3>2
  <2>6. CallOK(e)' /\ MonitorOK(e)'
    BY <1>1, <2>1 DEF CallOK, MonitorOK, DownOK
  <2>. QED  BY <1>1, <2>1, <2>4, <2>5, <2>6 DEF Local
<1>7. SlotOK'
  <2>1. \A e \in Executions : \A v \in Version(e)' : v = 0 \/ v = Kept(e)
    <3>1. \A e \in Executions : mem'[e].version \in {0, Kept(e)}
      BY <1>1, Reopened, RecordTypes DEF Kept, Buried
    <3>. QED  BY <1>4, <3>1 DEF Version
  <2>2. /\ \A e \in Executions : Newest(e) => OpenSlot = [owner |-> e, version |-> Kept(e)]
        /\ \A e \in Executions : Kept(e) <= OpenSlot.version
        /\ \A e \in Executions : Kept(e) = OpenSlot.version /\ Kept(e) # 0 => e = OpenSlot.owner
        /\ OpenSlot.owner \in {None, Legacy} <=> OpenSlot.version = 0
        /\ legacy => OpenSlot.owner = Legacy
        /\ OpenSlot.version \in Nat
    BY <1>1, <1>3, OpenSlotIs, ExecutorAssumption
  <2>3. ASSUME NEW e \in Executions, Holds(e)' PROVE slot' = [owner |-> e, version |-> mem'[e].version]
    <3>1. OpenRecord(e).phase \in Holding
      BY <1>1, <2>3 DEF Holds
    <3>2. disk[e].phase \in Holding /\ ~Buried(e) /\ OpenRecord(e).version = disk[e].version
      BY <3>1, Reopened DEF Holding
    <3>3. Newest(e) /\ Kept(e) = OpenRecord(e).version
      BY <1>3, <3>2 DEF NewestOK, Kept, Buried
    <3>. QED  BY <1>1, <2>2, <3>3
  <2>4. \A e \in Executions : \A v \in Version(e)' : v <= slot'.version /\ (v = slot'.version /\ v # 0 => e = slot'.owner)
    BY <1>1, <2>1, <2>2
  <2>5. \A e, f \in Executions : e # f => Version(e)' \cap Version(f)' \subseteq {0}
    BY <1>1, <2>1 DEF SlotsAgree
  <2>. QED  BY <1>1, <2>2, <2>3, <2>4, <2>5 DEF SlotOK
<1>8. CasOK'
  BY <1>1, <1>3 DEF CasOK, DownOK
<1>9. TicketsOK'
  <2>1. ASSUME NEW e \in Executions, claim[e] # NoRequest PROVE holder'[claim[e].ticket] = e
    <3>1. claim[e].ticket \in Tickets /\ claim[e].ticket # None
      BY <1>3, <2>1, ClaimIs, ExecutorAssumption
    <3>2. \A f \in Executions : claim[f].ticket = claim[e].ticket => f = e
      BY <1>3, <2>1, <3>1, RecordTypes DEF TicketsOK
    <3>3. (CHOOSE f \in Executions : claim[f].ticket = claim[e].ticket) = e
      BY <3>2
    <3>. QED  BY <1>2, <3>1, <3>3
  <2>2. \A e \in Executions : (Buried(e)' <=> Buried(e)) /\ (Buried(e) => e \in retired')
    BY <1>1 DEF Buried
  <2>. QED  BY <1>1, <1>3, <2>1, <2>2 DEF TicketsOK
<1>10. HostOK' /\ ForksOK'
  BY <1>1, ForksKept DEF HostOK
<1>. QED
  BY <1>1, <1>5, <1>6, <1>7, <1>8, <1>9, <1>10 DEF Inv

-----------------------------------------------------------------------------
(* Invariance, and what follows from it.                                   *)

LEMMA InitInv == ASSUME Init PROVE Inv
<1>1. TypeOK
  <2>1. 0 \in 0 .. MaxVersion /\ 0 \in 0 .. MaxFaults
    BY ExecutorAssumption
  <2>2. disk \in [Executions -> Record] /\ mem \in [Executions -> Record]
    BY RecordTypes DEF Init
  <2>3. slot \in [owner : Executions \cup {None, Legacy}, version : 0 .. MaxVersion]
    BY <2>1 DEF Init, NoSlot
  <2>4. call \in [Executions -> [pc : {"idle", "cas", "reserve", "fork", "spawn", "spawned", "settle"},
                                settled : BOOLEAN]]
    BY DEF Init, Idle
  <2>5. /\ up \in BOOLEAN /\ closing \in BOOLEAN /\ legacy \in BOOLEAN /\ host \in {"same", "rebooted"}
        /\ pend \in SUBSET Executions /\ retired \in SUBSET Executions /\ handle \in SUBSET Executions
        /\ stop \in SUBSET Executions /\ faults \in 0 .. MaxFaults
    BY <2>1 DEF Init
  <2>6. /\ grave \in [Executions -> Tombstones \cup {NoTombstone}]
        /\ claim \in [Executions -> Requests \cup {NoRequest}]
        /\ holder \in [Tickets -> Executions \cup {None}]
        /\ monitor \in [Executions -> {"none", "reading", "leader", "broken", "drained"}]
        /\ child \in [Executions -> {"none", "live", "left", "gone"}]
    BY DEF Init
  <2>7. told \in [Executions -> Quiescent \cup {"none", "retired"}] /\ forks \in [Tickets -> 0 .. 2]
    BY DEF Init
  <2>. QED  BY <2>2, <2>3, <2>4, <2>5, <2>6, <2>7 DEF TypeOK
<1>2. \A e \in Executions : Buried(e) = FALSE /\ Kept(e) = 0
  BY RecordTypes DEF Init, Buried, Kept
<1>3. \A e \in Executions : Local(e)
  <2> SUFFICES ASSUME NEW e \in Executions PROVE Local(e)
    OBVIOUS
  <2>1. /\ up /\ disk[e] = NoRecord /\ mem[e] = NoRecord /\ claim[e] = NoRequest /\ call[e].pc = "idle"
        /\ monitor[e] = "none" /\ child[e] = "none" /\ told[e] = "none" /\ e \notin pend /\ e \notin retired
    BY DEF Init, Idle
  <2>2. FilesOK(e)
    BY <1>2, <2>1, RecordTypes DEF FilesOK, Running, Holding, Past, Quiescent
  <2>3. GoneOK(e)
    BY <1>2, <2>1, RecordTypes DEF GoneOK
  <2>4. RecordOK(e)
    BY <2>1, RecordTypes DEF RecordOK, Holding, Past, Quiescent
  <2>5. CallOK(e) /\ MonitorOK(e)
    BY <2>1 DEF CallOK, MonitorOK
  <2>. QED  BY <2>1, <2>2, <2>3, <2>4, <2>5 DEF Local
<1>4. SlotOK
  <2>1. \A e \in Executions : ~Holds(e) /\ Version(e) = {0}
    BY <1>2, RecordTypes DEF Init, Holds, Version, Holding, Past
  <2>2. slot.owner = None /\ slot.version = 0 /\ legacy = FALSE
    BY DEF Init, NoSlot
  <2>. QED  BY <2>1, <2>2 DEF SlotOK
<1>5. CasOK /\ HostOK
  BY DEF Init, CasOK, HostOK, Idle
<1>6. TicketsOK
  BY <1>2 DEF Init, TicketsOK
<1>7. ForksOK
  BY DEF Init, ForksOK
<1>8. up = TRUE
  BY DEF Init
<1>. QED
  BY <1>1, <1>3, <1>4, <1>5, <1>6, <1>7, <1>8 DEF Inv

LEMMA StutterInv == ASSUME Inv, UNCHANGED vars PROVE Inv'
<1>1. UNCHANGED <<up, closing, host, disk, grave, legacy, mem, pend, retired, slot, claim, holder, call, handle,
                  monitor, stop, child, told, forks, faults>>
  BY DEF vars
<1>2. TypeOK' /\ HostOK'
  BY <1>1 DEF Inv, TypeOK, HostOK
<1>3. \A f \in Executions : Local(f)'
  BY <1>1, SameLocal DEF Inv, Same
<1>4. up => SlotOK' /\ CasOK'
  BY <1>1 DEF Inv, SlotOK, CasOK, Holds, Version, Kept, Over
<1>5. ~up => NewestOK'
  BY <1>1 DEF Inv, NewestOK, SlotsAgree, Newest, Kept
<1>. QED
  BY <1>1, <1>2, <1>3, <1>4, <1>5, TicketsKept, ForksKept DEF Inv

\* One step per action.
LEMMA NextInv == ASSUME Inv, Next PROVE Inv'
<1>1. ASSUME NEW e \in Executions, Step(e) PROVE Inv'
  <2>1. CASE (\E r \in Requests : Prepare(e, r)) \/ (\E t \in Tickets : RevokeUnprepared(e, t))
    BY <2>1, PrepareStep, RevokeUnpreparedStep
  <2>2. CASE LaunchResolve(e) \/ LaunchCas(e) \/ LaunchReserve(e) \/ LaunchFork(e) \/ LaunchSpawn(e)
             \/ LaunchSpawned(e) \/ LaunchSettle(e)
    BY <2>2, LaunchResolveStep, LaunchCasStep, LaunchBarriers, LaunchSpawnStep, LaunchSpawnedStep, LaunchSettleStep
  <2>3. CASE Replay(e) \/ Revoke(e) \/ Retire(e) \/ ReplayRetired(e) \/ Reconcile(e) \/ Inspect(e) \/ Observe(e)
             \/ Stop(e)
    BY <2>3, ReplayStep, RevokeStep, RetireStep, ReplayRetiredStep, ReconcileStep, TellStep, StopStep
  <2>4. CASE LeaderExits(e) \/ GroupEmpties(e) \/ Kill(e)
    BY <2>4, ChildStep
  <2>5. CASE ReportExit(e) \/ ReportDrained(e) \/ ReportsEnd(e) \/ ReportLost(e) \/ FinishOutput(e)
             \/ ShutdownSettle(e)
    BY <2>5, ReportExitStep, ReportDrainedStep, ReportsEndStep, ReportLostStep, FinishOutputStep, ShutdownStep
  <2>. QED  BY <1>1, <2>1, <2>2, <2>3, <2>4, <2>5 DEF Step
<1>. QED
  BY <1>1, ReserveLegacyStep, CloseStep, CrashStep, RebootStep, OpenStep, OpenFailsStep DEF Next

\* Memory and journal never drift further apart than the invariant allows:
\* through failed writes, latched records, crashes, reboots and recoveries that
\* fail halfway (persist, latch, open, launch).
THEOREM Invariance == Spec => []Inv
<1>1. Init => Inv
  BY InitInv
<1>2. Inv /\ [Next]_vars => Inv'
  BY NextInv, StutterInv
<1>. QED
  BY <1>1, <1>2, PTL DEF Spec

\* An alias never names two running scopes and a ticket never pays for a second
\* fork, for any number of executions, tickets, versions and faults: who runs
\* has passed the barrier on disk, who has passed it holds the slot, and a ticket
\* stays with the execution that forked with it (launch's CAS, open's slot).
THEOREM LineageIsOne == Spec => []OneLineage
<1>1. ASSUME Inv PROVE OneLineage
  <2>1. OneForkPerTicket /\ TypeOK
    BY <1>1 DEF Inv, ForksOK, OneForkPerTicket
  <2>2. ASSUME NEW e \in Executions, NEW f \in Executions, child[e] \in Running, child[f] \in Running
        PROVE  e = f
    <3>1. disk[e].phase \in Holding /\ disk[f].phase \in Holding
      BY <1>1, <2>2 DEF Inv, Local, FilesOK, Holding
    <3>2. CASE up
      <4>1. slot.owner = e /\ slot.owner = f
        BY <1>1, <3>1, <3>2 DEF Inv, SlotOK, Holds
      <4>. QED  BY <4>1
    <3>3. CASE ~up
      <4>1. Newest(e) /\ Newest(f) /\ SlotsAgree
        BY <1>1, <3>1, <3>3 DEF Inv, NewestOK
      <4>2. Kept(e) \in Int /\ Kept(f) \in Int
        BY <2>1, VersionsAreNat, ExecutorAssumption
      <4>3. Kept(e) = Kept(f) /\ Kept(e) # 0
        BY <4>1, <4>2 DEF Newest
      <4>. QED  BY <4>1, <4>3 DEF SlotsAgree
    <3>. QED  BY <3>2, <3>3
  <2>. QED  BY <2>1, <2>2 DEF OneLineage, OneChildPerAlias
<1>. QED
  BY <1>1, Invariance, PTL

\* What a client was told is true and on disk, and the journal directory can be
\* opened again whatever was written (replay_reply, the ensure! of open).
THEOREM AnswersStay == Spec => []AnswersAreDurable
<1>1. ASSUME Inv PROVE AnswersAreDurable
  <2>1. ToldIsDurable
    BY <1>1 DEF Inv, Local, FilesOK, ToldIsDurable, Buried
  <2>2. SlotsAgree
    <3>1. CASE ~up
      BY <1>1, <3>1 DEF Inv, NewestOK
    <3>2. CASE up
      <4>1. SlotOK /\ TypeOK
        BY <1>1, <3>2 DEF Inv
      <4>2. \A e \in Executions : Kept(e) \in Nat /\ Kept(e) \in Version(e)
        BY <4>1, VersionsAreNat DEF Version
      <4>. QED  BY <4>1, <4>2 DEF SlotOK, SlotsAgree
    <3>. QED  BY <3>1, <3>2
  <2>. QED  BY <2>1, <2>2 DEF AnswersAreDurable, CanReopen
<1>. QED
  BY <1>1, Invariance, PTL

\* The record behind a settled answer.
LEMMA ToldIsTheRecord ==
  ASSUME Inv, up, NEW e \in Executions, mem[e].phase # "absent", told[e] # "none"
  PROVE  told[e] = mem[e].phase /\ mem[e].phase \in Quiescent /\ RevokedRecord(e) = mem[e]
<1>1. RecordOK(e) /\ mem[e] \in Record /\ TypeOK
  BY Has
<1>2. told[e] = mem[e].phase /\ told[e] \in Quiescent \cup {"none", "retired"} /\ mem[e].phase \in Phases
  BY <1>1 DEF RecordOK, TypeOK, Record
<1>3. mem[e].phase \in Quiescent
  BY <1>2 DEF Phases, Quiescent
<1>. QED
  BY <1>2, <1>3, RevokedIs DEF Quiescent

\* No step tells a second, different settlement.
LEMMA ToldStep ==
  ASSUME Inv, [Next]_vars, NEW x \in Executions, told[x] # "none"
  PROVE  told'[x] \in {told[x], "retired"}
<1>0. TypeOK
  BY DEF Inv
<1>1. ASSUME NEW e \in Executions, RemoveJournal(e) PROVE  told'[x] \in {told[x], "retired"}
  BY <1>0, <1>1, Tells DEF RemoveJournal
<1>2. ASSUME NEW e \in Executions, up, mem[e].phase # "absent", Tell(e, mem[e].phase)
      PROVE  told'[x] = told[x]
  BY <1>0, <1>2, Tells, ToldIsTheRecord
<1>3. ASSUME NEW e \in Executions, NEW t, Bury(e, t) PROVE told'[x] \in {told[x], "retired"}
  BY <1>1, <1>3 DEF Bury
<1>4. ASSUME NEW e \in Executions, Step(e) PROVE told'[x] \in {told[x], "retired"}
  <2>1. CASE Replay(e)
    BY <1>2, <2>1 DEF Replay, Gate, HasRecord
  <2>2. CASE LaunchSettle(e)
    <3>1. up /\ mem[e].phase # "absent"
      BY <2>2, Has DEF LaunchSettle, CallOK
    <3>. QED  BY <1>2, <2>2, <3>1 DEF LaunchSettle
  <2>3. CASE Revoke(e)
    <3>1. up /\ mem[e].phase # "absent" /\ (Tell(e, RevokedRecord(e).phase) \/ told' = told)
      BY <2>3 DEF Revoke, Gate, HasRecord
    <3>2. CASE x = e
      BY <1>2, <3>1, <3>2, ToldIsTheRecord
    <3>3. CASE x # e
      BY <1>0, <3>1, <3>3, Tells
    <3>. QED  BY <3>2, <3>3
  <2>4. CASE Inspect(e) \/ Observe(e)
    BY <1>2, <2>4 DEF Inspect, Observe, Gate, Quiescent, WithReceipt
  <2>5. CASE ReplayRetired(e)
    BY <1>1, <2>5 DEF ReplayRetired
  <2>6. CASE Retire(e)
    BY <1>3, <2>6 DEF Retire
  <2>7. CASE \E t \in Tickets : RevokeUnprepared(e, t)
    BY <1>3, <2>7 DEF RevokeUnprepared
  <2>8. CASE LaunchResolve(e) \/ LaunchCas(e) \/ LaunchReserve(e) \/ LaunchFork(e) \/ LaunchSpawn(e) \/ LaunchSpawned(e)
    BY <2>8 DEF LaunchResolve, LaunchCas, LaunchReserve, LaunchFork, LaunchSpawn, LaunchSpawned
  <2>9. CASE Reconcile(e) \/ Stop(e) \/ FinishOutput(e) \/ ShutdownSettle(e) \/ ReportsEnd(e) \/ ReportLost(e)
    BY <2>9 DEF Reconcile, Stop, FinishOutput, ShutdownSettle, ReportsEnd, ReportLost
  <2>10. CASE LeaderExits(e) \/ GroupEmpties(e) \/ Kill(e) \/ ReportExit(e) \/ ReportDrained(e)
    BY <2>10 DEF LeaderExits, GroupEmpties, Kill, ChildOnly, ReportExit, ReportDrained, Apply
  <2>11. CASE \E r \in Requests : Prepare(e, r)
    BY <2>11 DEF Prepare
  <2>. QED  BY <1>4, <2>1, <2>2, <2>3, <2>4, <2>5, <2>6, <2>7, <2>8, <2>9, <2>10, <2>11 DEF Step
<1>5. CASE ReserveLegacy \/ Close \/ Crash \/ Reboot \/ Open \/ OpenFails
  BY <1>5 DEF ReserveLegacy, Close, Crash, Reboot, LoseMemory, Open, OpenFails
<1>6. CASE UNCHANGED vars
  BY <1>6 DEF vars
<1>. QED
  BY <1>4, <1>5, <1>6 DEF Next

\* A client is never told a second, different settlement of an execution, before
\* or after a restart; only its retirement may follow (apply_event, open, revoke).
THEOREM SettlementsAreFinal == Spec => ToldIsFinal
<1>1. Inv /\ [Next]_vars =>
        [\A e \in Executions : told[e] # "none" => told'[e] \in {told[e], "retired"}]_vars
  BY ToldStep
<1>. QED
  BY <1>1, Invariance, PTL DEF Spec, ToldIsFinal

=============================================================================
