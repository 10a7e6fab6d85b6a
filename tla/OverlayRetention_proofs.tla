----------------------- MODULE OverlayRetention_proofs -----------------------
(***************************************************************************)
(* Proofs about OverlayRetention, for any number of passes, keys, rows,    *)
(* attempts and any batch size. The fold and the watermark are not         *)
(* inductive by themselves: a deleted row must be superseded by a newer    *)
(* readable row that is still there, and what a pass has seen must be the  *)
(* newest of all the live rows up to its frontier.                         *)
(***************************************************************************)
EXTENDS OverlayRetention, FiniteSetTheorems, TLAPS

PassType ==
  [pc : {"idle", "observe", "scan", "refresh", "tail", "delete"},
   frontier : Nat, upper : Nat, found : Nat, horizon : Nat, cursor : Nat, tries : Nat,
   seen : [Quads -> Nat], last : BOOLEAN,
   pending : SUBSET Nat, ids : SUBSET Nat, witnesses : SUBSET Nat]

\* A deleted row is superseded by a newer readable row of its key, still there.
Superseded ==
  \A i \in 1..Len(row) : i \notin live =>
    \E j \in live : i < j /\ row[j].quad = row[i].quad /\ row[j].reads = "supported"

\* What a pass has seen of a key is a valid row of it up to the frontier, and
\* no live row up to the frontier is newer.
SeenIsNewest(st) ==
  /\ st.frontier <= st.upper
  /\ \A q \in Quads :
       /\ st.seen[q] <= st.frontier
       /\ st.seen[q] # None =>
            row[st.seen[q]].quad = q /\ row[st.seen[q]].reads # "malformed"
       /\ \A i \in live :
            i <= st.frontier /\ row[i].quad = q /\ row[i].reads # "malformed" => i <= st.seen[q]

\* A batch about to be deleted: the witness of every row of it is checked.
BatchIsWitnessed(st) ==
  st.pc = "delete" => \A i \in st.ids : Witness(st, i) # None /\ Witness(st, i) \in st.witnesses

\* A pass that collects has room for another candidate.
RoomInBatch(st) == st.pc \in {"idle", "observe", "scan"} => Cardinality(st.pending) < Batch

\* The bounds TypeOK puts on the state of a pass.
PassBounds(st) ==
  /\ st.frontier \in 0..Len(row) /\ st.upper \in 0..Len(row)
  /\ st.found \in 0..Len(row) /\ st.horizon \in 0..aged
  /\ st.seen \in [Quads -> 0..Len(row)]
  /\ st.cursor \in 0..Len(row)
  /\ st.pending \subseteq 1..aged /\ Cardinality(st.pending) <= Batch
  /\ st.ids \subseteq st.pending /\ st.witnesses \subseteq 1..Len(row)
  /\ st.tries \in 0..Attempts - 1

PassOK(st) ==
  st \in PassType /\ PassBounds(st) /\ SeenIsNewest(st) /\ BatchIsWitnessed(st) /\ RoomInBatch(st)

LogOK ==
  /\ row \in Seq([quad : Quads, reads : Reads]) /\ Len(row) <= MaxId
  /\ live \subseteq 1..Len(row) /\ aged \in 0..Len(row) /\ watermark \in 0..aged

\* The inductive invariant.
Inv ==
  /\ LogOK /\ WatermarkCovers /\ Superseded
  /\ pass \in [Pruners -> PassType]
  /\ \A p \in Pruners : PassOK(pass[p])

-----------------------------------------------------------------------------
(* Facts about the operators.                                              *)

\* A finite nonempty set has a minimal element in any strict order on it.
LEMMA MinimalElement ==
  ASSUME NEW S, IsFiniteSet(S), S # {}, NEW R,
         \A x, y, z \in S : <<x, y>> \in R /\ <<y, z>> \in R => <<x, z>> \in R,
         \A x \in S : <<x, x>> \notin R
  PROVE  \E x \in S : \A y \in S : <<y, x>> \notin R
<1> DEFINE Below(x) == {y \in S : <<y, x>> \in R}
           T == {Below(x) : x \in S}
           O == StrictSubsetOrdering(S)
<1>1. T # {}
  <2>1. PICK x \in S : TRUE
    OBVIOUS
  <2>2. Below(x) \in T
    BY <2>1
  <2>. QED  BY <2>2
<1>2. IsWellFoundedOn(O, FiniteSubsetsOf(S))
  BY FS_StrictSubsetOrderingWellFounded
<1>3. T \subseteq FiniteSubsetsOf(S)
  BY FS_Subset DEF FiniteSubsetsOf
<1>4. PICK m \in T : \A t \in T : ~(<<t, m>> \in O)
  <2> HIDE DEF T, O
  <2>. QED  BY <1>1, <1>2, <1>3, WFMin
<1>5. PICK x \in S : m = Below(x)
  BY <1>4, Zenon
<1>6. ASSUME NEW y \in S, <<y, x>> \in R PROVE FALSE
  <2>1. Below(y) \subseteq Below(x) /\ y \in Below(x) /\ y \notin Below(y)
    BY <1>6
  <2>2. Below(y) # Below(x)
    BY <2>1
  <2>3. Below(y) \in SUBSET S /\ Below(x) \in SUBSET S
    OBVIOUS
  <2>4. <<Below(y), Below(x)>> \in O
    <3> HIDE DEF Below
    <3>. QED  BY <2>1, <2>2, <2>3 DEF StrictSubsetOrdering
  <2>5. Below(y) \in T
    OBVIOUS
  <2>. QED
    BY <1>4, <1>5, <2>4, <2>5
<1>. QED
  BY <1>6

\* Max of a finite nonempty set of integers is its greatest element.
LEMMA MaxIsGreatest ==
  ASSUME NEW S \in SUBSET Int, IsFiniteSet(S), S # {}
  PROVE  Max(S) \in S /\ \A y \in S : y <= Max(S)
<1> DEFINE R == {e \in S \X S : e[1] > e[2]}
<1>1. \A x, y \in S : <<x, y>> \in R <=> x > y
  OBVIOUS
<1>2. \A x, y, z \in S : <<x, y>> \in R /\ <<y, z>> \in R => <<x, z>> \in R
  BY <1>1
<1>3. \A x \in S : <<x, x>> \notin R
  BY <1>1
<1>4. PICK x \in S : \A y \in S : <<y, x>> \notin R
  <2> HIDE DEF R
  <2>. QED  BY <1>2, <1>3, MinimalElement
<1>5. ASSUME NEW y \in S PROVE x >= y
  <2>1. x \in Int /\ y \in Int
    OBVIOUS
  <2>2. ~(y > x)
    <3> HIDE DEF R
    <3>. QED  BY <1>1, <1>4
  <2>. QED  BY <2>1, <2>2
<1>6. \E z \in S : \A y \in S : z >= y
  BY <1>5
<1>7. Max(S) \in S /\ \A y \in S : Max(S) >= y
  BY <1>6 DEF Max
<1>. QED
  BY <1>7

\* Min of a finite nonempty set of integers is an element of it.
LEMMA MinIsElement ==
  ASSUME NEW S \in SUBSET Int, IsFiniteSet(S), S # {}
  PROVE  Min(S) \in S
<1> DEFINE R == {e \in S \X S : e[1] < e[2]}
<1>1. \A x, y \in S : <<x, y>> \in R <=> x < y
  OBVIOUS
<1>2. \A x, y, z \in S : <<x, y>> \in R /\ <<y, z>> \in R => <<x, z>> \in R
  BY <1>1
<1>3. \A x \in S : <<x, x>> \notin R
  BY <1>1
<1>4. PICK x \in S : \A y \in S : <<y, x>> \notin R
  <2> HIDE DEF R
  <2>. QED  BY <1>2, <1>3, MinimalElement
<1>5. ASSUME NEW y \in S PROVE x <= y
  <2>1. x \in Int /\ y \in Int
    OBVIOUS
  <2>2. ~(y < x)
    <3> HIDE DEF R
    <3>. QED  BY <1>1, <1>4
  <2>. QED  BY <2>1, <2>2
<1>6. \E z \in S : \A y \in S : z <= y
  BY <1>5
<1>. QED
  BY <1>6 DEF Min

\* A set of row ids is a finite set of integers.
LEMMA IdSets ==
  ASSUME NEW n \in Nat, NEW S, S \subseteq 1..n
  PROVE  IsFiniteSet(S) /\ S \in SUBSET Int
<1>1. IsFiniteSet(1..n)
  BY FS_Interval
<1>2. IsFiniteSet(S)
  BY <1>1, FS_Subset
<1>. QED
  BY <1>2

\* What a sequence holds.
LEMMA SeqElement == ASSUME NEW T, NEW s \in Seq(T), NEW i \in 1..Len(s) PROVE s[i] \in T
OBVIOUS

\* Max of a pair of naturals.
LEMMA MaxOfPair ==
  ASSUME NEW a \in Nat, NEW b \in Nat
  PROVE  Max({a, b}) \in {a, b} /\ a <= Max({a, b}) /\ b <= Max({a, b})
<1>1. IsFiniteSet({a, b}) /\ {a, b} \in SUBSET Int /\ {a, b} # {}
  <2>1. IsFiniteSet({a})
    BY FS_Singleton
  <2>2. IsFiniteSet({a} \union {b})
    BY <2>1, FS_AddElement
  <2>3. {a} \union {b} = {a, b}
    OBVIOUS
  <2>. QED  BY <2>2, <2>3
<1>. QED
  BY <1>1, MaxIsGreatest

\* The newest overlay row is never deleted, so the frontier is the log's end.
LEMMA FrontierIsEnd == ASSUME Inv PROVE Frontier = Len(row)
<1>0. Len(row) \in Nat /\ live \subseteq 1..Len(row)
  BY DEF Inv, LogOK
<1>1. IsFiniteSet(live) /\ live \in SUBSET Int
  BY <1>0, IdSets
<1>2. CASE Len(row) = 0
  <2>1. live = {}
    BY <1>0, <1>2
  <2>. QED  BY <1>2, <2>1 DEF Frontier
<1>3. CASE Len(row) # 0
  <2>1. Len(row) \in live
    BY <1>0, <1>3 DEF Inv, Superseded
  <2>2. Max(live) \in live /\ Len(row) <= Max(live)
    BY <1>1, <2>1, MaxIsGreatest
  <2>3. Max(live) \in 1..Len(row)
    BY <1>0, <2>2
  <2>4. Max(live) = Len(row)
    BY <1>0, <2>2, <2>3
  <2>. QED  BY <2>1, <2>4 DEF Frontier
<1>. QED
  BY <1>2, <1>3

-----------------------------------------------------------------------------
(* What the steps of a pass have in common.                                *)

\* A step of one pass that leaves the log alone.
LEMMA PassStep ==
  ASSUME Inv, NEW p \in Pruners, NEW st, PassOK(st), Goto(p, st),
         UNCHANGED <<row, live, aged, watermark>>
  PROVE  Inv'
<1>1. LogOK' /\ WatermarkCovers' /\ Superseded'
  BY DEF Inv, LogOK, WatermarkCovers, Superseded
<1>2. pass' \in [Pruners -> PassType]
  BY DEF Inv, Goto, PassOK
<1>3. \A r \in Pruners : PassOK(pass'[r])
  BY DEF Inv, Goto
<1>4. \A r \in Pruners : PassOK(pass[r])'
  BY <1>3, ZenonT(60) DEF PassOK, PassBounds, SeenIsNewest, BatchIsWitnessed, Witness, RoomInBatch
<1>. QED
  BY <1>1, <1>2, <1>4 DEF Inv

\* The end of a pass.
LEMMA IdlePass == ASSUME Inv PROVE PassOK(Idle)
<1>1. Idle \in PassType
  BY DEF Idle, PassType, None
<1>2. Cardinality({}) = 0
  BY FS_EmptySet
<1>3. Len(row) \in Nat /\ aged \in Nat /\ live \subseteq 1..Len(row) /\ 0 \in 0..(Attempts - 1)
  BY RetentionAssumption DEF Inv, LogOK
<1>4. PassBounds(Idle)
  BY <1>2, <1>3, RetentionAssumption DEF PassBounds, Idle, None
<1>5. SeenIsNewest(Idle)
  BY <1>3 DEF SeenIsNewest, Idle, None
<1>6. BatchIsWitnessed(Idle) /\ RoomInBatch(Idle)
  BY <1>2, RetentionAssumption DEF BatchIsWitnessed, RoomInBatch, Idle
<1>. QED
  BY <1>1, <1>4, <1>5, <1>6 DEF PassOK

\* The newest valid row of a key in an interval of the log.
LEMMA NewestInIsNewest ==
  ASSUME Inv, NEW q \in Quads, NEW a \in Nat, NEW b \in 0..Len(row),
         NEW n, n = NewestIn(q, a, b)
  PROVE  /\ n \in 0..b
         /\ n # None => n \in live /\ row[n].quad = q /\ row[n].reads # "malformed"
         /\ \A i \in live :
              a < i /\ i <= b /\ row[i].quad = q /\ row[i].reads # "malformed" => i <= n
<1> DEFINE rows == {i \in live : a < i /\ i <= b /\ row[i].quad = q /\ row[i].reads # "malformed"}
<1>0. Len(row) \in Nat /\ live \subseteq 1..Len(row)
  BY DEF Inv, LogOK
<1>1. rows \subseteq 1..Len(row)
  BY <1>0
<1>2. IsFiniteSet(rows) /\ rows \in SUBSET Int
  <2> HIDE DEF rows
  <2>. QED  BY <1>0, <1>1, IdSets
<1>3. CASE rows = {}
  <2>1. NewestIn(q, a, b) = 0
    BY <1>3 DEF NewestIn, None
  <2>. QED  BY <1>3, <2>1 DEF None
<1>4. CASE rows # {}
  <2>1. NewestIn(q, a, b) = Max(rows)
    BY <1>4 DEF NewestIn
  <2>2. Max(rows) \in rows /\ \A i \in rows : i <= Max(rows)
    <3> HIDE DEF rows
    <3>. QED  BY <1>2, <1>4, MaxIsGreatest
  <2>3. Max(rows) \in 0..b
    <3>1. Max(rows) \in live /\ Max(rows) <= b
      BY <2>2
    <3> HIDE DEF rows
    <3>2. Max(rows) \in 1..Len(row)
      BY <1>0, <3>1
    <3>. QED  BY <1>0, <3>1, <3>2
  <2>. QED  BY <2>1, <2>2, <2>3
<1>. QED
  BY <1>3, <1>4

\* Reading the log up to a later frontier leaves nothing unseen below it.
LEMMA ObservedPass ==
  ASSUME Inv, NEW st, PassOK(st)
  PROVE  LET ob == Observed(st)
         IN /\ ob \in PassType /\ PassBounds(ob) /\ SeenIsNewest(ob)
            /\ ob = [st EXCEPT !.seen = ob.seen, !.frontier = st.upper]
<1> DEFINE N(q) == NewestIn(q, st.frontier, st.upper)
           S(q) == Max({st.seen[q], N(q)})
           seen == [q \in Quads |-> S(q)]
           ob == [st EXCEPT !.seen = seen, !.frontier = st.upper]
<1>1. /\ st \in PassType /\ st.frontier \in 0..Len(row) /\ st.upper \in 0..Len(row)
      /\ st.seen \in [Quads -> Nat] /\ Len(row) \in Nat /\ st.frontier <= st.upper
  BY DEF PassOK, PassBounds, PassType, SeenIsNewest, Inv, LogOK
<1>2. Observed(st) = ob
  BY DEF Observed
<1>3. ASSUME NEW q \in Quads
      PROVE  /\ S(q) \in 0..st.upper
             /\ S(q) # None => row[S(q)].quad = q /\ row[S(q)].reads # "malformed"
             /\ \A i \in live :
                  i <= st.upper /\ row[i].quad = q /\ row[i].reads # "malformed" => i <= S(q)
  <2>1. /\ N(q) \in 0..st.upper
        /\ N(q) # None => N(q) \in live /\ row[N(q)].quad = q /\ row[N(q)].reads # "malformed"
        /\ \A i \in live :
             st.frontier < i /\ i <= st.upper /\ row[i].quad = q /\ row[i].reads # "malformed" => i <= N(q)
    <3>1. st.frontier \in Nat
      BY <1>1
    <3>2. N(q) = NewestIn(q, st.frontier, st.upper)
      OBVIOUS
    <3> HIDE DEF N
    <3>. QED  BY <1>1, <3>1, <3>2, NewestInIsNewest
  <2>2. /\ st.seen[q] \in 0..st.upper
        /\ st.seen[q] # None => row[st.seen[q]].quad = q /\ row[st.seen[q]].reads # "malformed"
        /\ \A i \in live : i <= st.frontier /\ row[i].quad = q /\ row[i].reads # "malformed" => i <= st.seen[q]
    <3>1. st.seen[q] \in Nat /\ st.seen[q] <= st.frontier
      BY <1>1, <1>3 DEF PassOK, SeenIsNewest
    <3>2. st.seen[q] \in 0..st.upper
      BY <1>1, <3>1
    <3>. QED  BY <3>2, <1>3 DEF PassOK, SeenIsNewest
  <2> HIDE DEF N
  <2>3. S(q) \in {st.seen[q], N(q)} /\ st.seen[q] <= S(q) /\ N(q) <= S(q)
    BY <2>1, <2>2, MaxOfPair
  <2> HIDE DEF S
  <2>4. S(q) \in 0..st.upper
    BY <2>1, <2>2, <2>3
  <2>5. S(q) # None => row[S(q)].quad = q /\ row[S(q)].reads # "malformed"
    BY <2>1, <2>2, <2>3
  <2>6. ASSUME NEW i \in live, i <= st.upper, row[i].quad = q, row[i].reads # "malformed"
        PROVE  i <= S(q)
    <3>1. i \in Nat
      BY DEF Inv, LogOK
    <3>2. CASE i <= st.frontier
      <4>1. i <= st.seen[q]
        BY <2>2, <2>6, <3>2
      <4>. QED  BY <4>1, <2>1, <2>2, <2>3, <2>4, <3>1
    <3>3. CASE ~(i <= st.frontier)
      <4>1. i <= N(q)
        BY <2>1, <2>6, <3>1, <3>3, <1>1
      <4>. QED  BY <4>1, <2>1, <2>2, <2>3, <2>4, <3>1
    <3>. QED  BY <3>2, <3>3
  <2>. QED  BY <2>4, <2>5, <2>6
<1> HIDE DEF N, S
<1>4. seen \in [Quads -> 0..st.upper] /\ \A q \in Quads : seen[q] = S(q)
  BY <1>3
<1> HIDE DEF seen
<1>5. /\ ob \in PassType
      /\ ob.seen = seen /\ ob.frontier = st.upper /\ ob.upper = st.upper
      /\ ob.found = st.found /\ ob.horizon = st.horizon /\ ob.cursor = st.cursor
      /\ ob.pending = st.pending /\ ob.ids = st.ids /\ ob.witnesses = st.witnesses
      /\ ob.tries = st.tries
  <2>1. seen \in [Quads -> Nat] /\ st.upper \in Nat
    BY <1>1, <1>4
  <2>. QED  BY <1>1, <2>1 DEF PassType
<1>6. PassBounds(ob)
  <2>1. seen \in [Quads -> 0..Len(row)]
    BY <1>1, <1>4
  <2>. QED  BY <1>1, <1>5, <2>1 DEF PassBounds, PassOK
<1>7. SeenIsNewest(ob)
  <2>1. \A q \in Quads : seen[q] <= st.upper
    BY <1>1, <1>4
  <2>. QED  BY <1>1, <1>3, <1>4, <1>5, <2>1 DEF SeenIsNewest
<1>. QED
  BY <1>2, <1>5, <1>6, <1>7

-----------------------------------------------------------------------------
(* The steps.                                                              *)

\* An appended row is newer than every frontier, so no pass has missed it.
LEMMA AppendStep ==
  ASSUME Inv, NEW q \in Quads, NEW r \in Reads, AppendOverlay(q, r) PROVE Inv'
<1> DEFINE new == [quad |-> q, reads |-> r]
           n == Len(row) + 1
<1>1. /\ row \in Seq([quad : Quads, reads : Reads]) /\ Len(row) \in Nat /\ live \subseteq 1..Len(row)
      /\ aged \in 0..Len(row) /\ watermark \in 0..aged
  BY DEF Inv, LogOK
<1>2. new \in [quad : Quads, reads : Reads]
  OBVIOUS
<1> HIDE DEF new
<1>3. /\ row' = Append(row, new) /\ Len(row') = n
      /\ \A i \in 1..Len(row) : row'[i] = row[i]
      /\ row' \in Seq([quad : Quads, reads : Reads])
  BY <1>1, <1>2 DEF AppendOverlay, new
<1>4. live' = live \union {n} /\ Len(row') <= MaxId
  BY <1>1, <1>3, RetentionAssumption DEF AppendOverlay
<1>5. LogOK'
  <2>1. Len(row') = Len(row) + 1
    BY <1>3
  <2>2. live' \subseteq 1..Len(row')
    <3>1. Len(row) \in Nat /\ live \subseteq 1..Len(row)
      BY <1>1
    <3>2. \A i \in live : i \in 1..(Len(row) + 1)
      BY <3>1
    <3>3. n \in 1..(Len(row) + 1)
      BY <3>1
    <3>. QED
      BY <1>4, <2>1, <3>2, <3>3
  <2>3. aged' = aged /\ watermark' = watermark
    BY DEF AppendOverlay
  <2>4. aged' \in 0..Len(row') /\ watermark' \in 0..aged'
    BY <1>1, <2>1, <2>3
  <2>. QED
    BY <1>3, <1>4, <2>2, <2>4 DEF LogOK
<1>6. WatermarkCovers' /\ Superseded'
  BY <1>1, <1>3, <1>4 DEF AppendOverlay, Inv, WatermarkCovers, Superseded
<1>7. ASSUME NEW p \in Pruners PROVE PassOK(pass[p])'
  <2> DEFINE st == pass[p]
  <2>1. st' = st /\ PassOK(st)
    BY DEF AppendOverlay, Inv
  <2> HIDE DEF st
  <2>2. st \in PassType /\ PassBounds(st)'
    <3>1. 0..Len(row) \subseteq 0..Len(row') /\ 1..Len(row) \subseteq 1..Len(row') /\ aged' = aged
      BY <1>1, <1>3 DEF AppendOverlay
    <3>2. [Quads -> 0..Len(row)] \subseteq [Quads -> 0..Len(row')]
      BY <3>1
    <3>. QED
      BY <2>1, <3>1, <3>2 DEF PassOK, PassBounds
  <2>3. SeenIsNewest(st)'
    <3>1. st.frontier \in 0..Len(row) /\ st.seen \in [Quads -> 0..Len(row)]
      BY <2>1 DEF PassOK, PassBounds
    <3>2. \A i \in live' : i <= st.frontier => i \in live /\ row'[i] = row[i]
      BY <1>1, <1>3, <1>4, <3>1
    <3>3. \A k \in Quads : st.seen[k] # None => row'[st.seen[k]] = row[st.seen[k]]
      BY <1>1, <1>3, <3>1 DEF None
    <3>. QED
      BY <2>1, <3>2, <3>3 DEF PassOK, SeenIsNewest
  <2>4. BatchIsWitnessed(st)' /\ RoomInBatch(st)'
    <3>1. /\ st.seen \in [Quads -> 0..Len(row)] /\ st.pending \subseteq 1..aged
          /\ st.ids \subseteq st.pending
      BY <2>1 DEF PassOK, PassBounds
    <3>2. ASSUME NEW i \in st.ids PROVE row'[i] = row[i] /\ row[i].quad \in Quads
      <4>1. i \in 1..aged
        BY <3>1
      <4>2. i \in 1..Len(row)
        BY <1>1, <4>1
      <4>3. row[i] \in [quad : Quads, reads : Reads]
        BY <1>1, <4>2, SeqElement
      <4>. QED  BY <1>3, <4>2, <4>3
    <3>3. \A k \in Quads : st.seen[k] # None => row'[st.seen[k]] = row[st.seen[k]]
      BY <1>1, <1>3, <3>1 DEF None
    <3>4. \A i \in st.ids : Witness(st, i)' = Witness(st, i)
      BY <2>1, <3>2, <3>3 DEF Witness
    <3>. QED
      BY <2>1, <3>4 DEF PassOK, BatchIsWitnessed, RoomInBatch
  <2>. QED
    BY <2>1, <2>2, <2>3, <2>4 DEF PassOK, st
<1>. QED
  BY <1>5, <1>6, <1>7 DEF Inv, AppendOverlay

LEMMA AgeStep == ASSUME Inv, Age PROVE Inv'
<1>1. aged \in Nat /\ Len(row) \in Nat /\ aged' = aged + 1 /\ aged' \in 0..Len(row)
  BY DEF Age, Inv, LogOK
<1>2. LogOK' /\ WatermarkCovers' /\ Superseded'
  BY <1>1 DEF Age, Inv, LogOK, WatermarkCovers, Superseded
<1>3. ASSUME NEW p \in Pruners PROVE PassOK(pass[p])'
  <2>1. PassBounds(pass[p])'
    BY <1>1 DEF Age, Inv, PassOK, PassBounds
  <2>. QED
    BY <2>1 DEF Age, Inv, PassOK, SeenIsNewest, BatchIsWitnessed, Witness, RoomInBatch
<1>. QED
  BY <1>2, <1>3 DEF Inv, Age

LEMMA AbortStep == ASSUME Inv, NEW p \in Pruners, Abort(p) PROVE Inv'
BY IdlePass, PassStep DEF Abort

LEMMA BeginStep == ASSUME Inv, NEW p \in Pruners, Begin(p) PROVE Inv'
<1> DEFINE st == [Idle EXCEPT !.pc = "observe", !.upper = Frontier, !.horizon = aged]
<1>1. Frontier = Len(row) /\ Len(row) \in Nat /\ aged \in Nat /\ PassOK(Idle)
  BY FrontierIsEnd, IdlePass DEF Inv, LogOK
<1>2. st \in PassType /\ PassBounds(st)
  <2>1. Frontier \in 0..Len(row) /\ aged \in 0..aged /\ Frontier \in Nat
    BY <1>1
  <2> HIDE DEF Frontier
  <2>2. st \in PassType
    BY <1>1, <2>1 DEF PassOK, PassType
  <2>. QED
    BY <1>1, <2>1, <2>2 DEF PassOK, PassBounds, Idle
<1>3. SeenIsNewest(st)
  BY <1>1 DEF PassOK, PassType, SeenIsNewest, Idle
<1>4. BatchIsWitnessed(st) /\ RoomInBatch(st)
  BY <1>1 DEF PassOK, PassType, BatchIsWitnessed, RoomInBatch, Idle
<1>. QED
  BY <1>2, <1>3, <1>4, PassStep DEF Begin, PassOK

LEMMA ObserveStep == ASSUME Inv, NEW p \in Pruners, Observe(p) PROVE Inv'
<1> DEFINE ob == Observed(pass[p])
           st == [ob EXCEPT !.pc = "scan", !.found = pass[p].upper]
<1>1. PassOK(pass[p]) /\ pass[p].pc = "observe"
  BY DEF Inv, Observe
<1>2. /\ ob \in PassType /\ PassBounds(ob) /\ SeenIsNewest(ob)
      /\ ob = [pass[p] EXCEPT !.seen = ob.seen, !.frontier = pass[p].upper]
  BY <1>1, ObservedPass
<1>3. Goto(p, st)
  BY DEF Observe
<1>4. pass[p].upper \in 0..Len(row) /\ Len(row) \in Nat /\ pass[p] \in PassType
  BY <1>1 DEF PassOK, PassBounds, Inv, LogOK
<1>5. ob.pending = pass[p].pending
  BY <1>2, <1>4 DEF PassType
<1> HIDE DEF ob
<1>6. st \in PassType /\ PassBounds(st) /\ SeenIsNewest(st)
  <2>1. st \in PassType
    BY <1>2, <1>4 DEF PassType
  <2>2. PassBounds(st)
    BY <1>2, <1>4 DEF PassBounds, PassType
  <2>3. SeenIsNewest(st)
    BY <1>2, <1>4 DEF SeenIsNewest, PassType
  <2>. QED  BY <2>1, <2>2, <2>3
<1>7. BatchIsWitnessed(st) /\ RoomInBatch(st)
  BY <1>1, <1>2, <1>4, <1>5 DEF BatchIsWitnessed, RoomInBatch, PassType, PassOK
<1>. QED
  BY <1>3, <1>6, <1>7, PassStep DEF Observe, PassOK

LEMMA RefreshFrontierStep == ASSUME Inv, NEW p \in Pruners, RefreshFrontier(p) PROVE Inv'
<1> DEFINE m == Max({Frontier, pass[p].frontier})
           st == [pass[p] EXCEPT !.pc = "tail", !.upper = m]
<1>1. PassOK(pass[p]) /\ pass[p].pc = "refresh" /\ Goto(p, st)
  BY DEF Inv, RefreshFrontier
<1>2. pass[p].frontier \in 0..Len(row) /\ Frontier = Len(row) /\ Len(row) \in Nat
  BY <1>1, FrontierIsEnd DEF PassOK, PassBounds, Inv, LogOK
<1>3. m = Len(row)
  BY <1>2, MaxOfPair
<1> HIDE DEF m
<1>4. st \in PassType /\ PassBounds(st)
  <2>1. m \in 0..Len(row) /\ m \in Nat
    BY <1>2, <1>3
  <2>2. st \in PassType
    BY <1>1, <2>1 DEF PassOK, PassType
  <2>. QED
    BY <1>1, <2>1, <2>2 DEF PassOK, PassBounds, PassType
<1>5. SeenIsNewest(st) /\ BatchIsWitnessed(st) /\ RoomInBatch(st)
  BY <1>1, <1>2, <1>3 DEF PassOK, PassType, SeenIsNewest, BatchIsWitnessed, RoomInBatch
<1>. QED
  BY <1>1, <1>4, <1>5, PassStep DEF RefreshFrontier, PassOK

\* A row at most as old as the horizon becomes a candidate of a batch with room.
LEMMA ScanStep == ASSUME Inv, NEW p \in Pruners, Scan(p) PROVE Inv'
<1> DEFINE st == pass[p]
<1>1. PassOK(st) /\ st.pc = "scan" /\ UNCHANGED <<row, live, aged, watermark>>
  BY DEF Inv, Scan
<1>2. Len(row) \in Nat /\ live \subseteq 1..Len(row) /\ aged \in 0..Len(row)
  BY DEF Inv, LogOK
<1>3. CASE OldRows(st) = {}
  <2> DEFINE nx == [st EXCEPT !.pc = "refresh", !.tries = 0, !.last = TRUE]
  <2>1. Goto(p, Idle) \/ Goto(p, nx)
    BY <1>3 DEF Scan
  <2>2. 0 \in 0..(Attempts - 1)
    BY RetentionAssumption
  <2>3. nx \in PassType /\ PassBounds(nx)
    BY <1>1, <2>2 DEF PassOK, PassType, PassBounds
  <2>4. SeenIsNewest(nx) /\ BatchIsWitnessed(nx) /\ RoomInBatch(nx)
    BY <1>1 DEF PassOK, PassType, SeenIsNewest, BatchIsWitnessed, RoomInBatch
  <2>5. PassOK(nx) /\ PassOK(Idle)
    BY <2>3, <2>4, IdlePass DEF PassOK
  <2>. QED
    BY <1>1, <2>1, <2>5, PassStep
<1>4. CASE OldRows(st) # {}
  <2> DEFINE i == Min(OldRows(st))
             some == IF Witness(st, i) = None THEN st.pending ELSE st.pending \union {i}
             pc == IF Cardinality(some) >= Batch THEN "refresh" ELSE "scan"
             nx == [st EXCEPT !.cursor = i, !.pending = some, !.tries = 0, !.pc = pc]
  <2>1. Goto(p, nx)
    BY <1>4 DEF Scan
  <2>2. i \in OldRows(st)
    <3>1. OldRows(st) \subseteq 1..Len(row)
      BY <1>2 DEF OldRows
    <3>2. OldRows(st) \in SUBSET Int /\ IsFiniteSet(OldRows(st))
      BY <1>2, <3>1, IdSets
    <3>. QED  BY <1>4, <3>2, MinIsElement
  <2>3. i \in 1..Len(row) /\ i \in 1..aged /\ st.horizon \in 0..aged
    <3>1. i \in live /\ i <= st.horizon /\ st.horizon \in 0..aged
      BY <1>1, <2>2 DEF OldRows, PassOK, PassBounds
    <3>2. i \in 1..Len(row)
      BY <1>2, <3>1
    <3>. QED  BY <1>2, <3>1, <3>2
  <2>4. IsFiniteSet(st.pending) /\ st.pending \subseteq 1..aged /\ Cardinality(st.pending) < Batch
    <3>1. st.pending \subseteq 1..aged /\ Cardinality(st.pending) < Batch /\ aged \in Nat
      BY <1>1, <1>2 DEF PassOK, PassBounds, RoomInBatch
    <3>. QED  BY <3>1, IdSets
  <2> HIDE DEF i
  <2>5. some \subseteq 1..aged /\ st.pending \subseteq some /\ IsFiniteSet(some)
    <3>1. some \subseteq 1..aged /\ st.pending \subseteq some
      BY <2>3, <2>4
    <3> HIDE DEF some
    <3>2. aged \in Nat
      BY <1>2
    <3>. QED  BY <3>1, <3>2, IdSets
  <2>6. Cardinality(some) <= Batch
    <3>1. Cardinality(st.pending) \in Nat
      BY <2>4, FS_CardinalityType
    <3>2. CASE some = st.pending
      BY <2>4, <3>1, <3>2, RetentionAssumption
    <3>3. CASE some = st.pending \union {i} /\ i \notin st.pending
      <4>1. Cardinality(st.pending \union {i}) = Cardinality(st.pending) + 1
        BY <2>4, <3>3, FS_AddElement
      <4>. QED
        BY <2>4, <3>1, <3>3, <4>1, RetentionAssumption
    <3>4. CASE some = st.pending \union {i} /\ i \in st.pending
      <4>1. some = st.pending
        BY <3>4
      <4>. QED  BY <3>2, <4>1
    <3>. QED  BY <3>2, <3>3, <3>4
  <2>7. Cardinality(some) \in Nat
    BY <2>5, FS_CardinalityType
  <2> HIDE DEF some
  <2>8. pc \in {"refresh", "scan"} /\ (pc = "scan" => Cardinality(some) < Batch)
    BY <2>7, RetentionAssumption
  <2> HIDE DEF pc
  <2>9. i \in Nat /\ i \in 0..Len(row) /\ 0 \in 0..(Attempts - 1) /\ some \in SUBSET Nat
    BY <2>3, <2>5, <1>2, RetentionAssumption
  <2>10. nx \in PassType
    BY <1>1, <2>8, <2>9 DEF PassOK, PassType
  <2>11. /\ nx.pc = pc /\ nx.pending = some /\ nx.cursor = i /\ nx.tries = 0
         /\ nx.frontier = st.frontier /\ nx.upper = st.upper /\ nx.seen = st.seen
         /\ nx.found = st.found /\ nx.horizon = st.horizon /\ nx.ids = st.ids
         /\ nx.witnesses = st.witnesses
    BY <1>1 DEF PassOK, PassType
  <2> HIDE DEF nx
  <2>12. PassBounds(nx)
    <3>1. PassBounds(st)
      BY <1>1 DEF PassOK
    <3>2. nx.ids \subseteq nx.pending
      BY <2>5, <2>11, <3>1 DEF PassBounds
    <3>. QED  BY <2>5, <2>6, <2>9, <2>11, <3>1, <3>2 DEF PassBounds
  <2>13. SeenIsNewest(nx) /\ BatchIsWitnessed(nx) /\ RoomInBatch(nx)
    BY <1>1, <2>8, <2>11 DEF PassOK, SeenIsNewest, BatchIsWitnessed, RoomInBatch
  <2>. QED
    BY <1>1, <2>1, <2>10, <2>12, <2>13, PassStep DEF PassOK
<1>. QED
  BY <1>3, <1>4

\* The end of a batch.
LEMMA FlushedPass ==
  ASSUME Inv, NEW st, st \in PassType, PassBounds(st), SeenIsNewest(st)
  PROVE  PassOK(Flushed(st))
<1> DEFINE nx == [st EXCEPT !.pc = "scan", !.pending = {}, !.ids = {}, !.witnesses = {}]
<1>1. Flushed(st) = Idle \/ Flushed(st) = nx
  BY DEF Flushed
<1>2. nx \in PassType
  BY DEF PassType
<1>3. Cardinality({}) = 0
  BY FS_EmptySet
<1>4. PassBounds(nx) /\ RoomInBatch(nx)
  BY <1>3, RetentionAssumption DEF PassType, PassBounds, RoomInBatch
<1>5. SeenIsNewest(nx) /\ BatchIsWitnessed(nx)
  BY DEF PassType, SeenIsNewest, BatchIsWitnessed
<1>. QED
  BY <1>1, <1>2, <1>4, <1>5, IdlePass DEF PassOK

\* The witnesses of a batch are rows of the log.
LEMMA WitnessIsRow ==
  ASSUME Inv, NEW st, st \in PassType, PassBounds(st), NEW i \in st.pending, Witness(st, i) # None
  PROVE  /\ row[i].quad \in Quads /\ Witness(st, i) = st.seen[row[i].quad]
         /\ Witness(st, i) \in 1..Len(row) /\ i < Witness(st, i)
         /\ row[Witness(st, i)].reads = "supported"
<1>1. row \in Seq([quad : Quads, reads : Reads]) /\ Len(row) \in Nat /\ aged \in 0..Len(row)
  BY DEF Inv, LogOK
<1>2. i \in 1..aged
  BY DEF PassBounds
<1>3. i \in 1..Len(row)
  BY <1>1, <1>2
<1>4. row[i] \in [quad : Quads, reads : Reads]
  BY <1>1, <1>3, SeqElement
<1>5. row[i].quad \in Quads
  BY <1>4
<1>6. st.seen[row[i].quad] \in 0..Len(row)
  BY <1>5 DEF PassBounds
<1>7. Witness(st, i) = st.seen[row[i].quad] /\ i < Witness(st, i) /\ row[Witness(st, i)].reads = "supported"
  BY DEF Witness, None
<1>. QED
  BY <1>1, <1>5, <1>6, <1>7 DEF None

LEMMA RefreshTailStep == ASSUME Inv, NEW p \in Pruners, RefreshTail(p) PROVE Inv'
<1> DEFINE ob == Observed(pass[p])
           ids == {i \in ob.pending : Witness(ob, i) # None}
           wit == {Witness(ob, i) : i \in ids}
           nx == [ob EXCEPT !.pc = "delete", !.ids = ids, !.witnesses = wit]
<1>1. PassOK(pass[p]) /\ UNCHANGED <<row, live, aged, watermark>>
  BY DEF Inv, RefreshTail
<1>2. ob \in PassType /\ PassBounds(ob) /\ SeenIsNewest(ob)
  BY <1>1, ObservedPass
<1>3. Goto(p, Flushed(ob)) \/ Goto(p, nx)
  BY DEF RefreshTail
<1>4. PassOK(Flushed(ob))
  BY <1>2, FlushedPass
<1> HIDE DEF ob
<1>5. wit \subseteq 1..Len(row) /\ ids \subseteq ob.pending
  BY <1>2, WitnessIsRow
<1>6. \A i \in ids : Witness(ob, i) # None /\ Witness(ob, i) \in wit
  OBVIOUS
<1> HIDE DEF ids, wit
<1>7. nx \in PassType
  <2>1. ids \in SUBSET Nat /\ wit \in SUBSET Nat
    BY <1>2, <1>5 DEF PassType
  <2>. QED  BY <1>2, <2>1 DEF PassType
<1>8. /\ nx.pc = "delete" /\ nx.ids = ids /\ nx.witnesses = wit
      /\ nx.frontier = ob.frontier /\ nx.upper = ob.upper /\ nx.seen = ob.seen
      /\ nx.found = ob.found /\ nx.horizon = ob.horizon /\ nx.cursor = ob.cursor
      /\ nx.pending = ob.pending /\ nx.tries = ob.tries
  BY <1>2 DEF PassType
<1> HIDE DEF nx
<1>9. PassBounds(nx) /\ SeenIsNewest(nx) /\ RoomInBatch(nx)
  BY <1>2, <1>5, <1>8 DEF PassBounds, SeenIsNewest, RoomInBatch
<1>10. BatchIsWitnessed(nx)
  BY <1>6, <1>8 DEF BatchIsWitnessed, Witness
<1>. QED
  BY <1>1, <1>3, <1>4, <1>7, <1>9, <1>10, PassStep DEF PassOK

\* What a delete takes is superseded by the newest live row of its key, which
\* this version can read: nothing was appended since the pass looked.
LEMMA DeletedIsSuperseded ==
  ASSUME Inv, NEW p \in Pruners, pass[p].pc = "delete", Frontier <= pass[p].frontier,
         pass[p].witnesses \subseteq live, NEW i \in pass[p].ids
  PROVE  \E w \in live \ pass[p].ids :
           /\ i < w /\ row[w].quad = row[i].quad /\ row[w].reads = "supported"
           /\ \A j \in live : row[j].quad = row[i].quad /\ row[j].reads # "malformed" => j <= w
<1> DEFINE st == pass[p]
<1>1. /\ st \in PassType /\ PassBounds(st) /\ SeenIsNewest(st) /\ BatchIsWitnessed(st)
      /\ st.pc = "delete" /\ Frontier = Len(row)
  BY FrontierIsEnd DEF Inv, PassOK
<1> HIDE DEF st
<1>2. ASSUME NEW j \in st.ids
      PROVE  /\ Witness(st, j) \in st.witnesses /\ row[j].quad \in Quads
             /\ Witness(st, j) = st.seen[row[j].quad] /\ j < Witness(st, j)
             /\ row[Witness(st, j)].reads = "supported" /\ Witness(st, j) \in 1..Len(row) /\ j \in Nat
  <2>1. Witness(st, j) # None /\ Witness(st, j) \in st.witnesses
    BY <1>1 DEF BatchIsWitnessed
  <2>2. j \in st.pending /\ j \in Nat
    BY <1>1 DEF PassBounds, PassType
  <2>. QED  BY <1>1, <2>1, <2>2, WitnessIsRow
<1>3. PICK w : w = Witness(st, i)
  OBVIOUS
<1>4. /\ w \in live /\ i < w /\ row[w].reads = "supported" /\ w \in 1..Len(row)
      /\ row[i].quad \in Quads /\ w = st.seen[row[i].quad]
  BY <1>2, <1>3 DEF st
<1>5. row[w].quad = row[i].quad
  BY <1>1, <1>4 DEF SeenIsNewest, None
<1>6. w \notin st.ids
  <2> SUFFICES ASSUME w \in st.ids PROVE FALSE
    OBVIOUS
  <2>1. w < Witness(st, w) /\ Witness(st, w) = st.seen[row[w].quad]
    BY <1>2
  <2>. QED  BY <1>4, <1>5, <2>1
<1>7. ASSUME NEW j \in live, row[j].quad = row[i].quad, row[j].reads # "malformed"
      PROVE  j <= w
  <2>1. j \in 1..Len(row) /\ Len(row) <= st.frontier /\ st.frontier \in Nat
    BY <1>1 DEF Inv, LogOK, PassBounds, PassType, st
  <2>2. j <= st.frontier
    BY <2>1
  <2>. QED
    BY <1>1, <1>4, <1>7, <2>2 DEF SeenIsNewest
<1>. QED
  BY <1>4, <1>5, <1>6, <1>7 DEF st

LEMMA DeleteStep == ASSUME Inv, NEW p \in Pruners, Delete(p) PROVE Inv'
<1> DEFINE st == pass[p]
<1>1. PassOK(st) /\ st.pc = "delete" /\ UNCHANGED <<row, aged>>
  BY DEF Inv, Delete
<1>2. Len(row) \in Nat /\ live \subseteq 1..Len(row) /\ aged \in 0..Len(row) /\ watermark \in 0..aged
  BY DEF Inv, LogOK
<1>3. CASE /\ Goto(p, IF st.tries + 1 < Attempts
                      THEN [st EXCEPT !.pc = "refresh", !.tries = @ + 1] ELSE Idle)
           /\ UNCHANGED <<live, watermark>>
  <2> DEFINE nx == [st EXCEPT !.pc = "refresh", !.tries = @ + 1]
  <2>1. CASE st.tries + 1 < Attempts
    <3>1. Goto(p, nx)
      BY <1>3, <2>1
    <3>2. st.tries + 1 \in Nat /\ st.tries + 1 \in 0..(Attempts - 1)
      BY <1>1, <2>1, RetentionAssumption DEF PassOK, PassBounds
    <3>3. nx \in PassType
      BY <1>1, <3>2 DEF PassOK, PassType
    <3>4. PassBounds(nx) /\ SeenIsNewest(nx) /\ BatchIsWitnessed(nx) /\ RoomInBatch(nx)
      BY <1>1, <3>2 DEF PassOK, PassType, PassBounds, SeenIsNewest, BatchIsWitnessed, RoomInBatch
    <3>. QED
      BY <1>1, <1>3, <3>1, <3>3, <3>4, PassStep DEF PassOK
  <2>2. CASE ~(st.tries + 1 < Attempts)
    BY <1>1, <1>3, <2>2, IdlePass, PassStep
  <2>. QED  BY <2>1, <2>2
<1>4. CASE Frontier <= st.frontier /\ ~(st.witnesses \subseteq live)
           /\ live' = live /\ watermark' = Advanced(watermark, {}) /\ Goto(p, Idle)
  <2>1. Advanced(watermark, {}) = watermark
    <3>1. {} \union {watermark} = {watermark, watermark}
      OBVIOUS
    <3>2. Max({watermark, watermark}) = watermark
      BY <1>2, MaxOfPair
    <3>. QED  BY <3>1, <3>2 DEF Advanced
  <2>. QED
    BY <1>1, <1>4, <2>1, IdlePass, PassStep
<1>5. CASE /\ Frontier <= st.frontier /\ st.witnesses \subseteq live
           /\ live' = live \ (st.ids \intersect live)
           /\ watermark' = Advanced(watermark, st.ids \intersect live) /\ Goto(p, Flushed(st))
  <2> DEFINE gone == st.ids \intersect live
  <2>1. gone \subseteq 1..aged /\ gone \subseteq live /\ gone \subseteq st.ids
    BY <1>1 DEF PassOK, PassBounds
  <2> HIDE DEF gone
  <2>2. /\ watermark' \in 0..aged /\ watermark <= watermark'
        /\ \A i \in gone : i <= watermark'
    <3> DEFINE M == gone \union {watermark}
    <3>1. IsFiniteSet(gone) /\ M \in SUBSET Int /\ M # {} /\ \A x \in M : x \in 0..aged
      <4>1. aged \in Nat
        BY <1>2
      <4>2. IsFiniteSet(gone)
        BY <2>1, <4>1, IdSets
      <4>3. \A x \in M : x \in 0..aged
        BY <1>2, <2>1, <4>1
      <4>. QED  BY <4>1, <4>2, <4>3
    <3>2. IsFiniteSet(M)
      BY <3>1, FS_AddElement
    <3>3. watermark' = Max(M)
      BY <1>5 DEF Advanced, gone
    <3>4. watermark \in M /\ \A i \in gone : i \in M
      OBVIOUS
    <3> HIDE DEF M
    <3>5. Max(M) \in M /\ \A y \in M : y <= Max(M)
      BY <3>1, <3>2, MaxIsGreatest
    <3>. QED  BY <3>1, <3>3, <3>4, <3>5
  <2>3. live' = live \ gone /\ live' \subseteq live
    BY <1>5 DEF gone
  <2>4. LogOK'
    BY <1>1, <1>2, <2>2, <2>3 DEF Inv, LogOK
  <2>5. WatermarkCovers'
    <3> SUFFICES ASSUME NEW i \in 1..Len(row), i \notin live' PROVE i <= watermark'
      BY <1>1 DEF WatermarkCovers
    <3>1. CASE i \in gone
      BY <2>2, <3>1
    <3>2. CASE i \notin live
      <4>1. i <= watermark
        BY <3>2 DEF Inv, WatermarkCovers
      <4>. QED  BY <1>2, <2>2, <4>1
    <3>. QED  BY <2>3, <3>1, <3>2
  <2>6. \A i \in gone : \E w \in live' :
          i < w /\ row[w].quad = row[i].quad /\ row[w].reads = "supported"
    <3> SUFFICES ASSUME NEW i \in gone
                 PROVE  \E w \in live' : i < w /\ row[w].quad = row[i].quad /\ row[w].reads = "supported"
      OBVIOUS
    <3>1. i \in st.ids
      BY <2>1
    <3>2. \E w \in live \ st.ids : i < w /\ row[w].quad = row[i].quad /\ row[w].reads = "supported"
      BY <1>1, <1>5, <3>1, DeletedIsSuperseded
    <3>3. live \ st.ids \subseteq live'
      BY <2>1, <2>3
    <3>. QED  BY <3>2, <3>3
  <2>7. Superseded'
    <3> SUFFICES ASSUME NEW i \in 1..Len(row), i \notin live'
                 PROVE  \E j \in live' : i < j /\ row[j].quad = row[i].quad /\ row[j].reads = "supported"
      BY <1>1 DEF Superseded
    <3>1. CASE i \in gone
      BY <2>6, <3>1
    <3>2. CASE i \notin live
      <4>1. PICK j \in live : i < j /\ row[j].quad = row[i].quad /\ row[j].reads = "supported"
        BY <3>2 DEF Inv, Superseded
      <4>2. CASE j \in live'
        BY <4>1, <4>2
      <4>3. CASE j \in gone
        <5>1. PICK w \in live' : j < w /\ row[w].quad = row[j].quad /\ row[w].reads = "supported"
          BY <2>6, <4>3
        <5>2. i \in Int /\ j \in Int /\ w \in Int
          BY <1>2, <2>3
        <5>3. i < w
          BY <4>1, <5>1, <5>2
        <5>. QED  BY <4>1, <5>1, <5>3
      <4>. QED  BY <2>3, <4>2, <4>3
    <3>. QED  BY <2>3, <3>1, <3>2
  <2>8. PassOK(Flushed(st))
    BY <1>1, FlushedPass DEF PassOK
  <2>9. pass' \in [Pruners -> PassType] /\ \A r \in Pruners : PassOK(pass'[r])
    BY <1>5, <2>8 DEF Inv, Goto, PassOK
  <2>10. \A r \in Pruners : PassOK(pass[r])'
    BY <1>1, <2>3, <2>9, ZenonT(60) DEF PassOK, PassBounds, SeenIsNewest, BatchIsWitnessed, Witness, RoomInBatch
  <2>. QED
    BY <2>4, <2>5, <2>7, <2>9, <2>10 DEF Inv
<1>. QED
  BY <1>3, <1>4, <1>5 DEF Delete

-----------------------------------------------------------------------------
(* The theorems.                                                           *)

LEMMA InitInv == Init => Inv
<1> SUFFICES ASSUME Init PROVE Inv
  OBVIOUS
<1>1. LogOK /\ WatermarkCovers /\ Superseded
  BY RetentionAssumption DEF Init, LogOK, WatermarkCovers, Superseded
<1>2. Idle \in PassType
  BY DEF Idle, PassType, None
<1>3. Cardinality({}) = 0 /\ 0 \in 0..(Attempts - 1)
  BY FS_EmptySet, RetentionAssumption
<1>4. PassBounds(Idle)
  BY <1>3, RetentionAssumption DEF PassBounds, Idle, None, Init
<1>5. SeenIsNewest(Idle) /\ BatchIsWitnessed(Idle) /\ RoomInBatch(Idle)
  BY <1>3, RetentionAssumption DEF SeenIsNewest, BatchIsWitnessed, RoomInBatch, Idle, None, Init
<1>. QED
  BY <1>1, <1>2, <1>4, <1>5 DEF Inv, Init, PassOK

LEMMA NextInv == Inv /\ [Next]_vars => Inv'
<1> SUFFICES ASSUME Inv, [Next]_vars PROVE Inv'
  OBVIOUS
<1>1. ASSUME NEW p \in Pruners, Begin(p) \/ Observe(p) \/ Scan(p) PROVE Inv'
  BY <1>1, BeginStep, ObserveStep, ScanStep
<1>2. ASSUME NEW p \in Pruners, RefreshFrontier(p) \/ RefreshTail(p) \/ Delete(p) \/ Abort(p) PROVE Inv'
  BY <1>2, RefreshFrontierStep, RefreshTailStep, DeleteStep, AbortStep
<1>3. CASE UNCHANGED vars
  BY <1>3, ZenonT(60) DEF vars, Inv, LogOK, WatermarkCovers, Superseded, PassOK, PassBounds, SeenIsNewest,
              BatchIsWitnessed, Witness, RoomInBatch
<1>. QED
  BY <1>1, <1>2, <1>3, AppendStep, AgeStep DEF Next

\* The strengthened invariant holds in every reachable state.
THEOREM Invariance == Spec => []Inv
BY InitInv, NextInv, PTL DEF Spec

\* However many passes delete at once and whatever is appended meanwhile, a
\* replay folds every overlay key to the row of the full history, and the
\* watermark covers every deleted row (prune_overlays).
THEOREM PruningIsSound == Spec => []PruneIsSound
<1>1. Inv => PruneIsSound
  <2> SUFFICES ASSUME Inv PROVE TypeOK /\ FoldUnchanged
    BY DEF Inv, PruneIsSound
  <2>1. TypeOK
    BY DEF Inv, LogOK, TypeOK, PassOK, PassBounds, PassType
  <2>2. ASSUME NEW q \in Quads
        PROVE  LET readable == {i \in 1..Len(row) : row[i].quad = q /\ row[i].reads = "supported"}
               IN readable # {} => Max(readable) \in live
    <3> DEFINE readable == {i \in 1..Len(row) : row[i].quad = q /\ row[i].reads = "supported"}
    <3> SUFFICES ASSUME readable # {}, Max(readable) \notin live PROVE FALSE
      OBVIOUS
    <3>1. Len(row) \in Nat /\ live \subseteq 1..Len(row)
      BY DEF Inv, LogOK
    <3>2. readable \subseteq 1..Len(row)
      OBVIOUS
    <3>3. Max(readable) \in readable /\ \A y \in readable : y <= Max(readable)
      <4> HIDE DEF readable
      <4>1. IsFiniteSet(readable) /\ readable \in SUBSET Int
        BY <3>1, <3>2, IdSets
      <4>. QED  BY <4>1, MaxIsGreatest
    <3>4. PICK m : m = Max(readable)
      OBVIOUS
    <3>5. m \in 1..Len(row) /\ m \notin live /\ row[m].quad = q
      BY <3>3, <3>4
    <3>6. PICK j \in live : m < j /\ row[j].quad = row[m].quad /\ row[j].reads = "supported"
      BY <3>5 DEF Inv, Superseded
    <3>7. j \in readable
      BY <3>1, <3>5, <3>6
    <3>8. j <= m /\ j \in Int /\ m \in Int
      BY <3>1, <3>3, <3>4, <3>5, <3>7
    <3>. QED  BY <3>6, <3>8
  <2>. QED
    BY <2>1, <2>2 DEF FoldUnchanged
<1>. QED
  BY Invariance, <1>1, PTL

\* A step deletes a row only when the newest live row of its key is newer and
\* can be read by this version: a key whose newest row it cannot read is frozen.
THEOREM UnreadableKeysAreFrozen == Spec => Frozen
<1> DEFINE Step == \A i \in live \ live' :
                     LET w == Newest(row[i].quad, live)
                     IN i < w /\ row[w].reads = "supported"
<1>1. Inv /\ [Next]_vars => [Step]_vars
  <2> SUFFICES ASSUME Inv, Next, NEW i \in live, i \notin live'
               PROVE  i < Newest(row[i].quad, live) /\ row[Newest(row[i].quad, live)].reads = "supported"
    OBVIOUS
  <2>1. PICK p \in Pruners : Delete(p)
    BY DEF Next, AppendOverlay, Age, Begin, Observe, Scan, RefreshFrontier, RefreshTail, Abort
  <2>2. /\ pass[p].pc = "delete" /\ Frontier <= pass[p].frontier /\ pass[p].witnesses \subseteq live
        /\ i \in pass[p].ids
    BY <2>1 DEF Delete
  <2>3. PICK w \in live \ pass[p].ids :
          /\ i < w /\ row[w].quad = row[i].quad /\ row[w].reads = "supported"
          /\ \A j \in live : row[j].quad = row[i].quad /\ row[j].reads # "malformed" => j <= w
    BY <2>2, DeletedIsSuperseded
  <2> DEFINE rows == {j \in live : row[j].quad = row[i].quad /\ row[j].reads # "malformed"}
  <2>4. rows \subseteq 1..Len(row) /\ Len(row) \in Nat /\ w \in rows
    BY <2>3 DEF Inv, LogOK
  <2>5. Newest(row[i].quad, live) = Max(rows)
    BY <2>4 DEF Newest
  <2>6. Max(rows) = w
    <3>1. \A j \in rows : j <= w
      BY <2>3
    <3> HIDE DEF rows
    <3>2. IsFiniteSet(rows) /\ rows \in SUBSET Int /\ rows # {}
      BY <2>4, IdSets
    <3>3. Max(rows) \in rows /\ w <= Max(rows)
      BY <2>4, <3>2, MaxIsGreatest
    <3>4. Max(rows) <= w /\ Max(rows) \in Int /\ w \in Int
      BY <2>4, <3>1, <3>2, <3>3
    <3>. QED  BY <3>3, <3>4
  <2>. QED
    BY <2>3, <2>5, <2>6
<1>. QED
  BY Invariance, <1>1, PTL DEF Spec, Frozen

=============================================================================
