--------------------------- MODULE EventSync_proofs ---------------------------
(***************************************************************************)
(* Proofs about EventSync, for any number of rows, any cap and any bus.    *)
(* What the cursor says is not inductive by itself.  The invariant follows *)
(* a row from the log to the client: what the replay has not read is       *)
(* pruned or still on its way over the bus, what it read is streamed, and  *)
(* every frame in flight comes after the rows below it.                    *)
(***************************************************************************)
EXTENDS EventSync, FiniteSetTheorems, TLAPS

\* Program points of a connection.
Quiets    == {"open", "guard", "probe", "fetch", "recheck"}
Replays   == {"guard", "probe", "fetch", "recheck", "tip", "stamp"}
Probed    == {"fetch", "recheck", "tip", "stamp"}
Streamed  == {"tip", "stamp"}

Undelivered(j) == j \in pend \/ lagged \/ \E n \in 1..Len(bus) : bus[n] = j
InNet(j)       == \E n \in 1..Len(net) : net[n] = Event(j)
Warm           == conn.since > 0 /\ excused \intersect {"read", "projection"} = {}
Replayed(j)    == kind[j] # "unmappable"

\* A row that is gone is covered by the watermark.
WatermarkCovers == \A i \in 1..tip : i \notin live => i <= watermark

\* Ids are ids of rows.
IdsExist ==
  /\ conn.since <= tip /\ conn.anchor <= tip /\ conn.rawMax <= tip /\ conn.lastId <= tip
  /\ conn.wm <= tip /\ conn.tip <= tip /\ conn.replayed <= tip /\ conn.begun <= tip
  /\ conn.rows \subseteq 1..tip /\ conn.sent \subseteq 1..tip /\ query.at <= tip
  /\ \A n \in 1..Len(net) : net[n].id <= tip
  /\ \A n \in 1..Len(bus) : bus[n] <= tip

\* No envelope is buffered twice, and none before its broadcast.
BusOnce ==
  /\ \A n \in 1..Len(bus) : bus[n] \notin pend
  /\ \A m, n \in 1..Len(bus) : bus[m] = bus[n] => m = n

\* Unless a row was overtaken the bus carries the ids in order.
BusInOrder ==
  "overtaken" \notin excused =>
    /\ \A n \in 1..Len(bus) : \A j \in pend : bus[n] < j
    /\ \A m, n \in 1..Len(bus) : m < n => bus[m] < bus[n]

\* Rows committed since the subscription come over the bus, and none of them
\* is old enough to be pruned.
SinceSubscribed ==
  conn.pc \in Replays =>
    /\ aged <= conn.begun
    /\ \A j \in 1..tip : conn.begun < j => Undelivered(j)

\* Nothing is sent before the recheck.
NothingSent ==
  conn.pc \in Quiets => net = <<>> /\ cursor = conn.since /\ conn.sent = {}

\* A connection without a cursor belongs to a cold client, and only such a
\* one has its anchor moved.
AnchorIsCursor ==
  /\ conn.pc \in Quiets \union Replays /\ conn.since = 0 => cold
  /\ conn.pc \in Replays => conn.since <= conn.anchor
  /\ conn.pc \in Replays /\ conn.since > 0 => conn.anchor = conn.since

\* The probed window fits the cap, and it reaches what was there when the
\* client subscribed, unless that was pruned.
WindowFits ==
  conn.pc = "fetch" =>
    Cardinality({i \in live : conn.anchor < i /\ i <= conn.rawMax}) <= Cap
WindowReaches ==
  conn.pc \in Probed =>
    conn.begun <= conn.anchor \/ conn.begun <= conn.rawMax \/ conn.begun <= watermark

\* What the fetch left out of the window was pruned before it.
FetchedOrPruned ==
  conn.pc = "recheck" =>
    \A i \in 1..tip :
      /\ conn.anchor < i /\ Replayed(i)
      /\ i <= conn.rawMax \/ \E n \in conn.rows : i <= n
      => i \in conn.rows \/ i <= watermark

\* The frames of the replay are the rows of the window, up to the last id.
StreamedWindow ==
  conn.pc \in Streamed =>
    /\ conn.anchor <= conn.lastId /\ cursor <= conn.lastId /\ conn.since <= cursor
    /\ \A n \in 1..Len(net) : net[n].ev = "event" /\ net[n].id <= conn.lastId
    /\ \A i \in conn.sent : i <= conn.lastId /\ (i \in seen \/ InNet(i))

\* After the recheck a warm client's window is whole.
WindowIsWhole ==
  conn.pc \in Streamed /\ Warm =>
    /\ conn.begun <= conn.anchor \/ conn.begun <= conn.rawMax
    /\ \A i \in 1..tip :
         conn.anchor < i /\ Replayed(i) /\ (i <= conn.rawMax \/ i <= conn.lastId)
         => i \in conn.sent

\* The tip that was read is not behind the replay but for pruned rows.
TipIsAhead ==
  conn.pc = "stamp" /\ "read" \notin excused =>
    /\ conn.lastId <= conn.tip \/ conn.lastId <= watermark
    /\ conn.begun <= conn.tip \/ conn.begun <= watermark

\* One replay completes once, above everything sent before it.
CompletesOnce ==
  \A m, n \in 1..Len(net) :
    net[m].ev = "_replay_complete" /\ net[n].ev = "_replay_complete" => m = n
CompletesAbove ==
  "read" \notin excused =>
    \A n \in 1..Len(net) : net[n].ev = "_replay_complete" =>
      cursor <= net[n].id /\ \A m \in 1..n : net[m].id <= net[n].id

\* Row j reaches a warm client no later than the n-th frame in flight.
Covered(j, n) ==
  \/ cold /\ \A m \in 1..n : net[m].ev # "_replay_complete"
  \/ cold /\ \E m \in 1..n : net[m].ev = "_replay_complete" /\ j <= net[m].id
  \/ ~cold /\ j <= base
  \/ j \in seen
  \/ \E m \in 1..n : net[m] = Event(j)

\* No frame overtakes a row below it.
NetIsGapFree ==
  excused = {} =>
    \A n \in 1..Len(net) : \A j \in 1..tip :
      Replayed(j) /\ j <= net[n].id => Covered(j, n)

\* A live connection owes the client only what the bus still brings.
LiveIsGapFree ==
  conn.pc = "live" /\ excused = {} =>
    \A j \in 1..tip :
      Replayed(j) => Covered(j, Len(net)) \/ (conn.replayed < j /\ Undelivered(j))

\* The same for the cached query: what its answer, or its read in flight, was
\* begun too early for is still to come, and so is the invalidation with it.
CacheIsOwed ==
  conn.pc = "live" /\ "projection" \notin excused /\ ~query.reused =>
    \/ \E n \in 1..Len(net) : net[n].ev = "_replay_complete"
    \/ \A j \in 1..tip :
         query.pc = "none" \/ j <= query.at \/ (conn.replayed < j /\ (Undelivered(j) \/ InNet(j)))

\* What a live connection has sent it has taken from the bus or replayed.
SentIsPast ==
  conn.pc = "live" /\ "read" \notin excused =>
    \A i \in conn.sent :
      i <= conn.replayed \/ ~(i \in pend \/ \E n \in 1..Len(bus) : bus[n] = i)

\* The inductive invariant.
Inv ==
  /\ TypeOK /\ WatermarkCovers /\ IdsExist
  /\ BusOnce /\ BusInOrder
  /\ SinceSubscribed /\ NothingSent /\ AnchorIsCursor
  /\ WindowFits /\ WindowReaches /\ FetchedOrPruned
  /\ StreamedWindow /\ WindowIsWhole /\ TipIsAhead
  /\ CompletesOnce /\ CompletesAbove
  /\ NoGap /\ NetIsGapFree /\ LiveIsGapFree
  /\ CacheIsOwed /\ SentIsPast
-----------------------------------------------------------------------------
(* Facts about the operators.                                              *)

\* A finite nonempty set has a minimal element in any strict order on it.
LEMMA MinimalElement ==
  ASSUME NEW S, IsFiniteSet(S), S # {}, NEW R,
         \A x, y, z \in S : <<x, y>> \in R /\ <<y, z>> \in R => <<x, z>> \in R,
         \A x \in S : <<x, x>> \notin R
  PROVE  \E x \in S : \A y \in S : <<y, x>> \notin R
<1> DEFINE Below(x) == {y \in S : <<y, x>> \in R}
           T == {Below(x) : x \in S}
           O == StrictSubsetOrdering(S)
<1>1. T # {}
  <2>1. PICK x \in S : TRUE
    OBVIOUS
  <2>2. Below(x) \in T
    BY <2>1
  <2>. QED  BY <2>2
<1>2. IsWellFoundedOn(O, FiniteSubsetsOf(S))
  BY FS_StrictSubsetOrderingWellFounded
<1>3. T \subseteq FiniteSubsetsOf(S)
  BY FS_Subset DEF FiniteSubsetsOf
<1>4. PICK m \in T : \A t \in T : ~(<<t, m>> \in O)
  <2> HIDE DEF T, O
  <2>. QED  BY <1>1, <1>2, <1>3, WFMin
<1>5. PICK x \in S : m = Below(x)
  BY <1>4, Zenon
<1>6. ASSUME NEW y \in S, <<y, x>> \in R PROVE FALSE
  <2>1. Below(y) \subseteq Below(x) /\ y \in Below(x) /\ y \notin Below(y)
    BY <1>6
  <2>2. Below(y) # Below(x)
    BY <2>1
  <2>3. Below(y) \in SUBSET S /\ Below(x) \in SUBSET S
    OBVIOUS
  <2>4. <<Below(y), Below(x)>> \in O
    <3> HIDE DEF Below
    <3>. QED  BY <2>1, <2>2, <2>3 DEF StrictSubsetOrdering
  <2>5. Below(y) \in T
    OBVIOUS
  <2>. QED
    BY <1>4, <1>5, <2>4, <2>5
<1>. QED
  BY <1>6

\* Max of a finite nonempty set of integers is its greatest element.
LEMMA MaxIsGreatest ==
  ASSUME NEW S \in SUBSET Int, IsFiniteSet(S), S # {}
  PROVE  Max(S) \in S /\ \A y \in S : y <= Max(S)
<1> DEFINE R == {e \in S \X S : e[1] > e[2]}
<1>1. \A x, y \in S : <<x, y>> \in R <=> x > y
  OBVIOUS
<1>2. \A x, y, z \in S : <<x, y>> \in R /\ <<y, z>> \in R => <<x, z>> \in R
  BY <1>1
<1>3. \A x \in S : <<x, x>> \notin R
  BY <1>1
<1>4. PICK x \in S : \A y \in S : <<y, x>> \notin R
  <2> HIDE DEF R
  <2>. QED  BY <1>2, <1>3, MinimalElement
<1>5. ASSUME NEW y \in S PROVE x >= y
  <2>1. x \in Int /\ y \in Int
    OBVIOUS
  <2>2. ~(y > x)
    <3> HIDE DEF R
    <3>. QED  BY <1>1, <1>4
  <2>. QED  BY <2>1, <2>2
<1>6. \E z \in S : \A y \in S : z >= y
  BY <1>5
<1>7. Max(S) \in S /\ \A y \in S : Max(S) >= y
  BY <1>6 DEF Max
<1>. QED
  BY <1>7

\* Min of a finite nonempty set of integers is an element of it.
LEMMA MinIsElement ==
  ASSUME NEW S \in SUBSET Int, IsFiniteSet(S), S # {}
  PROVE  Min(S) \in S
<1> DEFINE R == {e \in S \X S : e[1] < e[2]}
<1>1. \A x, y \in S : <<x, y>> \in R <=> x < y
  OBVIOUS
<1>2. \A x, y, z \in S : <<x, y>> \in R /\ <<y, z>> \in R => <<x, z>> \in R
  BY <1>1
<1>3. \A x \in S : <<x, x>> \notin R
  BY <1>1
<1>4. PICK x \in S : \A y \in S : <<y, x>> \notin R
  <2> HIDE DEF R
  <2>. QED  BY <1>2, <1>3, MinimalElement
<1>5. ASSUME NEW y \in S PROVE x <= y
  <2>1. x \in Int /\ y \in Int
    OBVIOUS
  <2>2. ~(y < x)
    <3> HIDE DEF R
    <3>. QED  BY <1>1, <1>4
  <2>. QED  BY <2>1, <2>2
<1>6. \E z \in S : \A y \in S : z <= y
  BY <1>5
<1>. QED
  BY <1>6 DEF Min

\* A set of row ids is a finite set of integers.
LEMMA IdSets ==
  ASSUME NEW n \in Nat, NEW S \in SUBSET (1..n)
  PROVE  IsFiniteSet(S) /\ S \in SUBSET Int
<1>1. IsFiniteSet(1..n)
  BY FS_Interval
<1>2. IsFiniteSet(S)
  BY <1>1, FS_Subset
<1>. QED
  BY <1>2

\* A pair of naturals is a finite set of integers.
LEMMA PairIsFinite ==
  ASSUME NEW a \in Nat, NEW b \in Nat
  PROVE  IsFiniteSet({a, b}) /\ {a, b} \in SUBSET Int /\ {a, b} # {}
<1>1. IsFiniteSet({a})
  BY FS_Singleton
<1>2. IsFiniteSet({a} \union {b})
  BY <1>1, FS_AddElement
<1>3. {a} \union {b} = {a, b}
  OBVIOUS
<1>. QED
  BY <1>2, <1>3

\* Max of a pair of naturals.
LEMMA MaxOfPair ==
  ASSUME NEW a \in Nat, NEW b \in Nat
  PROVE  Max({a, b}) \in {a, b} /\ a <= Max({a, b}) /\ b <= Max({a, b})
BY PairIsFinite, MaxIsGreatest

\* Min of a pair of naturals.
LEMMA MinOfPair ==
  ASSUME NEW a \in Nat, NEW b \in Nat
  PROVE  Min({a, b}) \in {a, b} /\ Min({a, b}) <= a /\ Min({a, b}) <= b
<1>1. IsFiniteSet({a, b}) /\ {a, b} \in SUBSET Int /\ {a, b} # {}
  BY PairIsFinite
<1>2. \E x \in {a, b} : \A y \in {a, b} : x <= y
  <2>1. CASE a <= b
    BY <2>1
  <2>2. CASE ~(a <= b)
    BY <2>2
  <2>. QED  BY <2>1, <2>2
<1>3. Min({a, b}) \in {a, b} /\ \A y \in {a, b} : Min({a, b}) <= y
  BY <1>2 DEF Min
<1>. QED
  BY <1>3

\* The greatest id of a set of rows, 0 when there is none.
LEMMA GreatestIs ==
  ASSUME NEW n \in Nat, NEW S \in SUBSET (1..n)
  PROVE  /\ Greatest(S) \in 0..n
         /\ \A i \in S : i <= Greatest(S)
         /\ S # {} => Greatest(S) \in S
<1>1. IsFiniteSet(S) /\ S \in SUBSET Int
  BY IdSets
<1>2. CASE S = {}
  BY <1>2 DEF Greatest
<1>3. CASE S # {}
  <2>1. Max(S) \in S /\ \A y \in S : y <= Max(S)
    BY <1>1, <1>3, MaxIsGreatest
  <2>2. Greatest(S) = Max(S)
    BY <1>3 DEF Greatest
  <2>3. Max(S) \in 1..n
    BY <2>1
  <2>. QED  BY <2>1, <2>2, <2>3
<1>. QED
  BY <1>2, <1>3

\* What a prune makes of the watermark.
LEMMA AdvancedIs ==
  ASSUME NEW n \in Nat, NEW w \in 0..n, NEW ids \in SUBSET (1..n)
  PROVE  /\ Advanced(w, ids) \in 0..n /\ w <= Advanced(w, ids)
         /\ \A i \in ids : i <= Advanced(w, ids)
<1>1. IsFiniteSet(ids) /\ ids \in SUBSET Int
  BY IdSets
<1>2. IsFiniteSet(ids \union {w})
  BY <1>1, FS_AddElement
<1>3. ids \union {w} # {} /\ ids \union {w} \in SUBSET Int /\ w \in ids \union {w}
  BY <1>1
<1>4. Max(ids \union {w}) \in ids \union {w} /\ \A y \in ids \union {w} : y <= Max(ids \union {w})
  BY <1>2, <1>3, MaxIsGreatest
<1>5. \A y \in ids \union {w} : y \in 0..n
  OBVIOUS
<1>6. Max(ids \union {w}) \in 0..n
  BY <1>4, <1>5
<1>. QED
  BY <1>4, <1>6 DEF Advanced

\* The rows below one of the first n rows are among them.
LEMMA UptoIsDownward ==
  ASSUME NEW m \in Nat, NEW S \in SUBSET (1..m), NEW n \in Nat,
         NEW x \in Upto(S, n), NEW i \in S, i <= x
  PROVE  i \in Upto(S, n)
<1> DEFINE B(k) == {j \in S : j < k}
<1>1. x \in S /\ Cardinality(B(x)) < n
  BY DEF Upto
<1>2. B(i) \subseteq B(x)
  <2>1. i \in Int /\ x \in Int /\ \A j \in S : j \in Int
    BY <1>1
  <2>2. \A j \in S : j < i => j < x
    BY <2>1
  <2>. QED  BY <2>2
<1>3. IsFiniteSet(B(x))
  BY IdSets
<1>4. Cardinality(B(i)) <= Cardinality(B(x)) /\ Cardinality(B(i)) \in Nat /\ Cardinality(B(x)) \in Nat
  <2> HIDE DEF B
  <2>. QED  BY <1>2, <1>3, FS_Subset, FS_CardinalityType
<1>5. Cardinality(B(i)) < n
  <2> HIDE DEF B
  <2>. QED  BY <1>1, <1>4
<1>. QED
  BY <1>5 DEF Upto

\* A window that is not full is the whole log above the anchor.
LEMMA UptoIsAll ==
  ASSUME NEW m \in Nat, NEW S \in SUBSET (1..m), NEW n \in Nat,
         Cardinality(Upto(S, n + 1)) <= n
  PROVE  Upto(S, n + 1) = S
<1> DEFINE W == Upto(S, n + 1)
           B(k) == {j \in S : j < k}
<1>1. W \subseteq S
  BY DEF Upto
<1>2. SUFFICES ASSUME S \ W # {} PROVE FALSE
  BY <1>1
<1>3. IsFiniteSet(S \ W) /\ S \ W \in SUBSET Int
  BY IdSets
<1>4. PICK x \in S \ W : \A y \in S \ W : ~(y < x)
  <2> DEFINE R == {e \in (S \ W) \X (S \ W) : e[1] < e[2]}
  <2>1. \A a, b \in S \ W : <<a, b>> \in R <=> a < b
    OBVIOUS
  <2>2. \A a, b, c \in S \ W : <<a, b>> \in R /\ <<b, c>> \in R => <<a, c>> \in R
    <3> HIDE DEF W
    <3>. QED  BY <2>1
  <2>3. \A a \in S \ W : <<a, a>> \notin R
    <3> HIDE DEF W
    <3>. QED  BY <2>1
  <2>4. PICK x \in S \ W : \A y \in S \ W : <<y, x>> \notin R
    <3>1. S \ W # {}
      BY <1>2
    <3> DEFINE T == S \ W
    <3>2. IsFiniteSet(T) /\ T # {}
      BY <1>3, <3>1
    <3>3. \A a, b, c \in T : <<a, b>> \in R /\ <<b, c>> \in R => <<a, c>> \in R
      BY <2>2
    <3>4. \A a \in T : <<a, a>> \notin R
      BY <2>3
    <3>5. \E x \in T : \A y \in T : <<y, x>> \notin R
      <4> HIDE DEF T, R
      <4>. QED  BY <3>2, <3>3, <3>4, MinimalElement
    <3>. QED  BY <3>5
  <2>. QED
    <3> HIDE DEF R, W
    <3>. QED  BY <2>1, <2>4
<1>5. B(x) \subseteq W
  <2> HIDE DEF W
  <2>. QED  BY <1>4
<1>6. ~(Cardinality(B(x)) < n + 1)
  BY <1>4 DEF Upto
<1>7. IsFiniteSet(W) /\ IsFiniteSet(B(x))
  BY <1>1, IdSets
<1>8. Cardinality(B(x)) <= Cardinality(W) /\ Cardinality(B(x)) \in Nat /\ Cardinality(W) \in Nat
  <2> HIDE DEF B, W
  <2>. QED  BY <1>5, <1>7, FS_Subset, FS_CardinalityType
<1>. QED
  <2>1. Cardinality(W) <= n
    OBVIOUS
  <2> HIDE DEF B, W
  <2>. QED  BY <1>6, <1>8, <2>1

\* A row of a part of the log that fits the cap is among the first rows.
LEMMA UptoHasWindow ==
  ASSUME NEW m \in Nat, NEW S \in SUBSET (1..m), NEW n \in Nat, NEW r \in Nat,
         Cardinality({j \in S : j <= r}) <= n, NEW i \in S, i <= r
  PROVE  i \in Upto(S, n)
<1> DEFINE W == {j \in S : j <= r}
           B == {j \in S : j < i}
<1>1. B \subseteq W \ {i} /\ i \in W
  <2>1. i \in Int /\ r \in Int /\ \A j \in S : j \in Int
    OBVIOUS
  <2>2. \A j \in S : j < i => j <= r /\ j # i
    BY <2>1
  <2>. QED  BY <2>2
<1>2. IsFiniteSet(W) /\ IsFiniteSet(W \ {i})
  BY IdSets
<1>3. Cardinality(W \ {i}) = Cardinality(W) - 1
  <2> HIDE DEF W
  <2>. QED  BY <1>1, <1>2, FS_RemoveElement
<1>4. Cardinality(B) <= Cardinality(W \ {i}) /\ Cardinality(B) \in Nat
  <2> HIDE DEF W, B
  <2>. QED  BY <1>1, <1>2, FS_Subset, FS_CardinalityType
<1>5. Cardinality(W) \in Nat
  <2> HIDE DEF W
  <2>. QED  BY <1>2, FS_CardinalityType
<1>6. Cardinality(B) < n
  <2>1. Cardinality(W) <= n
    OBVIOUS
  <2> HIDE DEF W, B
  <2>. QED  BY <1>3, <1>4, <1>5, <2>1
<1>. QED
  BY <1>6 DEF Upto

\* What enumerates a set of rows by id.
Enumerates(s, S) ==
  /\ s \in [1..Cardinality(S) -> S]
  /\ \A m, n \in 1..Cardinality(S) : m < n => s[m] < s[n]
  /\ \A i \in S : \E n \in 1..Cardinality(S) : s[n] = i

\* A set without its greatest row is enumerated first, and the row comes last.
LEMMA EnumeratesWithLast ==
  ASSUME NEW k \in Nat, NEW S \in SUBSET (1..k), NEW x \in S,
         \A y \in S : y <= x, NEW s, Enumerates(s, S \ {x})
  PROVE  Enumerates([n \in 1..Cardinality(S) |-> IF n = Cardinality(S) THEN x ELSE s[n]], S)
<1> DEFINE c == Cardinality(S)
           t == [n \in 1..c |-> IF n = c THEN x ELSE s[n]]
<1>1. IsFiniteSet(S)
  BY IdSets
<1>2. c \in Nat /\ Cardinality(S \ {x}) = c - 1
  BY <1>1, FS_CardinalityType, FS_RemoveElement
<1>2a. c # 0
  <2>1. IsFiniteSet(S \ {x})
    BY <1>1, FS_Subset
  <2>2. Cardinality(S \ {x}) \in Nat
    BY <2>1, FS_CardinalityType
  <2> HIDE DEF c
  <2>. QED  BY <1>2, <2>2
<1> HIDE DEF c
<1>3. s \in [1..(c - 1) -> S \ {x}]
  BY <1>2 DEF Enumerates
<1>4. \A m, n \in 1..(c - 1) : m < n => s[m] < s[n]
  BY <1>2 DEF Enumerates
<1>5. \A i \in S \ {x} : \E n \in 1..(c - 1) : s[n] = i
  BY <1>2 DEF Enumerates
<1>6. t \in [1..c -> S]
  BY <1>2, <1>3
<1>7. ASSUME NEW m \in 1..c, NEW n \in 1..c, m < n PROVE t[m] < t[n]
  <2>1. m \in 1..(c - 1) /\ t[m] = s[m]
    BY <1>2, <1>7
  <2>2. CASE n = c
    <3>1. s[m] \in S \ {x}
      BY <1>3, <2>1
    <3>2. s[m] <= x /\ s[m] # x /\ s[m] \in Int /\ x \in Int
      <4>1. s[m] \in S /\ s[m] # x
        BY <3>1
      <4>2. \A y \in S : y \in Int /\ y <= x
        OBVIOUS
      <4>. QED  BY <4>1, <4>2
    <3>. QED  BY <2>1, <2>2, <3>2
  <2>3. CASE n # c
    <3>1. n \in 1..(c - 1) /\ t[n] = s[n]
      BY <1>2, <2>3
    <3>. QED  BY <1>4, <1>7, <2>1, <3>1
  <2>. QED  BY <2>2, <2>3
<1>8. ASSUME NEW i \in S PROVE \E n \in 1..c : t[n] = i
  <2>1. CASE i = x
    <3>1. c \in 1..c /\ t[c] = x
      BY <1>2, <1>2a
    <3>. QED  BY <2>1, <3>1
  <2>2. CASE i # x
    <3>1. PICK n \in 1..(c - 1) : s[n] = i
      BY <1>5, <2>2
    <3>2. n \in 1..c /\ t[n] = s[n]
      BY <1>2
    <3>. QED  BY <3>1, <3>2
  <2>. QED  BY <2>1, <2>2
<1>. QED
  <2>1. Enumerates(t, S)
    <3> HIDE DEF t
    <3>. QED  BY <1>6, <1>7, <1>8 DEF Enumerates, c
  <2>. QED  BY <2>1 DEF c

\* Every set of rows can be enumerated by id: otherwise take a smallest set
\* that cannot and leave its greatest row out.
LEMMA SomethingEnumerates ==
  ASSUME NEW k \in Nat, NEW S \in SUBSET (1..k)
  PROVE  \E s : Enumerates(s, S)
<1> DEFINE U == {T \in SUBSET S : ~ \E s : Enumerates(s, T)}
           O == StrictSubsetOrdering(S)
<1>1. SUFFICES ASSUME U # {} PROVE FALSE
  OBVIOUS
<1>2. IsFiniteSet(S)
  BY IdSets
<1>3. IsWellFoundedOn(O, FiniteSubsetsOf(S))
  BY <1>2, FS_StrictSubsetOrderingWellFounded
<1>4. U \subseteq FiniteSubsetsOf(S)
  BY <1>2, FS_Subset DEF FiniteSubsetsOf
<1>5. PICK T \in U : \A V \in U : ~(<<V, T>> \in O)
  <2> HIDE DEF U, O
  <2>. QED  BY <1>1, <1>3, <1>4, WFMin
<1>6. T \in SUBSET S /\ T \in SUBSET (1..k)
  BY <1>5
<1>7. CASE T = {}
  <2>1. Cardinality(T) = 0
    BY <1>7, FS_EmptySet
  <2>2. Enumerates([n \in 1..0 |-> 0], T)
    BY <1>7, <2>1 DEF Enumerates
  <2>. QED  BY <1>5, <2>2
<1>8. CASE T # {}
  <2> DEFINE x == Max(T)
  <2>1. IsFiniteSet(T) /\ T \in SUBSET Int
    BY <1>6, IdSets
  <2>2. x \in T /\ \A y \in T : y <= x
    BY <1>8, <2>1, MaxIsGreatest
  <2> HIDE DEF x
  <2>3. T \ {x} \in SUBSET S /\ T \ {x} # T
    BY <1>6, <2>2
  <2>4. <<T \ {x}, T>> \in O
    BY <1>6, <2>3 DEF StrictSubsetOrdering
  <2>5. PICK s : Enumerates(s, T \ {x})
    BY <1>5, <2>3, <2>4
  <2>6. \E t : Enumerates(t, T)
    BY <1>6, <2>2, <2>5, EnumeratesWithLast
  <2>. QED  BY <1>5, <2>6
<1>. QED
  BY <1>7, <1>8

\* The rows of a replay are sent by id, every one of them.
LEMMA InIdOrderEnumerates ==
  ASSUME NEW k \in Nat, NEW S \in SUBSET (1..k)
  PROVE  Enumerates(InIdOrder(S), S)
<1> DEFINE D == [1..Cardinality(S) -> S]
           P(s) == /\ \A m, n \in 1..Cardinality(S) : m < n => s[m] < s[n]
                   /\ \A i \in S : \E n \in 1..Cardinality(S) : s[n] = i
<1>1. PICK s : Enumerates(s, S)
  BY SomethingEnumerates
<1>2. s \in D /\ P(s)
  BY <1>1 DEF Enumerates
<1>3. InIdOrder(S) = CHOOSE t \in D : P(t)
  BY DEF InIdOrder
<1> HIDE DEF D, P
<1>4. InIdOrder(S) \in D /\ P(InIdOrder(S))
  BY <1>2, <1>3
<1>. QED
  BY <1>4 DEF Enumerates, D, P

-----------------------------------------------------------------------------
(* Types.                                                                  *)

\* The connection of a step that only names new field values.
LEMMA NoConnType == NoConn \in ConnType /\ [NoConn EXCEPT !.pc = "closed"] \in ConnType
<1>1. 0 \in 0..MaxId
  BY BoundsAssumption
<1>2. NoConn \in ConnType
  BY <1>1 DEF NoConn, ConnType, PCs
<1>3. "closed" \in PCs
  BY DEF PCs
<1>. QED
  BY <1>2, <1>3 DEF ConnType

\* What the types say of the numbers.
LEMMA Numbers ==
  ASSUME TypeOK
  PROVE  /\ tip \in Nat /\ MaxId \in Nat /\ tip <= MaxId
         /\ aged \in Nat /\ watermark \in Nat /\ cursor \in Nat /\ base \in Nat
         /\ conn.since \in Nat /\ conn.anchor \in Nat /\ conn.rawMax \in Nat
         /\ conn.lastId \in Nat /\ conn.wm \in Nat /\ conn.tip \in Nat
         /\ conn.replayed \in Nat /\ conn.begun \in Nat /\ conn.pc \in PCs
         /\ conn.sent \subseteq Ids /\ conn.rows \subseteq Ids
         /\ Len(net) \in Nat /\ Len(bus) \in Nat
         /\ \A n \in 1..Len(net) : net[n] \in Frames /\ net[n].id \in Nat
         /\ \A n \in 1..Len(bus) : bus[n] \in Nat
<1>1. tip \in Nat /\ MaxId \in Nat /\ tip <= MaxId
  BY BoundsAssumption DEF TypeOK, tip
<1>2. aged \in Nat /\ watermark \in Nat /\ cursor \in Nat /\ base \in Nat
  BY <1>1 DEF TypeOK
<1>3. conn \in ConnType
  BY DEF TypeOK
<1>4. \A f \in Frames : f.id \in Nat
  BY <1>1 DEF Frames, Snapshot, Ids
<1>5. net \in Seq(Frames) /\ bus \in Seq(Ids)
  BY DEF TypeOK
<1>6. \A n \in 1..Len(net) : net[n] \in Frames
  BY <1>5
<1>7. \A n \in 1..Len(bus) : bus[n] \in Ids
  BY <1>5
<1>8. conn.since \in Nat /\ conn.anchor \in Nat /\ conn.rawMax \in Nat /\ conn.lastId \in Nat
  BY <1>1, <1>3 DEF ConnType
<1>9. conn.wm \in Nat /\ conn.tip \in Nat /\ conn.replayed \in Nat /\ conn.begun \in Nat
  BY <1>1, <1>3 DEF ConnType
<1>10. conn.pc \in PCs /\ conn.sent \subseteq Ids /\ conn.rows \subseteq Ids
  BY <1>3 DEF ConnType
<1>11. Len(net) \in Nat /\ Len(bus) \in Nat
  BY <1>5
<1>12. \A n \in 1..Len(net) : net[n] \in Frames /\ net[n].id \in Nat
  BY <1>4, <1>6
<1>13. \A n \in 1..Len(bus) : bus[n] \in Nat
  BY <1>1, <1>7 DEF Ids
<1>. QED
  BY <1>1, <1>2, <1>8, <1>9, <1>10, <1>11, <1>12, <1>13, Zenon

\* Nothing is cached at first.
LEMMA NoQueryType == NoQuery \in QueryType
<1>1. 0 \in 0..MaxId
  BY BoundsAssumption
<1>. QED
  BY <1>1 DEF NoQuery, QueryType

\* Init has its types, and the rest of the invariant.
LEMMA InvInit == Init => Inv
<1> SUFFICES ASSUME Init PROVE Inv
  OBVIOUS
<1>1. PICK n \in 0..OldRows : kind \in [1..n -> Kinds]
  BY BoundsAssumption DEF Init, Kinds
<1>2. n \in Nat /\ n <= MaxId /\ MaxFaults \in Nat /\ BusCapacity \in Nat /\ MaxId \in Nat
  BY BoundsAssumption
<1>3. kind \in Seq(Kinds) /\ Len(kind) = n
  BY <1>1, <1>2
<1>4. conn = NoConn /\ conn \in ConnType
  BY NoConnType DEF Init
<1>5. TypeOK
  <2>1. lagged \in BOOLEAN /\ cold \in BOOLEAN
    BY Zenon DEF Init
  <2>2. kind \in Seq(Kinds) /\ Len(kind) <= MaxId /\ live \subseteq 1..tip /\ aged \in 0..tip
        /\ watermark \in 0..aged /\ pend \subseteq 1..tip /\ writer \in pend \union {0}
    BY <1>2, <1>3 DEF Init, tip
  <2>3. bus \in Seq(Ids) /\ Len(bus) <= BusCapacity /\ net \in Seq(Frames)
    BY <1>2 DEF Init
  <2>4. cursor \in 0..tip /\ base \in 0..MaxId /\ seen \subseteq Ids /\ query \in QueryType
    BY <1>2, <1>3, NoQueryType DEF Init, tip
  <2>5. faults \in 0..MaxFaults /\ excused \subseteq Failures \union {"overtaken"}
    BY <1>2 DEF Init
  <2>. QED  BY <1>4, <2>1, <2>2, <2>3, <2>4, <2>5 DEF TypeOK
<1>6. conn.pc = "none"
  BY <1>4 DEF NoConn
<1>7. WatermarkCovers /\ BusOnce /\ BusInOrder /\ CompletesOnce /\ CompletesAbove /\ NoGap /\ NetIsGapFree
  BY DEF Init, WatermarkCovers, BusOnce, BusInOrder, CompletesOnce, CompletesAbove, NoGap, NetIsGapFree
<1>8. IdsExist
  BY <1>2, <1>3, <1>4 DEF Init, IdsExist, NoConn, NoQuery, tip
<1>9. SinceSubscribed /\ NothingSent /\ AnchorIsCursor /\ WindowFits /\ WindowReaches /\ FetchedOrPruned
  BY <1>6 DEF SinceSubscribed, NothingSent, AnchorIsCursor, WindowFits, WindowReaches, FetchedOrPruned,
     Quiets, Replays, Probed
<1>10. StreamedWindow /\ WindowIsWhole /\ TipIsAhead /\ LiveIsGapFree /\ CacheIsOwed /\ SentIsPast
  BY <1>6 DEF StreamedWindow, WindowIsWhole, TipIsAhead, LiveIsGapFree, CacheIsOwed, SentIsPast, Streamed
<1>. QED
  BY <1>5, <1>7, <1>8, <1>9, <1>10 DEF Inv

-----------------------------------------------------------------------------
(* The log: its writers, its broadcasts and its pruner.                    *)

\* What neither the clock nor the pruner touches stays.
LEMMA ClientSideStays ==
  ASSUME Inv, UNCHANGED <<kind, pend, conn, bus, lagged, net, cursor, cold, base, seen, query, excused>>
  PROVE  /\ IdsExist' /\ BusOnce' /\ BusInOrder' /\ NothingSent' /\ AnchorIsCursor'
         /\ StreamedWindow' /\ WindowIsWhole' /\ CompletesOnce' /\ CompletesAbove'
         /\ NoGap' /\ NetIsGapFree' /\ LiveIsGapFree' /\ CacheIsOwed' /\ SentIsPast'
<1>1. IdsExist'
  BY DEF Inv, IdsExist, tip
<1>2. BusOnce' /\ BusInOrder' /\ NothingSent' /\ AnchorIsCursor'
  BY DEF Inv, BusOnce, BusInOrder, NothingSent, AnchorIsCursor
<1>3. StreamedWindow' /\ WindowIsWhole'
  BY DEF Inv, StreamedWindow, WindowIsWhole, InNet, Warm, Replayed, tip, Event
<1>4. CompletesOnce' /\ CompletesAbove' /\ NoGap'
  BY DEF Inv, CompletesOnce, CompletesAbove, NoGap, tip
<1>5. NetIsGapFree'
  BY DEF Inv, NetIsGapFree, Covered, Replayed, tip, Event
<1>6. LiveIsGapFree'
  BY DEF Inv, LiveIsGapFree, Covered, Replayed, Undelivered, tip, Event
<1>7. CacheIsOwed' /\ SentIsPast'
  BY DEF Inv, CacheIsOwed, SentIsPast, Undelivered, InNet, tip, Event
<1>. QED
  BY <1>1, <1>2, <1>3, <1>4, <1>5, <1>6, <1>7

LEMMA InvAge == ASSUME Inv, Age PROVE Inv'
<1> USE DEF Age, connVars, clientVars, faultVars
<1>1. TypeOK'
  <2>1. TypeOK /\ tip' = tip /\ tip \in Nat /\ aged \in Nat /\ watermark \in Nat
    BY Numbers DEF Inv, tip
  <2>2. aged' \in 0..tip /\ watermark' \in 0..aged'
    BY <2>1 DEF TypeOK
  <2>3. lagged' \in BOOLEAN /\ cold' \in BOOLEAN
    BY <2>1, Zenon DEF TypeOK
  <2>. QED  BY <2>1, <2>2, <2>3 DEF TypeOK
<1>2. /\ IdsExist' /\ BusOnce' /\ BusInOrder' /\ NothingSent' /\ AnchorIsCursor'
      /\ StreamedWindow' /\ WindowIsWhole' /\ CompletesOnce' /\ CompletesAbove'
      /\ NoGap' /\ NetIsGapFree' /\ LiveIsGapFree' /\ CacheIsOwed' /\ SentIsPast'
  BY ClientSideStays
<1>3. WatermarkCovers' /\ WindowFits' /\ WindowReaches' /\ FetchedOrPruned' /\ TipIsAhead'
  BY DEF Inv, WatermarkCovers, WindowFits, WindowReaches, FetchedOrPruned, TipIsAhead, Replayed, tip
<1>4. SinceSubscribed'
  <2>1. conn.pc \in Replays => aged' <= conn.begun
    BY Numbers DEF Inv, Replaying, Replays
  <2>. QED  BY <2>1 DEF Inv, SinceSubscribed, Undelivered, tip
<1>. QED
  BY <1>1, <1>2, <1>3, <1>4 DEF Inv

LEMMA InvPrune == ASSUME Inv, NEW ids, Prune(ids) PROVE Inv'
<1> USE DEF Prune, connVars, clientVars, faultVars
<1>1. TypeOK /\ tip' = tip /\ tip \in Nat /\ aged \in Nat /\ watermark \in 0..aged /\ aged <= tip
  <2>1. TypeOK /\ tip' = tip
    BY DEF Inv, tip
  <2>2. tip \in Nat /\ aged \in Nat
    BY <2>1, Numbers
  <2>. QED  BY <2>1, <2>2 DEF TypeOK
<1>2. ids \in SUBSET (1..aged) /\ ids \subseteq live /\ live \subseteq 1..tip
  BY <1>1 DEF TypeOK
<1>3. /\ watermark' \in 0..aged /\ watermark <= watermark' /\ \A i \in ids : i <= watermark'
  BY <1>1, <1>2, AdvancedIs
<1>4. TypeOK'
  <2>1. lagged' \in BOOLEAN /\ cold' \in BOOLEAN
    BY <1>1, Zenon DEF TypeOK
  <2>2. live' \subseteq 1..tip
    BY <1>2
  <2>. QED  BY <1>1, <1>3, <2>1, <2>2 DEF TypeOK
<1>5. /\ IdsExist' /\ BusOnce' /\ BusInOrder' /\ NothingSent' /\ AnchorIsCursor'
      /\ StreamedWindow' /\ WindowIsWhole' /\ CompletesOnce' /\ CompletesAbove'
      /\ NoGap' /\ NetIsGapFree' /\ LiveIsGapFree' /\ CacheIsOwed' /\ SentIsPast'
  BY ClientSideStays
<1>6. watermark \in Nat /\ watermark' \in Nat
  BY <1>1, <1>3
<1>7. WatermarkCovers'
  BY <1>1, <1>3, <1>6 DEF Inv, WatermarkCovers
<1>8. WindowFits'
  <2> DEFINE W == {i \in live : conn.anchor < i /\ i <= conn.rawMax}
             V == {i \in live' : conn.anchor < i /\ i <= conn.rawMax}
  <2>1. V \subseteq W /\ IsFiniteSet(W)
    BY <1>1, <1>2, IdSets
  <2>2. Cardinality(V) <= Cardinality(W) /\ Cardinality(V) \in Nat /\ Cardinality(W) \in Nat /\ Cap \in Nat
    <3> HIDE DEF V, W
    <3>. QED  BY <2>1, FS_Subset, FS_CardinalityType, BoundsAssumption
  <2>3. conn.pc = "fetch" => Cardinality(W) <= Cap
    BY DEF Inv, WindowFits
  <2>4. conn.pc = "fetch" => Cardinality(V) <= Cap
    <3> HIDE DEF V, W
    <3>. QED  BY <2>2, <2>3
  <2>. QED  BY <2>4 DEF WindowFits
<1>9. WindowReaches' /\ TipIsAhead'
  <2>1. conn.begun \in Nat /\ conn.lastId \in Nat
    BY <1>1, Numbers
  <2>2. WindowReaches'
    BY <1>3, <1>6, <2>1 DEF Inv, WindowReaches
  <2>3. TipIsAhead'
    BY <1>3, <1>6, <2>1 DEF Inv, TipIsAhead
  <2>. QED  BY <2>2, <2>3
<1>10. FetchedOrPruned'
  BY <1>1, <1>3, <1>6 DEF Inv, FetchedOrPruned, Replayed
<1>11. SinceSubscribed'
  BY DEF Inv, SinceSubscribed, Undelivered, tip
<1>. QED
  BY <1>4, <1>5, <1>7, <1>8, <1>9, <1>10, <1>11 DEF Inv

LEMMA InvCommit ==
  ASSUME Inv, NEW k \in Kinds, NEW door \in {"inWriter", "afterWriter"}, Commit(k, door)
  PROVE  Inv'
<1> USE DEF Commit, connVars, clientVars, faultVars
<1>1. TypeOK /\ tip \in Nat /\ tip < MaxId /\ MaxId \in Nat /\ kind \in Seq(Kinds)
  <2>1. TypeOK
    BY DEF Inv
  <2>. QED  BY <2>1, Numbers DEF TypeOK
<1>2. /\ kind' \in Seq(Kinds) /\ tip' = tip + 1
      /\ \A i \in 1..tip : kind'[i] = kind[i]
  BY <1>1 DEF tip
<1>3. live' = live \union {tip + 1} /\ pend' = pend \union {tip + 1}
  OBVIOUS
<1>4. live \subseteq 1..tip /\ pend \subseteq 1..tip
  BY <1>1 DEF TypeOK
<1>5. TypeOK'
  <2>1. lagged' \in BOOLEAN /\ cold' \in BOOLEAN
    BY <1>1, Zenon DEF TypeOK
  <2>2. live' \subseteq 1..tip' /\ pend' \subseteq 1..tip' /\ writer' \in pend' \union {0} /\ Len(kind') <= MaxId
    BY <1>1, <1>2, <1>3, <1>4 DEF tip
  <2>3. aged' \in 0..tip' /\ watermark' \in 0..aged' /\ cursor' \in 0..tip'
    BY <1>1, <1>2 DEF TypeOK
  <2>. QED  BY <1>1, <1>2, <2>1, <2>2, <2>3 DEF TypeOK
<1> HIDE DEF Commit
<1>6. UNCHANGED <<aged, watermark, conn, bus, lagged, net, cursor, cold, base, seen, query, excused>>
  BY DEF Commit
<1>7. IdsExist
  BY DEF Inv
<1>8. /\ conn.since \in Nat /\ conn.anchor \in Nat /\ conn.rawMax \in Nat
      /\ conn.lastId \in Nat /\ conn.wm \in Nat /\ conn.tip \in Nat
      /\ conn.replayed \in Nat /\ conn.begun \in Nat /\ watermark \in Nat /\ cursor \in Nat
      /\ \A n \in 1..Len(net) : net[n].id \in Nat
      /\ \A n \in 1..Len(bus) : bus[n] \in Nat
  BY <1>1, Numbers
<1>9. WatermarkCovers'
  BY <1>1, <1>2, <1>3, <1>6 DEF Inv, WatermarkCovers
<1>10. IdsExist'
  <2>1. 1..tip \subseteq 1..tip' /\ tip <= tip' /\ \A n \in Nat : n <= tip => n <= tip'
    BY <1>1, <1>2
  <2>2. conn.rows \subseteq 1..tip' /\ conn.sent \subseteq 1..tip' /\ query.at <= tip'
    <3>1. query.at \in Nat
      BY <1>1 DEF TypeOK, QueryType
    <3>. QED  BY <1>7, <2>1, <3>1 DEF IdsExist
  <2>3. /\ conn.since <= tip' /\ conn.anchor <= tip' /\ conn.rawMax <= tip' /\ conn.lastId <= tip'
        /\ conn.wm <= tip' /\ conn.tip <= tip' /\ conn.replayed <= tip' /\ conn.begun <= tip'
    BY <1>7, <1>8, <2>1 DEF IdsExist
  <2>4. /\ \A n \in 1..Len(net) : net[n].id <= tip'
        /\ \A n \in 1..Len(bus) : bus[n] <= tip'
    BY <1>7, <1>8, <2>1 DEF IdsExist
  <2>. QED  BY <1>6, <2>2, <2>3, <2>4 DEF IdsExist
<1>11. BusOnce' /\ BusInOrder'
  <2>1. \A n \in 1..Len(bus) : bus[n] \in Nat /\ bus[n] <= tip
    BY <1>7, <1>8 DEF IdsExist
  <2>2. \A n \in 1..Len(bus) : bus[n] < tip + 1
    BY <1>1, <2>1
  <2>3. BusOnce'
    <3>1. BusOnce
      BY DEF Inv
    <3>. QED  BY <1>1, <1>3, <1>6, <2>1, <2>2, <3>1 DEF BusOnce
  <2>4. BusInOrder'
    <3>1. BusInOrder
      BY DEF Inv
    <3>. QED  BY <1>3, <1>6, <2>2, <3>1 DEF BusInOrder
  <2>. QED  BY <2>3, <2>4
<1>12. SinceSubscribed'
  <2> SUFFICES ASSUME conn.pc \in Replays
               PROVE  aged <= conn.begun /\ \A j \in 1..tip' : conn.begun < j => Undelivered(j)'
    BY <1>6 DEF SinceSubscribed
  <2>1. aged <= conn.begun /\ \A j \in 1..tip : conn.begun < j => Undelivered(j)
    BY DEF Inv, SinceSubscribed
  <2>2. \A j \in 1..tip' : j \in 1..tip \/ j = tip + 1
    BY <1>1, <1>2
  <2>3. \A j : Undelivered(j) => Undelivered(j)'
    BY <1>3, <1>6 DEF Undelivered
  <2>4. \A j : j = tip + 1 => Undelivered(j)'
    BY <1>3 DEF Undelivered
  <2>. QED  BY <2>1, <2>2, <2>3, <2>4
<1>13. NothingSent' /\ AnchorIsCursor' /\ WindowReaches' /\ TipIsAhead' /\ CompletesOnce' /\ CompletesAbove'
  BY <1>6 DEF Inv, NothingSent, AnchorIsCursor, WindowReaches, TipIsAhead, CompletesOnce, CompletesAbove
<1>14. StreamedWindow'
  BY <1>6 DEF Inv, StreamedWindow, InNet, Event
<1>15. WindowFits'
  <2>1. {i \in live' : conn.anchor < i /\ i <= conn.rawMax} = {i \in live : conn.anchor < i /\ i <= conn.rawMax}
    BY <1>1, <1>3, <1>7, <1>8 DEF IdsExist
  <2>. QED  BY <1>6, <2>1 DEF Inv, WindowFits
<1>16. FetchedOrPruned'
  <2> SUFFICES ASSUME conn.pc = "recheck", NEW i \in 1..(tip + 1), conn.anchor < i, kind'[i] # "unmappable",
                      i <= conn.rawMax \/ \E n \in conn.rows : i <= n
               PROVE  i \in conn.rows \/ i <= watermark
    BY <1>2, <1>6 DEF FetchedOrPruned, Replayed
  <2>1. i \in 1..tip
    BY <1>1, <1>7, <1>8 DEF IdsExist
  <2>. QED  BY <1>2, <2>1 DEF Inv, FetchedOrPruned, Replayed
<1>17. WindowIsWhole'
  <2> SUFFICES ASSUME conn.pc \in Streamed, Warm
               PROVE  /\ conn.begun <= conn.anchor \/ conn.begun <= conn.rawMax
                      /\ \A i \in 1..(tip + 1) :
                           /\ conn.anchor < i /\ kind'[i] # "unmappable"
                           /\ i <= conn.rawMax \/ i <= conn.lastId
                           => i \in conn.sent
    BY <1>2, <1>6 DEF WindowIsWhole, Warm, Replayed
  <2>1. \A i \in 1..(tip + 1) : i <= conn.rawMax \/ i <= conn.lastId => i \in 1..tip
    BY <1>1, <1>7, <1>8 DEF IdsExist
  <2>. QED  BY <1>2, <2>1 DEF Inv, WindowIsWhole, Replayed
<1>18. NoGap'
  <2>1. \A i \in 1..tip' : i <= cursor => i \in 1..tip
    BY <1>1, <1>2 DEF TypeOK
  <2>2. NoGap
    BY DEF Inv
  <2>. QED  BY <1>2, <1>6, <2>1, <2>2 DEF NoGap
<1>19. NetIsGapFree'
  <2> SUFFICES ASSUME excused = {}, NEW n \in 1..Len(net), NEW j \in 1..(tip + 1),
                      kind'[j] # "unmappable", j <= net[n].id
               PROVE  Covered(j, n)'
    BY <1>2, <1>6 DEF NetIsGapFree, Replayed
  <2>1. j \in 1..tip
    <3>1. net[n].id \in Nat /\ net[n].id <= tip
      BY <1>7, <1>8 DEF IdsExist
    <3>. QED  BY <1>1, <3>1
  <2>2. Covered(j, n)
    BY <1>2, <2>1 DEF Inv, NetIsGapFree, Replayed
  <2>. QED  BY <1>6, <2>2 DEF Covered, Event
<1>20. LiveIsGapFree'
  <2> SUFFICES ASSUME conn.pc = "live", excused = {}, NEW j \in 1..(tip + 1), kind'[j] # "unmappable"
               PROVE  Covered(j, Len(net))' \/ (conn.replayed < j /\ Undelivered(j)')
    BY <1>2, <1>6 DEF LiveIsGapFree, Replayed
  <2>1. CASE j = tip + 1
    BY <1>1, <1>3, <1>7, <1>8, <2>1 DEF IdsExist, Undelivered
  <2>2. CASE j \in 1..tip
    <3>1. Covered(j, Len(net)) \/ (conn.replayed < j /\ Undelivered(j))
      BY <1>2, <2>2 DEF Inv, LiveIsGapFree, Replayed
    <3>. QED  BY <1>3, <1>6, <3>1 DEF Covered, Undelivered, Event
  <2>. QED  BY <1>1, <2>1, <2>2
<1>21. CacheIsOwed'
  <2> SUFFICES ASSUME conn.pc = "live", "projection" \notin excused, ~query.reused,
                      ~ \E n \in 1..Len(net) : net[n].ev = "_replay_complete", NEW j \in 1..(tip + 1)
               PROVE  query.pc = "none" \/ j <= query.at \/ (conn.replayed < j /\ (Undelivered(j)' \/ InNet(j)'))
    BY <1>2, <1>6 DEF CacheIsOwed
  <2>1. CASE j = tip + 1
    BY <1>1, <1>3, <1>7, <1>8, <2>1 DEF IdsExist, Undelivered
  <2>2. CASE j \in 1..tip
    <3>1. query.pc = "none" \/ j <= query.at \/ (conn.replayed < j /\ (Undelivered(j) \/ InNet(j)))
      BY <2>2 DEF Inv, CacheIsOwed
    <3>. QED  BY <1>3, <1>6, <3>1 DEF InNet, Undelivered, Event
  <2>. QED  BY <1>1, <2>1, <2>2
<1>22. SentIsPast'
  BY <1>1, <1>3, <1>6, <1>7 DEF Inv, SentIsPast, IdsExist
<1>. QED
  BY <1>5, <1>9, <1>10, <1>11, <1>12, <1>13, <1>14, <1>15, <1>16, <1>17, <1>18, <1>19, <1>20, <1>21, <1>22 DEF Inv

\* A broadcast takes a row from the committer to the bus, or marks the
\* subscriber as lagging.
LEMMA EmitDelivers ==
  ASSUME Inv, NEW i \in pend, Emit(i), conn.pc \notin {"none", "closed"}, NEW j, Undelivered(j)
  PROVE  Undelivered(j)'
<1>1. bus \in Seq(Ids) /\ Len(bus) \in Nat /\ pend' = pend \ {i}
  <2>1. TypeOK
    BY DEF Inv
  <2>. QED  BY <2>1, Numbers DEF TypeOK, Emit
<1>2. CASE Len(bus) < BusCapacity
  <2>1. bus' = Append(bus, i) /\ lagged' = lagged
    BY <1>2 DEF Emit, Buffered
  <2>2. /\ Len(bus') = Len(bus) + 1 /\ bus'[Len(bus) + 1] = i
        /\ \A n \in 1..Len(bus) : bus'[n] = bus[n]
    BY <1>1, <2>1
  <2>3. Len(bus) + 1 \in 1..Len(bus') /\ \A n \in 1..Len(bus) : n \in 1..Len(bus')
    BY <1>1, <2>2
  <2>. QED  BY <1>1, <2>1, <2>2, <2>3 DEF Undelivered
<1>3. CASE ~(Len(bus) < BusCapacity)
  BY <1>3 DEF Emit, Buffered, Undelivered
<1>. QED
  BY <1>2, <1>3

\* What is buffered afterwards was buffered, or it is the row itself.
LEMMA EmitBuffers ==
  ASSUME Inv, NEW i \in pend, Emit(i)
  PROVE  /\ bus' \in Seq(Ids) /\ Len(bus') <= BusCapacity /\ lagged' \in BOOLEAN
         /\ \/ bus' = bus
            \/ /\ Len(bus') = Len(bus) + 1 /\ bus'[Len(bus) + 1] = i
               /\ \A n \in 1..Len(bus) : bus'[n] = bus[n]
<1>1. TypeOK /\ BusCapacity \in Nat
  BY BoundsAssumption DEF Inv
<1>2. bus \in Seq(Ids) /\ Len(bus) <= BusCapacity /\ Len(bus) \in Nat /\ i \in Ids
  BY <1>1, Numbers DEF TypeOK, Ids
<1>3. lagged' \in BOOLEAN
  BY <1>1, Zenon DEF Emit, Buffered, TypeOK
<1>4. CASE bus' = bus
  BY <1>2, <1>3, <1>4
<1>5. CASE bus' = Append(bus, i) /\ Len(bus) < BusCapacity
  BY <1>1, <1>2, <1>3, <1>5
<1>. QED
  BY <1>4, <1>5 DEF Emit, Buffered

LEMMA InvEmit == ASSUME Inv, NEW i \in pend, Emit(i) PROVE Inv'
<1>1. TypeOK /\ tip \in Nat /\ tip' = tip /\ pend \subseteq 1..tip
  <2>1. TypeOK
    BY DEF Inv
  <2>. QED  BY <2>1, Numbers DEF TypeOK, tip, Emit
<1>2. UNCHANGED <<kind, live, aged, watermark, conn, net, cursor, cold, base, seen, query, faults>>
  BY DEF Emit, clientVars
<1>3. pend' = pend \ {i} /\ excused \subseteq excused' /\ excused' \subseteq excused \union {"overtaken"}
  BY DEF Emit
<1>4. /\ bus' \in Seq(Ids) /\ Len(bus') <= BusCapacity /\ lagged' \in BOOLEAN
      /\ \/ bus' = bus
         \/ /\ Len(bus') = Len(bus) + 1 /\ bus'[Len(bus) + 1] = i
            /\ \A n \in 1..Len(bus) : bus'[n] = bus[n]
  BY EmitBuffers
<1>5. Len(bus) \in Nat /\ \A n \in 1..Len(bus) : bus[n] \in Nat
  BY <1>1, Numbers
<1>6. /\ Len(bus') \in Nat
      /\ \A n \in 1..Len(bus') : \/ n \in 1..Len(bus) /\ bus'[n] = bus[n]
                                 \/ n = Len(bus) + 1 /\ bus'[n] = i
  BY <1>4, <1>5
<1>7. TypeOK'
  <2>1. writer' \in pend' \union {0}
    BY <1>1, <1>3 DEF Emit, TypeOK
  <2>2. cold' \in BOOLEAN
    BY <1>1, <1>2, Zenon DEF TypeOK
  <2>3. excused' \subseteq Failures \union {"overtaken"}
    BY <1>1, <1>3 DEF TypeOK
  <2>4. pend' \subseteq 1..tip'
    BY <1>1, <1>3
  <2>. QED  BY <1>1, <1>2, <1>4, <2>1, <2>2, <2>3, <2>4 DEF TypeOK
<1>8. WatermarkCovers' /\ NothingSent' /\ AnchorIsCursor' /\ WindowFits' /\ WindowReaches'
  BY <1>1, <1>2 DEF Inv, WatermarkCovers, NothingSent, AnchorIsCursor, WindowFits, WindowReaches
<1>9. FetchedOrPruned' /\ CompletesOnce' /\ TipIsAhead' /\ CompletesAbove'
  BY <1>1, <1>2, <1>3 DEF Inv, FetchedOrPruned, Replayed, CompletesOnce, TipIsAhead, CompletesAbove
<1>10. StreamedWindow' /\ WindowIsWhole'
  <2>1. Warm' => Warm
    BY <1>2, <1>3 DEF Warm
  <2>. QED  BY <1>1, <1>2, <2>1 DEF Inv, StreamedWindow, WindowIsWhole, InNet, Event, Replayed
<1>11. IdsExist'
  BY <1>1, <1>2, <1>6 DEF Inv, IdsExist
<1>12. \A n \in 1..Len(bus) : bus[n] # i
  BY DEF Inv, BusOnce
<1>13. BusOnce'
  <2>1. \A n \in 1..Len(bus') : bus'[n] \notin pend'
    BY <1>3, <1>6 DEF Inv, BusOnce
  <2>2. \A m, n \in 1..Len(bus') : bus'[m] = bus'[n] => m = n
    BY <1>6, <1>12 DEF Inv, BusOnce
  <2>. QED  BY <2>1, <2>2 DEF BusOnce
<1>14. BusInOrder'
  <2> SUFFICES ASSUME "overtaken" \notin excused' PROVE BusInOrder'
    BY DEF BusInOrder
  <2>1. "overtaken" \notin excused /\ \A j \in pend : ~(j < i)
    BY DEF Emit
  <2>2. \A n \in 1..Len(bus) : \A j \in pend : bus[n] < j
    BY <2>1 DEF Inv, BusInOrder
  <2>3. \A m, n \in 1..Len(bus) : m < n => bus[m] < bus[n]
    BY <2>1 DEF Inv, BusInOrder
  <2>4. \A j \in pend' : i < j
    BY <1>1, <1>3, <2>1
  <2>5. \A n \in 1..Len(bus') : \A j \in pend' : bus'[n] < j
    BY <1>3, <1>6, <2>2, <2>4
  <2>6. \A m, n \in 1..Len(bus') : m < n => bus'[m] < bus'[n]
    BY <1>5, <1>6, <2>2, <2>3
  <2>. QED  BY <2>5, <2>6 DEF BusInOrder
<1>15. NoGap'
  BY <1>1, <1>2, <1>3 DEF Inv, NoGap
<1>16. NetIsGapFree'
  BY <1>1, <1>2, <1>3 DEF Inv, NetIsGapFree, Covered, Replayed, Event
<1>17. ASSUME conn.pc \notin {"none", "closed"}, NEW j, Undelivered(j) PROVE Undelivered(j)'
  BY <1>17, EmitDelivers
<1>18. SinceSubscribed'
  BY <1>1, <1>2, <1>17 DEF Inv, SinceSubscribed, Replays
<1>19. LiveIsGapFree'
  <2> SUFFICES ASSUME conn.pc = "live", excused = {}, NEW j \in 1..tip, Replayed(j)
               PROVE  Covered(j, Len(net))' \/ (conn.replayed < j /\ Undelivered(j)')
    BY <1>1, <1>2, <1>3 DEF LiveIsGapFree, Replayed
  <2>1. Covered(j, Len(net)) \/ (conn.replayed < j /\ Undelivered(j))
    BY DEF Inv, LiveIsGapFree
  <2>2. CASE Covered(j, Len(net))
    BY <1>2, <2>2 DEF Covered, Event
  <2>. QED  BY <1>17, <2>1, <2>2
<1>20. CacheIsOwed'
  <2> SUFFICES ASSUME conn.pc = "live", "projection" \notin excused, ~query.reused,
                      ~ \E n \in 1..Len(net) : net[n].ev = "_replay_complete", NEW j \in 1..tip
               PROVE  query.pc = "none" \/ j <= query.at \/ (conn.replayed < j /\ (Undelivered(j)' \/ InNet(j)'))
    BY <1>1, <1>2, <1>3 DEF CacheIsOwed
  <2>1. query.pc = "none" \/ j <= query.at \/ (conn.replayed < j /\ (Undelivered(j) \/ InNet(j)))
    BY DEF Inv, CacheIsOwed
  <2>2. InNet(j) => InNet(j)'
    BY <1>2 DEF InNet, Event
  <2>. QED  BY <1>17, <2>1, <2>2
<1>21. SentIsPast'
  BY <1>2, <1>3, <1>6 DEF Inv, SentIsPast
<1>. QED
  BY <1>7, <1>8, <1>9, <1>10, <1>11, <1>13, <1>14, <1>15, <1>16, <1>18, <1>19, <1>20, <1>21 DEF Inv

-----------------------------------------------------------------------------
(* Steps that end a connection.                                            *)

\* Without a connection only the frames in flight and the client's own state
\* matter.
LEMMA InvEnded ==
  ASSUME Inv, UNCHANGED <<kind, live, aged, watermark, excused>>,
         pend' \subseteq pend, writer' \in pend' \union {0}, faults' \in 0..MaxFaults,
         conn' \in {NoConn, [NoConn EXCEPT !.pc = "closed"]}, bus' = <<>>, lagged' = FALSE,
         net' \in {net, <<>>, <<Snapshot>>},
         \/ UNCHANGED <<cursor, cold, base, seen, query>>
         \/ /\ cursor' = 0 /\ cold' = TRUE /\ base' = 0 /\ seen' = {} /\ query' = NoQuery
            /\ net' = <<>>
  PROVE  Inv'
<1>1. TypeOK /\ tip \in Nat /\ tip' = tip /\ MaxId \in Nat /\ BusCapacity \in Nat
  <2>1. TypeOK
    BY DEF Inv
  <2>. QED  BY <2>1, Numbers, BoundsAssumption DEF tip
<1>2. conn' \in ConnType
  BY NoConnType
<1>3. conn'.pc \in {"none", "closed"} /\ conn'.since = 0 /\ conn'.anchor = 0 /\ conn'.rawMax = 0
      /\ conn'.rows = {} /\ conn'.lastId = 0 /\ conn'.wm = 0 /\ conn'.tip = 0
      /\ conn'.replayed = 0 /\ conn'.sent = {} /\ conn'.begun = 0
  BY DEF NoConn
<1>4. Snapshot \in Frames /\ Snapshot.id = 0 /\ Snapshot.ev = "_snapshot_required"
  BY DEF Snapshot, Frames
<1>5. net' \in Seq(Frames)
  <2>1. <<Snapshot>> \in Seq(Frames) /\ <<>> \in Seq(Frames)
    BY <1>4
  <2>. QED  BY <1>1, <2>1 DEF TypeOK
<1>6. TypeOK'
  <2>1. lagged' \in BOOLEAN /\ cold' \in BOOLEAN
    BY <1>1, Zenon DEF TypeOK
  <2>2. cursor' \in 0..tip /\ base' \in 0..MaxId /\ seen' \subseteq Ids /\ query' \in QueryType
    BY <1>1, NoQueryType DEF TypeOK
  <2>3. bus' \in Seq(Ids) /\ Len(bus') <= BusCapacity /\ pend' \subseteq 1..tip
    BY <1>1 DEF TypeOK
  <2>. QED  BY <1>1, <1>2, <1>5, <2>1, <2>2, <2>3 DEF TypeOK
<1>7. WatermarkCovers'
  BY <1>1 DEF Inv, WatermarkCovers
<1>8. \A n \in 1..Len(net') : net' = net \/ (net'[n].id = 0 /\ net'[n].ev = "_snapshot_required" /\ n = 1)
  <2>1. CASE net' = <<Snapshot>>
    <3>1. Len(net') = 1 /\ net'[1] = Snapshot
      BY <2>1
    <3>. QED  BY <1>4, <3>1
  <2>2. CASE net' = <<>>
    BY <2>2
  <2>. QED  BY <2>1, <2>2
<1>9. IdsExist'
  <2>1. \A n \in 1..Len(net') : net'[n].id <= tip
    BY <1>1, <1>8 DEF Inv, IdsExist
  <2>2. query'.at <= tip
    BY <1>1 DEF Inv, IdsExist, NoQuery
  <2>. QED  BY <1>1, <1>3, <2>1, <2>2 DEF IdsExist
<1>10. BusOnce' /\ BusInOrder'
  BY DEF BusOnce, BusInOrder
<1>11. SinceSubscribed' /\ NothingSent' /\ AnchorIsCursor' /\ WindowFits' /\ WindowReaches' /\ FetchedOrPruned'
  BY <1>3 DEF SinceSubscribed, NothingSent, AnchorIsCursor, WindowFits, WindowReaches, FetchedOrPruned,
     Quiets, Replays, Probed
<1>12. StreamedWindow' /\ WindowIsWhole' /\ TipIsAhead' /\ LiveIsGapFree' /\ CacheIsOwed' /\ SentIsPast'
  BY <1>3 DEF StreamedWindow, WindowIsWhole, TipIsAhead, LiveIsGapFree, CacheIsOwed, SentIsPast, Streamed
<1>13. CompletesOnce'
  BY <1>8 DEF Inv, CompletesOnce
<1>14. CompletesAbove'
  BY <1>8 DEF Inv, CompletesAbove
<1>15. NoGap'
  BY <1>1 DEF Inv, NoGap
<1>16. NetIsGapFree'
  <2> SUFFICES ASSUME excused = {}, NEW n \in 1..Len(net'), NEW j \in 1..tip, Replayed(j), j <= net'[n].id
               PROVE  Covered(j, n)'
    BY <1>1 DEF NetIsGapFree, Replayed
  <2>1. net' = net /\ UNCHANGED <<cold, base, seen>>
    BY <1>1, <1>8
  <2>2. Covered(j, n)
    BY <2>1 DEF Inv, NetIsGapFree
  <2>. QED  BY <2>1, <2>2 DEF Covered, Event
<1>. QED
  BY <1>6, <1>7, <1>9, <1>10, <1>11, <1>12, <1>13, <1>14, <1>15, <1>16 DEF Inv

\* The log and the faults as they were, for a step of the connection.
LEMMA SameLog ==
  ASSUME Inv, UNCHANGED logVars
  PROVE  pend' \subseteq pend /\ writer' \in pend' \union {0}
BY DEF logVars, Inv, TypeOK

\* The server's refusal.
LEMMA InvRefused ==
  ASSUME Inv, conn.pc \in Quiets, SnapshotRequired, Ok, UNCHANGED <<logVars, clientVars>>
  PROVE  Inv'
<1>1. net = <<>>
  BY DEF Inv, NothingSent
<1>2. net' = <<Snapshot>>
  BY <1>1 DEF SnapshotRequired, Send
<1>3. faults' \in 0..MaxFaults
  BY DEF Ok, faultVars, Inv, TypeOK
<1>4. pend' \subseteq pend /\ writer' \in pend' \union {0}
  BY SameLog
<1>. QED
  BY <1>2, <1>3, <1>4, InvEnded DEF SnapshotRequired, Close, Ok, logVars, clientVars, faultVars

LEMMA InvLagged == ASSUME Inv, Lagged PROVE Inv'
<1>1. pend' \subseteq pend /\ writer' \in pend' \union {0}
  BY SameLog DEF Lagged
<1>2. faults' \in 0..MaxFaults
  BY DEF Lagged, faultVars, Inv, TypeOK
<1>. QED
  BY <1>1, <1>2, InvEnded DEF Lagged, Close, logVars, clientVars, faultVars

LEMMA InvOnClose == ASSUME Inv, OnClose PROVE Inv'
<1>1. pend' \subseteq pend /\ writer' \in pend' \union {0}
  BY SameLog DEF OnClose
<1>2. faults' \in 0..MaxFaults
  BY DEF OnClose, faultVars, Inv, TypeOK
<1>. QED
  BY <1>1, <1>2, InvEnded DEF OnClose, Disconnected, logVars, clientVars, faultVars

\* One more fault is within the bound.
LEMMA OneMoreFault ==
  ASSUME Inv, faults < MaxFaults, faults' = faults + 1
  PROVE  faults' \in 0..MaxFaults
BY BoundsAssumption DEF Inv, TypeOK

LEMMA InvLose == ASSUME Inv, Lose PROVE Inv'
<1>1. pend' \subseteq pend /\ writer' \in pend' \union {0}
  BY SameLog DEF Lose
<1>2. faults' \in 0..MaxFaults
  BY OneMoreFault DEF Lose
<1>. QED
  BY <1>1, <1>2, InvEnded DEF Lose, Disconnected, logVars, clientVars

LEMMA InvCrash == ASSUME Inv, Crash PROVE Inv'
<1>1. faults' \in 0..MaxFaults
  BY OneMoreFault DEF Crash
<1>. QED
  BY <1>1, InvEnded DEF Crash, Disconnected, clientVars

LEMMA InvForget == ASSUME Inv, Forget, UNCHANGED <<logVars, faultVars>> PROVE Inv'
<1>1. pend' \subseteq pend /\ writer' \in pend' \union {0}
  BY SameLog
<1>2. faults' \in 0..MaxFaults
  BY DEF faultVars, Inv, TypeOK
<1>. QED
  BY <1>1, <1>2, InvEnded DEF Forget, Disconnected, logVars, faultVars

-----------------------------------------------------------------------------
(* The handshake.                                                          *)

LEMMA InvConnect == ASSUME Inv, Connect PROVE Inv'
<1>1. TypeOK /\ tip \in Nat /\ tip' = tip /\ MaxId \in Nat /\ BusCapacity \in Nat /\ tip <= MaxId
  <2>1. TypeOK
    BY DEF Inv
  <2>. QED  BY <2>1, Numbers, BoundsAssumption DEF tip, Connect, logVars
<1>2. cursor \in 0..tip /\ cursor \in 0..MaxId
  BY <1>1 DEF TypeOK
<1>3. conn' = [NoConn EXCEPT !.pc = "open", !.since = cursor]
  BY DEF Connect
<1>4. conn' \in ConnType
  BY <1>2, <1>3, NoConnType DEF ConnType, PCs
<1>5. conn'.pc = "open" /\ conn'.since = cursor /\ conn'.anchor = 0 /\ conn'.rawMax = 0
      /\ conn'.rows = {} /\ conn'.lastId = 0 /\ conn'.wm = 0 /\ conn'.tip = 0
      /\ conn'.replayed = 0 /\ conn'.sent = {} /\ conn'.begun = 0
  BY <1>3 DEF NoConn
<1>6. /\ bus' = <<>> /\ lagged' = FALSE /\ net' = <<>> /\ cold' = (cold \/ cursor = 0)
      /\ UNCHANGED <<kind, live, aged, watermark, pend, writer, cursor, base, seen, query, faults, excused>>
  BY DEF Connect, logVars, faultVars
<1>7. TypeOK'
  <2>1. lagged' \in BOOLEAN /\ cold' \in BOOLEAN
    BY <1>1, <1>6, Zenon DEF TypeOK
  <2>2. bus' \in Seq(Ids) /\ Len(bus') <= BusCapacity /\ net' \in Seq(Frames)
    BY <1>1, <1>6
  <2>. QED  BY <1>1, <1>4, <1>6, <2>1, <2>2 DEF TypeOK
<1>8. WatermarkCovers' /\ IdsExist'
  BY <1>1, <1>2, <1>5, <1>6 DEF Inv, WatermarkCovers, IdsExist
<1>9. BusOnce' /\ BusInOrder' /\ CompletesOnce' /\ CompletesAbove' /\ NetIsGapFree'
  BY <1>6 DEF BusOnce, BusInOrder, CompletesOnce, CompletesAbove, NetIsGapFree
<1>10. SinceSubscribed' /\ NothingSent' /\ WindowFits' /\ WindowReaches' /\ FetchedOrPruned'
  BY <1>5, <1>6 DEF SinceSubscribed, NothingSent, WindowFits, WindowReaches, FetchedOrPruned, Replays, Probed
<1>11. AnchorIsCursor'
  BY <1>5, <1>6 DEF AnchorIsCursor, Replays
<1>12. StreamedWindow' /\ WindowIsWhole' /\ TipIsAhead' /\ LiveIsGapFree' /\ CacheIsOwed' /\ SentIsPast'
  BY <1>5 DEF StreamedWindow, WindowIsWhole, TipIsAhead, LiveIsGapFree, CacheIsOwed, SentIsPast, Streamed
<1>13. NoGap'
  BY <1>1, <1>6 DEF Inv, NoGap
<1>. QED
  BY <1>7, <1>8, <1>9, <1>10, <1>11, <1>12, <1>13 DEF Inv

\* A failed read or projection leaves its mark and is one more fault.
LEMMA FaultStep ==
  ASSUME Inv, Ok \/ Failed \/ Unprojected
  PROVE  /\ faults' \in 0..MaxFaults /\ excused' \subseteq Failures \union {"overtaken"}
         /\ excused \subseteq excused'
         /\ Failed => "read" \in excused'
         /\ Unprojected => "projection" \in excused'
<1>1. faults \in 0..MaxFaults /\ excused \subseteq Failures \union {"overtaken"}
  BY DEF Inv, TypeOK
<1>2. CASE Ok
  <2>1. faults' = faults /\ excused' = excused
    BY <1>2 DEF Ok, faultVars
  <2>2. ~Failed /\ ~Unprojected
    BY <1>1, <2>1, BoundsAssumption DEF Failed, Unprojected
  <2>. QED  BY <1>1, <2>1, <2>2
<1>3. CASE Failed
  <2>1. excused' = excused \union {"read"} /\ "read" \in Failures /\ faults < MaxFaults /\ faults' = faults + 1
    BY <1>3 DEF Failed, CanFail
  <2>2. faults' \in 0..MaxFaults
    BY <2>1, OneMoreFault
  <2>. QED  BY <1>1, <2>1, <2>2 DEF Unprojected
<1>4. CASE Unprojected
  <2>1. excused' = excused \union {"projection"} /\ "projection" \in Failures /\ faults < MaxFaults /\ faults' = faults + 1
    BY <1>4 DEF Unprojected
  <2>2. faults' \in 0..MaxFaults
    BY <2>1, OneMoreFault
  <2>. QED  BY <1>1, <2>1, <2>2 DEF Failed
<1>. QED
  BY <1>2, <1>3, <1>4

\* A step of the replay before anything is sent.
LEMMA InvQuietStep ==
  ASSUME Inv, conn.pc \in Quiets, conn' \in ConnType, conn'.pc \in {"guard", "probe", "fetch", "recheck"},
         conn'.since = conn.since, conn'.sent = conn.sent, conn'.lastId = conn.lastId,
         conn'.wm = conn.wm, conn'.tip = conn.tip, conn'.replayed = conn.replayed,
         conn'.anchor <= tip, conn'.rawMax <= tip, conn'.begun <= tip, conn'.rows \subseteq 1..tip,
         SinceSubscribed', AnchorIsCursor', WindowFits', WindowReaches', FetchedOrPruned',
         UNCHANGED <<logVars, bus, lagged, net, clientVars>>, Ok \/ Failed
  PROVE  Inv'
<1>1. /\ faults' \in 0..MaxFaults /\ excused' \subseteq Failures \union {"overtaken"}
      /\ excused \subseteq excused'
  BY FaultStep
<1>2. TypeOK /\ tip' = tip
  BY DEF Inv, tip, logVars
<1>3. UNCHANGED <<kind, live, aged, watermark, pend, writer, bus, lagged, net, cursor, cold, base, seen, query>>
  BY DEF logVars, clientVars
<1>4. TypeOK'
  <2>1. lagged' \in BOOLEAN /\ cold' \in BOOLEAN
    BY <1>2, <1>3, Zenon DEF TypeOK
  <2>. QED  BY <1>1, <1>2, <1>3, <2>1 DEF TypeOK
<1>5. WatermarkCovers' /\ IdsExist'
  BY <1>2, <1>3 DEF Inv, WatermarkCovers, IdsExist
<1>6. BusOnce' /\ BusInOrder' /\ CompletesOnce' /\ CompletesAbove'
  BY <1>1, <1>3 DEF Inv, BusOnce, BusInOrder, CompletesOnce, CompletesAbove
<1>7. NoGap'
  BY <1>1, <1>2, <1>3 DEF Inv, NoGap
<1>8. NothingSent' /\ NetIsGapFree'
  <2>1. net = <<>> /\ cursor = conn.since /\ conn.sent = {}
    BY DEF Inv, NothingSent
  <2>. QED  BY <1>3, <2>1 DEF NothingSent, NetIsGapFree
<1>9. StreamedWindow' /\ WindowIsWhole' /\ TipIsAhead' /\ LiveIsGapFree' /\ CacheIsOwed' /\ SentIsPast'
  BY DEF StreamedWindow, WindowIsWhole, TipIsAhead, LiveIsGapFree, CacheIsOwed, SentIsPast, Streamed
<1>. QED
  BY <1>4, <1>5, <1>6, <1>7, <1>8, <1>9 DEF Inv

\* The select loop takes the first envelope of the bus.
LEMMA TailOfBus ==
  ASSUME Inv, bus # <<>>, bus' = Tail(bus), pend' = pend, excused \subseteq excused'
  PROVE  /\ bus' \in Seq(Ids) /\ Len(bus') <= BusCapacity /\ Len(bus) \in Nat
         /\ Len(bus') = Len(bus) - 1 /\ 1 \in 1..Len(bus) /\ Head(bus) = bus[1]
         /\ \A n \in 1..Len(bus') : bus'[n] = bus[n + 1] /\ n + 1 \in 1..Len(bus)
         /\ BusOnce' /\ BusInOrder'
<1>1. bus \in Seq(Ids) /\ Len(bus) <= BusCapacity /\ BusCapacity \in Nat
  BY BoundsAssumption DEF Inv, TypeOK
<1>2. /\ Len(bus') = Len(bus) - 1 /\ Len(bus) \in Nat /\ bus' \in Seq(Ids) /\ 1 \in 1..Len(bus) /\ Head(bus) = bus[1]
      /\ \A n \in 1..Len(bus') : bus'[n] = bus[n + 1] /\ n + 1 \in 1..Len(bus)
  BY <1>1
<1>3. Len(bus') <= BusCapacity
  BY <1>1, <1>2
<1>4. \A n \in 1..Len(bus') : bus'[n] \notin pend
  BY <1>2 DEF Inv, BusOnce
<1>5. \A m, n \in 1..Len(bus') : bus'[m] = bus'[n] => m = n
  BY <1>2 DEF Inv, BusOnce
<1>6. "overtaken" \notin excused' => \A n \in 1..Len(bus') : \A j \in pend : bus'[n] < j
  BY <1>2 DEF Inv, BusInOrder
<1>7. "overtaken" \notin excused' => \A m, n \in 1..Len(bus') : m < n => bus'[m] < bus'[n]
  BY <1>2 DEF Inv, BusInOrder
<1>. QED
  BY <1>2, <1>3, <1>4, <1>5, <1>6, <1>7 DEF BusOnce, BusInOrder

LEMMA InvDiscard == ASSUME Inv, DiscardUnsubscribed PROVE Inv'
<1>1. TypeOK /\ tip' = tip /\ conn.pc = "open" /\ bus \in Seq(Ids) /\ bus # <<>> /\ bus' = Tail(bus)
  BY DEF Inv, tip, logVars, DiscardUnsubscribed, TypeOK
<1>2. /\ bus' \in Seq(Ids) /\ Len(bus') <= BusCapacity
      /\ \A n \in 1..Len(bus') : bus'[n] = bus[n + 1] /\ n + 1 \in 1..Len(bus)
      /\ BusOnce' /\ BusInOrder'
  BY <1>1, TailOfBus DEF DiscardUnsubscribed, logVars, faultVars
<1>3. UNCHANGED <<kind, live, aged, watermark, pend, writer, conn, lagged, net, cursor, cold, base, seen, query, faults, excused>>
  BY DEF DiscardUnsubscribed, logVars, clientVars, faultVars
<1>4. TypeOK'
  <2>1. lagged' \in BOOLEAN /\ cold' \in BOOLEAN
    BY <1>1, <1>3, Zenon DEF TypeOK
  <2>. QED  BY <1>1, <1>2, <1>3, <2>1 DEF TypeOK
<1>5. WatermarkCovers' /\ IdsExist'
  BY <1>1, <1>2, <1>3 DEF Inv, WatermarkCovers, IdsExist
<1>7. NothingSent' /\ AnchorIsCursor' /\ CompletesOnce' /\ CompletesAbove' /\ NoGap'
  BY <1>1, <1>3 DEF Inv, NothingSent, AnchorIsCursor, CompletesOnce, CompletesAbove, NoGap
<1>8. SinceSubscribed' /\ WindowFits' /\ WindowReaches' /\ FetchedOrPruned'
  BY <1>1, <1>3 DEF SinceSubscribed, WindowFits, WindowReaches, FetchedOrPruned, Replays, Probed
<1>9. StreamedWindow' /\ WindowIsWhole' /\ TipIsAhead' /\ LiveIsGapFree' /\ CacheIsOwed' /\ SentIsPast'
  BY <1>1, <1>3 DEF StreamedWindow, WindowIsWhole, TipIsAhead, LiveIsGapFree, CacheIsOwed, SentIsPast, Streamed
<1>10. NetIsGapFree'
  BY <1>1, <1>3 DEF Inv, NetIsGapFree, NothingSent, Quiets
<1>. QED
  BY <1>2, <1>4, <1>5, <1>7, <1>8, <1>9, <1>10 DEF Inv

LEMMA InvSubscribe == ASSUME Inv, Subscribe PROVE Inv'
<1>1. TypeOK /\ tip' = tip /\ tip \in Nat /\ tip <= MaxId /\ conn.pc = "open" /\ conn \in ConnType /\ MaxId \in Nat
  <2>1. TypeOK
    BY DEF Inv
  <2>. QED  BY <2>1, Numbers DEF tip, logVars, Subscribe, TypeOK
<1>2. conn' = [conn EXCEPT !.pc = IF conn.since > 0 THEN "guard" ELSE "probe",
                           !.anchor = conn.since, !.begun = tip]
  BY DEF Subscribe, Step
<1>3. /\ conn' \in ConnType /\ conn'.pc \in {"guard", "probe"}
      /\ conn'.since = conn.since /\ conn'.sent = conn.sent /\ conn'.lastId = conn.lastId
      /\ conn'.wm = conn.wm /\ conn'.tip = conn.tip /\ conn'.replayed = conn.replayed
      /\ conn'.anchor = conn.since /\ conn'.rawMax = conn.rawMax /\ conn'.begun = tip /\ conn'.rows = conn.rows
  <2> DEFINE p == IF conn.since > 0 THEN "guard" ELSE "probe"
  <2>1. p \in {"guard", "probe"} /\ p \in PCs
    BY DEF PCs
  <2>2. conn' = [conn EXCEPT !.pc = p, !.anchor = conn.since, !.begun = tip]
    BY <1>2
  <2>3. conn.since \in 0..MaxId /\ tip \in 0..MaxId
    BY <1>1 DEF ConnType
  <2> HIDE DEF p
  <2>. QED  BY <1>1, <2>1, <2>2, <2>3 DEF ConnType
<1>4. UNCHANGED <<logVars, bus, lagged, net, clientVars>> /\ Ok
  BY DEF Subscribe, Step, Ok
<1>5. SinceSubscribed'
  <2>1. aged' <= tip
    BY <1>1, <1>4 DEF TypeOK, logVars
  <2>. QED  BY <1>1, <1>3, <2>1 DEF SinceSubscribed
<1>6. AnchorIsCursor'
  <2>1. conn.since = 0 => cold
    BY <1>1 DEF Inv, AnchorIsCursor, Quiets
  <2>2. conn.since \in Nat
    BY <1>1, Numbers
  <2>. QED  BY <1>3, <1>4, <2>1, <2>2 DEF AnchorIsCursor, clientVars
<1>7. WindowFits' /\ WindowReaches' /\ FetchedOrPruned'
  BY <1>3 DEF WindowFits, WindowReaches, FetchedOrPruned, Probed
<1>8. conn.since <= tip /\ conn.rawMax <= tip /\ conn.rows \subseteq 1..tip
  BY DEF Inv, IdsExist
<1>9. conn.pc \in Quiets
  BY <1>1 DEF Quiets
<1>. QED
  BY <1>1, <1>3, <1>4, <1>5, <1>6, <1>7, <1>8, <1>9, InvQuietStep

LEMMA InvGuard == ASSUME Inv, Guard PROVE Inv'
<1>1. TypeOK /\ tip' = tip /\ tip \in Nat /\ conn.pc = "guard" /\ conn \in ConnType /\ conn.pc \in Quiets
  <2>1. TypeOK
    BY DEF Inv
  <2>. QED  BY <2>1, Numbers DEF tip, logVars, Guard, TypeOK, Quiets
<1>2. UNCHANGED <<logVars, clientVars>>
  BY DEF Guard
<1>3. CASE SnapshotRequired /\ Ok
  BY <1>1, <1>2, <1>3, InvRefused
<1>4. CASE Step([conn EXCEPT !.pc = "probe"]) /\ UNCHANGED net /\ (Ok \/ Failed)
  <2>1. conn' = [conn EXCEPT !.pc = "probe"] /\ UNCHANGED <<bus, lagged, net>>
    BY <1>4 DEF Step
  <2>2. /\ conn' \in ConnType /\ conn'.pc = "probe"
        /\ conn'.since = conn.since /\ conn'.sent = conn.sent /\ conn'.lastId = conn.lastId
        /\ conn'.wm = conn.wm /\ conn'.tip = conn.tip /\ conn'.replayed = conn.replayed
        /\ conn'.anchor = conn.anchor /\ conn'.rawMax = conn.rawMax /\ conn'.begun = conn.begun /\ conn'.rows = conn.rows
    BY <1>1, <2>1 DEF ConnType, PCs
  <2>3. SinceSubscribed' /\ AnchorIsCursor'
    BY <1>1, <1>2, <2>1, <2>2 DEF Inv, SinceSubscribed, AnchorIsCursor, Replays, Quiets, Undelivered, logVars, clientVars
  <2>4. WindowFits' /\ WindowReaches' /\ FetchedOrPruned'
    BY <2>2 DEF WindowFits, WindowReaches, FetchedOrPruned, Probed
  <2>5. conn.anchor <= tip /\ conn.rawMax <= tip /\ conn.rows \subseteq 1..tip /\ conn.begun <= tip
    BY DEF Inv, IdsExist
  <2>. QED  BY <1>1, <1>2, <1>4, <2>1, <2>2, <2>3, <2>4, <2>5, InvQuietStep
<1>. QED
  BY <1>3, <1>4 DEF Guard

-----------------------------------------------------------------------------
(* The replay.                                                             *)

\* A read that failed: the replay completes at once where it began.
LEMMA InvDegraded ==
  ASSUME Inv, conn.pc \in {"probe", "fetch"}, Degraded, Failed, UNCHANGED <<logVars, clientVars>>
  PROVE  Inv'
<1>1. /\ faults' \in 0..MaxFaults /\ excused' \subseteq Failures \union {"overtaken"}
      /\ excused \subseteq excused' /\ "read" \in excused'
  BY FaultStep
<1>2. TypeOK /\ tip' = tip /\ tip \in Nat /\ MaxId \in Nat /\ tip <= MaxId /\ conn \in ConnType /\ conn.anchor \in Nat
  <2>1. TypeOK
    BY DEF Inv
  <2>. QED  BY <2>1, Numbers DEF tip, logVars, TypeOK
<1>3. UNCHANGED <<kind, live, aged, watermark, pend, writer, bus, lagged, cursor, cold, base, seen, query>>
  BY DEF logVars, clientVars, Degraded, Step
<1>4. net = <<>>
  BY DEF Inv, NothingSent, Quiets
<1>5. net' = <<Complete(conn.anchor)>>
  BY <1>4 DEF Degraded, Send
<1>6. conn.anchor <= tip
  BY DEF Inv, IdsExist
<1>7. Complete(conn.anchor) \in Frames /\ Complete(conn.anchor).ev = "_replay_complete" /\ Complete(conn.anchor).id = conn.anchor
  BY <1>2, <1>6 DEF Complete, Frames
<1>8. net' \in Seq(Frames) /\ Len(net') = 1 /\ net'[1] = Complete(conn.anchor)
  BY <1>5, <1>7
<1>9. conn' = [conn EXCEPT !.pc = "live", !.replayed = conn.anchor]
  BY DEF Degraded, Step
<1>10. /\ conn' \in ConnType /\ conn'.pc = "live" /\ conn'.replayed = conn.anchor
       /\ conn'.since = conn.since /\ conn'.sent = conn.sent /\ conn'.lastId = conn.lastId
       /\ conn'.wm = conn.wm /\ conn'.tip = conn.tip
       /\ conn'.anchor = conn.anchor /\ conn'.rawMax = conn.rawMax /\ conn'.begun = conn.begun /\ conn'.rows = conn.rows
  BY <1>2, <1>9 DEF ConnType, PCs
<1>11. TypeOK'
  <2>1. lagged' \in BOOLEAN /\ cold' \in BOOLEAN
    BY <1>2, <1>3, Zenon DEF TypeOK
  <2>. QED  BY <1>1, <1>2, <1>3, <1>8, <1>10, <2>1 DEF TypeOK
<1>12. WatermarkCovers' /\ IdsExist'
  BY <1>2, <1>3, <1>6, <1>7, <1>8, <1>10 DEF Inv, WatermarkCovers, IdsExist
<1>13. BusOnce' /\ BusInOrder' /\ NoGap'
  BY <1>1, <1>2, <1>3 DEF Inv, BusOnce, BusInOrder, NoGap
<1>14. CompletesOnce' /\ CompletesAbove' /\ NetIsGapFree' /\ LiveIsGapFree' /\ SentIsPast'
  BY <1>1, <1>8 DEF CompletesOnce, CompletesAbove, NetIsGapFree, LiveIsGapFree, SentIsPast
<1>15. CacheIsOwed'
  BY <1>7, <1>8 DEF CacheIsOwed
<1>16. SinceSubscribed' /\ NothingSent' /\ AnchorIsCursor' /\ WindowFits' /\ WindowReaches' /\ FetchedOrPruned'
  BY <1>10 DEF SinceSubscribed, NothingSent, AnchorIsCursor, WindowFits, WindowReaches, FetchedOrPruned,
     Quiets, Replays, Probed
<1>17. StreamedWindow' /\ WindowIsWhole' /\ TipIsAhead'
  BY <1>10 DEF StreamedWindow, WindowIsWhole, TipIsAhead, Streamed
<1>. QED
  BY <1>11, <1>12, <1>13, <1>14, <1>15, <1>16, <1>17 DEF Inv

\* A window of at most Cap rows: it is all there is above the anchor.
LEMMA ProbedWindow ==
  ASSUME Inv, NEW W, W = Upto(Above(conn.anchor), Cap + 1), Cardinality(W) <= Cap
  PROVE  /\ Greatest(W) \in 0..tip
         /\ \A i \in live : conn.anchor < i => i <= Greatest(W)
         /\ Cardinality({i \in live : conn.anchor < i /\ i <= Greatest(W)}) <= Cap
<1>1. tip \in Nat /\ live \subseteq 1..tip /\ conn.anchor \in Nat /\ Cap \in Nat
  <2>1. TypeOK
    BY DEF Inv
  <2>. QED  BY <2>1, Numbers, BoundsAssumption DEF TypeOK
<1>2. Above(conn.anchor) \in SUBSET (1..tip)
  BY <1>1 DEF Above
<1>3. W = Above(conn.anchor)
  BY <1>1, <1>2, UptoIsAll
<1>4. Greatest(W) \in 0..tip /\ \A i \in W : i <= Greatest(W)
  BY <1>1, <1>2, <1>3, GreatestIs
<1>5. \A i \in live : conn.anchor < i => i \in W
  BY <1>1, <1>3 DEF Above
<1>6. {i \in live : conn.anchor < i /\ i <= Greatest(W)} = W
  <2>1. \A i \in W : i \in live /\ conn.anchor < i
    BY <1>1, <1>3 DEF Above
  <2>. QED  BY <1>4, <1>5, <2>1
<1>. QED
  BY <1>4, <1>5, <1>6

LEMMA InvProbe == ASSUME Inv, Probe PROVE Inv'
<1> DEFINE W == Upto(Above(conn.anchor), Cap + 1)
           route == ReplayCapRoute(conn.anchor, Cardinality(W), conn.promoted)
<1>1. TypeOK /\ tip' = tip /\ tip \in Nat /\ tip <= MaxId /\ MaxId \in Nat /\ conn.pc = "probe" /\ conn \in ConnType
      /\ conn.pc \in Quiets
  <2>1. TypeOK
    BY DEF Inv
  <2>. QED  BY <2>1, Numbers DEF tip, logVars, Probe, TypeOK, Quiets
<1>2. UNCHANGED <<logVars, clientVars>>
  BY DEF Probe
<1>3. conn.anchor <= tip /\ conn.rawMax <= tip /\ conn.rows \subseteq 1..tip /\ conn.begun <= tip
  BY DEF Inv, IdsExist
<1>4. /\ conn.since \in Nat /\ conn.anchor \in Nat /\ conn.rawMax \in Nat /\ conn.begun \in Nat
      /\ conn.since <= conn.anchor /\ (conn.since > 0 => conn.anchor = conn.since)
      /\ (conn.since = 0 => cold) /\ aged <= conn.begun
      /\ \A j \in 1..tip : conn.begun < j => Undelivered(j)
  BY <1>1, Numbers DEF Inv, AnchorIsCursor, SinceSubscribed, Replays
<1>5. CASE route = "Snapshot" /\ SnapshotRequired /\ Ok
  BY <1>1, <1>2, <1>5, InvRefused
<1>6. CASE Degraded /\ Failed
  BY <1>1, <1>2, <1>6, InvDegraded
<1>7. CASE route = "Stream" /\ Step([conn EXCEPT !.pc = "fetch", !.rawMax = Greatest(W)]) /\ UNCHANGED net /\ Ok
  <2>1. Cardinality(W) <= Cap
    <3> HIDE DEF W
    <3>. QED  BY <1>7 DEF ReplayCapRoute
  <2>2. /\ Greatest(W) \in 0..tip
        /\ \A i \in live : conn.anchor < i => i <= Greatest(W)
        /\ Cardinality({i \in live : conn.anchor < i /\ i <= Greatest(W)}) <= Cap
    BY <2>1, ProbedWindow
  <2> HIDE DEF W
  <2>3. conn' = [conn EXCEPT !.pc = "fetch", !.rawMax = Greatest(W)] /\ UNCHANGED <<bus, lagged, net>>
    BY <1>7 DEF Step
  <2>4. Greatest(W) \in 0..MaxId
    BY <1>1, <2>2
  <2>5. /\ conn' \in ConnType /\ conn'.pc = "fetch"
        /\ conn'.since = conn.since /\ conn'.sent = conn.sent /\ conn'.lastId = conn.lastId
        /\ conn'.wm = conn.wm /\ conn'.tip = conn.tip /\ conn'.replayed = conn.replayed
        /\ conn'.anchor = conn.anchor /\ conn'.rawMax = Greatest(W) /\ conn'.begun = conn.begun /\ conn'.rows = conn.rows
    BY <1>1, <2>3, <2>4 DEF ConnType, PCs
  <2>6. SinceSubscribed' /\ AnchorIsCursor'
    BY <1>1, <1>2, <1>4, <2>3, <2>5 DEF SinceSubscribed, AnchorIsCursor, Undelivered, logVars, clientVars
  <2>7. WindowFits' /\ FetchedOrPruned'
    BY <1>2, <2>2, <2>5 DEF WindowFits, FetchedOrPruned, logVars
  <2>8. WindowReaches'
    <3>1. conn.begun = 0 \/ conn.begun \in live \/ conn.begun <= watermark
      BY <1>1, <1>3, <1>4 DEF Inv, WatermarkCovers
    <3>2. conn.begun <= conn.anchor \/ conn.begun <= Greatest(W) \/ conn.begun <= watermark
      BY <1>1, <1>4, <2>2, <3>1
    <3>. QED  BY <1>2, <2>5, <3>2 DEF WindowReaches, logVars
  <2>. QED  BY <1>1, <1>2, <1>3, <1>7, <2>2, <2>3, <2>5, <2>6, <2>7, <2>8, InvQuietStep
<1>8. ASSUME NEW a \in 0..tip, route = "PromoteAnchor", Step([conn EXCEPT !.anchor = a, !.promoted = TRUE]),
             UNCHANGED net, Ok \/ Failed
      PROVE  Inv'
  <2>1. conn' = [conn EXCEPT !.anchor = a, !.promoted = TRUE] /\ UNCHANGED <<bus, lagged, net>>
    BY <1>8 DEF Step
  <2>2. conn.anchor = 0
    <3> HIDE DEF W
    <3>1. ~(conn.anchor > 0)
      BY <1>8 DEF ReplayCapRoute
    <3>. QED  BY <1>4, <3>1
  <2>3. conn.since = 0
    BY <1>4, <2>2
  <2>4. a \in 0..MaxId /\ a \in Nat
    BY <1>1
  <2>5. /\ conn' \in ConnType /\ conn'.pc = "probe"
        /\ conn'.since = conn.since /\ conn'.sent = conn.sent /\ conn'.lastId = conn.lastId
        /\ conn'.wm = conn.wm /\ conn'.tip = conn.tip /\ conn'.replayed = conn.replayed
        /\ conn'.anchor = a /\ conn'.rawMax = conn.rawMax /\ conn'.begun = conn.begun /\ conn'.rows = conn.rows
    BY <1>1, <2>1, <2>4 DEF ConnType
  <2>6. SinceSubscribed' /\ AnchorIsCursor'
    BY <1>1, <1>2, <1>4, <2>1, <2>3, <2>4, <2>5 DEF SinceSubscribed, AnchorIsCursor, Undelivered, logVars, clientVars
  <2>7. WindowFits' /\ WindowReaches' /\ FetchedOrPruned'
    BY <2>5 DEF WindowFits, WindowReaches, FetchedOrPruned, Probed
  <2>. QED  BY <1>1, <1>2, <1>3, <1>8, <2>1, <2>5, <2>6, <2>7, InvQuietStep
<1>9. latest \in 0..tip /\ 0 \in 0..tip
  <2>1. live \in SUBSET (1..tip)
    BY <1>1 DEF TypeOK
  <2>. QED  BY <1>1, <2>1, GreatestIs DEF latest
<1>10. \/ route = "Stream" /\ Step([conn EXCEPT !.pc = "fetch", !.rawMax = Greatest(W)]) /\ UNCHANGED net /\ Ok
       \/ route = "Snapshot" /\ SnapshotRequired /\ Ok
       \/ route = "PromoteAnchor" /\ Step([conn EXCEPT !.anchor = latest, !.promoted = TRUE]) /\ UNCHANGED net /\ Ok
       \/ route = "PromoteAnchor" /\ Step([conn EXCEPT !.anchor = 0, !.promoted = TRUE]) /\ UNCHANGED net /\ Failed
       \/ Degraded /\ Failed
  BY DEF Probe
<1> HIDE DEF route
<1>. QED
  BY <1>5, <1>6, <1>7, <1>8, <1>9, <1>10

LEMMA InvFetch == ASSUME Inv, Fetch PROVE Inv'
<1> DEFINE F == Upto(Above(conn.anchor), Cap)
           R == Mappable(F)
<1>1. TypeOK /\ tip' = tip /\ tip \in Nat /\ tip <= MaxId /\ MaxId \in Nat /\ conn.pc = "fetch" /\ conn \in ConnType
      /\ conn.pc \in Quiets /\ live \subseteq 1..tip /\ Cap \in Nat
  <2>1. TypeOK
    BY DEF Inv
  <2>. QED  BY <2>1, Numbers, BoundsAssumption DEF tip, logVars, Fetch, TypeOK, Quiets
<1>2. UNCHANGED <<logVars, clientVars>>
  BY DEF Fetch
<1>3. conn.anchor <= tip /\ conn.rawMax <= tip /\ conn.rows \subseteq 1..tip /\ conn.begun <= tip
  BY DEF Inv, IdsExist
<1>4. /\ conn.since \in Nat /\ conn.anchor \in Nat /\ conn.rawMax \in Nat /\ conn.begun \in Nat
      /\ conn.since <= conn.anchor /\ (conn.since > 0 => conn.anchor = conn.since)
      /\ (conn.since = 0 => cold) /\ aged <= conn.begun
      /\ \A j \in 1..tip : conn.begun < j => Undelivered(j)
  BY <1>1, Numbers DEF Inv, AnchorIsCursor, SinceSubscribed, Replays
<1>5. CASE Degraded /\ Failed
  BY <1>1, <1>2, <1>5, InvDegraded
<1>6. CASE Step([conn EXCEPT !.pc = "recheck", !.rows = R]) /\ UNCHANGED net /\ Ok
  <2>1. Above(conn.anchor) \in SUBSET (1..tip)
    BY <1>1 DEF Above
  <2>2. F \subseteq Above(conn.anchor)
    BY DEF Upto
  <2>3. R \subseteq F /\ R \subseteq 1..tip /\ R \subseteq Ids
    BY <1>1, <2>1, <2>2 DEF Mappable, Ids
  <2>4. ASSUME NEW i \in 1..tip, conn.anchor < i, Replayed(i), i <= conn.rawMax \/ \E n \in R : i <= n
        PROVE  i \in R \/ i <= watermark
    <3>1. CASE i \notin live
      BY <3>1 DEF Inv, WatermarkCovers
    <3>2. CASE i \in live /\ i <= conn.rawMax
      <4>1. i \in Above(conn.anchor)
        BY <1>4, <2>4, <3>2 DEF Above
      <4>2. {j \in Above(conn.anchor) : j <= conn.rawMax} = {j \in live : conn.anchor < j /\ j <= conn.rawMax}
        BY <1>1, <1>4 DEF Above
      <4>3. Cardinality({j \in Above(conn.anchor) : j <= conn.rawMax}) <= Cap
        BY <1>1, <4>2 DEF Inv, WindowFits
      <4>4. i \in F
        BY <1>1, <1>4, <2>1, <3>2, <4>1, <4>3, UptoHasWindow
      <4>. QED  BY <2>4, <4>4 DEF Mappable, Replayed
    <3>3. ASSUME i \in live, NEW n \in R, i <= n PROVE i \in R
      <4>1. i \in Above(conn.anchor)
        BY <1>4, <2>4, <3>3 DEF Above
      <4>2. n \in F
        BY <2>3
      <4>3. i \in F
        BY <1>1, <2>1, <3>3, <4>1, <4>2, UptoIsDownward
      <4>. QED  BY <2>4, <4>3 DEF Mappable, Replayed
    <3>. QED  BY <2>4, <3>1, <3>2, <3>3
  <2> HIDE DEF F, R
  <2>5. conn' = [conn EXCEPT !.pc = "recheck", !.rows = R] /\ UNCHANGED <<bus, lagged, net>>
    BY <1>6 DEF Step
  <2>6. /\ conn' \in ConnType /\ conn'.pc = "recheck"
        /\ conn'.since = conn.since /\ conn'.sent = conn.sent /\ conn'.lastId = conn.lastId
        /\ conn'.wm = conn.wm /\ conn'.tip = conn.tip /\ conn'.replayed = conn.replayed
        /\ conn'.anchor = conn.anchor /\ conn'.rawMax = conn.rawMax /\ conn'.begun = conn.begun /\ conn'.rows = R
    BY <1>1, <2>3, <2>5 DEF ConnType, PCs
  <2>7. SinceSubscribed' /\ AnchorIsCursor'
    BY <1>1, <1>2, <1>4, <2>5, <2>6 DEF SinceSubscribed, AnchorIsCursor, Undelivered, logVars, clientVars
  <2>8. WindowFits' /\ WindowReaches'
    BY <1>1, <1>2, <2>6 DEF Inv, WindowFits, WindowReaches, Probed, logVars
  <2>9. FetchedOrPruned'
    BY <1>1, <1>2, <2>4, <2>6 DEF FetchedOrPruned, Replayed, logVars
  <2>. QED  BY <1>1, <1>2, <1>3, <1>6, <2>3, <2>5, <2>6, <2>7, <2>8, <2>9, InvQuietStep
<1>. QED
  BY <1>5, <1>6 DEF Fetch

\* The frames of a replay: one for each row, by id.
LEMMA RowsAsFrames ==
  ASSUME Inv, conn.pc = "recheck", NEW w, NEW rs \in SUBSET conn.rows, StreamRows(w, rs)
  PROVE  /\ net' \in Seq(Frames)
         /\ \A n \in 1..Len(net') : net'[n].ev = "event" /\ net'[n].id \in rs
         /\ \A i \in rs : \E n \in 1..Len(net') : net'[n] = Event(i)
         /\ \A m, n \in 1..Len(net') : m < n => net'[m].id < net'[n].id
<1> DEFINE s == InIdOrder(rs)
           c == Cardinality(rs)
           f == [n \in 1..c |-> Event(s[n])]
<1>1. tip \in Nat /\ MaxId \in Nat /\ tip <= MaxId /\ conn.rows \subseteq 1..tip
  <2>1. TypeOK /\ IdsExist
    BY DEF Inv
  <2>. QED  BY <2>1, Numbers DEF IdsExist
<1>2. rs \in SUBSET (1..tip)
  BY <1>1
<1>3. c \in Nat
  BY <1>1, <1>2, IdSets, FS_CardinalityType
<1>4. Enumerates(s, rs)
  BY <1>1, <1>2, InIdOrderEnumerates
<1> HIDE DEF s
<1>5. /\ \A n \in 1..c : s[n] \in rs
      /\ \A m, n \in 1..c : m < n => s[m] < s[n]
      /\ \A i \in rs : \E n \in 1..c : s[n] = i
  BY <1>4 DEF Enumerates
<1> HIDE DEF c
<1>6. \A i \in Ids : Event(i) \in Frames /\ Event(i).ev = "event" /\ Event(i).id = i
  BY DEF Event, Frames
<1>7. \A n \in 1..c : f[n] = Event(s[n]) /\ Event(s[n]) \in Frames /\ f[n].ev = "event" /\ f[n].id = s[n]
  <2>1. \A i \in rs : i \in Ids
    BY <1>1, <1>2 DEF Ids
  <2>2. \A n \in 1..c : f[n] = Event(s[n])
    OBVIOUS
  <2> HIDE DEF f
  <2>. QED  BY <1>5, <1>6, <2>1, <2>2
<1>8. f \in Seq(Frames) /\ Len(f) = c
  BY <1>3, <1>7
<1>9. net = <<>> /\ net' = net \o f
  BY DEF Inv, NothingSent, Quiets, StreamRows, Send, s, c
<1> HIDE DEF f
<1>10. net' = f
  BY <1>8, <1>9
<1>. QED
  <2>1. \A n \in 1..Len(net') : net'[n].ev = "event" /\ net'[n].id \in rs
    BY <1>5, <1>7, <1>8, <1>10
  <2>2. \A i \in rs : \E n \in 1..Len(net') : net'[n] = Event(i)
    BY <1>5, <1>7, <1>8, <1>10
  <2>3. \A m, n \in 1..Len(net') : m < n => net'[m].id < net'[n].id
    BY <1>5, <1>7, <1>8, <1>10
  <2>. QED  BY <1>8, <1>10, <2>1, <2>2, <2>3

LEMMA InvStream ==
  ASSUME Inv, conn.pc = "recheck", NEW w \in 0..tip, NEW rs \in SUBSET conn.rows, StreamRows(w, rs),
         Ok \/ Failed \/ Unprojected,
         Ok => rs = conn.rows /\ ~WatermarkInvalidatesWindow(conn.since, watermark),
         UNCHANGED <<logVars, clientVars>>
  PROVE  Inv'
<1> DEFINE g == Greatest(conn.rows)
           last == Max({conn.anchor, g})
<1>1. TypeOK /\ tip' = tip /\ tip \in Nat /\ tip <= MaxId /\ MaxId \in Nat /\ conn \in ConnType
  <2>1. TypeOK
    BY DEF Inv
  <2>. QED  BY <2>1, Numbers DEF tip, logVars, TypeOK
<1>2. UNCHANGED <<kind, live, aged, watermark, pend, writer, bus, lagged, cursor, cold, base, seen, query>>
  BY DEF logVars, clientVars, StreamRows, Step
<1>3. /\ faults' \in 0..MaxFaults /\ excused' \subseteq Failures \union {"overtaken"}
      /\ excused \subseteq excused'
      /\ "read" \notin excused' /\ "projection" \notin excused' => Ok
  BY FaultStep
<1>4. /\ net' \in Seq(Frames)
      /\ \A n \in 1..Len(net') : net'[n].ev = "event" /\ net'[n].id \in rs
      /\ \A i \in rs : \E n \in 1..Len(net') : net'[n] = Event(i)
      /\ \A m, n \in 1..Len(net') : m < n => net'[m].id < net'[n].id
  BY RowsAsFrames
<1>5. /\ conn.anchor <= tip /\ conn.rawMax <= tip /\ conn.rows \in SUBSET (1..tip) /\ conn.begun <= tip
      /\ conn.since \in Nat /\ conn.anchor \in Nat /\ conn.rawMax \in Nat /\ conn.begun \in Nat /\ watermark \in Nat
  BY <1>1, Numbers DEF Inv, IdsExist
<1>6. /\ conn.since <= conn.anchor /\ (conn.since > 0 => conn.anchor = conn.since)
      /\ (conn.since = 0 => cold) /\ aged <= conn.begun
      /\ \A j \in 1..tip : conn.begun < j => Undelivered(j)
      /\ net = <<>> /\ cursor = conn.since /\ conn.sent = {}
  BY DEF Inv, AnchorIsCursor, SinceSubscribed, NothingSent, Replays, Quiets
<1>7. g \in 0..tip /\ (\A i \in conn.rows : i <= g) /\ (conn.rows # {} => g \in conn.rows)
      /\ (conn.rows = {} => g = 0)
  <2>1. conn.rows = {} => g = 0
    BY DEF Greatest
  <2>. QED  BY <1>1, <1>5, <2>1, GreatestIs
<1> HIDE DEF g
<1>8. g \in Nat
  BY <1>1, <1>7
<1>9. last \in {conn.anchor, g} /\ conn.anchor <= last /\ g <= last
  BY <1>5, <1>8, MaxOfPair
<1>10. conn' = [conn EXCEPT !.pc = "tip", !.wm = w, !.rows = {}, !.sent = @ \union rs, !.lastId = last]
  BY DEF StreamRows, Step, g
<1> HIDE DEF last
<1>11. last \in 0..tip /\ last \in Nat
  BY <1>1, <1>5, <1>7, <1>9
<1>12. rs \subseteq 1..tip /\ \A i \in rs : i <= last /\ i \in Nat
  BY <1>1, <1>5, <1>7, <1>8, <1>9, <1>11
<1>13. /\ conn' \in ConnType /\ conn'.pc = "tip" /\ conn'.wm = w
       /\ conn'.since = conn.since /\ conn'.sent = rs /\ conn'.lastId = last
       /\ conn'.tip = conn.tip /\ conn'.replayed = conn.replayed
       /\ conn'.anchor = conn.anchor /\ conn'.rawMax = conn.rawMax /\ conn'.begun = conn.begun /\ conn'.rows = {}
  <2>1. w \in 0..MaxId /\ last \in 0..MaxId /\ rs \subseteq Ids /\ "tip" \in PCs
    BY <1>1, <1>11, <1>12 DEF Ids, PCs
  <2>2. conn.sent \union rs = rs
    BY <1>6
  <2>. QED  BY <1>1, <1>10, <2>1, <2>2 DEF ConnType
<1>14. TypeOK'
  <2>1. lagged' \in BOOLEAN /\ cold' \in BOOLEAN
    BY <1>1, <1>2, Zenon DEF TypeOK
  <2>. QED  BY <1>1, <1>2, <1>3, <1>4, <1>13, <2>1 DEF TypeOK
<1>15. WatermarkCovers'
  BY <1>1, <1>2 DEF Inv, WatermarkCovers
<1>16. IdsExist'
  <2>1. \A n \in 1..Len(net') : net'[n].id <= tip
    <3>1. \A i \in rs : i <= tip
      BY <1>1, <1>12
    <3>. QED  BY <1>4, <3>1
  <2>. QED  BY <1>1, <1>2, <1>11, <1>12, <1>13, <2>1 DEF Inv, IdsExist
<1>17. BusOnce' /\ BusInOrder' /\ NoGap'
  BY <1>1, <1>2, <1>3 DEF Inv, BusOnce, BusInOrder, NoGap
<1>18. CompletesOnce' /\ CompletesAbove'
  BY <1>4 DEF CompletesOnce, CompletesAbove
<1>19. SinceSubscribed' /\ AnchorIsCursor'
  BY <1>1, <1>2, <1>6, <1>13 DEF SinceSubscribed, AnchorIsCursor, Undelivered
<1>20. NothingSent' /\ WindowFits' /\ FetchedOrPruned' /\ TipIsAhead' /\ LiveIsGapFree' /\ CacheIsOwed' /\ SentIsPast'
  BY <1>13 DEF NothingSent, WindowFits, FetchedOrPruned, TipIsAhead, LiveIsGapFree, CacheIsOwed, SentIsPast, Quiets
<1>21. WindowReaches'
  BY <1>2, <1>13 DEF Inv, WindowReaches, Probed
<1>22. StreamedWindow'
  <2>1. cursor <= last /\ conn.since <= cursor
    BY <1>5, <1>6, <1>9, <1>11
  <2>2. \A n \in 1..Len(net') : net'[n].ev = "event" /\ net'[n].id <= last
    BY <1>4, <1>12
  <2>3. \A i \in rs : i <= last /\ InNet(i)'
    BY <1>4, <1>12 DEF InNet, Event
  <2>. QED  BY <1>2, <1>9, <1>13, <2>1, <2>2, <2>3 DEF StreamedWindow
<1>23. ASSUME Ok, conn.since > 0, NEW i \in 1..tip, conn.anchor < i, Replayed(i),
              i <= conn.rawMax \/ \E n \in conn.rows : i <= n
       PROVE  i \in rs
  <2>1. i \in conn.rows \/ i <= watermark
    BY <1>23 DEF Inv, FetchedOrPruned
  <2>2. ~(conn.since < watermark) /\ rs = conn.rows
    BY <1>23 DEF WatermarkInvalidatesWindow
  <2>3. ~(i <= watermark)
    BY <1>5, <1>6, <1>23, <2>2
  <2>. QED  BY <2>1, <2>2, <2>3
<1>24. WindowIsWhole'
  <2> SUFFICES ASSUME Warm' PROVE /\ conn.begun <= conn.anchor \/ conn.begun <= conn.rawMax
                                  /\ \A i \in 1..tip :
                                       /\ conn.anchor < i /\ Replayed(i)
                                       /\ i <= conn.rawMax \/ i <= last
                                       => i \in rs
    BY <1>1, <1>2, <1>13 DEF WindowIsWhole, Replayed
  <2>1. conn.since > 0 /\ Ok
    BY <1>3, <1>13 DEF Warm
  <2>2. ~(conn.since < watermark)
    BY <2>1 DEF WatermarkInvalidatesWindow
  <2>3. conn.begun <= conn.anchor \/ conn.begun <= conn.rawMax
    BY <1>5, <1>6, <2>1, <2>2 DEF Inv, WindowReaches, Probed
  <2>4. ASSUME NEW i \in 1..tip, conn.anchor < i, Replayed(i), i <= conn.rawMax \/ i <= last
        PROVE  i \in rs
    <3>1. i <= last => last = g /\ g # 0
      BY <1>5, <1>8, <1>9, <2>4
    <3>2. i <= last => g \in conn.rows /\ i <= g
      BY <1>7, <3>1
    <3>. QED  BY <1>23, <2>1, <2>4, <3>2
  <2>. QED  BY <2>3, <2>4
<1>25. NetIsGapFree'
  <2> SUFFICES ASSUME excused' = {}, NEW n \in 1..Len(net'), NEW j \in 1..tip, Replayed(j), j <= net'[n].id
               PROVE  Covered(j, n)'
    BY <1>1, <1>2 DEF NetIsGapFree, Replayed
  <2>1. Ok /\ excused = {}
    BY <1>3
  <2>2. CASE cold
    <3>1. \A m \in 1..n : net'[m].ev # "_replay_complete"
      BY <1>4
    <3>. QED  BY <1>2, <2>2, <3>1 DEF Covered
  <2>3. CASE ~cold /\ j <= conn.since
    <3>1. j <= base \/ j \in seen
      <4>1. NoGap
        BY DEF Inv
      <4>2. ~(base < j) \/ j \in seen
        BY <1>6, <2>1, <2>3, <4>1 DEF NoGap, Replayed
      <4>3. base \in Nat
        BY <1>1, Numbers
      <4>. QED  BY <4>2, <4>3
    <3>. QED  BY <1>2, <2>3, <3>1 DEF Covered
  <2>4. CASE ~cold /\ ~(j <= conn.since)
    <3>1. conn.since > 0 /\ conn.anchor < j
      BY <1>5, <1>6, <2>4
    <3>2. net'[n].id \in conn.rows
      BY <1>4
    <3>3. j \in rs
      BY <1>23, <2>1, <3>1, <3>2
    <3>4. PICK m \in 1..Len(net') : net'[m] = Event(j)
      BY <1>4, <3>3
    <3>5. net'[m].id = j
      BY <3>4 DEF Event
    <3>6. net'[n].id \in Nat
      BY <1>4, <1>12
    <3>7. m \in 1..n
      <4>1. ~(n < m)
        BY <1>4, <3>5, <3>6
      <4>. QED  BY <4>1
    <3>. QED  BY <3>4, <3>7 DEF Covered, Event
  <2>. QED  BY <2>2, <2>3, <2>4
<1>. QED
  BY <1>14, <1>15, <1>16, <1>17, <1>18, <1>19, <1>20, <1>21, <1>22, <1>24, <1>25 DEF Inv

LEMMA InvRecheck == ASSUME Inv, Recheck PROVE Inv'
<1>1. conn.pc = "recheck" /\ conn.pc \in Quiets /\ UNCHANGED <<logVars, clientVars>>
  BY DEF Recheck, Quiets
<1>2. watermark \in 0..tip /\ 0 \in 0..tip
  <2>1. TypeOK
    BY DEF Inv
  <2>. QED  BY <2>1, Numbers DEF TypeOK
<1>3. CASE SnapshotRequired /\ Ok
  BY <1>1, <1>3, InvRefused
<1>4. CASE ~WatermarkInvalidatesWindow(conn.since, watermark) /\ StreamRows(watermark, conn.rows) /\ Ok
  BY <1>1, <1>2, <1>4, InvStream
<1>5. CASE StreamRows(0, conn.rows) /\ Failed
  <2>1. ~Ok
    BY <1>5 DEF Ok, Failed, faultVars, Inv, TypeOK
  <2>. QED  BY <1>1, <1>2, <1>5, <2>1, InvStream
<1>6. ASSUME NEW i \in conn.rows, StreamRows(watermark, conn.rows \ {i}), Unprojected PROVE Inv'
  <2>1. ~Ok
    BY <1>6 DEF Ok, Unprojected, faultVars, Inv, TypeOK
  <2>. QED  BY <1>1, <1>2, <1>6, <2>1, InvStream
<1>. QED
  BY <1>3, <1>4, <1>5, <1>6 DEF Recheck

LEMMA InvReadTip == ASSUME Inv, ReadTip PROVE Inv'
<1>1. TypeOK /\ tip' = tip /\ tip \in Nat /\ tip <= MaxId /\ MaxId \in Nat /\ conn \in ConnType /\ conn.pc = "tip"
  <2>1. TypeOK
    BY DEF Inv
  <2>. QED  BY <2>1, Numbers DEF tip, logVars, TypeOK, ReadTip
<1>2. UNCHANGED <<kind, live, aged, watermark, pend, writer, bus, lagged, net, cursor, cold, base, seen, query>>
  BY DEF logVars, clientVars, ReadTip, Step
<1>3. /\ faults' \in 0..MaxFaults /\ excused' \subseteq Failures \union {"overtaken"}
      /\ excused \subseteq excused' /\ (Failed => "read" \in excused')
  BY FaultStep DEF ReadTip
<1>4. live \in SUBSET (1..tip)
  BY <1>1 DEF TypeOK
<1>5. latest \in 0..tip /\ \A i \in live : i <= latest
  BY <1>1, <1>4, GreatestIs DEF latest
<1>6. conn.lastId \in 0..tip /\ conn.begun \in 0..tip
  BY <1>1, Numbers DEF Inv, IdsExist
<1>7. PICK t \in {latest, conn.lastId} : conn' = [conn EXCEPT !.pc = "stamp", !.tip = t] /\ (t = latest \/ Failed)
  BY DEF ReadTip, Step
<1>8. /\ conn' \in ConnType /\ conn'.pc = "stamp" /\ conn'.tip = t /\ t <= tip
      /\ conn'.since = conn.since /\ conn'.sent = conn.sent /\ conn'.lastId = conn.lastId
      /\ conn'.wm = conn.wm /\ conn'.replayed = conn.replayed
      /\ conn'.anchor = conn.anchor /\ conn'.rawMax = conn.rawMax /\ conn'.begun = conn.begun /\ conn'.rows = conn.rows
  <2>1. t \in 0..MaxId /\ t <= tip
    BY <1>1, <1>5, <1>6, <1>7
  <2>. QED  BY <1>1, <1>7, <2>1 DEF ConnType, PCs
<1>9. TypeOK'
  <2>1. lagged' \in BOOLEAN /\ cold' \in BOOLEAN
    BY <1>1, <1>2, Zenon DEF TypeOK
  <2>. QED  BY <1>1, <1>2, <1>3, <1>8, <2>1 DEF TypeOK
<1>10. WatermarkCovers' /\ IdsExist'
  BY <1>1, <1>2, <1>8 DEF Inv, WatermarkCovers, IdsExist
<1>11. BusOnce' /\ BusInOrder' /\ NoGap' /\ CompletesOnce' /\ CompletesAbove'
  BY <1>1, <1>2, <1>3 DEF Inv, BusOnce, BusInOrder, NoGap, CompletesOnce, CompletesAbove
<1>12. NetIsGapFree'
  BY <1>1, <1>2, <1>3 DEF Inv, NetIsGapFree, Covered, Replayed, Event
<1>13. SinceSubscribed' /\ AnchorIsCursor' /\ WindowReaches'
  BY <1>1, <1>2, <1>8 DEF Inv, SinceSubscribed, AnchorIsCursor, WindowReaches, Undelivered, Replays, Probed
<1>14. NothingSent' /\ WindowFits' /\ FetchedOrPruned' /\ LiveIsGapFree' /\ CacheIsOwed' /\ SentIsPast'
  BY <1>8 DEF NothingSent, WindowFits, FetchedOrPruned, LiveIsGapFree, CacheIsOwed, SentIsPast, Quiets
<1>15. StreamedWindow'
  BY <1>1, <1>2, <1>8 DEF Inv, StreamedWindow, Streamed, InNet, Event
<1>16. WindowIsWhole'
  <2>1. Warm' => Warm
    BY <1>3, <1>8 DEF Warm
  <2>. QED  BY <1>1, <1>2, <1>8, <2>1 DEF Inv, WindowIsWhole, Streamed, Replayed
<1>17. TipIsAhead'
  <2> SUFFICES ASSUME "read" \notin excused'
               PROVE  /\ conn.lastId <= t \/ conn.lastId <= watermark
                      /\ conn.begun <= t \/ conn.begun <= watermark
    BY <1>2, <1>8 DEF TipIsAhead
  <2>1. t = latest
    BY <1>3, <1>7
  <2>2. \A i \in 0..tip : i <= latest \/ i <= watermark
    BY <1>1, <1>5 DEF Inv, WatermarkCovers
  <2>. QED  BY <1>6, <2>1, <2>2
<1>. QED
  BY <1>9, <1>10, <1>11, <1>12, <1>13, <1>14, <1>15, <1>16, <1>17 DEF Inv

\* The stamp is at least the last id sent and the tip at the subscription, and
\* for a warm client it is not past the window.
LEMMA StampBounds ==
  ASSUME Inv, conn.pc = "stamp", NEW w \in {watermark, conn.wm}, NEW end, NEW stamp,
         end = Max({conn.lastId, IF conn.rawMax = 0 THEN conn.anchor ELSE conn.rawMax}),
         stamp = ReplayCompleteStamp(conn.tip, end, w)
  PROVE  /\ stamp \in 0..tip
         /\ w = watermark /\ "read" \notin excused => conn.lastId <= stamp /\ conn.begun <= stamp
         /\ w = watermark /\ Warm => \A j \in Nat : j <= stamp => j <= conn.lastId \/ j <= conn.rawMax
<1>1. /\ tip \in Nat /\ conn.lastId \in 0..tip /\ conn.rawMax \in 0..tip /\ conn.anchor \in 0..tip /\ conn.tip \in 0..tip
      /\ conn.begun \in 0..tip /\ watermark \in 0..tip /\ aged \in 0..tip /\ watermark <= aged /\ w \in 0..tip
  <2>1. TypeOK /\ IdsExist
    BY DEF Inv
  <2>2. /\ tip \in Nat /\ conn.lastId \in Nat /\ conn.rawMax \in Nat /\ conn.anchor \in Nat /\ conn.tip \in Nat
        /\ conn.begun \in Nat /\ conn.wm \in Nat
    BY <2>1, Numbers
  <2>. QED  BY <2>1, <2>2, SMTT(20) DEF IdsExist, TypeOK
<1> DEFINE r == IF conn.rawMax = 0 THEN conn.anchor ELSE conn.rawMax
           low == Min({conn.tip, end})
<1>2. r \in 0..tip /\ conn.rawMax <= r /\ (r = conn.anchor \/ r = conn.rawMax)
  BY <1>1
<1>3. end \in {conn.lastId, r} /\ conn.lastId <= end /\ r <= end
  <2> HIDE DEF r
  <2>1. end = Max({conn.lastId, r})
    BY DEF r
  <2>. QED  BY <1>1, <1>2, <2>1, MaxOfPair
<1>4. end \in 0..tip /\ end \in Nat
  <2> HIDE DEF r
  <2>. QED  BY <1>1, <1>2, <1>3
<1>5. low \in {conn.tip, end} /\ low <= conn.tip /\ low <= end
  BY <1>1, <1>4, MinOfPair
<1>6. stamp = Max({low, w})
  BY DEF ReplayCompleteStamp
<1> HIDE DEF low
<1>7. low \in 0..tip
  BY <1>1, <1>4, <1>5
<1>8. stamp \in {low, w} /\ low <= stamp /\ w <= stamp
  BY <1>1, <1>6, <1>7, MaxOfPair
<1>9. stamp \in 0..tip
  BY <1>1, <1>7, <1>8
<1>10. conn.anchor <= conn.lastId
  BY DEF Inv, StreamedWindow, Streamed
<1>11. ASSUME w = watermark, "read" \notin excused PROVE conn.lastId <= stamp /\ conn.begun <= stamp
  <2> HIDE DEF r
  <2>1. /\ conn.lastId <= conn.tip \/ conn.lastId <= watermark
        /\ conn.begun <= conn.tip \/ conn.begun <= watermark
    BY <1>11 DEF Inv, TipIsAhead
  <2>2. conn.begun <= conn.anchor \/ conn.begun <= conn.rawMax \/ conn.begun <= watermark
    BY DEF Inv, WindowReaches, Probed
  <2>3. conn.lastId <= low \/ conn.lastId <= watermark
    BY <1>1, <1>3, <1>4, <1>5, <2>1
  <2>4. conn.begun <= end \/ conn.begun <= watermark
    BY <1>1, <1>2, <1>3, <1>4, <1>10, <2>2
  <2>5. conn.begun <= low \/ conn.begun <= watermark
    BY <1>1, <1>4, <1>5, <2>1, <2>4
  <2>. QED  BY <1>1, <1>7, <1>8, <1>9, <1>11, <2>3, <2>5
<1>12. ASSUME w = watermark, Warm, NEW j \in Nat, j <= stamp PROVE j <= conn.lastId \/ j <= conn.rawMax
  <2> HIDE DEF r
  <2>1. conn.begun <= conn.anchor \/ conn.begun <= conn.rawMax
    BY <1>12 DEF Inv, WindowIsWhole, Streamed
  <2>2. aged <= conn.begun
    BY DEF Inv, SinceSubscribed, Replays
  <2>3. conn.begun <= end
    BY <1>1, <1>2, <1>3, <1>4, <1>10, <2>1
  <2>4. watermark <= end
    BY <1>1, <1>4, <2>2, <2>3
  <2>5. stamp <= end
    BY <1>1, <1>4, <1>5, <1>7, <1>8, <1>12, <2>4
  <2>6. j <= end
    BY <1>4, <1>9, <1>12, <2>5
  <2>. QED  BY <1>1, <1>2, <1>3, <1>10, <2>6
<1>. QED
  BY <1>9, <1>11, <1>12

LEMMA InvStamp == ASSUME Inv, Stamp PROVE Inv'
<1> DEFINE end == Max({conn.lastId, IF conn.rawMax = 0 THEN conn.anchor ELSE conn.rawMax})
<1>1. TypeOK /\ tip' = tip /\ tip \in Nat /\ tip <= MaxId /\ MaxId \in Nat /\ conn \in ConnType /\ conn.pc = "stamp"
      /\ net \in Seq(Frames) /\ Len(net) \in Nat
  <2>1. TypeOK
    BY DEF Inv
  <2>. QED  BY <2>1, Numbers DEF tip, logVars, TypeOK, Stamp
<1>0. PICK w \in {watermark, conn.wm} :
        /\ Send(<<Complete(ReplayCompleteStamp(conn.tip, end, w))>>)
        /\ Step([NoConn EXCEPT !.pc = "live", !.replayed = ReplayCompleteStamp(conn.tip, end, w),
                               !.sent = conn.sent])
        /\ (w = watermark /\ Ok) \/ Failed
  BY DEF Stamp
<1> DEFINE stamp == ReplayCompleteStamp(conn.tip, end, w)
<1>2. /\ Send(<<Complete(stamp)>>)
      /\ Step([NoConn EXCEPT !.pc = "live", !.replayed = stamp, !.sent = conn.sent])
      /\ (w = watermark /\ Ok) \/ Failed
  BY <1>0
<1> HIDE DEF end, stamp
<1>3. UNCHANGED <<kind, live, aged, watermark, pend, writer, bus, lagged, cursor, cold, base, seen, query>>
  BY <1>2 DEF logVars, clientVars, Stamp, Step
<1>4. /\ faults' \in 0..MaxFaults /\ excused' \subseteq Failures \union {"overtaken"}
      /\ excused \subseteq excused' /\ ("read" \notin excused' => w = watermark /\ Ok)
  BY <1>2, FaultStep
<1>5. /\ stamp \in 0..tip
      /\ w = watermark /\ "read" \notin excused => conn.lastId <= stamp /\ conn.begun <= stamp
      /\ w = watermark /\ Warm => \A j \in Nat : j <= stamp => j <= conn.lastId \/ j <= conn.rawMax
  BY <1>0, <1>1, StampBounds DEF end, stamp
<1>6. stamp \in Nat /\ stamp \in 0..MaxId
  BY <1>1, <1>5
<1>7. Complete(stamp) \in Frames /\ Complete(stamp).ev = "_replay_complete" /\ Complete(stamp).id = stamp
  BY <1>6 DEF Complete, Frames
<1>8. /\ net' \in Seq(Frames) /\ Len(net') = Len(net) + 1 /\ net'[Len(net) + 1] = Complete(stamp)
      /\ \A n \in 1..Len(net) : net'[n] = net[n]
  <2>1. <<Complete(stamp)>> \in Seq(Frames)
    BY <1>7
  <2>2. net' = net \o <<Complete(stamp)>>
    BY <1>2 DEF Send
  <2>. QED  BY <1>1, <2>1, <2>2
<1>9. \A n \in 1..Len(net') : n \in 1..Len(net) \/ n = Len(net) + 1
  BY <1>1, <1>8
<1>10. conn' = [NoConn EXCEPT !.pc = "live", !.replayed = stamp, !.sent = conn.sent]
  BY <1>2 DEF Step
<1>11. /\ conn' \in ConnType /\ conn'.pc = "live" /\ conn'.replayed = stamp /\ conn'.sent = conn.sent
       /\ conn'.since = 0 /\ conn'.lastId = 0 /\ conn'.wm = 0 /\ conn'.tip = 0
       /\ conn'.anchor = 0 /\ conn'.rawMax = 0 /\ conn'.begun = 0 /\ conn'.rows = {}
  <2>1. conn.sent \subseteq Ids /\ "live" \in PCs
    BY <1>1, Numbers DEF PCs
  <2>2. conn' \in ConnType
    BY <1>6, <1>10, <2>1, NoConnType DEF ConnType
  <2>. QED  BY <1>10, <2>2 DEF NoConn
<1>12. TypeOK'
  <2>1. lagged' \in BOOLEAN /\ cold' \in BOOLEAN
    BY <1>1, <1>3, Zenon DEF TypeOK
  <2>. QED  BY <1>1, <1>3, <1>4, <1>8, <1>11, <2>1 DEF TypeOK
<1>13. IdsExist
  BY DEF Inv
<1>14. WatermarkCovers' /\ IdsExist'
  <2>1. \A n \in 1..Len(net') : net'[n].id <= tip
    BY <1>1, <1>5, <1>7, <1>8, <1>9, <1>13 DEF IdsExist
  <2>2. stamp <= tip
    BY <1>1, <1>5
  <2>. QED  BY <1>1, <1>3, <1>11, <1>13, <2>1, <2>2 DEF Inv, WatermarkCovers, IdsExist
<1>15. BusOnce' /\ BusInOrder' /\ NoGap'
  BY <1>1, <1>3, <1>4 DEF Inv, BusOnce, BusInOrder, NoGap
<1>16. SinceSubscribed' /\ NothingSent' /\ AnchorIsCursor' /\ WindowFits' /\ WindowReaches' /\ FetchedOrPruned'
  BY <1>11 DEF SinceSubscribed, NothingSent, AnchorIsCursor, WindowFits, WindowReaches, FetchedOrPruned,
     Quiets, Replays, Probed
<1>17. StreamedWindow' /\ WindowIsWhole' /\ TipIsAhead'
  BY <1>11 DEF StreamedWindow, WindowIsWhole, TipIsAhead, Streamed
<1>18. /\ conn.anchor <= conn.lastId /\ cursor <= conn.lastId /\ conn.since <= cursor
       /\ \A n \in 1..Len(net) : net[n].ev = "event" /\ net[n].id <= conn.lastId
       /\ \A i \in conn.sent : i <= conn.lastId /\ (i \in seen \/ InNet(i))
  BY <1>1 DEF Inv, StreamedWindow, Streamed
<1>19. CompletesOnce'
  BY <1>8, <1>9, <1>18 DEF CompletesOnce
<1>20. /\ conn.lastId \in Nat /\ cursor \in Nat /\ conn.begun \in Nat /\ conn.since \in Nat /\ conn.anchor \in Nat
       /\ conn.rawMax \in Nat /\ base \in Nat /\ \A n \in 1..Len(net) : net[n].id \in Nat
  BY <1>1, Numbers
<1>21. CompletesAbove'
  <2> SUFFICES ASSUME "read" \notin excused', NEW n \in 1..Len(net'), net'[n].ev = "_replay_complete"
               PROVE  cursor <= net'[n].id /\ \A m \in 1..n : net'[m].id <= net'[n].id
    BY <1>3 DEF CompletesAbove
  <2>1. n = Len(net) + 1 /\ net'[n].id = stamp
    BY <1>7, <1>8, <1>9, <1>18
  <2>2. conn.lastId <= stamp
    BY <1>4, <1>5
  <2>3. cursor <= stamp
    BY <1>6, <1>18, <1>20, <2>2
  <2>4. ASSUME NEW m \in 1..n PROVE net'[m].id <= stamp
    <3>1. CASE m \in 1..Len(net)
      BY <1>6, <1>8, <1>18, <1>20, <2>2, <3>1
    <3>2. CASE m = n
      BY <1>6, <2>1, <3>2
    <3>. QED  BY <1>1, <2>1, <3>1, <3>2
  <2>. QED  BY <2>1, <2>3, <2>4
<1>22. ASSUME excused' = {}, NEW j \in 1..tip, Replayed(j), j <= stamp
       PROVE  Covered(j, Len(net))'
  <2>1. excused = {} /\ w = watermark
    BY <1>4, <1>22
  <2>2. Len(net) + 1 \in 1..Len(net')
    BY <1>1, <1>8
  <2>3. CASE cold
    BY <1>3, <1>7, <1>8, <1>22, <2>2, <2>3 DEF Covered
  <2>4. CASE ~cold /\ j <= cursor
    <3>1. NoGap
      BY DEF Inv
    <3>2. j <= base \/ j \in seen
      BY <1>20, <1>22, <2>1, <2>4, <3>1 DEF NoGap, Replayed
    <3>. QED  BY <1>3, <2>4, <3>2 DEF Covered
  <2>5. CASE ~cold /\ ~(j <= cursor)
    <3>1. conn.since > 0 /\ conn.anchor = conn.since
      BY <1>1, <1>20, <2>5 DEF Inv, AnchorIsCursor, Replays
    <3>2. Warm
      BY <2>1, <3>1 DEF Warm
    <3>3. conn.anchor < j
      BY <1>18, <1>20, <2>5, <3>1
    <3>4. j <= conn.lastId \/ j <= conn.rawMax
      BY <1>5, <1>22, <2>1, <3>2
    <3>5. j \in conn.sent
      BY <1>1, <1>22, <3>2, <3>3, <3>4 DEF Inv, WindowIsWhole, Streamed
    <3>6. j \in seen \/ InNet(j)
      BY <1>18, <3>5
    <3>7. CASE InNet(j)
      <4>1. PICK m \in 1..Len(net) : net[m] = Event(j)
        BY <3>7 DEF InNet
      <4>2. m \in 1..Len(net') /\ net'[m] = Event(j)
        BY <1>1, <1>8, <4>1
      <4>. QED  BY <4>2 DEF Covered, Event
    <3>. QED  BY <1>3, <3>6, <3>7 DEF Covered
  <2>. QED  BY <2>3, <2>4, <2>5
<1>23. NetIsGapFree'
  <2> SUFFICES ASSUME excused' = {}, NEW n \in 1..Len(net'), NEW j \in 1..tip, Replayed(j), j <= net'[n].id
               PROVE  Covered(j, n)'
    BY <1>1, <1>3 DEF NetIsGapFree, Replayed
  <2>1. CASE n = Len(net) + 1
    <3>1. Covered(j, Len(net))'
      BY <1>7, <1>8, <1>22, <2>1
    <3>. QED  BY <1>8, <2>1, <3>1 DEF Covered
  <2>2. CASE n \in 1..Len(net)
    <3>1. Covered(j, n)
      BY <1>4, <1>8, <2>2 DEF Inv, NetIsGapFree
    <3>2. \A m \in 1..n : net'[m] = net[m]
      BY <1>1, <1>8, <2>2
    <3>. QED  BY <1>3, <3>1, <3>2 DEF Covered, Event
  <2>. QED  BY <1>9, <2>1, <2>2
<1>24. LiveIsGapFree'
  <2> SUFFICES ASSUME excused' = {}, NEW j \in 1..tip, Replayed(j)
               PROVE  Covered(j, Len(net))' \/ (stamp < j /\ Undelivered(j)')
    BY <1>1, <1>3, <1>8, <1>11 DEF LiveIsGapFree, Replayed
  <2>1. CASE j <= stamp
    BY <1>22, <2>1
  <2>2. CASE ~(j <= stamp)
    <3>1. conn.begun < j
      BY <1>4, <1>5, <1>6, <1>20, <2>2
    <3>2. Undelivered(j)
      BY <1>1, <3>1 DEF Inv, SinceSubscribed, Replays
    <3>. QED  BY <1>3, <1>6, <2>2, <3>2 DEF Undelivered
  <2>. QED  BY <2>1, <2>2
<1>25. CacheIsOwed'
  <2>1. Len(net) + 1 \in 1..Len(net')
    BY <1>1, <1>8
  <2>. QED  BY <1>7, <1>8, <2>1 DEF CacheIsOwed
<1>26. SentIsPast'
  <2> SUFFICES ASSUME "read" \notin excused', NEW i \in conn.sent PROVE i <= stamp
    BY <1>11 DEF SentIsPast
  <2>1. conn.lastId <= stamp /\ i <= conn.lastId
    BY <1>4, <1>5, <1>18
  <2>2. i \in Nat
    <3>1. conn.sent \subseteq Ids /\ MaxId \in Nat
      BY <1>1, Numbers
    <3>. QED  BY <3>1 DEF Ids
  <2>. QED  BY <1>6, <1>20, <2>1, <2>2
<1>. QED
  BY <1>12, <1>14, <1>15, <1>16, <1>17, <1>19, <1>21, <1>23, <1>24, <1>25, <1>26 DEF Inv

-----------------------------------------------------------------------------
(* The live connection and the client.                                     *)

\* An envelope the loop skips: replayed already, or its projection failed.
LEMMA InvSkip ==
  ASSUME Inv, conn.pc = "live", ~lagged, bus # <<>>, bus' = Tail(bus),
         (Head(bus) <= conn.replayed /\ Ok) \/ Unprojected,
         UNCHANGED <<logVars, conn, net, lagged, clientVars>>
  PROVE  Inv'
<1>1. TypeOK /\ tip' = tip /\ tip \in Nat /\ conn.replayed \in Nat
  <2>1. TypeOK
    BY DEF Inv
  <2>. QED  BY <2>1, Numbers DEF tip, logVars
<1>2. UNCHANGED <<kind, live, aged, watermark, pend, writer, conn, lagged, net, cursor, cold, base, seen, query>>
  BY DEF logVars, clientVars
<1>3. /\ faults' \in 0..MaxFaults /\ excused' \subseteq Failures \union {"overtaken"}
      /\ excused \subseteq excused' /\ ("projection" \notin excused' => Head(bus) <= conn.replayed)
  BY FaultStep
<1>4. /\ bus' \in Seq(Ids) /\ Len(bus') <= BusCapacity /\ Len(bus) \in Nat
      /\ Len(bus') = Len(bus) - 1 /\ 1 \in 1..Len(bus) /\ Head(bus) = bus[1]
      /\ \A n \in 1..Len(bus') : bus'[n] = bus[n + 1] /\ n + 1 \in 1..Len(bus)
      /\ BusOnce' /\ BusInOrder'
  BY <1>2, <1>3, TailOfBus
<1>5. TypeOK'
  <2>1. lagged' \in BOOLEAN /\ cold' \in BOOLEAN
    BY <1>1, <1>2, Zenon DEF TypeOK
  <2>. QED  BY <1>1, <1>2, <1>3, <1>4, <2>1 DEF TypeOK
<1>6. WatermarkCovers' /\ IdsExist'
  BY <1>1, <1>2, <1>4 DEF Inv, WatermarkCovers, IdsExist
<1>7. NoGap' /\ CompletesOnce' /\ CompletesAbove'
  BY <1>1, <1>2, <1>3 DEF Inv, NoGap, CompletesOnce, CompletesAbove
<1>8. NetIsGapFree'
  <2> SUFFICES ASSUME excused' = {}, NEW n \in 1..Len(net), NEW j \in 1..tip, Replayed(j), j <= net[n].id
               PROVE  Covered(j, n)
    BY <1>1, <1>2 DEF NetIsGapFree, Covered, Replayed
  <2>1. excused = {}
    BY <1>3
  <2>. QED  BY <2>1 DEF Inv, NetIsGapFree
<1>9. SinceSubscribed' /\ NothingSent' /\ AnchorIsCursor' /\ WindowFits' /\ WindowReaches' /\ FetchedOrPruned'
  BY <1>2 DEF SinceSubscribed, NothingSent, AnchorIsCursor, WindowFits, WindowReaches, FetchedOrPruned,
     Quiets, Replays, Probed
<1>10. StreamedWindow' /\ WindowIsWhole' /\ TipIsAhead'
  BY <1>2 DEF StreamedWindow, WindowIsWhole, TipIsAhead, Streamed
<1>11. ASSUME NEW j, Undelivered(j), j # Head(bus) PROVE Undelivered(j)'
  <2>1. CASE j \in pend
    BY <1>2, <2>1 DEF Undelivered
  <2>2. ASSUME NEW n \in 1..Len(bus), bus[n] = j PROVE Undelivered(j)'
    <3>1. n - 1 \in 1..Len(bus') /\ bus'[n - 1] = j
      BY <1>4, <1>11, <2>2
    <3>. QED  BY <3>1 DEF Undelivered
  <2>. QED  BY <1>11, <2>1, <2>2 DEF Undelivered
<1>12. LiveIsGapFree'
  <2> SUFFICES ASSUME excused' = {}, NEW j \in 1..tip, Replayed(j)
               PROVE  Covered(j, Len(net))' \/ (conn.replayed < j /\ Undelivered(j)')
    BY <1>1, <1>2 DEF LiveIsGapFree, Replayed
  <2>1. Covered(j, Len(net)) \/ (conn.replayed < j /\ Undelivered(j))
    BY <1>3 DEF Inv, LiveIsGapFree
  <2>2. Covered(j, Len(net)) => Covered(j, Len(net))'
    BY <1>2 DEF Covered, Event
  <2>3. conn.replayed < j => j # Head(bus)
    BY <1>1, <1>3
  <2>. QED  BY <1>11, <2>1, <2>2, <2>3
<1>13. CacheIsOwed'
  <2> SUFFICES ASSUME "projection" \notin excused', ~query.reused,
                      ~ \E n \in 1..Len(net) : net[n].ev = "_replay_complete", NEW j \in 1..tip
               PROVE  query.pc = "none" \/ j <= query.at \/ (conn.replayed < j /\ (Undelivered(j)' \/ InNet(j)'))
    BY <1>1, <1>2 DEF CacheIsOwed
  <2>1. query.pc = "none" \/ j <= query.at \/ (conn.replayed < j /\ (Undelivered(j) \/ InNet(j)))
    BY <1>3 DEF Inv, CacheIsOwed
  <2>2. InNet(j) => InNet(j)'
    BY <1>2 DEF InNet, Event
  <2>3. conn.replayed < j => j # Head(bus)
    BY <1>1, <1>3
  <2>. QED  BY <1>11, <2>1, <2>2, <2>3
<1>14. SentIsPast'
  BY <1>2, <1>3, <1>4 DEF Inv, SentIsPast
<1>. QED
  BY <1>4, <1>5, <1>6, <1>7, <1>8, <1>9, <1>10, <1>12, <1>13, <1>14 DEF Inv

\* An envelope the loop sends.
LEMMA InvSend ==
  ASSUME Inv, conn.pc = "live", ~lagged, bus # <<>>, bus' = Tail(bus), Head(bus) > conn.replayed,
         Send(<<Event(Head(bus))>>), conn' = [conn EXCEPT !.sent = @ \union {Head(bus)}], Ok,
         UNCHANGED <<logVars, lagged, clientVars>>
  PROVE  Inv'
<1>1. TypeOK /\ tip' = tip /\ tip \in Nat /\ conn.replayed \in Nat /\ MaxId \in Nat /\ tip <= MaxId
      /\ net \in Seq(Frames) /\ Len(net) \in Nat /\ conn \in ConnType
      /\ \A n \in 1..Len(net) : net[n].id \in Nat
  <2>1. TypeOK
    BY DEF Inv
  <2>. QED  BY <2>1, Numbers DEF tip, logVars, TypeOK
<1>2. UNCHANGED <<kind, live, aged, watermark, pend, writer, lagged, cursor, cold, base, seen, query, faults, excused>>
  BY DEF logVars, clientVars, Ok, faultVars
<1>3. /\ bus' \in Seq(Ids) /\ Len(bus') <= BusCapacity /\ Len(bus) \in Nat
      /\ Len(bus') = Len(bus) - 1 /\ 1 \in 1..Len(bus) /\ Head(bus) = bus[1]
      /\ \A n \in 1..Len(bus') : bus'[n] = bus[n + 1] /\ n + 1 \in 1..Len(bus)
      /\ BusOnce' /\ BusInOrder'
  BY <1>2, TailOfBus
<1> DEFINE i == Head(bus)
<1>4. i \in Ids /\ i \in 1..tip /\ i = bus[1]
  <2>1. bus \in Seq(Ids) /\ IdsExist
    BY <1>1 DEF TypeOK, Inv
  <2>2. bus[1] \in Ids /\ bus[1] <= tip
    BY <1>3, <2>1 DEF IdsExist
  <2>. QED  BY <1>1, <1>3, <2>2 DEF Ids
<1>5. net' = net \o <<Event(i)>> /\ conn' = [conn EXCEPT !.sent = @ \union {i}] /\ i > conn.replayed
  BY DEF Send
<1> HIDE DEF i
<1>6. Event(i) \in Frames /\ Event(i).ev = "event" /\ Event(i).id = i
  BY <1>1, <1>4 DEF Event, Frames
<1>7. /\ net' \in Seq(Frames) /\ Len(net') = Len(net) + 1 /\ net'[Len(net) + 1] = Event(i)
      /\ \A n \in 1..Len(net) : net'[n] = net[n]
  <2>1. <<Event(i)>> \in Seq(Frames)
    BY <1>6
  <2>. QED  BY <1>1, <1>5, <2>1
<1>8. (\A n \in 1..Len(net') : n \in 1..Len(net) \/ n = Len(net) + 1) /\ Len(net) + 1 \in 1..Len(net')
      /\ \A n \in 1..Len(net) : n \in 1..Len(net')
  BY <1>1, <1>7
<1>9. /\ conn' \in ConnType /\ conn'.pc = "live" /\ conn'.sent = conn.sent \union {i}
      /\ conn'.since = conn.since /\ conn'.lastId = conn.lastId /\ conn'.wm = conn.wm /\ conn'.tip = conn.tip
      /\ conn'.replayed = conn.replayed /\ conn'.anchor = conn.anchor /\ conn'.rawMax = conn.rawMax
      /\ conn'.begun = conn.begun /\ conn'.rows = conn.rows
  <2>1. conn \in ConnType /\ conn.sent \union {i} \subseteq Ids
    BY <1>1, <1>4 DEF TypeOK, ConnType
  <2>2. conn' \in ConnType /\ conn'.sent = conn.sent \union {i}
    BY <1>5, <2>1 DEF ConnType
  <2>. QED  BY <1>1, <1>5, <2>1, <2>2 DEF ConnType
<1>10. TypeOK'
  <2>1. lagged' \in BOOLEAN /\ cold' \in BOOLEAN
    BY <1>1, <1>2, Zenon DEF TypeOK
  <2>. QED  BY <1>1, <1>2, <1>3, <1>7, <1>9, <2>1 DEF TypeOK
<1>11. IdsExist
  BY DEF Inv
<1>12. WatermarkCovers' /\ IdsExist'
  <2>1. \A n \in 1..Len(net') : net'[n].id <= tip
    BY <1>1, <1>4, <1>6, <1>7, <1>8, <1>11 DEF IdsExist
  <2>2. \A n \in 1..Len(bus') : bus'[n] <= tip
    BY <1>3, <1>11 DEF IdsExist
  <2>3. conn'.sent \subseteq 1..tip
    BY <1>4, <1>9, <1>11 DEF IdsExist
  <2>. QED  BY <1>1, <1>2, <1>9, <1>11, <2>1, <2>2, <2>3 DEF Inv, WatermarkCovers, IdsExist
<1>13. NoGap'
  BY <1>1, <1>2 DEF Inv, NoGap
<1>14. CompletesOnce'
  BY <1>6, <1>7, <1>8 DEF Inv, CompletesOnce
<1>15. CompletesAbove'
  <2> SUFFICES ASSUME "read" \notin excused, NEW n \in 1..Len(net'), net'[n].ev = "_replay_complete"
               PROVE  cursor <= net'[n].id /\ \A m \in 1..n : net'[m].id <= net'[n].id
    BY <1>2 DEF CompletesAbove
  <2>1. n \in 1..Len(net)
    BY <1>6, <1>7, <1>8
  <2>2. \A m \in 1..n : net'[m] = net[m]
    BY <1>1, <1>7, <2>1
  <2>. QED  BY <1>7, <2>1, <2>2 DEF Inv, CompletesAbove
<1>16. ASSUME NEW j, Covered(j, Len(net)) PROVE Covered(j, Len(net))'
  <2>1. CASE cold /\ \A m \in 1..Len(net) : net[m].ev # "_replay_complete"
    <3>1. \A m \in 1..Len(net') : net'[m].ev # "_replay_complete"
      BY <1>6, <1>7, <1>8, <2>1
    <3>. QED  BY <1>2, <2>1, <3>1 DEF Covered
  <2>2. CASE cold /\ \E m \in 1..Len(net) : net[m].ev = "_replay_complete" /\ j <= net[m].id
    BY <1>2, <1>7, <1>8, <2>2 DEF Covered
  <2>3. CASE (~cold /\ j <= base) \/ j \in seen
    BY <1>2, <2>3 DEF Covered
  <2>4. CASE \E m \in 1..Len(net) : net[m] = Event(j)
    BY <1>7, <1>8, <2>4 DEF Covered, Event
  <2>. QED  BY <1>16, <2>1, <2>2, <2>3, <2>4 DEF Covered
<1>17. ASSUME NEW j, Undelivered(j), j # i PROVE Undelivered(j)'
  <2>1. CASE j \in pend
    BY <1>2, <2>1 DEF Undelivered
  <2>2. ASSUME NEW n \in 1..Len(bus), bus[n] = j PROVE Undelivered(j)'
    <3>1. n - 1 \in 1..Len(bus') /\ bus'[n - 1] = j
      BY <1>3, <1>4, <1>17, <2>2
    <3>. QED  BY <3>1 DEF Undelivered
  <2>. QED  BY <1>17, <2>1, <2>2 DEF Undelivered
<1>18. LiveIsGapFree'
  <2> SUFFICES ASSUME excused = {}, NEW j \in 1..tip, Replayed(j)
               PROVE  Covered(j, Len(net))' \/ (conn.replayed < j /\ Undelivered(j)')
    BY <1>1, <1>2, <1>9 DEF LiveIsGapFree, Replayed
  <2>1. Covered(j, Len(net)) \/ (conn.replayed < j /\ Undelivered(j))
    BY DEF Inv, LiveIsGapFree
  <2>2. CASE j = i
    BY <1>7, <1>8, <2>2 DEF Covered, Event
  <2>. QED  BY <1>16, <1>17, <2>1, <2>2
<1>19. ASSUME excused = {}, NEW j \in 1..tip, Replayed(j), j <= i PROVE Covered(j, Len(net))'
  <2>1. CASE j = i
    BY <1>7, <1>8, <2>1 DEF Covered, Event
  <2>2. CASE j # i
    <3>1. j < i
      BY <1>4, <1>19, <2>2
    <3>2. ~(j \in pend)
      <4>1. \A k \in pend : bus[1] < k
        BY <1>3, <1>19 DEF Inv, BusInOrder
      <4>. QED  BY <1>4, <3>1, <4>1
    <3>3. ASSUME NEW n \in 1..Len(bus), bus[n] = j PROVE FALSE
      <4>1. n # 1 /\ 1 < n
        BY <1>4, <2>2, <3>3
      <4>2. bus[1] < bus[n]
        BY <1>3, <1>19, <4>1 DEF Inv, BusInOrder
      <4>. QED  BY <1>4, <3>1, <3>3, <4>2
    <3>4. ~Undelivered(j)
      BY <3>2, <3>3 DEF Undelivered
    <3>5. Covered(j, Len(net))
      BY <1>19, <3>4 DEF Inv, LiveIsGapFree
    <3>. QED  BY <1>16, <3>5
  <2>. QED  BY <2>1, <2>2
<1>20. NetIsGapFree'
  <2> SUFFICES ASSUME excused = {}, NEW n \in 1..Len(net'), NEW j \in 1..tip, Replayed(j), j <= net'[n].id
               PROVE  Covered(j, n)'
    BY <1>1, <1>2 DEF NetIsGapFree, Replayed
  <2>1. CASE n = Len(net) + 1
    <3>1. Covered(j, Len(net))'
      BY <1>6, <1>7, <1>19, <2>1
    <3>. QED  BY <1>7, <2>1, <3>1 DEF Covered
  <2>2. CASE n \in 1..Len(net)
    <3>1. Covered(j, n)
      BY <1>7, <2>2 DEF Inv, NetIsGapFree
    <3>2. \A m \in 1..n : net'[m] = net[m]
      BY <1>1, <1>7, <2>2
    <3>. QED  BY <1>2, <3>1, <3>2 DEF Covered, Event
  <2>. QED  BY <1>8, <2>1, <2>2
<1>21. CacheIsOwed'
  <2> SUFFICES ASSUME "projection" \notin excused, ~query.reused,
                      ~ \E n \in 1..Len(net') : net'[n].ev = "_replay_complete", NEW j \in 1..tip
               PROVE  query.pc = "none" \/ j <= query.at \/ (conn.replayed < j /\ (Undelivered(j)' \/ InNet(j)'))
    BY <1>1, <1>2, <1>9 DEF CacheIsOwed
  <2>0. ~ \E n \in 1..Len(net) : net[n].ev = "_replay_complete"
    BY <1>7, <1>8
  <2>1. query.pc = "none" \/ j <= query.at \/ (conn.replayed < j /\ (Undelivered(j) \/ InNet(j)))
    BY <2>0 DEF Inv, CacheIsOwed
  <2>2. InNet(j) \/ j = i => InNet(j)'
    BY <1>7, <1>8 DEF InNet, Event
  <2>. QED  BY <1>17, <2>1, <2>2
<1>22. SentIsPast'
  <2>1. i \notin pend
    BY <1>3, <1>4 DEF Inv, BusOnce
  <2>2. \A n \in 1..Len(bus') : bus'[n] # i
    BY <1>3, <1>4 DEF Inv, BusOnce
  <2>. QED  BY <1>2, <1>3, <1>9, <2>1, <2>2 DEF Inv, SentIsPast
<1>23. SinceSubscribed' /\ NothingSent' /\ AnchorIsCursor' /\ WindowFits' /\ WindowReaches' /\ FetchedOrPruned'
  BY <1>9 DEF SinceSubscribed, NothingSent, AnchorIsCursor, WindowFits, WindowReaches, FetchedOrPruned,
     Quiets, Replays, Probed
<1>24. StreamedWindow' /\ WindowIsWhole' /\ TipIsAhead'
  BY <1>9 DEF StreamedWindow, WindowIsWhole, TipIsAhead, Streamed
<1>. QED
  BY <1>3, <1>10, <1>12, <1>13, <1>14, <1>15, <1>18, <1>20, <1>21, <1>22, <1>23, <1>24 DEF Inv

LEMMA InvLive == ASSUME Inv, Live PROVE Inv'
<1>1. conn.pc = "live" /\ ~lagged /\ bus # <<>> /\ bus' = Tail(bus) /\ UNCHANGED <<logVars, lagged, clientVars>>
  BY DEF Live
<1>2. CASE Head(bus) <= conn.replayed /\ UNCHANGED <<net, conn>> /\ Ok
  BY <1>1, <1>2, InvSkip
<1>3. CASE /\ Head(bus) > conn.replayed /\ Send(<<Event(Head(bus))>>)
           /\ conn' = [conn EXCEPT !.sent = @ \union {Head(bus)}] /\ Ok
  BY <1>1, <1>3, InvSend
<1>4. CASE UNCHANGED <<net, conn>> /\ Unprojected
  BY <1>1, <1>4, InvSkip
<1>. QED
  BY <1>2, <1>3, <1>4 DEF Live

-----------------------------------------------------------------------------
(* The client.                                                             *)

\* The client has read the first frame in flight.
LEMMA TailOfNet ==
  ASSUME Inv, net # <<>>, net' = Tail(net)
  PROVE  /\ net' \in Seq(Frames) /\ Len(net) \in Nat /\ Len(net') = Len(net) - 1
         /\ 1 \in 1..Len(net) /\ Head(net) = net[1] /\ Head(net) \in Frames
         /\ \A n \in 1..Len(net') : net'[n] = net[n + 1] /\ n + 1 \in 1..Len(net)
         /\ \A m \in 1..Len(net) : m # 1 => m - 1 \in 1..Len(net') /\ net'[m - 1] = net[m]
         /\ CompletesOnce'
<1>1. net \in Seq(Frames)
  BY DEF Inv, TypeOK
<1>2. /\ net' \in Seq(Frames) /\ Len(net) \in Nat /\ Len(net') = Len(net) - 1
      /\ 1 \in 1..Len(net) /\ Head(net) = net[1] /\ Head(net) \in Frames
  BY <1>1
<1>3. \A n \in 1..Len(net') : net'[n] = net[n + 1] /\ n + 1 \in 1..Len(net)
  BY <1>1, <1>2
<1>4. \A m \in 1..Len(net) : m # 1 => m - 1 \in 1..Len(net') /\ net'[m - 1] = net[m]
  BY <1>2, <1>3
<1>5. CompletesOnce'
  <2> SUFFICES ASSUME NEW m \in 1..Len(net'), NEW n \in 1..Len(net'),
                      net'[m].ev = "_replay_complete", net'[n].ev = "_replay_complete"
               PROVE  m = n
    BY DEF CompletesOnce
  <2>1. m + 1 = n + 1
    BY <1>3 DEF Inv, CompletesOnce
  <2>. QED  BY <2>1
<1>. QED
  BY <1>2, <1>3, <1>4, <1>5

\* A frame that advances the cursor: what it carries is seen, the end of a
\* replay makes the client warm at its cursor, and either invalidates the query.
LEMMA InvRead ==
  ASSUME Inv, net # <<>>, net' = Tail(net), cursor' = Max({cursor, Head(net).id}),
         UNCHANGED <<logVars, connVars, faultVars>>,
         cold' \in BOOLEAN, base' \in 0..MaxId, seen' \in SUBSET Ids, query' \in QueryType,
         query'.at <= tip, query'.reused \/ query'.pc = "none" \/ query'.at = tip,
         seen \subseteq seen',
         ~cold => ~cold' /\ base' = base,
         cold /\ ~cold' => cursor' = base',
         \/ /\ Head(net).ev = "event" /\ cold' = cold
            /\ Head(net).id \in seen'
         \/ Head(net).ev = "_replay_complete" /\ ~cold'
  PROVE  Inv'
<1> DEFINE h == Head(net)
<1>1. TypeOK /\ tip' = tip /\ tip \in Nat /\ conn.replayed \in Nat /\ MaxId \in Nat /\ tip <= MaxId
      /\ cursor \in Nat /\ conn.since \in Nat /\ conn.lastId \in Nat /\ base \in Nat
      /\ \A n \in 1..Len(net) : net[n].id \in Nat
  <2>1. TypeOK
    BY DEF Inv
  <2>. QED  BY <2>1, Numbers DEF tip, logVars
<1>2. UNCHANGED <<kind, live, aged, watermark, pend, writer, conn, bus, lagged, faults, excused>>
  BY DEF logVars, connVars, faultVars
<1>3. /\ net' \in Seq(Frames) /\ Len(net) \in Nat /\ Len(net') = Len(net) - 1
      /\ 1 \in 1..Len(net) /\ h = net[1]
      /\ \A n \in 1..Len(net') : net'[n] = net[n + 1] /\ n + 1 \in 1..Len(net)
      /\ \A m \in 1..Len(net) : m # 1 => m - 1 \in 1..Len(net') /\ net'[m - 1] = net[m]
      /\ CompletesOnce'
  BY TailOfNet
<1>4. IdsExist /\ h.id \in Nat /\ h.id <= tip
  BY <1>1, <1>3 DEF Inv, IdsExist
<1>5. cursor' \in {cursor, h.id} /\ cursor <= cursor' /\ h.id <= cursor' /\ cursor' \in Nat /\ cursor' <= tip
  <2>1. cursor' \in {cursor, h.id} /\ cursor <= cursor' /\ h.id <= cursor'
    BY <1>1, <1>4, MaxOfPair
  <2>2. cursor <= tip
    BY <1>1 DEF TypeOK
  <2>. QED  BY <1>1, <1>4, <2>1, <2>2
<1>6. h.ev = "event" \/ h.ev = "_replay_complete"
  OBVIOUS
<1> HIDE DEF h
<1>7. TypeOK'
  <2>1. lagged' \in BOOLEAN
    BY <1>1, <1>2, Zenon DEF TypeOK
  <2>2. cursor' \in 0..tip
    BY <1>1, <1>5
  <2>3. query' \in QueryType
    OBVIOUS
  <2>4. /\ kind' \in Seq(Kinds) /\ Len(kind') <= MaxId /\ live' \subseteq 1..tip' /\ aged' \in 0..tip'
        /\ watermark' \in 0..aged' /\ pend' \subseteq 1..tip' /\ writer' \in pend' \union {0}
        /\ conn' \in ConnType /\ bus' \in Seq(Ids) /\ Len(bus') <= BusCapacity
        /\ faults' \in 0..MaxFaults /\ excused' \subseteq Failures \union {"overtaken"}
    BY <1>1, <1>2 DEF TypeOK
  <2>. QED  BY <1>1, <1>3, <2>1, <2>2, <2>3, <2>4 DEF TypeOK
<1>8. WatermarkCovers' /\ IdsExist'
  <2>1. \A n \in 1..Len(net') : net'[n].id <= tip
    BY <1>3, <1>4 DEF IdsExist
  <2>. QED  BY <1>1, <1>2, <1>4, <2>1 DEF Inv, WatermarkCovers, IdsExist
<1>9. BusOnce' /\ BusInOrder' /\ SinceSubscribed' /\ SentIsPast'
  BY <1>1, <1>2 DEF Inv, BusOnce, BusInOrder, SinceSubscribed, Undelivered, SentIsPast
<1>10. WindowFits' /\ WindowReaches' /\ FetchedOrPruned' /\ WindowIsWhole' /\ TipIsAhead'
  BY <1>1, <1>2 DEF Inv, WindowFits, WindowReaches, FetchedOrPruned, WindowIsWhole, TipIsAhead, Warm, Replayed
<1>11. conn.pc \notin Quiets
  BY DEF Inv, NothingSent
<1>12. NothingSent'
  BY <1>2, <1>11 DEF NothingSent
<1>13. conn.pc \in Streamed => h.ev = "event" /\ h.id <= conn.lastId
  BY <1>3 DEF Inv, StreamedWindow
<1>14. AnchorIsCursor'
  <2>1. conn.pc \in Quiets \union Replays => conn.pc \in Streamed
    BY <1>11 DEF Quiets, Replays, Streamed
  <2>2. conn.pc \in Streamed => cold' = cold
    BY <1>13 DEF h
  <2>. QED  BY <1>2, <2>1, <2>2 DEF Inv, AnchorIsCursor
<1>15. ASSUME NEW j, InNet(j) PROVE InNet(j)' \/ (h.ev = "event" /\ j = h.id)
  <2>1. PICK m \in 1..Len(net) : net[m] = Event(j)
    BY <1>15 DEF InNet
  <2>2. CASE m = 1
    BY <1>3, <2>1, <2>2 DEF Event
  <2>3. CASE m # 1
    BY <1>3, <2>1, <2>3 DEF InNet, Event
  <2>. QED  BY <2>2, <2>3
<1>16. h.ev = "event" => h.id \in seen' /\ cold' = cold
  BY DEF h
<1>17. h.ev = "_replay_complete" => ~cold'
  BY DEF h
<1>18. StreamedWindow'
  <2> SUFFICES ASSUME conn.pc \in Streamed
               PROVE  /\ conn.anchor <= conn.lastId /\ cursor' <= conn.lastId /\ conn.since <= cursor'
                      /\ \A n \in 1..Len(net') : net'[n].ev = "event" /\ net'[n].id <= conn.lastId
                      /\ \A i \in conn.sent : i <= conn.lastId /\ (i \in seen' \/ InNet(i)')
    BY <1>2 DEF StreamedWindow
  <2>1. /\ conn.anchor <= conn.lastId /\ cursor <= conn.lastId /\ conn.since <= cursor
        /\ \A n \in 1..Len(net) : net[n].ev = "event" /\ net[n].id <= conn.lastId
        /\ \A i \in conn.sent : i <= conn.lastId /\ (i \in seen \/ InNet(i))
    BY DEF Inv, StreamedWindow
  <2>2. cursor' <= conn.lastId /\ conn.since <= cursor'
    BY <1>1, <1>4, <1>5, <1>13, <2>1
  <2>3. \A n \in 1..Len(net') : net'[n].ev = "event" /\ net'[n].id <= conn.lastId
    BY <1>3, <2>1
  <2>4. \A i \in conn.sent : i \in seen' \/ InNet(i)'
    BY <1>15, <1>16, <2>1
  <2>. QED  BY <2>1, <2>2, <2>3, <2>4
<1>19. CompletesAbove'
  <2> SUFFICES ASSUME "read" \notin excused, NEW n \in 1..Len(net'), net'[n].ev = "_replay_complete"
               PROVE  cursor' <= net'[n].id /\ \A m \in 1..n : net'[m].id <= net'[n].id
    BY <1>2 DEF CompletesAbove
  <2>1. n + 1 \in 1..Len(net) /\ net'[n] = net[n + 1]
    BY <1>3
  <2>2. cursor <= net[n + 1].id /\ \A m \in 1..(n + 1) : net[m].id <= net[n + 1].id
    BY <2>1 DEF Inv, CompletesAbove
  <2>3. cursor' <= net[n + 1].id
    BY <1>3, <1>5, <2>1, <2>2
  <2>4. ASSUME NEW m \in 1..n PROVE net'[m].id <= net'[n].id
    <3>1. m \in 1..Len(net') /\ m + 1 \in 1..(n + 1)
      BY <1>3
    <3>. QED  BY <1>3, <2>1, <2>2, <3>1
  <2>. QED  BY <2>1, <2>3, <2>4
<1>20. ASSUME NEW n \in 0..Len(net'), NEW j \in Nat, Covered(j, n + 1) PROVE Covered(j, n)'
  <2>0. /\ \A m \in 1..n : net'[m] = net[m + 1] /\ m + 1 \in 1..(n + 1)
        /\ \A m \in 1..(n + 1) : m # 1 => m - 1 \in 1..n /\ net'[m - 1] = net[m]
        /\ 1 \in 1..(n + 1) /\ \A m \in 1..(n + 1) : m \in 1..Len(net)
    BY <1>3
  <2>1. CASE cold /\ \A m \in 1..(n + 1) : net[m].ev # "_replay_complete"
    <3>1. h.ev # "_replay_complete"
      BY <1>3, <2>0, <2>1
    <3>2. cold'
      BY <1>6, <1>16, <2>1, <3>1
    <3>3. \A m \in 1..n : net'[m].ev # "_replay_complete"
      BY <2>0, <2>1
    <3>. QED  BY <3>2, <3>3 DEF Covered
  <2>2. ASSUME cold, NEW m \in 1..(n + 1), net[m].ev = "_replay_complete", j <= net[m].id
        PROVE  Covered(j, n)'
    <3>1. CASE h.ev = "_replay_complete"
      <4>1. m = 1
        BY <1>3, <2>0, <2>2, <3>1 DEF Inv, CompletesOnce
      <4>2. ~cold' /\ cursor' = base'
        BY <1>17, <2>2, <3>1
      <4>3. net[m].id = h.id
        BY <1>3, <4>1
      <4>4. j <= base' /\ ~cold'
        BY <1>4, <1>5, <2>2, <4>2, <4>3
      <4>. QED  BY <4>4 DEF Covered
    <3>2. CASE h.ev = "event"
      <4>1. m # 1
        BY <1>3, <2>2, <3>2
      <4>2. m - 1 \in 1..n /\ net'[m - 1] = net[m]
        BY <2>0, <4>1
      <4>3. cold'
        BY <1>16, <2>2, <3>2
      <4>. QED  BY <2>2, <4>2, <4>3 DEF Covered
    <3>. QED  BY <1>6, <3>1, <3>2
  <2>3. CASE (~cold /\ j <= base) \/ j \in seen
    BY <2>3 DEF Covered
  <2>4. ASSUME NEW m \in 1..(n + 1), net[m] = Event(j) PROVE Covered(j, n)'
    <3>1. CASE m = 1
      <4>1. h.ev = "event" /\ h.id = j
        BY <1>3, <2>4, <3>1 DEF Event
      <4>. QED  BY <1>16, <4>1 DEF Covered
    <3>2. CASE m # 1
      BY <2>0, <2>4, <3>2 DEF Covered, Event
    <3>. QED  BY <3>1, <3>2
  <2>. QED  BY <1>20, <2>1, <2>2, <2>3, <2>4 DEF Covered
<1>21. NetIsGapFree'
  <2> SUFFICES ASSUME excused = {}, NEW n \in 1..Len(net'), NEW j \in 1..tip, Replayed(j), j <= net'[n].id
               PROVE  Covered(j, n)'
    BY <1>1, <1>2 DEF NetIsGapFree, Replayed
  <2>1. n + 1 \in 1..Len(net) /\ net'[n] = net[n + 1]
    BY <1>3
  <2>2. Covered(j, n + 1)
    BY <2>1 DEF Inv, NetIsGapFree
  <2>3. n \in 0..Len(net') /\ j \in Nat
    BY <1>1, <1>3
  <2>. QED  BY <1>20, <2>2, <2>3
<1>22. LiveIsGapFree'
  <2> SUFFICES ASSUME conn.pc = "live", excused = {}, NEW j \in 1..tip, Replayed(j)
               PROVE  Covered(j, Len(net))' \/ (conn.replayed < j /\ Undelivered(j))
    BY <1>1, <1>2 DEF LiveIsGapFree, Replayed, Undelivered
  <2>1. Covered(j, Len(net)) \/ (conn.replayed < j /\ Undelivered(j))
    BY DEF Inv, LiveIsGapFree
  <2>2. ASSUME Covered(j, Len(net)) PROVE Covered(j, Len(net))'
    <3>0. Len(net') \in 0..Len(net')
      BY <1>3
    <3>1. PICK n \in 0..Len(net') : n = Len(net')
      BY <3>0, Zenon
    <3>2. n + 1 = Len(net)
      BY <1>3, <3>1
    <3>3. Covered(j, n + 1)
      BY <2>2, <3>2
    <3>4. Covered(j, n)'
      BY <1>20, <3>3
    <3>. QED  BY <3>1, <3>4 DEF Covered
  <2>. QED  BY <2>1, <2>2
<1>23. NoGap'
  <2> SUFFICES ASSUME ~cold', excused = {}, NEW j \in 1..tip, base' < j, j <= cursor', Replayed(j)
               PROVE  j \in seen'
    BY <1>1, <1>2 DEF NoGap, Replayed
  <2>1. CASE cold
    <3>1. cursor' = base'
      BY <2>1
    <3>. QED  BY <1>5, <3>1
  <2>2. CASE ~cold /\ j <= cursor
    <3>1. base < j
      BY <2>2
    <3>. QED  BY <2>2, <3>1 DEF Inv, NoGap, Replayed
  <2>3. CASE j <= h.id
    <3>1. Covered(j, 1)
      BY <1>3, <2>3 DEF Inv, NetIsGapFree
    <3>2. Covered(j, 0 + 1) /\ 0 \in 0..Len(net')
      BY <1>3, <3>1
    <3>3. Covered(j, 0)'
      BY <1>20, <3>2
    <3>4. base' \in Nat /\ \A m \in 1..0 : FALSE
      BY <1>1
    <3>. QED  BY <3>3, <3>4 DEF Covered
  <2>. QED  BY <1>1, <1>4, <1>5, <2>1, <2>2, <2>3
<1>24. CacheIsOwed'
  <2>1. query'.at \in Nat
    BY DEF QueryType
  <2>. QED  BY <1>1, <2>1 DEF CacheIsOwed
<1>. QED
  BY <1>3, <1>7, <1>8, <1>9, <1>10, <1>12, <1>14, <1>18, <1>19, <1>21, <1>22, <1>23, <1>24 DEF Inv

\* An invalidated query reads the log as it is, or is left to its first read.
LEMMA Invalidated ==
  ASSUME Inv, NEW from, Invalidate(from)
  PROVE  /\ query' \in QueryType /\ query'.at <= tip
         /\ query'.reused \/ query'.pc = "none" \/ query'.at = tip
<1>1. tip \in 0..MaxId /\ tip <= tip /\ query \in QueryType /\ query.at <= tip
  BY Numbers DEF Inv, TypeOK, IdsExist
<1>2. ASSUME NEW pc \in Reading, ReadFrom(pc)
      PROVE  query' \in QueryType /\ query'.at = tip
  BY <1>1, <1>2 DEF ReadFrom, QueryType
<1>3. CASE query.pc \in {"shown", "again"} /\ ReadFrom("again")
  BY <1>1, <1>2, <1>3 DEF Reading
<1>4. CASE ReadFrom("first")
  BY <1>1, <1>2, <1>4 DEF Reading
<1>5. CASE query' = [query EXCEPT !.reused = TRUE]
  BY <1>1, <1>5 DEF QueryType
<1>6. CASE query.pc = "none" /\ query' = query
  BY <1>1, <1>6
<1>. QED
  BY <1>3, <1>4, <1>5, <1>6 DEF Invalidate

LEMMA InvReduceEvent ==
  ASSUME Inv, net # <<>>, Head(net).ev = "event", ReduceEvent(Head(net).id), UNCHANGED <<logVars, faultVars>>
  PROVE  Inv'
<1>1. TypeOK /\ tip \in Nat
  BY Numbers DEF Inv
<1>2. net' = Tail(net) /\ cursor' = Max({cursor, Head(net).id}) /\ UNCHANGED <<connVars, cold, base>>
      /\ seen' = seen \union {Head(net).id} /\ Invalidate("event")
  BY DEF ReduceEvent, Advance
<1>3. Head(net) = net[1] /\ Head(net) \in Frames /\ 1 \in 1..Len(net)
  BY <1>2, TailOfNet
<1>4. Head(net).id \in Ids
  BY <1>3 DEF Frames, Snapshot
<1>5. seen' \in SUBSET Ids /\ base' \in 0..MaxId
  BY <1>1, <1>2, <1>4 DEF TypeOK
<1>6. cold' \in BOOLEAN
  BY <1>1, <1>2, Zenon DEF TypeOK
<1>7. query' \in QueryType /\ query'.at <= tip /\ (query'.reused \/ query'.pc = "none" \/ query'.at = tip)
  BY <1>2, Invalidated
<1>. QED
  BY <1>2, <1>4, <1>5, <1>6, <1>7, InvRead

LEMMA InvReduceComplete ==
  ASSUME Inv, net # <<>>, Head(net).ev = "_replay_complete", ReduceComplete(Head(net).id),
         UNCHANGED <<logVars, faultVars>>
  PROVE  Inv'
<1>1. CASE Head(net).id < cursor
  BY <1>1, InvForget DEF ReduceComplete
<1>2. CASE ~(Head(net).id < cursor)
  <2>1. /\ net' = Tail(net) /\ cursor' = Max({cursor, Head(net).id}) /\ UNCHANGED <<connVars, seen>>
        /\ Invalidate("complete") /\ cold' = FALSE
        /\ base' = IF cold THEN Max({cursor, Head(net).id}) ELSE base
    BY <1>2 DEF ReduceComplete, Advance
  <2>2. TypeOK /\ tip \in Nat /\ MaxId \in Nat /\ tip <= MaxId /\ cursor \in Nat
    BY Numbers DEF Inv
  <2>3. Head(net) = net[1] /\ 1 \in 1..Len(net)
    BY <2>1, TailOfNet
  <2>4. Head(net).id \in Nat /\ Head(net).id <= tip /\ cursor <= tip
    BY <2>2, <2>3, Numbers DEF Inv, IdsExist, TypeOK
  <2>5. Max({cursor, Head(net).id}) \in 0..MaxId
    <3>1. Max({cursor, Head(net).id}) \in {cursor, Head(net).id}
      BY <2>2, <2>4, MaxOfPair
    <3>. QED  BY <2>2, <2>4, <3>1
  <2>6. base' \in 0..MaxId
    BY <2>1, <2>2, <2>5 DEF TypeOK
  <2>7. seen' \in SUBSET Ids /\ seen \subseteq seen'
    BY <2>1, <2>2 DEF TypeOK
  <2>8. cold' \in BOOLEAN /\ ~cold'
    BY <2>1, Zenon
  <2>9. cold /\ ~cold' => cursor' = base'
    BY <2>1
  <2>10. ~cold => ~cold' /\ base' = base
    BY <2>1
  <2>11. query' \in QueryType /\ query'.at <= tip /\ (query'.reused \/ query'.pc = "none" \/ query'.at = tip)
    BY <2>1, Invalidated
  <2>. QED  BY <2>1, <2>6, <2>7, <2>8, <2>9, <2>10, <2>11, InvRead
<1>. QED
  BY <1>1, <1>2

LEMMA InvReduceEventFrame == ASSUME Inv, ReduceEventFrame PROVE Inv'
<1>1. net # <<>> /\ UNCHANGED <<logVars, faultVars>>
  BY DEF ReduceEventFrame
<1>2. CASE Head(net).ev = "event" /\ ReduceEvent(Head(net).id)
  BY <1>1, <1>2, InvReduceEvent
<1>3. CASE Head(net).ev = "_replay_complete" /\ ReduceComplete(Head(net).id)
  BY <1>1, <1>3, InvReduceComplete
<1>4. CASE Forget
  BY <1>1, <1>4, InvForget
<1>. QED
  BY <1>2, <1>3, <1>4 DEF ReduceEventFrame

\* A query that begins to read, or is answered.
LEMMA InvQuery ==
  ASSUME Inv, UNCHANGED <<logVars, connVars, net, cursor, cold, base, seen, faultVars>>,
         query' \in QueryType, query'.at <= tip, CacheIsOwed'
  PROVE  Inv'
<1>1. TypeOK /\ tip' = tip /\ tip \in Nat /\ MaxId \in Nat /\ tip <= MaxId
  <2>1. TypeOK
    BY DEF Inv
  <2>. QED  BY <2>1, Numbers DEF tip, logVars
<1>2. UNCHANGED <<kind, live, aged, watermark, pend, writer, conn, bus, lagged, net, cursor, cold, base,
                  seen, faults, excused>>
  BY DEF logVars, connVars, faultVars
<1>3. TypeOK'
  <2>1. lagged' \in BOOLEAN /\ cold' \in BOOLEAN
    BY <1>1, <1>2, Zenon DEF TypeOK
  <2>. QED  BY <1>1, <1>2, <2>1 DEF TypeOK
<1>4. WatermarkCovers' /\ IdsExist'
  BY <1>1, <1>2 DEF Inv, WatermarkCovers, IdsExist
<1>5. BusOnce' /\ BusInOrder' /\ SinceSubscribed' /\ SentIsPast' /\ NothingSent' /\ AnchorIsCursor'
  BY <1>1, <1>2 DEF Inv, BusOnce, BusInOrder, SinceSubscribed, Undelivered, SentIsPast, NothingSent, AnchorIsCursor
<1>6. WindowFits' /\ WindowReaches' /\ FetchedOrPruned' /\ WindowIsWhole' /\ TipIsAhead'
  BY <1>1, <1>2 DEF Inv, WindowFits, WindowReaches, FetchedOrPruned, WindowIsWhole, TipIsAhead, Warm, Replayed
<1>7. StreamedWindow' /\ CompletesOnce' /\ CompletesAbove' /\ NoGap'
  BY <1>1, <1>2 DEF Inv, StreamedWindow, InNet, Event, CompletesOnce, CompletesAbove, NoGap
<1>8. NetIsGapFree'
  BY <1>1, <1>2 DEF Inv, NetIsGapFree, Covered, Replayed, Event
<1>9. LiveIsGapFree'
  <2>1. LiveIsGapFree
    BY DEF Inv
  <2>2. \A j, n : Covered(j, n)' <=> Covered(j, n)
    BY <1>2 DEF Covered, Event
  <2>3. \A j : Undelivered(j)' <=> Undelivered(j)
    BY <1>2 DEF Undelivered
  <2>. QED  BY <1>1, <1>2, <2>1, <2>2, <2>3 DEF LiveIsGapFree, Replayed
<1>. QED
  BY <1>3, <1>4, <1>5, <1>6, <1>7, <1>8, <1>9 DEF Inv

\* A first read begins with the log as it is.
LEMMA InvMount == ASSUME Inv, Mount PROVE Inv'
<1>1. tip \in 0..MaxId /\ tip <= tip /\ tip' = tip /\ tip \in Nat
  BY Numbers DEF Inv, TypeOK, Mount, logVars, tip
<1>2. query' = [pc |-> "first", at |-> tip, reused |-> FALSE]
  BY DEF Mount, ReadFrom
<1>3. query' \in QueryType /\ query'.at = tip
  BY <1>1, <1>2 DEF QueryType, Reading
<1>4. CacheIsOwed'
  BY <1>1, <1>3 DEF CacheIsOwed
<1>. QED
  BY <1>1, <1>3, <1>4, InvQuery DEF Mount

\* An answer is no older than its read.
LEMMA InvAnswer == ASSUME Inv, Answer PROVE Inv'
<1>1. tip \in 0..MaxId /\ tip' = tip /\ tip \in Nat /\ query \in QueryType
      /\ UNCHANGED <<conn, pend, bus, lagged, net, excused>>
  BY Numbers DEF Inv, TypeOK, Answer, logVars, connVars, faultVars, tip
<1>2. PICK n \in query.at..tip : query' = [query EXCEPT !.pc = "shown", !.at = n]
  BY DEF Answer
<1>3. query.at \in Nat /\ n \in 0..MaxId /\ n <= tip /\ query.at <= n
  <2>1. query.at \in 0..MaxId /\ MaxId \in Nat
    BY <1>1, BoundsAssumption DEF QueryType
  <2>. QED  BY <1>1, <2>1
<1>4. query' \in QueryType /\ query'.at = n /\ query'.reused = query.reused /\ query.pc # "none"
  BY <1>1, <1>2, <1>3 DEF QueryType, Answer, Reading
<1>5. CacheIsOwed'
  <2> SUFFICES ASSUME conn.pc = "live", "projection" \notin excused, ~query.reused,
                      ~ \E m \in 1..Len(net) : net[m].ev = "_replay_complete", NEW j \in 1..tip
               PROVE  j <= n \/ (conn.replayed < j /\ (Undelivered(j) \/ InNet(j)))
    BY <1>1, <1>4 DEF CacheIsOwed, Undelivered, InNet, Event
  <2>1. j <= query.at \/ (conn.replayed < j /\ (Undelivered(j) \/ InNet(j)))
    BY <1>4 DEF Inv, CacheIsOwed
  <2>. QED  BY <1>1, <1>3, <2>1
<1>. QED
  BY <1>3, <1>4, <1>5, InvQuery DEF Answer

-----------------------------------------------------------------------------
(* The theorems.                                                           *)

LEMMA InvNext == Inv /\ [Next]_vars => Inv'
<1> SUFFICES ASSUME Inv, [Next]_vars PROVE Inv'
  OBVIOUS
<1>1. ASSUME NEW k \in NewKinds, NEW d \in {"inWriter", "afterWriter"}, Commit(k, d) PROVE Inv'
  <2>1. k \in Kinds
    BY BoundsAssumption DEF Kinds
  <2>. QED  BY <1>1, <2>1, InvCommit
<1>2. ASSUME NEW i \in pend, Emit(i) PROVE Inv'
  BY <1>2, InvEmit
<1>3. CASE Age
  BY <1>3, InvAge
<1>4. ASSUME NEW ids \in SUBSET live, Prune(ids) PROVE Inv'
  BY <1>4, InvPrune
<1>5. CASE DiscardUnsubscribed \/ Subscribe \/ Guard \/ Probe \/ Fetch
  BY <1>5, InvDiscard, InvSubscribe, InvGuard, InvProbe, InvFetch
<1>6. CASE Recheck \/ ReadTip \/ Stamp \/ Live \/ Lagged
  BY <1>6, InvRecheck, InvReadTip, InvStamp, InvLive, InvLagged
<1>7. CASE Connect \/ OnClose \/ ReduceEventFrame \/ Mount \/ Answer
  BY <1>7, InvConnect, InvOnClose, InvReduceEventFrame, InvMount, InvAnswer
<1>8. CASE Lose \/ Crash
  BY <1>8, InvLose, InvCrash
<1>9. CASE UNCHANGED vars
  <2>1. UNCHANGED <<kind, live, aged, watermark, pend, writer, conn, bus, lagged, net, cursor, cold, base,
                    seen, query, faults, excused>>
    BY <1>9 DEF vars, logVars, connVars, clientVars, faultVars
  <2>2. TypeOK'
    <3>1. TypeOK
      BY DEF Inv
    <3>2. lagged' \in BOOLEAN /\ cold' \in BOOLEAN
      BY <2>1, <3>1, Zenon DEF TypeOK
    <3>. QED  BY <2>1, <3>1, <3>2 DEF TypeOK, tip
  <2>3. /\ IdsExist' /\ BusOnce' /\ BusInOrder' /\ NothingSent' /\ AnchorIsCursor'
        /\ StreamedWindow' /\ WindowIsWhole' /\ CompletesOnce' /\ CompletesAbove'
        /\ NoGap' /\ NetIsGapFree' /\ LiveIsGapFree' /\ CacheIsOwed' /\ SentIsPast'
    BY <2>1, ClientSideStays
  <2>4. WatermarkCovers' /\ WindowFits' /\ WindowReaches' /\ FetchedOrPruned' /\ TipIsAhead' /\ SinceSubscribed'
    BY <2>1 DEF Inv, WatermarkCovers, WindowFits, WindowReaches, FetchedOrPruned, TipIsAhead, SinceSubscribed,
       Undelivered, Replayed, tip
  <2>. QED  BY <2>2, <2>3, <2>4 DEF Inv
<1>. QED
  BY <1>1, <1>2, <1>3, <1>4, <1>5, <1>6, <1>7, <1>8, <1>9 DEF Next

\* The inductive invariant holds in every reachable state.
THEOREM Invariance == Spec => []Inv
<1>1. Init => Inv
  BY InvInit
<1>2. Inv /\ [Next]_vars => Inv'
  BY InvNext
<1>. QED
  BY <1>1, <1>2, PTL DEF Spec

\* The cursor is sound: a warm client was sent every row below it, and no
\* _replay_complete it finds is behind it (run_replay and reduceEventFrame).
THEOREM CursorStaysSound == Spec => []CursorIsSound
<1>1. Inv => CursorIsSound
  <2> SUFFICES ASSUME Inv PROVE CursorIsSound
    OBVIOUS
  <2>1. TypeOK /\ NoGap
    BY DEF Inv
  <2>2. NoFalseReset
    <3> SUFFICES ASSUME net # <<>>, Head(net).ev = "_replay_complete", "read" \notin excused
                 PROVE  Head(net).id >= cursor
      BY DEF NoFalseReset
    <3>1. 1 \in 1..Len(net) /\ Head(net) = net[1] /\ cursor \in Nat /\ net[1].id \in Nat
      <4>1. net \in Seq(Frames)
        BY <2>1 DEF TypeOK
      <4>2. 1 \in 1..Len(net) /\ Head(net) = net[1]
        BY <4>1
      <4>. QED  BY <2>1, <4>2, Numbers
    <3>2. cursor <= net[1].id
      BY <3>1 DEF Inv, CompletesAbove
    <3>. QED  BY <3>1, <3>2
  <2>. QED  BY <2>1, <2>2 DEF CursorIsSound
<1>. QED
  BY <1>1, Invariance, PTL

\* Once everything sent was read and no read is in flight, the answer the
\* client shows reflects the whole log, whatever was pruned, lost, overtaken or
\* misread on the way, unless its last invalidation was left to a first read
\* that was in flight already (invalidateQuery of the query cache adapter).
THEOREM CacheIsFresh == Spec => []Fresh
<1>1. Inv => Fresh
  <2> SUFFICES ASSUME Inv, Quiet, query.pc = "shown", "projection" \notin excused, ~query.reused
               PROVE  query.at = tip
    BY DEF Fresh
  <2>1. conn.pc = "live" /\ ~lagged /\ bus = <<>> /\ net = <<>> /\ pend = {}
    BY DEF Quiet
  <2>2. ASSUME NEW j \in 1..tip PROVE j <= query.at
    <3>1. ~Undelivered(j) /\ ~InNet(j) /\ ~ \E n \in 1..Len(net) : net[n].ev = "_replay_complete"
      BY <2>1 DEF Undelivered, InNet
    <3>. QED  BY <2>1, <3>1 DEF Inv, CacheIsOwed
  <2>3. query.at <= tip /\ query.at \in Nat /\ tip \in Nat
    BY Numbers DEF Inv, IdsExist, TypeOK, QueryType
  <2>4. tip > 0 => tip \in 1..tip
    BY <2>3
  <2>. QED  BY <2>2, <2>3, <2>4
<1>. QED
  BY <1>1, Invariance, PTL

\* Only a first read that is not cancelled is reused.
LEMMA CancelledIsNotReused ==
  ASSUME Inv, ~query.reused, [Next]_vars, {"event", "complete"} \subseteq CancelFirst
  PROVE  ~query'.reused
<1>1. ASSUME NEW from \in CancelFirst, Invalidate(from) PROVE ~query'.reused
  BY <1>1 DEF Invalidate, ReadFrom
<1>2. CASE ReduceEventFrame
  <2>1. ASSUME NEW i, ReduceEvent(i) PROVE ~query'.reused
    BY <1>1, <2>1 DEF ReduceEvent
  <2>2. CASE Forget
    BY <2>2 DEF Forget, NoQuery
  <2>3. ASSUME NEW i, ReduceComplete(i) PROVE ~query'.reused
    BY <1>1, <2>2, <2>3 DEF ReduceComplete
  <2>. QED  BY <1>2, <2>1, <2>2, <2>3 DEF ReduceEventFrame
<1>3. CASE Mount
  BY <1>3 DEF Mount, ReadFrom
<1>4. CASE Answer
  <2>1. query \in QueryType
    BY DEF Inv, TypeOK
  <2>. QED  BY <1>4, <2>1 DEF Answer, QueryType
<1>5. CASE UNCHANGED query
  BY <1>5
<1>6. ReduceEventFrame \/ Mount \/ Answer \/ UNCHANGED query
  <2>1. ASSUME NEW k, NEW d, Commit(k, d) PROVE UNCHANGED query
    BY <2>1 DEF Commit, clientVars
  <2>2. ASSUME NEW i, Emit(i) PROVE UNCHANGED query
    BY <2>2 DEF Emit, clientVars
  <2>3. ASSUME NEW ids, Prune(ids) PROVE UNCHANGED query
    BY <2>3 DEF Prune, clientVars
  <2>4. CASE Age \/ DiscardUnsubscribed \/ Subscribe \/ Guard \/ Probe \/ Fetch
    BY <2>4 DEF Age, DiscardUnsubscribed, Subscribe, Guard, Probe, Fetch, clientVars
  <2>5. CASE Recheck \/ ReadTip \/ Stamp \/ Live \/ Lagged
    BY <2>5 DEF Recheck, ReadTip, Stamp, Live, Lagged, clientVars
  <2>6. CASE Connect \/ OnClose \/ Lose \/ Crash
    BY <2>6 DEF Connect, OnClose, Lose, Crash, clientVars
  <2>7. CASE UNCHANGED vars
    BY <2>7 DEF vars, clientVars
  <2>. QED  BY <2>1, <2>2, <2>3, <2>4, <2>5, <2>6, <2>7 DEF Next
<1>. QED
  BY <1>2, <1>3, <1>4, <1>5, <1>6

\* A query whose read in flight every invalidation cancels first, as those of
\* the track overlays, shows the whole log whenever all is quiet: no first
\* read excuses it (cancelThenInvalidate).
THEOREM CancelledIsFresh ==
  ASSUME {"event", "complete"} \subseteq CancelFirst
  PROVE  Spec => [](Quiet /\ query.pc = "shown" /\ "projection" \notin excused => query.at = tip)
<1> DEFINE Own == ~query.reused
<1>1. Init => Own
  BY DEF Init, NoQuery
<1>2. Inv /\ Own /\ [Next]_vars => Own'
  BY CancelledIsNotReused
<1>3. Fresh /\ Own => (Quiet /\ query.pc = "shown" /\ "projection" \notin excused => query.at = tip)
  BY DEF Fresh
<1> HIDE DEF Own
<1>. QED
  BY <1>1, <1>2, <1>3, Invariance, CacheIsFresh, PTL DEF Spec

\* Only the select loop's live branch adds one frame to a live connection's.
LEMMA OneFrameIsLive ==
  ASSUME Inv, Next, conn.pc = "live", Len(net') = Len(net) + 1
  PROVE  /\ bus # <<>> /\ Head(bus) > conn.replayed /\ net' = net \o <<Event(Head(bus))>>
<1>1. TypeOK /\ Len(net) \in Nat /\ net \in Seq(Frames)
  BY Numbers DEF Inv, TypeOK
<1>2. net' # net
  BY <1>1
<1>3. net' # <<>>
  BY <1>1
<1>4. ASSUME NEW k, NEW d, Commit(k, d) PROVE FALSE
  BY <1>2, <1>4 DEF Commit
<1>5. ASSUME NEW i, Emit(i) PROVE FALSE
  BY <1>2, <1>5 DEF Emit
<1>6. ASSUME NEW ids, Prune(ids) PROVE FALSE
  BY <1>2, <1>6 DEF Prune
<1>7. ~Age /\ ~Lagged /\ ~Mount /\ ~Answer
  BY <1>2 DEF Age, Lagged, Mount, Answer
<1>8. ~DiscardUnsubscribed /\ ~Subscribe /\ ~Guard /\ ~Probe /\ ~Fetch
  BY DEF DiscardUnsubscribed, Subscribe, Guard, Probe, Fetch
<1>9. ~Recheck /\ ~ReadTip /\ ~Stamp /\ ~Connect /\ ~OnClose
  BY DEF Recheck, ReadTip, Stamp, Connect, OnClose
<1>10. ~Lose /\ ~Crash
  BY <1>3 DEF Lose, Crash, Disconnected
<1>11. ~ReduceEventFrame
  <2> SUFFICES ASSUME ReduceEventFrame PROVE FALSE
    OBVIOUS
  <2>1. net # <<>> /\ (net' = Tail(net) \/ net' = <<>>)
    BY DEF ReduceEventFrame, ReduceEvent, ReduceComplete, Forget, Disconnected
  <2>2. Len(Tail(net)) = Len(net) - 1
    BY <1>1, <2>1
  <2>3. Len(net') # Len(Tail(net))
    BY <1>1, <2>2
  <2>. QED  BY <1>3, <2>1, <2>3
<1>12. Live
  BY <1>4, <1>5, <1>6, <1>7, <1>8, <1>9, <1>10, <1>11 DEF Next
<1>. QED
  BY <1>2, <1>12 DEF Live, Send

\* One connection sends no event twice: the live branch drops what the bus
\* brings of the replayed window (`env.id <= last_replayed_id`).
THEOREM NoFrameTwice == Spec => NoDuplicateFrame
<1> DEFINE A == \A i \in Ids :
                  /\ Len(net') = Len(net) + 1 /\ net'[Len(net')] = Event(i)
                  /\ conn.pc = "live" /\ "read" \notin excused
                  => i \notin conn.sent
<1>1. Inv /\ [Next]_vars => [A]_vars
  <2> SUFFICES ASSUME Inv, Next, NEW i \in Ids, Len(net') = Len(net) + 1, net'[Len(net')] = Event(i),
                      conn.pc = "live", "read" \notin excused, i \in conn.sent
               PROVE  FALSE
    OBVIOUS
  <2>1. bus # <<>> /\ Head(bus) > conn.replayed /\ net' = net \o <<Event(Head(bus))>>
    BY OneFrameIsLive
  <2>2. TypeOK /\ net \in Seq(Frames) /\ bus \in Seq(Ids) /\ Len(net) \in Nat /\ conn.replayed \in Nat
    BY Numbers DEF Inv, TypeOK
  <2>3. net'[Len(net) + 1] = Event(Head(bus))
    BY <2>1, <2>2
  <2>4. i = Head(bus)
    BY <2>3 DEF Event
  <2>5. 1 \in 1..Len(bus) /\ bus[1] = i /\ i > conn.replayed
    BY <2>1, <2>2, <2>4
  <2>6. i <= conn.replayed \/ ~(i \in pend \/ \E n \in 1..Len(bus) : bus[n] = i)
    BY DEF Inv, SentIsPast
  <2>7. ~(i <= conn.replayed)
    BY <2>2, <2>5 DEF Ids
  <2>. QED  BY <2>5, <2>6, <2>7
<1>2. Spec => [][A]_vars
  BY <1>1, Invariance, PTL DEF Spec
<1>. QED
  BY <1>2 DEF NoDuplicateFrame

=============================================================================
