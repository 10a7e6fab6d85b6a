----------------------- MODULE ConversationInput_proofs -----------------------
(***************************************************************************)
(* Proofs about ConversationInput, for any number of messages and any      *)
(* budget of edits, decisions, faults and crashes.  Where a message is and *)
(* what the provider got of it is not inductive by itself: it rests on     *)
(* which submission may still be sent or released, on what a fence that    *)
(* still matches says about the carrier, and on the fact that a message    *)
(* that may have been sent never again stands in the queue by itself.      *)
(***************************************************************************)
EXTENDS ConversationInput, FiniteSetTheorems, WellFoundedInduction, TLAPS

Queue == Range1(pending)
Subs  == 1..Len(sub)
Sent  == Range1(got)

Current(p)  == p[2] > 0 /\ msg[p[1]].rev = p[2] /\ ~msg[p[1]].withdrawn
Holds(e, m) == \E p \in TextOf(e) : p[1] = m

\* A submission that may still be sent or released.
InCall(s)  == call.pc \in {"prepared", "reported"} /\ call.s = s
CanMove(s) == sub[s].delivery = "none" \/ InCall(s)

\* A submission the provider may have seen.
Exposed(s) == s \in Sent \/ sub[s].resolved = "retry"

-----------------------------------------------------------------------------
(* The inductive invariant.                                                *)

\* A submission nobody began to send is the open execution, untouched.
UnsentIsAlone ==
  \A s \in Subs : sub[s].delivery = "none" =>
    /\ sub[s].initial /\ sub[s].resolved = "no" /\ sub[s].target = 0
    /\ active = {s} /\ s \notin Sent

\* Which claims are in force follows from the report and the decision.
EffectiveClaims ==
  \A s \in Subs :
    sub[s].effective <=> /\ sub[s].resolved # "retry"
                         /\ sub[s].delivery = "notDispatched" => sub[s].resolved # "no"

\* An Initial knows the turn it opened once that was answered; a steer knows
\* its turn from the start.
TargetIsTurn ==
  \A s \in Subs :
    /\ sub[s].initial /\ sub[s].target # 0 =>
         sub[s].delivery = "accepted" /\ turns[sub[s].target].by = s
    /\ ~sub[s].initial => sub[s].target # 0

\* What was sent was sent once, and no report denies it.
SentOnce ==
  /\ \A i, j \in 1..Len(got) : got[i] = got[j] => i = j
  /\ \A s \in Sent : sub[s].delivery \notin {"none", "notDispatched"}

\* Every turn was opened by one Initial, and a live one is the execution's.
TurnsHaveOwners ==
  /\ \A t \in 1..Len(turns) : sub[turns[t].by].initial /\ turns[t].by \in Sent
  /\ \A t, u \in 1..Len(turns) : turns[t].by = turns[u].by => t = u
  /\ \A t \in 1..Len(turns) : turns[t].live => turns[t].by \in active

\* The holder of the issuance mutex works on a submission of the execution.
CallHolds ==
  /\ call.pc \in {"free", "selected", "claimed", "prepared", "reported", "settled", "endSampled"}
  /\ call.pc = "claimed" => call.s \in Subs /\ sub[call.s].delivery = "none"
  /\ call.pc \in {"prepared", "reported"} =>
       /\ call.s \in Subs /\ call.s \in active /\ sub[call.s].delivery = "crossing"
       /\ sub[call.s].initial => active = {call.s}
  /\ call.pc = "prepared" => call.s \notin Sent
  /\ call.pc = "settled" => call.s \in Subs /\ sub[call.s].initial

\* What a report says: only a refusal before the request is non-delivery.
ReportIsTrue ==
  call.pc = "reported" =>
    /\ call.delivery \in {"notDispatched", "unknown", "accepted"}
    /\ call.target \in 0..Len(turns)
    /\ call.delivery = "notDispatched" => call.s \notin Sent
    /\ sub[call.s].initial /\ call.target # 0 =>
         call.delivery = "accepted" /\ turns[call.target].by = call.s
    /\ ~sub[call.s].initial => call.target = sub[call.s].target

\* What the fences in hand say of the state they were taken in.
FenceSays ==
  LET f == call.fence IN
  /\ call.pc = "selected" =>
       /\ call.prefix \in Seq(Entries) /\ Len(call.prefix) > 0
       /\ \A s \in f.active : f.attempts[s][3] # "no" /\ f.attempts[s][2] = 0
  /\ call.pc = "prepared" => f.attempts[call.s][3] = "no"
  /\ call.pc = "endSampled" =>
       /\ call.turn \in 1..Len(turns) /\ ~turns[call.turn].live
       /\ \E o \in f.active : o \in Subs /\ sub[o].initial /\ f.attempts[o][2] = call.turn
       /\ \A s \in f.active :
            f.attempts[s][1] # "none" /\ (f.attempts[s][1] = "crossing" => f.attempts[s][3] # "no")

\* An entry of the queue is a standing message or the retry of a submission.
QueueIsCurrent ==
  \A e \in Queue :
    /\ e.of = 0 => e.m \in Msgs /\ Current(<<e.m, e.rev>>)
    /\ e.of # 0 => e.of \in Subs /\ sub[e.of].resolved = "retry"

\* A submission froze the texts of its entries, in queue order.
TextIsFrozen ==
  \A s \in Subs :
    /\ Len(sub[s].from) > 0
    /\ \A e \in Range1(sub[s].from) :
         /\ e.of = 0 => e.m \in Msgs
         /\ e.of # 0 => e.of \in Subs /\ sub[e.of].resolved = "retry"
    /\ sub[s].text = UNION {TextOf(e) : e \in Range1(sub[s].from)}
    /\ \A a, b \in 1..Len(sub[s].from) : a < b => sub[s].from[a].pos < sub[s].from[b].pos

\* What is claimed, or was retried, is the authors' current text.
TextIsCurrent ==
  \A s \in Subs : sub[s].effective \/ sub[s].resolved = "retry" => \A p \in sub[s].text : Current(p)

\* A message is in at most one place ...
OnePlace ==
  \A m \in Msgs :
    /\ \A e, f \in Queue : Holds(e, m) /\ Holds(f, m) => e = f
    /\ \A s, t \in Subs :
         sub[s].effective /\ sub[t].effective /\ Carries(s, m) /\ Carries(t, m) => s = t
    /\ \A e \in Queue, s \in Subs : ~(Holds(e, m) /\ sub[s].effective /\ Carries(s, m))
    /\ \A s \in Subs : sub[s].effective =>
         \A e, f \in Range1(sub[s].from) : Holds(e, m) /\ Holds(f, m) => e = f

\* ... and in one while it stands.
SomePlace ==
  \A m \in Msgs : msg[m].rev > 0 /\ ~msg[m].withdrawn =>
    (\E e \in Queue : Holds(e, m)) \/ (\E s \in Subs : sub[s].effective /\ Carries(s, m))

\* Only what was accepted is withdrawn.
WithdrawnWasAccepted == \A m \in Msgs : msg[m].withdrawn => msg[m].rev > 0

\* A message that may have been seen is never again an entry of its own.
ExposedStays ==
  \A s \in Subs : Exposed(s) => \A m \in Msgs : Carries(s, m) =>
    /\ \A e \in Queue : e.of = 0 => e.m # m
    /\ \A t \in Subs : t # s /\ sub[t].effective =>
         \A e \in Range1(sub[t].from) : e.of = 0 => e.m # m

\* Positions are used once, and what opens a turn stood before the queue.
PlacesAreKept ==
  /\ \A s \in Subs : \A a \in Range1(sub[s].from) : a.pos < nextPos
  /\ \A s \in Subs : CanMove(s) => \A a \in Range1(sub[s].from), e \in Queue : a.pos # e.pos
  /\ \A s \in Subs : sub[s].initial /\ (s \in Sent \/ CanMove(s)) =>
       \A a \in Range1(sub[s].from) :
         /\ \A e \in Queue : a.pos < e.pos
         /\ \A t \in Subs : s \in Sent /\ CanMove(t) /\ t \notin Sent =>
              \A b \in Range1(sub[t].from) : a.pos < b.pos

Inv ==
  /\ TypeOK /\ UnsentIsAlone /\ EffectiveClaims /\ TargetIsTurn /\ SentOnce /\ TurnsHaveOwners
  /\ CallHolds /\ ReportIsTrue /\ FenceSays
  /\ QueueIsCurrent /\ TextIsFrozen /\ TextIsCurrent /\ OnePlace /\ SomePlace
  /\ WithdrawnWasAccepted /\ ExposedStays /\ PlacesAreKept /\ InOrder

-----------------------------------------------------------------------------
(* Sequences of entries.                                                   *)

LEMMA RangeOf ==
  ASSUME NEW S, NEW s \in Seq(S)
  PROVE  /\ Len(s) \in Nat /\ DOMAIN s = 1..Len(s) /\ Range1(s) \subseteq S
         /\ \A x : x \in Range1(s) <=> \E i \in 1..Len(s) : s[i] = x
         /\ \A i \in 1..Len(s) : s[i] \in S /\ s[i] \in Range1(s)
<1>1. Len(s) \in Nat /\ DOMAIN s = 1..Len(s) /\ \A i \in 1..Len(s) : s[i] \in S
  OBVIOUS
<1>. QED
  BY <1>1 DEF Range1

LEMMA AppendOf ==
  ASSUME NEW S, NEW s \in Seq(S), NEW x \in S
  PROVE  /\ Append(s, x) \in Seq(S) /\ Len(Append(s, x)) = Len(s) + 1
         /\ \A i \in 1..Len(s) : Append(s, x)[i] = s[i]
         /\ Append(s, x)[Len(s) + 1] = x
         /\ Range1(Append(s, x)) = Range1(s) \union {x}
<1>1. /\ Append(s, x) \in Seq(S) /\ Len(Append(s, x)) = Len(s) + 1 /\ Len(s) \in Nat
      /\ \A i \in 1..Len(s) : Append(s, x)[i] = s[i]
      /\ Append(s, x)[Len(s) + 1] = x
  OBVIOUS
<1>2. ASSUME NEW y PROVE y \in Range1(Append(s, x)) <=> y \in Range1(s) \union {x}
  <2>1. y \in Range1(Append(s, x)) <=> \E i \in 1..(Len(s) + 1) : Append(s, x)[i] = y
    <3> DEFINE a == Append(s, x)
    <3>1. a \in Seq(S) /\ Len(a) = Len(s) + 1
      BY <1>1
    <3> HIDE DEF a
    <3>2. y \in Range1(a) <=> \E i \in 1..(Len(s) + 1) : a[i] = y
      BY <3>1, RangeOf
    <3>. QED  BY <3>2 DEF a
  <2>2. \A i : i \in 1..(Len(s) + 1) <=> i \in 1..Len(s) \/ i = Len(s) + 1
    BY <1>1
  <2>3. y \in Range1(s) <=> \E i \in 1..Len(s) : s[i] = y
    BY RangeOf
  <2>. QED  BY <1>1, <2>1, <2>2, <2>3
<1>. QED
  BY <1>1, <1>2

LEMMA EntriesOf ==
  ASSUME NEW s \in Seq(Entries)
  PROVE  /\ \A x : x \in Range1(s) <=> \E i \in 1..Len(s) : s[i] = x
         /\ \A e \in Range1(s) : e \in Entries /\ e.m \in 0..N
                                 /\ e.rev \in Nat /\ e.of \in Nat /\ e.pos \in Nat
<1>1. Range1(s) \subseteq Entries /\ \A x : x \in Range1(s) <=> \E i \in 1..Len(s) : s[i] = x
  BY RangeOf
<1>. QED
  BY <1>1 DEF Entries

\* A queue is in the order of its positions.
Ordered(q) == \A i, j \in 1..Len(q) : i < j => q[i].pos < q[j].pos

LEMMA PositionsDiffer ==
  ASSUME NEW q \in Seq(Entries), Ordered(q), NEW i \in 1..Len(q), NEW j \in 1..Len(q),
         q[i].pos = q[j].pos
  PROVE  i = j
<1>1. q[i] \in Entries /\ q[j] \in Entries /\ Len(q) \in Nat
  BY RangeOf
<1>2. q[i].pos \in Nat /\ q[j].pos \in Nat
  BY <1>1 DEF Entries
<1>3. ~(i < j) /\ ~(j < i)
  BY <1>2 DEF Ordered
<1>. QED
  BY <1>1, <1>3

LEMMA SamePosition ==
  ASSUME NEW q \in Seq(Entries), Ordered(q), NEW e \in Range1(q), NEW f \in Range1(q), e.pos = f.pos
  PROVE  e = f
<1>1. PICK i \in 1..Len(q) : q[i] = e
  BY RangeOf
<1>2. PICK j \in 1..Len(q) : q[j] = f
  BY RangeOf
<1>. QED
  BY <1>1, <1>2, PositionsDiffer

LEMMA AppendQueue ==
  ASSUME NEW q \in Seq(Entries), Ordered(q), NEW x \in Entries,
         \A e \in Range1(q) : e.pos < x.pos
  PROVE  Ordered(Append(q, x))
<1>1. SUFFICES ASSUME NEW i \in 1..(Len(q) + 1), NEW j \in 1..(Len(q) + 1), i < j
               PROVE  Append(q, x)[i].pos < Append(q, x)[j].pos
  BY AppendOf DEF Ordered
<1>2. Len(q) \in Nat
  BY RangeOf
<1>3. i \in 1..Len(q) /\ Append(q, x)[i] = q[i] /\ q[i] \in Range1(q)
  BY <1>1, <1>2, AppendOf, RangeOf
<1>4. CASE j = Len(q) + 1
  BY <1>3, <1>4, AppendOf
<1>5. CASE j \in 1..Len(q)
  BY <1>1, <1>3, <1>5, AppendOf DEF Ordered
<1>. QED
  BY <1>2, <1>4, <1>5

LEMMA WithoutOf ==
  ASSUME NEW q \in Seq(Entries), Ordered(q), NEW i \in 1..Len(q)
  PROVE  /\ Without(q, i) \in Seq(Entries) /\ Ordered(Without(q, i))
         /\ Range1(Without(q, i)) = Range1(q) \ {q[i]}
<1> DEFINE w == Without(q, i)
           n == Len(q) - 1
<1>1. Len(q) \in Nat /\ n \in Nat /\ i \in Nat
  BY RangeOf
<1>2. w = [j \in 1..n |-> IF j < i THEN q[j] ELSE q[j + 1]]
  BY DEF Without
<1>3. \A j \in 1..n : j \in 1..Len(q) /\ j + 1 \in 1..Len(q)
  BY <1>1
<1>4. w \in [1..n -> Entries]
  BY <1>2, <1>3, RangeOf
<1>5. w \in Seq(Entries) /\ Len(w) = n
  <2> HIDE DEF w, n
  <2>. QED  BY <1>1, <1>4
<1>6. Ordered(w)
  <2>1. SUFFICES ASSUME NEW a \in 1..n, NEW b \in 1..n, a < b PROVE w[a].pos < w[b].pos
    BY <1>5 DEF Ordered
  <2>2. PICK c \in 1..Len(q) : w[a] = q[c] /\ (c = a \/ c = a + 1) /\ (a < i <=> c = a)
    <3>1. CASE a < i
      BY <1>1, <1>2, <1>3, <3>1
    <3>2. CASE ~(a < i)
      <4>1. a + 1 \in 1..Len(q) /\ w[a] = q[a + 1] /\ a + 1 # a
        BY <1>1, <1>2, <1>3, <3>2
      <4>. QED  BY <3>2, <4>1
    <3>. QED  BY <3>1, <3>2
  <2>3. PICK d \in 1..Len(q) : w[b] = q[d] /\ (d = b \/ d = b + 1) /\ (b < i <=> d = b)
    <3>1. CASE b < i
      BY <1>1, <1>2, <1>3, <3>1
    <3>2. CASE ~(b < i)
      <4>1. b + 1 \in 1..Len(q) /\ w[b] = q[b + 1] /\ b + 1 # b
        BY <1>1, <1>2, <1>3, <3>2
      <4>. QED  BY <3>2, <4>1
    <3>. QED  BY <3>1, <3>2
  <2>4. c < d
    BY <2>1, <2>2, <2>3, <1>1
  <2>. QED  BY <2>2, <2>3, <2>4 DEF Ordered
<1>7. ASSUME NEW x PROVE x \in Range1(w) <=> x \in Range1(q) \ {q[i]}
  <2>1. ASSUME x \in Range1(w) PROVE x \in Range1(q) \ {q[i]}
    <3>1. PICK j \in 1..n : w[j] = x
      BY <1>5, <2>1, RangeOf
    <3>2. PICK k \in 1..Len(q) : k # i /\ q[k] = x
      <4>1. CASE j < i
        BY <1>1, <1>2, <1>3, <3>1, <4>1
      <4>2. CASE ~(j < i)
        <5>1. w[j] = q[j + 1] /\ j + 1 # i /\ j + 1 \in 1..Len(q)
          BY <1>1, <1>2, <1>3, <4>2
        <5>. QED  BY <3>1, <5>1
      <4>. QED  BY <4>1, <4>2
    <3>3. x # q[i]
      BY <3>2, PositionsDiffer
    <3>. QED  BY <3>2, <3>3, RangeOf
  <2>2. ASSUME x \in Range1(q) \ {q[i]} PROVE x \in Range1(w)
    <3>1. PICK k \in 1..Len(q) : q[k] = x
      BY <2>2, RangeOf
    <3>2. k # i
      BY <2>2, <3>1
    <3>3. \E j \in 1..n : w[j] = x
      <4>1. CASE k < i
        BY <1>1, <1>2, <3>1, <4>1
      <4>2. CASE i < k
        <5>1. k - 1 \in 1..n /\ ~(k - 1 < i) /\ (k - 1) + 1 = k
          BY <1>1, <4>2
        <5>2. w[k - 1] = q[k]
          BY <1>2, <5>1
        <5>. QED  BY <3>1, <5>1, <5>2
      <4>. QED  BY <1>1, <3>2, <4>1, <4>2
    <3>. QED  BY <1>5, <3>3, RangeOf
  <2>. QED  BY <2>1, <2>2
<1>. QED
  BY <1>5, <1>6, <1>7

LEMMA EditOf ==
  ASSUME NEW q \in Seq(Entries), Ordered(q), NEW i \in 1..Len(q), NEW x \in Entries,
         x.pos = q[i].pos, NEW r \in Seq(Entries), Len(r) = Len(q),
         \A j \in 1..Len(q) : r[j] = IF j = i THEN x ELSE q[j]
  PROVE  Ordered(r) /\ Range1(r) = (Range1(q) \ {q[i]}) \union {x}
<1>1. /\ r \in Seq(Entries) /\ Len(r) = Len(q) /\ Len(q) \in Nat
      /\ \A j \in 1..Len(q) : r[j] = IF j = i THEN x ELSE q[j]
  OBVIOUS
<1>2. \A j \in 1..Len(q) : r[j].pos = q[j].pos
  BY <1>1
<1>3. Ordered(r)
  BY <1>1, <1>2 DEF Ordered
<1>4. ASSUME NEW y PROVE y \in Range1(r) <=> y \in (Range1(q) \ {q[i]}) \union {x}
  <2>1. y \in Range1(r) <=> \E j \in 1..Len(q) : r[j] = y
    <3>1. r \in Seq(Entries) /\ Len(r) = Len(q)
      BY <1>1
    <3>2. \A z : z \in Range1(r) <=> \E j \in 1..Len(r) : r[j] = z
      BY <3>1, EntriesOf
    <3>. QED  BY <3>1, <3>2
  <2>2. y \in Range1(q) <=> \E j \in 1..Len(q) : q[j] = y
    BY RangeOf
  <2>3. \A j \in 1..Len(q) : q[j] = q[i] => j = i
    BY PositionsDiffer
  <2>. QED  BY <1>1, <2>1, <2>2, <2>3
<1>. QED
  BY <1>1, <1>3, <1>4

\* The head of a queue and what it leaves.
HeadOf(q, n) == SubSeq(q, 1, n)
RestOf(q, n) == SubSeq(q, n + 1, Len(q))

LEMMA SplitOf ==
  ASSUME NEW q \in Seq(Entries), Ordered(q), NEW n \in 1..Len(q)
  PROVE  /\ HeadOf(q, n) \in Seq(Entries) /\ Len(HeadOf(q, n)) = n /\ Ordered(HeadOf(q, n))
         /\ RestOf(q, n) \in Seq(Entries) /\ Ordered(RestOf(q, n))
         /\ Range1(HeadOf(q, n)) \subseteq Range1(q)
         /\ Range1(RestOf(q, n)) = Range1(q) \ Range1(HeadOf(q, n))
         /\ \A a \in Range1(HeadOf(q, n)), e \in Range1(RestOf(q, n)) : a.pos < e.pos
<1> DEFINE h == HeadOf(q, n)
           r == RestOf(q, n)
<1>0. h = SubSeq(q, 1, n) /\ r = SubSeq(q, n + 1, Len(q))
  BY DEF HeadOf, RestOf
<1> HIDE DEF h, r
<1>1. Len(q) \in Nat /\ n \in Nat /\ n <= Len(q)
  BY RangeOf
<1>2. /\ h \in Seq(Entries) /\ Len(h) = n
      /\ \A j \in 1..n : j \in 1..Len(q) /\ h[j] = q[j]
  BY <1>0, <1>1
<1>3. /\ r \in Seq(Entries) /\ Len(r) = Len(q) - n
      /\ \A j \in 1..(Len(q) - n) : n + j \in 1..Len(q) /\ r[j] = q[n + j]
  <2>1. \A k \in (n + 1)..Len(q) : q[k] \in Entries
    BY <1>1, RangeOf
  <2>. QED  BY <1>0, <1>1, <2>1
<1>4. Ordered(h)
  BY <1>2 DEF Ordered
<1>5. Ordered(r)
  <2>1. SUFFICES ASSUME NEW i \in 1..(Len(q) - n), NEW j \in 1..(Len(q) - n), i < j
                 PROVE  r[i].pos < r[j].pos
    BY <1>3 DEF Ordered
  <2>2. n + i \in 1..Len(q) /\ n + j \in 1..Len(q) /\ n + i < n + j
    BY <1>1, <1>3, <2>1
  <2>3. q[n + i].pos < q[n + j].pos
    BY <2>2 DEF Ordered
  <2>. QED  BY <1>3, <2>3
<1>6. \A x : x \in Range1(h) <=> \E j \in 1..n : q[j] = x
  <2>1. \A x : x \in Range1(h) <=> \E j \in 1..n : h[j] = x
    BY <1>2, EntriesOf
  <2>. QED  BY <1>2, <2>1
<1>7. \A x : x \in Range1(r) <=> \E k \in (n + 1)..Len(q) : q[k] = x
  <2>1. \A x : x \in Range1(r) <=> \E j \in 1..(Len(q) - n) : r[j] = x
    BY <1>3, EntriesOf
  <2>2. \A k \in (n + 1)..Len(q) : k - n \in 1..(Len(q) - n) /\ n + (k - n) = k
    BY <1>1
  <2>3. \A j \in 1..(Len(q) - n) : n + j \in (n + 1)..Len(q)
    BY <1>1
  <2>4. \A k \in (n + 1)..Len(q) : r[k - n] = q[k]
    BY <1>3, <2>2
  <2>5. ASSUME NEW x, x \in Range1(r) PROVE \E k \in (n + 1)..Len(q) : q[k] = x
    <3>1. PICK j \in 1..(Len(q) - n) : r[j] = x
      BY <2>1, <2>5
    <3>. QED  BY <1>3, <2>3, <3>1
  <2>6. ASSUME NEW x, NEW k \in (n + 1)..Len(q), q[k] = x PROVE x \in Range1(r)
    BY <2>1, <2>2, <2>4, <2>6
  <2>. QED  BY <2>5, <2>6
<1>8. \A x : x \in Range1(q) <=> \E k \in 1..Len(q) : q[k] = x
  BY RangeOf
<1>9. \A a \in Range1(h), e \in Range1(r) : a.pos < e.pos
  <2>1. SUFFICES ASSUME NEW a \in Range1(h), NEW e \in Range1(r) PROVE a.pos < e.pos
    OBVIOUS
  <2>2. PICK j \in 1..n : q[j] = a
    BY <1>6
  <2>3. PICK k \in (n + 1)..Len(q) : q[k] = e
    BY <1>7
  <2>4. j \in 1..Len(q) /\ k \in 1..Len(q) /\ j < k
    BY <1>1
  <2>. QED  BY <2>2, <2>3, <2>4 DEF Ordered
<1>10. Range1(h) \subseteq Range1(q) /\ Range1(r) \subseteq Range1(q)
  BY <1>1, <1>6, <1>7, <1>8
<1>11. \A x \in Range1(q) : x \in Range1(h) \/ x \in Range1(r)
  <2>1. SUFFICES ASSUME NEW x \in Range1(q) PROVE x \in Range1(h) \/ x \in Range1(r)
    OBVIOUS
  <2>2. PICK k \in 1..Len(q) : q[k] = x
    BY <1>8
  <2>3. k \in 1..n \/ k \in (n + 1)..Len(q)
    BY <1>1
  <2>. QED  BY <1>6, <1>7, <2>2, <2>3
<1>12. \A x \in Range1(h) : x \notin Range1(r)
  <2>1. \A x \in Range1(h) : x.pos \in Nat
    BY <1>2, EntriesOf
  <2>2. \A x \in Range1(h) : ~(x.pos < x.pos)
    BY <2>1
  <2>. QED  BY <1>9, <2>2
<1>13. Range1(r) = Range1(q) \ Range1(h)
  BY <1>10, <1>11, <1>12
<1>. QED
  BY <1>2, <1>3, <1>4, <1>5, <1>9, <1>10, <1>13 DEF h, r

(* The enumeration that Restored chooses.                                  *)

Enumerates(q, S) ==
  /\ q \in [1..Cardinality(S) -> S]
  /\ \A i, j \in 1..Cardinality(S) : i < j => q[i].pos < q[j].pos
  /\ \A e \in S : \E i \in 1..Cardinality(S) : q[i] = e

\* Entries no two of which are at one position.
Places(S) == S \subseteq Entries /\ IsFiniteSet(S) /\ \A e, f \in S : e.pos = f.pos => e = f

LEMMA LastPlace ==
  ASSUME NEW S, Places(S), S # {}
  PROVE  \E x \in S : \A y \in S : y.pos <= x.pos
<1> DEFINE Above(x) == {y \in S : x.pos < y.pos}
           T == {Above(x) : x \in S}
           R == StrictSubsetOrdering(S)
<1>1. T # {} /\ IsFiniteSet(S)
  <2>1. PICK x \in S : TRUE
    OBVIOUS
  <2>2. Above(x) \in T
    BY <2>1
  <2>. QED  BY <2>2 DEF Places
<1>2. IsWellFoundedOn(R, FiniteSubsetsOf(S))
  BY <1>1, FS_StrictSubsetOrderingWellFounded
<1>3. T \subseteq FiniteSubsetsOf(S)
  BY <1>1, FS_Subset DEF FiniteSubsetsOf
<1>4. PICK m \in T : \A t \in T : ~(<<t, m>> \in R)
  <2> HIDE DEF T, R
  <2>. QED  BY <1>1, <1>2, <1>3, WFMin
<1>5. PICK x \in S : m = Above(x)
  OBVIOUS
<1>6. \A y \in S : y.pos \in Nat
  BY DEF Places, Entries
<1>7. ASSUME NEW y \in S, x.pos < y.pos PROVE FALSE
  <2>1. ASSUME NEW z \in Above(y) PROVE z \in Above(x)
    <3>1. z \in S /\ y.pos < z.pos
      OBVIOUS
    <3>2. x.pos < z.pos
      BY <1>6, <1>7, <3>1
    <3>. QED  BY <3>1, <3>2
  <2>2. y \in Above(x) /\ y \notin Above(y)
    BY <1>6, <1>7
  <2>3. <<Above(y), Above(x)>> \in R
    BY <2>1, <2>2 DEF StrictSubsetOrdering
  <2>. QED  BY <1>4, <1>5, <2>3
<1>. QED
  BY <1>6, <1>7

LEMMA EnumeratesWithLast ==
  ASSUME NEW S, Places(S), NEW x \in S, \A y \in S : y.pos <= x.pos,
         NEW q, Enumerates(q, S \ {x})
  PROVE  Enumerates([n \in 1..Cardinality(S) |-> IF n = Cardinality(S) THEN x ELSE q[n]], S)
<1> DEFINE c == Cardinality(S)
           t == [n \in 1..c |-> IF n = c THEN x ELSE q[n]]
<1>1. IsFiniteSet(S)
  BY DEF Places
<1>2. c \in Nat /\ Cardinality(S \ {x}) = c - 1
  BY <1>1, FS_CardinalityType, FS_RemoveElement
<1>3. c # 0
  BY <1>1, FS_EmptySet
<1>4. \A y \in S : y.pos \in Nat
  BY DEF Places, Entries
<1> HIDE DEF c
<1>5. q \in [1..(c - 1) -> S \ {x}]
  BY <1>2 DEF Enumerates
<1>6. \A m, n \in 1..(c - 1) : m < n => q[m].pos < q[n].pos
  BY <1>2 DEF Enumerates
<1>7. \A e \in S \ {x} : \E n \in 1..(c - 1) : q[n] = e
  BY <1>2 DEF Enumerates
<1>8. t \in [1..c -> S]
  BY <1>2, <1>5
<1>9. ASSUME NEW m \in 1..c, NEW n \in 1..c, m < n PROVE t[m].pos < t[n].pos
  <2>1. m \in 1..(c - 1) /\ t[m] = q[m]
    BY <1>2, <1>9
  <2>2. CASE n = c
    <3>1. q[m] \in S /\ q[m] # x
      BY <1>5, <2>1
    <3>2. q[m].pos # x.pos
      BY <3>1 DEF Places
    <3>3. q[m].pos <= x.pos /\ q[m].pos \in Nat /\ x.pos \in Nat
      BY <1>4, <3>1
    <3>4. t[n] = x
      BY <2>2
    <3>. QED  BY <2>1, <3>2, <3>3, <3>4
  <2>3. CASE n # c
    <3>1. n \in 1..(c - 1) /\ t[n] = q[n]
      BY <1>2, <2>3
    <3>. QED  BY <1>6, <1>9, <2>1, <3>1
  <2>. QED  BY <2>2, <2>3
<1>10. ASSUME NEW e \in S PROVE \E n \in 1..c : t[n] = e
  <2>1. CASE e = x
    <3>1. c \in 1..c /\ t[c] = x
      BY <1>2, <1>3
    <3>. QED  BY <2>1, <3>1
  <2>2. CASE e # x
    <3>1. PICK n \in 1..(c - 1) : q[n] = e
      BY <1>7, <2>2
    <3>2. n \in 1..c /\ t[n] = q[n]
      BY <1>2
    <3>. QED  BY <3>1, <3>2
  <2>. QED  BY <2>1, <2>2
<1>. QED
  <2>1. Enumerates(t, S)
    <3> HIDE DEF t
    <3>. QED  BY <1>8, <1>9, <1>10 DEF Enumerates, c
  <2>. QED  BY <2>1 DEF c

\* Otherwise take a smallest set without enumeration and leave its last out.
LEMMA SomethingEnumerates ==
  ASSUME NEW S, Places(S)
  PROVE  \E q : Enumerates(q, S)
<1> DEFINE U == {T \in SUBSET S : ~ \E q : Enumerates(q, T)}
           O == StrictSubsetOrdering(S)
<1>1. SUFFICES ASSUME U # {} PROVE FALSE
  OBVIOUS
<1>2. IsFiniteSet(S)
  BY DEF Places
<1>3. IsWellFoundedOn(O, FiniteSubsetsOf(S))
  BY <1>2, FS_StrictSubsetOrderingWellFounded
<1>4. U \subseteq FiniteSubsetsOf(S)
  BY <1>2, FS_Subset DEF FiniteSubsetsOf
<1>5. PICK T \in U : \A V \in U : ~(<<V, T>> \in O)
  <2> HIDE DEF U, O
  <2>. QED  BY <1>1, <1>3, <1>4, WFMin
<1>6. T \in SUBSET S /\ Places(T)
  <2>1. T \in SUBSET S
    BY <1>5
  <2>2. IsFiniteSet(T)
    BY <1>2, <2>1, FS_Subset
  <2>. QED  BY <2>1, <2>2 DEF Places
<1>7. CASE T = {}
  <2>1. Cardinality(T) = 0
    BY <1>7, FS_EmptySet
  <2>2. Enumerates([n \in 1..0 |-> 0], T)
    BY <1>7, <2>1 DEF Enumerates
  <2>. QED  BY <1>5, <2>2
<1>8. CASE T # {}
  <2>1. PICK x \in T : \A y \in T : y.pos <= x.pos
    BY <1>6, <1>8, LastPlace
  <2>2. T \ {x} \in SUBSET S /\ T \ {x} # T
    BY <1>6, <2>1
  <2>3. <<T \ {x}, T>> \in O
    BY <1>6, <2>2 DEF StrictSubsetOrdering
  <2>4. PICK q : Enumerates(q, T \ {x})
    BY <1>5, <2>2, <2>3
  <2>5. \E t : Enumerates(t, T)
    BY <1>6, <2>1, <2>4, EnumeratesWithLast
  <2>. QED  BY <1>5, <2>5
<1>. QED
  BY <1>7, <1>8

LEMMA ByPositionOf ==
  ASSUME NEW S, Places(S)
  PROVE  /\ ByPosition(S) \in Seq(Entries) /\ Ordered(ByPosition(S))
         /\ Range1(ByPosition(S)) = S
<1> DEFINE c == Cardinality(S)
           D == [1..c -> S]
           P(q) == /\ \A i, j \in 1..c : i < j => q[i].pos < q[j].pos
                   /\ \A e \in S : \E i \in 1..c : q[i] = e
           b == ByPosition(S)
<1>1. PICK q : Enumerates(q, S)
  BY SomethingEnumerates
<1>2. q \in D /\ P(q)
  BY <1>1 DEF Enumerates
<1>3. b = CHOOSE t \in D : P(t)
  BY DEF ByPosition
<1>4. b \in D /\ P(b)
  <2> HIDE DEF D, P, b
  <2>. QED  BY <1>2, <1>3
<1>5. c \in Nat /\ S \subseteq Entries
  BY FS_CardinalityType DEF Places
<1> HIDE DEF c, b
<1>6. b \in Seq(Entries) /\ Len(b) = c
  <2>1. b \in [1..c -> Entries]
    BY <1>4, <1>5
  <2>. QED  BY <1>5, <2>1
<1>7. Ordered(b)
  BY <1>4, <1>6 DEF Ordered
<1>8. \A x : x \in Range1(b) <=> \E i \in 1..c : b[i] = x
  BY <1>6, EntriesOf
<1>9. Range1(b) = S
  BY <1>4, <1>8
<1>. QED
  BY <1>6, <1>7, <1>9 DEF b

-----------------------------------------------------------------------------
(* What the types say.                                                     *)

LEMMA Types ==
  ASSUME TypeOK
  PROVE  /\ pending \in Seq(Entries) /\ Ordered(pending) /\ nextPos \in Nat
         /\ Len(pending) \in Nat /\ DOMAIN pending = 1..Len(pending)
         /\ Len(sub) \in Nat /\ DOMAIN sub = Subs /\ Subs \subseteq Nat /\ active \subseteq Subs
         /\ Len(turns) \in Nat /\ DOMAIN turns = 1..Len(turns)
         /\ Len(got) \in Nat /\ DOMAIN got = 1..Len(got) /\ Sent \subseteq Subs
         /\ \A s : s \in Sent <=> \E i \in 1..Len(got) : got[i] = s
<1>1. /\ pending \in Seq(Entries) /\ nextPos \in Nat /\ sub \in Seq(Submissions)
      /\ turns \in Seq([by : Nat, live : BOOLEAN]) /\ got \in Seq(Nat)
      /\ active \subseteq Subs /\ Sent \subseteq Subs
  BY DEF TypeOK, Subs, Sent
<1>2. Ordered(pending)
  BY DEF TypeOK, Ordered
<1>3. /\ Len(pending) \in Nat /\ DOMAIN pending = 1..Len(pending)
      /\ Len(sub) \in Nat /\ DOMAIN sub = 1..Len(sub)
      /\ Len(turns) \in Nat /\ DOMAIN turns = 1..Len(turns)
      /\ Len(got) \in Nat /\ DOMAIN got = 1..Len(got)
  BY <1>1
<1>4. \A s : s \in Sent <=> \E i \in 1..Len(got) : got[i] = s
  BY <1>1, RangeOf DEF Sent
<1>. QED
  BY <1>1, <1>2, <1>3, <1>4 DEF Subs

LEMMA QueueTypes ==
  ASSUME TypeOK
  PROVE  /\ \A e \in Queue : /\ e \in Entries /\ e.m \in 0..N /\ e.rev \in Nat
                             /\ e.of \in Nat /\ e.pos \in Nat /\ e.pos < nextPos
         /\ \A e, f \in Queue : e.pos = f.pos => e = f
         /\ \A i \in 1..Len(pending) : pending[i] \in Queue
         /\ \A e \in Queue : \E i \in 1..Len(pending) : pending[i] = e
<1>1. pending \in Seq(Entries) /\ Ordered(pending)
  BY Types
<1>2. /\ \A e \in Queue : \E i \in 1..Len(pending) : pending[i] = e
      /\ \A i \in 1..Len(pending) : pending[i] \in Queue
  BY <1>1, RangeOf DEF Queue
<1>3. \A e \in Queue : e.pos < nextPos
  <2>1. \A i \in 1..Len(pending) : pending[i].pos < nextPos
    BY DEF TypeOK
  <2>. QED  BY <1>2, <2>1
<1>. QED
  BY <1>1, <1>2, <1>3, EntriesOf, SamePosition DEF Queue

LEMMA SubTypes ==
  ASSUME TypeOK, NEW s \in Subs
  PROVE  /\ sub[s] \in Submissions
         /\ sub[s].from \in Seq(Entries) /\ sub[s].text \subseteq Msgs \X Nat
         /\ sub[s].initial \in BOOLEAN /\ sub[s].effective \in BOOLEAN
         /\ sub[s].delivery \in Deliveries /\ sub[s].target \in 0..Len(turns)
         /\ sub[s].resolved \in {"no", "keep", "retry"} /\ sub[s].waiting \in BOOLEAN
         /\ \A a \in Range1(sub[s].from) : /\ a \in Entries /\ a.m \in 0..N /\ a.rev \in Nat
                                           /\ a.of \in Nat /\ a.pos \in Nat
<1>1. sub \in Seq(Submissions) /\ s \in 1..Len(sub)
  BY DEF TypeOK, Subs
<1>2. sub[s] \in Submissions
  BY <1>1
<1>3. /\ sub[s].from \in Seq(Entries) /\ sub[s].text \subseteq Msgs \X Nat
      /\ sub[s].initial \in BOOLEAN /\ sub[s].effective \in BOOLEAN
      /\ sub[s].delivery \in Deliveries /\ sub[s].target \in Nat
      /\ sub[s].resolved \in {"no", "keep", "retry"} /\ sub[s].waiting \in BOOLEAN
  BY <1>2 DEF Submissions
<1>4. sub[s].target <= Len(turns) /\ Len(turns) \in Nat
  BY <1>1, Types DEF TypeOK
<1>. QED
  BY <1>2, <1>3, <1>4, EntriesOf

LEMMA OneInitial ==
  ASSUME TypeOK, NEW s \in active, NEW t \in active, sub[s].initial, sub[t].initial
  PROVE  s = t
  BY DEF TypeOK

LEMMA OriginalIs ==
  ASSUME TypeOK, active # {}
  PROVE  Original \in active /\ sub[Original].initial
<1>1. PICK s \in active : sub[s].initial
  BY DEF TypeOK
<1>. QED
  BY <1>1 DEF Original

LEMMA RetainedIs ==
  ASSUME TypeOK, RetainedTarget # 0
  PROVE  /\ Original \in active /\ sub[Original].initial
         /\ RetainedTarget = sub[Original].target /\ RetainedTarget \in 1..Len(turns)
         /\ sub[Original].delivery \in {"unknown", "accepted"}
<1>1. PICK s \in active : sub[s].initial /\ sub[s].delivery \in {"unknown", "accepted"}
  BY DEF RetainedTarget
<1>2. Original \in active /\ sub[Original].initial
  BY <1>1, OriginalIs
<1>3. Original = s
  BY <1>1, <1>2, OneInitial
<1>4. RetainedTarget = sub[Original].target
  BY <1>1 DEF RetainedTarget
<1>5. sub[Original].target \in 0..Len(turns) /\ Len(turns) \in Nat
  BY <1>2, Types, SubTypes
<1>. QED
  BY <1>1, <1>2, <1>3, <1>4, <1>5

LEMMA FenceIs ==
  ASSUME TypeOK
  PROVE  /\ Fence.active = active
         /\ \A s \in Subs : /\ Fence.attempts[s][1] = sub[s].delivery
                            /\ Fence.attempts[s][2] = sub[s].target
                            /\ Fence.attempts[s][3] = sub[s].resolved
<1>1. DOMAIN sub = Subs
  BY Types
<1>. QED
  BY <1>1 DEF Fence

\* A message held or carried is the text of an entry.
LEMMA CarriesEntry ==
  ASSUME TextIsFrozen, NEW s \in Subs, NEW m
  PROVE  Carries(s, m) <=> \E e \in Range1(sub[s].from) : Holds(e, m)
<1>1. sub[s].text = UNION {TextOf(e) : e \in Range1(sub[s].from)}
  BY DEF TextIsFrozen
<1>. QED
  BY <1>1 DEF Carries, Holds

LEMMA HoldsMessage ==
  ASSUME NEW e, e.of = 0, NEW m
  PROVE  Holds(e, m) <=> e.m = m
  BY DEF Holds, TextOf

LEMMA HoldsRetry ==
  ASSUME NEW e, e.of # 0, NEW m
  PROVE  Holds(e, m) <=> Carries(e.of, m)
  BY DEF Holds, TextOf, Carries

-----------------------------------------------------------------------------
(* Steps that move neither a message nor a submission.                     *)

LEMMA QuietStep ==
  ASSUME Inv, UNCHANGED <<msg, pending, nextPos, sub, active, turns, got>>,
         \A s : InCall(s)' => InCall(s),
         TypeOK', CallHolds', ReportIsTrue', FenceSays'
  PROVE  Inv'
<1> USE DEF Inv
<1>1. /\ msg' = msg /\ pending' = pending /\ nextPos' = nextPos /\ sub' = sub
      /\ active' = active /\ turns' = turns /\ got' = got
  OBVIOUS
<1>2. Queue' = Queue /\ Subs' = Subs /\ Sent' = Sent
  BY <1>1 DEF Queue, Subs, Sent, Range1
<1>3. UnsentIsAlone' /\ EffectiveClaims' /\ TargetIsTurn' /\ SentOnce' /\ TurnsHaveOwners'
  <2>1. UnsentIsAlone'
    BY <1>1, <1>2 DEF UnsentIsAlone
  <2>2. EffectiveClaims'
    BY <1>1, <1>2 DEF EffectiveClaims
  <2>3. TargetIsTurn'
    BY <1>1, <1>2 DEF TargetIsTurn
  <2>4. SentOnce'
    BY <1>1, <1>2 DEF SentOnce
  <2>5. TurnsHaveOwners'
    BY <1>1, <1>2 DEF TurnsHaveOwners
  <2>. QED  BY <2>1, <2>2, <2>3, <2>4, <2>5
<1>4. /\ \A e : TextOf(e)' = TextOf(e)
      /\ \A e, m : Holds(e, m)' <=> Holds(e, m)
      /\ \A s, m : Carries(s, m)' <=> Carries(s, m)
      /\ \A p : Current(p)' <=> Current(p)
      /\ \A s : Exposed(s)' <=> Exposed(s)
  BY <1>1, <1>2 DEF TextOf, Holds, Carries, Current, Exposed
<1>5. QueueIsCurrent' /\ TextIsFrozen' /\ TextIsCurrent'
  <2>1. QueueIsCurrent'
    BY <1>1, <1>2, <1>4 DEF QueueIsCurrent
  <2>2. TextIsFrozen'
    BY <1>1, <1>2 DEF TextIsFrozen, TextOf, Range1
  <2>3. TextIsCurrent'
    BY <1>1, <1>2, <1>4 DEF TextIsCurrent
  <2>. QED  BY <2>1, <2>2, <2>3
<1>6. OnePlace' /\ SomePlace'
  BY <1>1, <1>2, <1>4 DEF OnePlace, SomePlace, Range1
<1>7. ExposedStays'
  BY <1>1, <1>2, <1>4 DEF ExposedStays, Range1
<1>8. \A s : CanMove(s)' => CanMove(s)
  BY <1>1 DEF CanMove
<1>9. PlacesAreKept'
  BY <1>1, <1>2, <1>8 DEF PlacesAreKept, Range1
<1>10. InOrder' /\ WithdrawnWasAccepted'
  BY <1>1 DEF InOrder, Range1, WithdrawnWasAccepted
<1>. QED
  BY <1>3, <1>5, <1>6, <1>7, <1>9, <1>10

\* The type of what such a step may still change.
LEMMA QuietType ==
  ASSUME TypeOK, UNCHANGED <<msg, pending, nextPos, sub, active, turns, got>>,
         phase' \in Phases, lastTurn' \in 0..Len(turns), intent' \in BOOLEAN, wedge' \in Wedges, up' \in BOOLEAN
  PROVE  TypeOK'
  BY DEF TypeOK, Range1

\* A step that only leaves the mutex.
LEMMA LeavesStep ==
  ASSUME Inv, UNCHANGED <<msg, pending, nextPos, sub, active, turns, got>>,
         phase' \in Phases, lastTurn' \in 0..Len(turns), intent' \in BOOLEAN, wedge' \in Wedges, up' \in BOOLEAN,
         call' = Free
  PROVE  Inv'
<1>1. TypeOK'
  BY QuietType DEF Inv
<1>2. call'.pc = "free"
  BY DEF Free
<1>3. CallHolds' /\ ReportIsTrue' /\ FenceSays'
  BY <1>2 DEF CallHolds, ReportIsTrue, FenceSays
<1>4. \A s : InCall(s)' => InCall(s)
  BY <1>2 DEF InCall
<1>. QED
  BY <1>1, <1>3, <1>4, QuietStep

\* A step that leaves the holder of the mutex alone.
LEMMA HeaderStep ==
  ASSUME Inv, UNCHANGED <<msg, pending, nextPos, sub, active, turns, got, call>>,
         phase' \in Phases, lastTurn' \in 0..Len(turns), intent' \in BOOLEAN, wedge' \in Wedges, up' \in BOOLEAN
  PROVE  Inv'
<1>1. TypeOK'
  BY QuietType DEF Inv
<1>2. /\ call' = call /\ Subs' = Subs /\ sub' = sub /\ active' = active /\ turns' = turns
      /\ Sent' = Sent
  BY DEF Subs, Sent, Range1
<1>3. CallHolds'
  BY <1>2 DEF CallHolds, Inv
<1>4. ReportIsTrue'
  BY <1>2 DEF ReportIsTrue, Inv
<1>5. FenceSays'
  BY <1>2 DEF FenceSays, Inv
<1>6. \A s : InCall(s)' => InCall(s)
  BY <1>2 DEF InCall
<1>. QED
  BY <1>1, <1>3, <1>4, <1>5, <1>6, QuietStep

\* A step that only gives the mutex to, or moves it on in, a pass.
LEMMA HolderStep ==
  ASSUME Inv, UNCHANGED <<msg, pending, nextPos, sub, active, phase, lastTurn, intent, wedge, turns, got, up>>,
         \A s : InCall(s)' => InCall(s), CallHolds', ReportIsTrue', FenceSays'
  PROVE  Inv'
<1>1. phase \in Phases /\ lastTurn \in 0..Len(turns) /\ intent \in BOOLEAN /\ wedge \in Wedges /\ up \in BOOLEAN
  BY DEF Inv, TypeOK
<1>2. TypeOK'
  BY <1>1, QuietType DEF Inv
<1>. QED
  BY <1>2, QuietStep

LEMMA StopStep == ASSUME Inv, Stop PROVE Inv'
<1>1. lastTurn \in 0..Len(turns) /\ up \in BOOLEAN /\ wedge \in Wedges
  BY DEF Inv, TypeOK
<1>. QED
  BY <1>1, HeaderStep DEF Stop, Phases

LEMMA WedgeSteps == ASSUME Inv, StopTimeout \/ SystemError \/ RowFails PROVE Inv'
<1>1. lastTurn \in 0..Len(turns) /\ phase \in Phases /\ up \in BOOLEAN /\ intent \in BOOLEAN
  BY DEF Inv, TypeOK
<1>2. "Wedged" \in Phases /\ "timeout" \in Wedges /\ "error" \in Wedges /\ "row" \in Wedges
  BY DEF Phases, Wedges
<1>3. CASE StopTimeout
  BY <1>1, <1>2, <1>3, HeaderStep DEF StopTimeout
<1>4. CASE SystemError
  BY <1>1, <1>2, <1>4, HeaderStep DEF SystemError
<1>5. CASE RowFails
  BY <1>1, <1>2, <1>5, HeaderStep DEF RowFails
<1>. QED
  BY <1>3, <1>4, <1>5

LEMMA RestoreStep == ASSUME Inv, Restore PROVE Inv'
<1>1. lastTurn \in 0..Len(turns) /\ phase \in Phases /\ intent \in BOOLEAN /\ wedge \in Wedges
  BY DEF Inv, TypeOK
<1>. QED
  BY <1>1, HeaderStep DEF Restore

LEMMA FreeingSteps ==
  ASSUME Inv, PrepareFails \/ SettleFails \/ Crash PROVE Inv'
<1>1. lastTurn \in 0..Len(turns) /\ phase \in Phases /\ intent \in BOOLEAN /\ wedge \in Wedges /\ up \in BOOLEAN
  BY DEF Inv, TypeOK
<1>2. CASE PrepareFails
  BY <1>1, <1>2, LeavesStep DEF PrepareFails
<1>3. CASE SettleFails
  BY <1>1, <1>3, LeavesStep DEF SettleFails
<1>4. CASE Crash
  BY <1>1, <1>4, LeavesStep DEF Crash
<1>. QED
  BY <1>2, <1>3, <1>4

LEMMA FrameStep == ASSUME Inv, Frame PROVE Inv'
<1>1. lastTurn \in 0..Len(turns) /\ phase \in Phases /\ intent \in BOOLEAN /\ wedge \in Wedges /\ up \in BOOLEAN
  BY DEF Inv, TypeOK
<1>2. call.pc = "settled" /\ call.s \in Subs
  BY DEF Inv, CallHolds, Frame
<1>3. sub[call.s].target \in 0..Len(turns)
  BY <1>2, SubTypes DEF Inv
<1>4. phase' \in Phases /\ lastTurn' \in 0..Len(turns) /\ wedge' \in Wedges
  BY <1>1, <1>3 DEF Frame, Phases, Wedges
<1>. QED
  BY <1>1, <1>4, LeavesStep DEF Frame

LEMMA SelectStep == ASSUME Inv, Select PROVE Inv'
<1>1. TypeOK /\ pending \in Seq(Entries) /\ Ordered(pending) /\ active \subseteq Subs
  BY Types DEF Inv
<1>2. PICK n \in 1..Len(pending) :
        call' = [pc |-> "selected", prefix |-> SubSeq(pending, 1, n), fence |-> Fence]
  BY DEF Select
<1>3. call'.pc = "selected" /\ call'.prefix = SubSeq(pending, 1, n) /\ call'.fence = Fence
  BY <1>2
<1>4. SubSeq(pending, 1, n) \in Seq(Entries) /\ Len(SubSeq(pending, 1, n)) = n /\ n > 0
  BY <1>1, SplitOf DEF HeadOf
<1>5. \A s \in active : sub[s].resolved # "no" /\ sub[s].target = 0
  BY DEF Select, MayIssue, ResolvedWithoutTarget, IsResolved
<1>6. FenceSays'
  <2>1. Fence.active = active
    BY <1>1, FenceIs
  <2>2. \A s \in active : Fence.attempts[s][3] # "no" /\ Fence.attempts[s][2] = 0
    BY <1>1, <1>5, FenceIs
  <2>. QED  BY <1>3, <1>4, <2>1, <2>2 DEF FenceSays
<1>7. CallHolds' /\ ReportIsTrue' /\ \A s : InCall(s)' => InCall(s)
  BY <1>3 DEF CallHolds, ReportIsTrue, InCall
<1>. QED
  BY <1>6, <1>7, HolderStep DEF Select

LEMMA ResumeStep == ASSUME Inv, Resume PROVE Inv'
<1>1. TypeOK /\ active \subseteq Subs
  BY Types DEF Inv
<1>2. PICK s \in active : sub[s].delivery = "none" /\ call' = [pc |-> "claimed", s |-> s]
  BY DEF Resume
<1>3. call'.pc = "claimed" /\ call'.s = s
  BY <1>2
<1>4. sub' = sub /\ Subs' = Subs
  BY DEF Resume, Subs
<1>5. CallHolds' /\ ReportIsTrue' /\ FenceSays' /\ \A x : InCall(x)' => InCall(x)
  BY <1>1, <1>2, <1>3, <1>4 DEF CallHolds, ReportIsTrue, FenceSays, InCall
<1>. QED
  BY <1>5, HolderStep DEF Resume

\* A report of something that was not taken.
LEMMA ReportStep ==
  ASSUME Inv, call.pc = "prepared", NEW d \in {"notDispatched", "unknown"},
         Report(d, sub[call.s].target),
         UNCHANGED <<msg, pending, nextPos, sub, active, phase, lastTurn, intent, wedge, turns, got, up>>
  PROVE  Inv'
<1>1. /\ call.s \in Subs /\ call.s \in active /\ sub[call.s].delivery = "crossing"
      /\ (sub[call.s].initial => active = {call.s}) /\ call.s \notin Sent
  BY DEF Inv, CallHolds
<1>2. /\ call'.pc = "reported" /\ call'.s = call.s /\ call'.delivery = d
      /\ call'.target = sub[call.s].target
  BY DEF Report
<1>3. sub' = sub /\ Subs' = Subs /\ active' = active /\ turns' = turns /\ Sent' = Sent
  BY DEF Subs, Sent, Range1
<1>4. sub[call.s].target \in 0..Len(turns)
  BY <1>1, SubTypes DEF Inv
<1>5. sub[call.s].initial => sub[call.s].target = 0
  BY <1>1 DEF Inv, TargetIsTurn
<1>6. CallHolds'
  BY <1>1, <1>2, <1>3 DEF CallHolds
<1>7. ReportIsTrue'
  BY <1>1, <1>2, <1>3, <1>4, <1>5 DEF ReportIsTrue
<1>8. FenceSays' /\ \A s : InCall(s)' => InCall(s)
  BY <1>2 DEF FenceSays, InCall
<1>. QED
  BY <1>6, <1>7, <1>8, HolderStep

LEMMA RefusedSteps == ASSUME Inv, Preflight \/ BeforeSend \/ RequestLost PROVE Inv'
<1>1. CASE Preflight
  BY <1>1, ReportStep DEF Preflight
<1>2. CASE BeforeSend
  BY <1>2, ReportStep DEF BeforeSend
<1>3. CASE RequestLost
  BY <1>3, ReportStep DEF RequestLost, Crosses, AfterSend
<1>. QED
  BY <1>1, <1>2, <1>3

LEMMA EndSampleStep == ASSUME Inv, EndSample PROVE Inv'
<1>1. TypeOK /\ active \subseteq Subs
  BY Types DEF Inv
<1>2. /\ \A s \in active : SettledForEnd(s)
      /\ RetainedTarget # 0 /\ OriginalExecution = RetainedTarget
  BY DEF EndSample, OriginalExecution
<1>3. /\ Original \in active /\ sub[Original].initial
      /\ RetainedTarget = sub[Original].target /\ RetainedTarget \in 1..Len(turns)
  BY <1>1, <1>2, RetainedIs
<1>4. call' = [pc |-> "endSampled", fence |-> Fence, turn |-> RetainedTarget]
  BY <1>2 DEF EndSample
<1>5. call'.pc = "endSampled" /\ call'.fence = Fence /\ call'.turn = RetainedTarget
  BY <1>4
<1>6. ~turns[RetainedTarget].live
  BY <1>2 DEF EndSample
<1>7. sub' = sub /\ Subs' = Subs /\ turns' = turns
  BY DEF EndSample, Subs
<1>8. Fence.active = active /\ Fence.attempts[Original][2] = RetainedTarget
  BY <1>1, <1>3, FenceIs
<1>9. \A s \in active :
        /\ Fence.attempts[s][1] # "none"
        /\ Fence.attempts[s][1] = "crossing" => Fence.attempts[s][3] # "no"
  BY <1>1, <1>2, FenceIs DEF SettledForEnd, IsResolved
<1>10. FenceSays'
  BY <1>1, <1>3, <1>5, <1>6, <1>7, <1>8, <1>9 DEF FenceSays
<1>11. CallHolds' /\ ReportIsTrue' /\ \A x : InCall(x)' => InCall(x)
  BY <1>5 DEF CallHolds, ReportIsTrue, InCall
<1>. QED
  BY <1>10, <1>11, HolderStep DEF EndSample

-----------------------------------------------------------------------------
(* Steps that move no message.                                             *)

\* Everything of a submission but its attempt.
SameSubs ==
  /\ Subs' = Subs
  /\ \A s \in Subs : /\ sub'[s].from = sub[s].from /\ sub'[s].text = sub[s].text
                     /\ sub'[s].initial = sub[s].initial
                     /\ sub'[s].effective = sub[s].effective
                     /\ sub'[s].resolved = "retry" <=> sub[s].resolved = "retry"

Texts ==
  QueueIsCurrent /\ TextIsFrozen /\ TextIsCurrent /\ OnePlace /\ SomePlace /\ WithdrawnWasAccepted

LEMMA TextsStay ==
  ASSUME Inv, UNCHANGED <<msg, pending>>, SameSubs
  PROVE  /\ Texts' /\ Queue' = Queue
         /\ \A s \in Subs, m \in Msgs : Carries(s, m)' <=> Carries(s, m)
<1> USE DEF Inv
<1>1. msg' = msg /\ pending' = pending /\ Queue' = Queue /\ Subs' = Subs
  BY DEF Queue, Range1, SameSubs
<1>2. \A s \in Subs : Range1(sub'[s].from) = Range1(sub[s].from)
  BY DEF SameSubs
<1>3. \A s \in Subs : \A m : Carries(s, m)' <=> Carries(s, m)
  BY <1>1 DEF Carries, SameSubs
<1>4. \A e : e.of = 0 \/ e.of \in Subs => TextOf(e)' = TextOf(e)
  BY DEF TextOf, SameSubs
<1>5. \A e : e.of = 0 \/ e.of \in Subs => \A m : Holds(e, m)' <=> Holds(e, m)
  BY <1>4 DEF Holds
<1>6. \A p : Current(p)' <=> Current(p)
  BY <1>1 DEF Current
<1>7. \A e \in Queue : e.of = 0 \/ e.of \in Subs
  BY DEF QueueIsCurrent
<1>8. \A s \in Subs : \A e \in Range1(sub[s].from) : e.of = 0 \/ e.of \in Subs
  BY DEF TextIsFrozen
<1>9. QueueIsCurrent'
  <2>1. SUFFICES ASSUME NEW e \in Queue
                 PROVE  /\ e.of = 0 => e.m \in Msgs /\ Current(<<e.m, e.rev>>)'
                        /\ e.of # 0 => e.of \in Subs /\ sub'[e.of].resolved = "retry"
    BY <1>1 DEF QueueIsCurrent
  <2>. QED  BY <1>6 DEF QueueIsCurrent, SameSubs
<1>10. TextIsFrozen'
  <2>1. SUFFICES ASSUME NEW s \in Subs
                 PROVE  /\ Len(sub'[s].from) > 0
                        /\ \A e \in Range1(sub'[s].from) :
                             /\ e.of = 0 => e.m \in Msgs
                             /\ e.of # 0 => e.of \in Subs /\ sub'[e.of].resolved = "retry"
                        /\ sub'[s].text = UNION {TextOf(e)' : e \in Range1(sub'[s].from)}
                        /\ \A a, b \in 1..Len(sub'[s].from) : a < b => sub'[s].from[a].pos < sub'[s].from[b].pos
    BY <1>1 DEF TextIsFrozen, Range1, TextOf
  <2>2. sub'[s].from = sub[s].from /\ sub'[s].text = sub[s].text
    BY DEF SameSubs
  <2>3. /\ Len(sub[s].from) > 0
        /\ sub[s].text = UNION {TextOf(e) : e \in Range1(sub[s].from)}
        /\ \A a, b \in 1..Len(sub[s].from) : a < b => sub[s].from[a].pos < sub[s].from[b].pos
    BY DEF TextIsFrozen
  <2>4. \A e \in Range1(sub[s].from) :
          /\ e.of = 0 => e.m \in Msgs
          /\ e.of # 0 => e.of \in Subs /\ sub'[e.of].resolved = "retry"
    BY DEF TextIsFrozen, SameSubs
  <2>5. {TextOf(e)' : e \in Range1(sub[s].from)} = {TextOf(e) : e \in Range1(sub[s].from)}
    <3>1. \A e \in Range1(sub[s].from) : TextOf(e)' = TextOf(e)
      BY <1>4, <1>8
    <3>. QED  BY <3>1
  <2>. QED  BY <2>2, <2>3, <2>4, <2>5
<1>11. TextIsCurrent'
  BY <1>1, <1>6 DEF TextIsCurrent, SameSubs
<1>12. OnePlace'
  <2>1. SUFFICES ASSUME NEW m \in Msgs
                 PROVE  /\ \A e, f \in Queue : Holds(e, m)' /\ Holds(f, m)' => e = f
                        /\ \A s, t \in Subs : sub'[s].effective /\ sub'[t].effective
                             /\ Carries(s, m)' /\ Carries(t, m)' => s = t
                        /\ \A e \in Queue, s \in Subs : ~(Holds(e, m)' /\ sub'[s].effective /\ Carries(s, m)')
                        /\ \A s \in Subs : sub'[s].effective =>
                             \A e, f \in Range1(sub'[s].from) : Holds(e, m)' /\ Holds(f, m)' => e = f
    BY <1>1 DEF OnePlace, Range1
  <2>2. \A e \in Queue : Holds(e, m)' <=> Holds(e, m)
    BY <1>5, <1>7
  <2>3. \A s \in Subs : \A e \in Range1(sub[s].from) : Holds(e, m)' <=> Holds(e, m)
    BY <1>5, <1>8
  <2>4. \A e, f \in Queue : Holds(e, m)' /\ Holds(f, m)' => e = f
    BY <2>2 DEF OnePlace
  <2>5. \A s, t \in Subs : sub'[s].effective /\ sub'[t].effective
                             /\ Carries(s, m)' /\ Carries(t, m)' => s = t
    BY <1>3 DEF OnePlace, SameSubs
  <2>6. \A e \in Queue, s \in Subs : ~(Holds(e, m)' /\ sub'[s].effective /\ Carries(s, m)')
    BY <1>3, <2>2 DEF OnePlace, SameSubs
  <2>7. \A s \in Subs : sub'[s].effective =>
          \A e, f \in Range1(sub'[s].from) : Holds(e, m)' /\ Holds(f, m)' => e = f
    BY <1>2, <2>3 DEF OnePlace, SameSubs
  <2>. QED  BY <2>4, <2>5, <2>6, <2>7
<1>13. SomePlace'
  <2>1. SUFFICES ASSUME NEW m \in Msgs, msg[m].rev > 0, ~msg[m].withdrawn
                 PROVE  (\E e \in Queue : Holds(e, m)') \/ (\E s \in Subs : sub'[s].effective /\ Carries(s, m)')
    BY <1>1 DEF SomePlace
  <2>2. (\E e \in Queue : Holds(e, m)) \/ (\E s \in Subs : sub[s].effective /\ Carries(s, m))
    BY <2>1 DEF SomePlace
  <2>. QED  BY <1>3, <1>5, <1>7, <2>2 DEF SameSubs
<1>14. WithdrawnWasAccepted'
  BY <1>1 DEF WithdrawnWasAccepted
<1>. QED
  BY <1>1, <1>3, <1>9, <1>10, <1>11, <1>12, <1>13, <1>14 DEF Texts

\* What is left when nothing is taken either.
LEMMA NothingMoves ==
  ASSUME Inv, UNCHANGED <<msg, pending, nextPos, got>>, SameSubs,
         \A s \in Subs : CanMove(s)' => CanMove(s)
  PROVE  Texts' /\ ExposedStays' /\ PlacesAreKept' /\ InOrder'
<1> USE DEF Inv
<1>1. /\ Texts' /\ Queue' = Queue /\ Subs' = Subs
      /\ \A s \in Subs, m \in Msgs : Carries(s, m)' <=> Carries(s, m)
  BY TextsStay DEF SameSubs
<1>2. Sent' = Sent /\ got' = got /\ nextPos' = nextPos
  BY DEF Sent, Range1
<1>3. \A s \in Subs : Range1(sub'[s].from) = Range1(sub[s].from)
  BY DEF SameSubs
<1>4. \A s \in Subs : Exposed(s)' <=> Exposed(s)
  BY <1>2 DEF Exposed, SameSubs
<1>5. ExposedStays'
  <2>1. SUFFICES ASSUME NEW s \in Subs, Exposed(s)', NEW m \in Msgs, Carries(s, m)'
                 PROVE  /\ \A e \in Queue : e.of = 0 => e.m # m
                        /\ \A t \in Subs : t # s /\ sub'[t].effective =>
                             \A e \in Range1(sub'[t].from) : e.of = 0 => e.m # m
    BY <1>1 DEF ExposedStays, Range1
  <2>2. Exposed(s) /\ Carries(s, m)
    BY <1>1, <1>4, <2>1
  <2>. QED  BY <1>3, <2>2 DEF ExposedStays, SameSubs
<1>6. PlacesAreKept'
  <2>1. /\ \A s \in Subs : \A a \in Range1(sub'[s].from) : a.pos < nextPos
        /\ \A s \in Subs : CanMove(s)' => \A a \in Range1(sub'[s].from), e \in Queue : a.pos # e.pos
    BY <1>3 DEF PlacesAreKept
  <2>2. ASSUME NEW s \in Subs, sub'[s].initial, s \in Sent \/ CanMove(s)',
               NEW a \in Range1(sub'[s].from)
        PROVE  /\ \A e \in Queue : a.pos < e.pos
               /\ \A t \in Subs : s \in Sent /\ CanMove(t)' /\ t \notin Sent =>
                    \A b \in Range1(sub'[t].from) : a.pos < b.pos
    <3>1. sub[s].initial /\ (s \in Sent \/ CanMove(s)) /\ a \in Range1(sub[s].from)
      BY <1>3, <2>2 DEF SameSubs
    <3>. QED  BY <1>3, <3>1 DEF PlacesAreKept
  <2>. QED  BY <1>1, <1>2, <2>1, <2>2 DEF PlacesAreKept, Range1
<1>7. InOrder'
  <2>1. \A i \in 1..Len(got) : got[i] \in Subs
    BY Types
  <2>2. \A i \in 1..Len(got) : /\ sub'[got[i]].from = sub[got[i]].from
                               /\ sub'[got[i]].initial = sub[got[i]].initial
    BY <2>1 DEF SameSubs
  <2>3. \A i, j \in 1..Len(got) :
          i < j /\ sub'[got[i]].initial /\ sub'[got[j]].initial =>
            \A a \in Range1(sub'[got[i]].from), b \in Range1(sub'[got[j]].from) : a.pos < b.pos
    BY <2>2 DEF InOrder
  <2>4. \A i \in 1..Len(got) :
          \A a, b \in 1..Len(sub'[got[i]].from) :
            a < b => sub'[got[i]].from[a].pos < sub'[got[i]].from[b].pos
    BY <2>2 DEF InOrder
  <2>. QED  BY <1>2, <2>3, <2>4 DEF InOrder, Range1
<1>. QED
  BY <1>1, <1>5, <1>6, <1>7

LEMMA TurnEndsStep == ASSUME Inv, NEW t \in DOMAIN turns, TurnEnds(t) PROVE Inv'
<1> USE DEF Inv
<1>1. /\ turns' = [turns EXCEPT ![t].live = FALSE]
      /\ UNCHANGED <<msg, pending, nextPos, sub, active, phase, lastTurn, intent, wedge, got, call, up, left>>
  BY DEF TurnEnds
<1>2. t \in 1..Len(turns) /\ turns \in Seq([by : Nat, live : BOOLEAN])
  BY Types DEF TypeOK
<1> DEFINE Turn == [by : Nat, live : BOOLEAN]
           over == [turns[t] EXCEPT !.live = FALSE]
<1>2d. turns \in Seq(Turn)
  BY <1>2
<1>2a. turns[t] \in Turn
  <2> HIDE DEF Turn
  <2>. QED  BY <1>2, <1>2d
<1>2b. over \in Turn /\ over.by = turns[t].by /\ over.live = FALSE
  <2>1. ASSUME NEW r \in [by : Nat, live : BOOLEAN], NEW o, o = [r EXCEPT !.live = FALSE]
        PROVE  o \in [by : Nat, live : BOOLEAN] /\ o.by = r.by /\ o.live = FALSE
    BY <2>1
  <2> HIDE DEF over
  <2>. QED  BY <1>2a, <2>1 DEF over
<1>2c. turns' = [turns EXCEPT ![t] = over]
  BY <1>1
<1> HIDE DEF over, Turn
<1>2e. /\ turns' \in Seq(Turn) /\ Len(turns') = Len(turns)
       /\ \A x \in 1..Len(turns) : turns'[x] = IF x = t THEN over ELSE turns[x]
  BY <1>2, <1>2b, <1>2c, <1>2d
<1>3. turns' \in Seq([by : Nat, live : BOOLEAN]) /\ Len(turns') = Len(turns)
  BY <1>2e DEF Turn
<1>4. \A x \in 1..Len(turns) : turns'[x].by = turns[x].by /\ (turns'[x].live => turns[x].live)
  BY <1>2b, <1>2e
<1>5. sub' = sub /\ Subs' = Subs /\ active' = active /\ Sent' = Sent /\ call' = call
  BY <1>1 DEF Subs, Sent, Range1
<1>6. TypeOK'
  <2>1. \A x \in 1..Len(turns') : turns'[x].by \in 1..Len(sub)
    BY <1>3, <1>4 DEF TypeOK
  <2>. QED  BY <1>1, <1>3, <2>1 DEF TypeOK, Range1
<1>7. Texts' /\ ExposedStays' /\ PlacesAreKept' /\ InOrder'
  BY <1>1, <1>5, NothingMoves DEF SameSubs, CanMove, InCall
<1>8. UnsentIsAlone' /\ EffectiveClaims' /\ CallHolds'
  BY <1>5 DEF UnsentIsAlone, EffectiveClaims, CallHolds
<1>9. TargetIsTurn'
  <2>1. \A s \in Subs : sub[s].target # 0 => sub[s].target \in 1..Len(turns)
    BY Types, SubTypes
  <2>. QED  BY <1>4, <1>5, <2>1 DEF TargetIsTurn
<1>10. SentOnce'
  BY <1>1, <1>5 DEF SentOnce
<1>11. TurnsHaveOwners'
  BY <1>3, <1>4, <1>5 DEF TurnsHaveOwners
<1>12. ReportIsTrue'
  <2>1. CASE call.pc = "reported"
    <3>1. Len(turns) \in Nat
      BY Types
    <3>. QED  BY <1>3, <1>4, <1>5, <2>1, <3>1 DEF ReportIsTrue
  <2>. QED  BY <1>5, <2>1 DEF ReportIsTrue
<1>13. FenceSays'
  <2>1. CASE call.pc = "endSampled"
    BY <1>3, <1>4, <1>5, <2>1 DEF FenceSays
  <2>2. CASE call.pc # "endSampled"
    BY <1>5, <2>2 DEF FenceSays
  <2>. QED  BY <2>1, <2>2
<1>. QED
  BY <1>6, <1>7, <1>8, <1>9, <1>10, <1>11, <1>12, <1>13 DEF Texts

\* An END that may close finds the execution settled.
LEMMA EndFindsSettled ==
  ASSUME Inv, call.pc = "endSampled", Fence = call.fence
  PROVE  /\ Settled
         /\ \A s \in active : sub[s].delivery # "none" /\ (sub[s].delivery = "crossing" => IsResolved(s))
         /\ \A s \in Subs : sub[s].delivery # "none"
<1> USE DEF Inv
<1>1. TypeOK /\ active \subseteq Subs /\ DOMAIN turns = 1..Len(turns) /\ Len(turns) \in Nat
  BY Types
<1>2. /\ call.turn \in 1..Len(turns) /\ ~turns[call.turn].live
      /\ \E o \in Fence.active : sub[o].initial /\ Fence.attempts[o][2] = call.turn
      /\ \A s \in Fence.active :
           Fence.attempts[s][1] # "none" /\ (Fence.attempts[s][1] = "crossing" => Fence.attempts[s][3] # "no")
  BY DEF FenceSays
<1>3. \A s \in active : sub[s].delivery # "none" /\ (sub[s].delivery = "crossing" => sub[s].resolved # "no")
  BY <1>1, <1>2, FenceIs
<1>4. PICK o \in active : sub[o].initial /\ sub[o].target = call.turn
  BY <1>1, <1>2, FenceIs
<1>5. turns[call.turn].by = o
  <2>1. o \in Subs /\ call.turn # 0
    BY <1>1, <1>2, <1>4
  <2>. QED  BY <1>4, <2>1 DEF TargetIsTurn
<1>6. Settled
  <2>1. SUFFICES ASSUME NEW t \in 1..Len(turns), turns[t].live PROVE FALSE
    BY <1>1 DEF Settled
  <2>2. turns[t].by \in active /\ sub[turns[t].by].initial
    BY <2>1 DEF TurnsHaveOwners
  <2>3. turns[t].by = o
    BY <1>4, <2>2, OneInitial
  <2>4. t = call.turn
    BY <1>2, <1>5, <2>3 DEF TurnsHaveOwners
  <2>. QED  BY <1>2, <2>1, <2>4
<1>7. \A s \in Subs : sub[s].delivery # "none"
  BY <1>3 DEF UnsentIsAlone
<1>. QED
  BY <1>3, <1>6, <1>7 DEF IsResolved

LEMMA EndConsumeStep == ASSUME Inv, EndConsume PROVE Inv'
<1> USE DEF Inv
<1>1. /\ call.pc = "endSampled" /\ call' = Free
      /\ UNCHANGED <<msg, pending, nextPos, sub, turns, got, up, left>>
  BY DEF EndConsume
<1>2. CASE ~MayClose
  <2>1. lastTurn \in 0..Len(turns) /\ phase \in Phases /\ intent \in BOOLEAN /\ wedge \in Wedges /\ up \in BOOLEAN
    BY DEF TypeOK
  <2>. QED  BY <1>1, <1>2, <2>1, LeavesStep DEF EndConsume
<1>3. CASE MayClose
  <2>1. active' = {} /\ phase' = "TurnCompleted" /\ lastTurn' = call.turn /\ intent' = FALSE
        /\ wedge' \in {"none", wedge}
    BY <1>3 DEF EndConsume
  <2>2. Settled /\ \A s \in Subs : sub[s].delivery # "none"
    BY <1>1, <1>3, EndFindsSettled DEF MayClose
  <2>3. sub' = sub /\ Subs' = Subs /\ turns' = turns /\ got' = got /\ Sent' = Sent /\ call'.pc = "free"
    BY <1>1 DEF Subs, Sent, Range1, Free
  <2>4. TypeOK'
    <3>1. lastTurn' \in 0..Len(turns)
      BY <1>1, <2>1, Types DEF FenceSays
    <3>2. wedge' \in Wedges
      BY <2>1 DEF TypeOK, Wedges
    <3>. QED  BY <1>1, <2>1, <3>1, <3>2 DEF TypeOK, Range1, Phases
  <2>5. Texts' /\ ExposedStays' /\ PlacesAreKept' /\ InOrder'
    BY <1>1, <2>3, NothingMoves DEF SameSubs, CanMove, InCall
  <2>6. UnsentIsAlone'
    BY <2>2, <2>3 DEF UnsentIsAlone
  <2>7. EffectiveClaims' /\ TargetIsTurn' /\ SentOnce'
    BY <2>3 DEF EffectiveClaims, TargetIsTurn, SentOnce
  <2>8. TurnsHaveOwners'
    <3>1. \A t \in 1..Len(turns) : ~turns[t].live
      BY <2>2, Types DEF Settled
    <3>. QED  BY <2>3, <3>1 DEF TurnsHaveOwners
  <2>9. CallHolds' /\ ReportIsTrue' /\ FenceSays'
    BY <2>3 DEF CallHolds, ReportIsTrue, FenceSays
  <2>. QED  BY <2>4, <2>5, <2>6, <2>7, <2>8, <2>9 DEF Texts
<1>. QED
  BY <1>2, <1>3

-----------------------------------------------------------------------------
(* The crossing.                                                           *)

\* One submission is replaced by what became of it.
LEMMA UpdateOf ==
  ASSUME TypeOK, NEW s \in Subs, NEW o \in Submissions, sub' = [sub EXCEPT ![s] = o]
  PROVE  /\ sub' \in Seq(Submissions) /\ Len(sub') = Len(sub) /\ Subs' = Subs
         /\ sub'[s] = o /\ \A x \in Subs : x # s => sub'[x] = sub[x]
<1>1. sub \in Seq(Submissions) /\ s \in 1..Len(sub)
  BY DEF TypeOK, Subs
<1>2. /\ sub' \in Seq(Submissions) /\ Len(sub') = Len(sub)
      /\ \A x \in 1..Len(sub) : sub'[x] = IF x = s THEN o ELSE sub[x]
  BY <1>1
<1>. QED
  BY <1>1, <1>2 DEF Subs

LEMMA AttemptType ==
  ASSUME TypeOK, sub' \in Seq(Submissions), Len(sub') = Len(sub),
         \A x \in Subs : sub'[x].initial = sub[x].initial /\ sub'[x].target <= Len(turns),
         UNCHANGED <<msg, pending, nextPos, active, phase, lastTurn, intent, wedge, turns, got, up>>
  PROVE  TypeOK'
<1>1. active \subseteq Subs
  BY Types
<1>2. active # {} => \E s \in active : \A t \in active : sub'[t].initial <=> t = s
  BY <1>1 DEF TypeOK
<1>. QED
  BY <1>2 DEF TypeOK, Subs, Range1

LEMMA PrepareStep == ASSUME Inv, Prepare PROVE Inv'
<1> USE DEF Inv
<1> DEFINE s == call.s
           o == [sub[s] EXCEPT !.delivery = "crossing"]
<1>1. /\ call.pc = "claimed" /\ s \in active /\ s \in Subs /\ sub[s].delivery = "none"
      /\ UNCHANGED <<msg, pending, nextPos, active, phase, lastTurn, intent, wedge, turns, got, up, left>>
      /\ sub' = [sub EXCEPT ![s].delivery = "crossing"]
      /\ call' = [pc |-> "prepared", s |-> s, fence |-> Fence', settle |-> NeedsSettled(sub[s].from)]
  BY DEF Prepare, CallHolds
<1>2. /\ sub[s].initial /\ sub[s].resolved = "no" /\ sub[s].target = 0
      /\ active = {s} /\ s \notin Sent
  BY <1>1 DEF UnsentIsAlone
<1>3. /\ o \in Submissions /\ o.from = sub[s].from /\ o.text = sub[s].text
      /\ o.initial = sub[s].initial /\ o.effective = sub[s].effective
      /\ o.resolved = sub[s].resolved /\ o.target = sub[s].target /\ o.delivery = "crossing"
  <2>1. sub[s] \in Submissions
    BY <1>1, SubTypes
  <2>. QED  BY <2>1 DEF Submissions, Deliveries
<1>4. sub' = [sub EXCEPT ![s] = o]
  BY <1>1
<1>5. call'.pc = "prepared" /\ call'.s = s /\ call'.fence = Fence'
  BY <1>1
<1> HIDE DEF s, o
<1>6. /\ sub' \in Seq(Submissions) /\ Len(sub') = Len(sub) /\ Subs' = Subs
      /\ sub'[s] = o /\ \A x \in Subs : x # s => sub'[x] = sub[x]
  BY <1>1, <1>3, <1>4, UpdateOf
<1>7. \A x \in Subs : sub'[x].initial = sub[x].initial /\ sub'[x].target = sub[x].target
  BY <1>3, <1>6
<1>8. TypeOK'
  <2>1. \A x \in Subs : sub'[x].target <= Len(turns)
    BY <1>7 DEF TypeOK, Subs
  <2>. QED  BY <1>1, <1>6, <1>7, <2>1, AttemptType
<1>9. Sent' = Sent /\ active' = {s} /\ turns' = turns /\ got' = got
  BY <1>1, <1>2 DEF Sent, Range1
<1>10. Texts' /\ ExposedStays' /\ PlacesAreKept' /\ InOrder'
  <2>1. SameSubs
    BY <1>3, <1>6 DEF SameSubs
  <2>2. \A x \in Subs : CanMove(x)' => CanMove(x)
    BY <1>1, <1>5, <1>6 DEF CanMove, InCall
  <2>. QED  BY <1>1, <2>1, <2>2, NothingMoves
<1>11. UnsentIsAlone'
  <2>1. \A x \in Subs : sub'[x].delivery = "none" => x # s /\ sub[x].delivery = "none"
    BY <1>3, <1>6
  <2>2. \A x \in Subs : sub[x].delivery = "none" => x = s
    BY <1>2 DEF UnsentIsAlone
  <2>. QED  BY <1>6, <2>1, <2>2 DEF UnsentIsAlone
<1>12. EffectiveClaims'
  <2>1. ASSUME NEW x \in Subs
        PROVE  sub'[x].effective <=> /\ sub'[x].resolved # "retry"
                                     /\ sub'[x].delivery = "notDispatched" => sub'[x].resolved # "no"
    BY <1>1, <1>3, <1>6 DEF EffectiveClaims
  <2>. QED  BY <1>6, <2>1 DEF EffectiveClaims
<1>13. TargetIsTurn'
  <2>1. ASSUME NEW x \in Subs
        PROVE  /\ sub'[x].initial /\ sub'[x].target # 0 =>
                    sub'[x].delivery = "accepted" /\ turns[sub'[x].target].by = x
               /\ ~sub'[x].initial => sub'[x].target # 0
    <3>1. CASE x = s
      BY <1>2, <1>3, <1>6, <3>1
    <3>2. CASE x # s
      <4>1. sub'[x] = sub[x]
        BY <1>6, <3>2
      <4>. QED  BY <4>1 DEF TargetIsTurn
    <3>. QED  BY <3>1, <3>2
  <2>. QED  BY <1>6, <1>9, <2>1 DEF TargetIsTurn
<1>14. SentOnce'
  <2>1. \A x \in Sent : x \in Subs /\ x # s
    BY <1>2, Types
  <2>. QED  BY <1>6, <1>9, <2>1 DEF SentOnce
<1>15. TurnsHaveOwners'
  <2>1. \A t \in 1..Len(turns) : turns[t].by \in Subs
    BY DEF TypeOK, Subs
  <2>. QED  BY <1>1, <1>7, <1>9, <2>1 DEF TurnsHaveOwners
<1>16. CallHolds'
  BY <1>1, <1>2, <1>3, <1>5, <1>6, <1>9 DEF CallHolds
<1>17. ReportIsTrue'
  BY <1>5 DEF ReportIsTrue
<1>18. FenceSays'
  <2>1. DOMAIN sub' = 1..Len(sub')
    BY <1>6
  <2>2. Fence'.attempts[s] = <<sub'[s].delivery, sub'[s].target, sub'[s].resolved>>
    BY <1>1, <1>6, <2>1 DEF Fence, Subs
  <2>3. Fence'.attempts[s][3] = "no"
    BY <1>2, <1>3, <1>6, <2>2
  <2>. QED  BY <1>5, <2>3 DEF FenceSays
<1>. QED
  BY <1>8, <1>10, <1>11, <1>12, <1>13, <1>14, <1>15, <1>16, <1>17, <1>18 DEF Texts

\* The provider takes a request, whatever is heard of it.
LEMMA TakenStep ==
  ASSUME Inv, Crosses, Taken, NEW d \in {"accepted", "unknown"}, NEW g, Report(d, g),
         g = IF d = "accepted" /\ sub[call.s].initial THEN Len(turns) + 1 ELSE sub[call.s].target,
         UNCHANGED <<msg, pending, nextPos, sub, active, phase, lastTurn, intent, wedge, up>>
  PROVE  Inv'
<1> USE DEF Inv
<1> DEFINE s == call.s
           Turn == [by : Nat, live : BOOLEAN]
<1>1. /\ call.pc = "prepared" /\ s \in Subs /\ s \in active /\ sub[s].delivery = "crossing"
      /\ (sub[s].initial => active = {s}) /\ s \notin Sent
  BY DEF CallHolds, Crosses
<1>2. call'.pc = "reported" /\ call'.s = s /\ call'.delivery = d /\ call'.target = g
  BY DEF Report
<1>3. /\ IF sub[s].initial THEN turns' = Append(turns, [by |-> s, live |-> TRUE]) ELSE turns' = turns
      /\ got' = Append(got, s)
  BY DEF Taken
<1>4. sub[s].resolved = "no"
  <2>1. Fence = call.fence
    BY DEF Crosses, Admitted
  <2>2. Fence.attempts[s][3] = "no"
    BY <1>1, <2>1 DEF FenceSays
  <2>. QED  BY <1>1, <2>2, FenceIs
<1>5. sub[s].effective
  BY <1>1, <1>4 DEF EffectiveClaims
<1>6. /\ sub' = sub /\ Subs' = Subs /\ active' = active /\ msg' = msg /\ pending' = pending
      /\ nextPos' = nextPos
  BY DEF Subs
<1>7. turns \in Seq(Turn) /\ Len(turns) \in Nat /\ got \in Seq(Nat) /\ Len(got) \in Nat
  BY Types DEF TypeOK
<1>8. [by |-> s, live |-> TRUE] \in Turn /\ s \in Nat
  <2>1. s \in Nat
    BY <1>1, Types
  <2> HIDE DEF s
  <2>. QED  BY <2>1
<1>8a. [by |-> s, live |-> TRUE].by = s /\ [by |-> s, live |-> TRUE].live = TRUE
  OBVIOUS
<1> DEFINE fresh == [by |-> s, live |-> TRUE]
<1> HIDE DEF s, Turn, fresh
<1>9. /\ got' \in Seq(Nat) /\ Len(got') = Len(got) + 1 /\ got'[Len(got) + 1] = s
      /\ \A i \in 1..Len(got) : got'[i] = got[i]
      /\ Sent' = Sent \union {s}
  BY <1>3, <1>7, <1>8, AppendOf DEF Sent
<1>10. /\ turns' \in Seq(Turn) /\ Len(turns') \in Nat /\ Len(turns) <= Len(turns')
       /\ \A t \in 1..Len(turns) : turns'[t] = turns[t]
       /\ \A t \in 1..Len(turns') : turns'[t].by \in 1..Len(sub)
       /\ sub[s].initial => Len(turns') = Len(turns) + 1 /\ turns'[Len(turns) + 1].by = s
       /\ TurnsHaveOwners'
  <2>1. CASE ~sub[s].initial
    <3>1. turns' = turns
      BY <1>3, <2>1
    <3>2. TurnsHaveOwners'
      BY <1>6, <1>9, <3>1 DEF TurnsHaveOwners
    <3>3. \A t \in 1..Len(turns) : turns[t].by \in 1..Len(sub)
      BY DEF TypeOK
    <3>. QED  BY <1>7, <2>1, <3>1, <3>2, <3>3
  <2>2. CASE sub[s].initial
    <3>1. /\ turns' \in Seq(Turn) /\ Len(turns') = Len(turns) + 1
          /\ \A t \in 1..Len(turns) : turns'[t] = turns[t]
          /\ turns'[Len(turns) + 1] = fresh
      <4>1. fresh \in Turn
        BY <1>8 DEF fresh
      <4>2. turns' = Append(turns, fresh)
        BY <1>3, <2>2 DEF fresh
      <4>. QED  BY <1>7, <4>1, <4>2, AppendOf
    <3>2. turns'[Len(turns) + 1].by = s /\ turns'[Len(turns) + 1].live = TRUE
      BY <1>8a, <3>1 DEF fresh
    <3>3. \A t : t \in 1..Len(turns') <=> t \in 1..Len(turns) \/ t = Len(turns) + 1
      BY <1>7, <3>1
    <3>4. \A t \in 1..Len(turns) : turns[t].by # s
      BY <1>1 DEF TurnsHaveOwners
    <3>5. \A t \in 1..Len(turns') : sub[turns'[t].by].initial /\ turns'[t].by \in Sent'
      BY <1>9, <2>2, <3>1, <3>2, <3>3 DEF TurnsHaveOwners
    <3>6. \A t, u \in 1..Len(turns') : turns'[t].by = turns'[u].by => t = u
      <4>1. SUFFICES ASSUME NEW t \in 1..Len(turns'), NEW u \in 1..Len(turns'), turns'[t].by = turns'[u].by
                     PROVE  t = u
        OBVIOUS
      <4>2. CASE t \in 1..Len(turns) /\ u \in 1..Len(turns)
        BY <3>1, <4>1, <4>2 DEF TurnsHaveOwners
      <4>3. CASE t = Len(turns) + 1 \/ u = Len(turns) + 1
        BY <3>1, <3>2, <3>3, <3>4, <4>1, <4>3
      <4>. QED  BY <3>3, <4>2, <4>3
    <3>7. \A t \in 1..Len(turns') : turns'[t].live => turns'[t].by \in active
      BY <1>1, <3>1, <3>2, <3>3 DEF TurnsHaveOwners
    <3>8. TurnsHaveOwners'
      BY <1>6, <3>5, <3>6, <3>7 DEF TurnsHaveOwners
    <3>9. \A t \in 1..Len(turns') : turns'[t].by \in 1..Len(sub)
      BY <1>1, <3>1, <3>2, <3>3 DEF TypeOK, Subs
    <3>. QED  BY <1>7, <3>1, <3>2, <3>8, <3>9
  <2>. QED  BY <2>1, <2>2
<1>11. TypeOK'
  <2>1. \A x \in 1..Len(sub) : sub[x].target <= Len(turns')
    <3>1. \A x \in 1..Len(sub) : sub[x].target \in Nat /\ sub[x].target <= Len(turns)
      BY <1>7, SubTypes DEF Subs
    <3>. QED  BY <1>7, <1>10, <3>1
  <2>2. lastTurn' \in 0..Len(turns')
    <3>1. lastTurn' = lastTurn /\ lastTurn \in 0..Len(turns)
      BY DEF TypeOK
    <3>. QED  BY <1>7, <1>10, <3>1
  <2>3. Range1(got') \subseteq 1..Len(sub)
    BY <1>1, <1>9, Types DEF Sent, Subs
  <2>4. turns' \in Seq([by : Nat, live : BOOLEAN])
    BY <1>10 DEF Turn
  <2>5. /\ msg' \in [Msgs -> [rev : Nat, withdrawn : BOOLEAN]]
        /\ pending' \in Seq(Entries) /\ nextPos' \in Nat
        /\ \A i \in 1..Len(pending') : pending'[i].pos < nextPos'
        /\ \A i, j \in 1..Len(pending') : i < j => pending'[i].pos < pending'[j].pos
    BY DEF TypeOK
  <2>6. /\ sub' \in Seq(Submissions) /\ active' \subseteq 1..Len(sub')
        /\ active' # {} => \E x \in active' : \A t \in active' : sub'[t].initial <=> t = x
    BY DEF TypeOK
  <2>7. phase' \in Phases /\ intent' \in BOOLEAN /\ wedge' \in Wedges /\ up' \in BOOLEAN
    BY DEF TypeOK
  <2>8. \A x \in 1..Len(sub') : sub'[x].target <= Len(turns')
    BY <1>6, <2>1
  <2>9. /\ got' \in Seq(Nat) /\ Range1(got') \subseteq 1..Len(sub')
        /\ \A t \in 1..Len(turns') : turns'[t].by \in 1..Len(sub')
    BY <1>6, <1>9, <1>10, <2>3
  <2>. QED  BY <2>2, <2>4, <2>5, <2>6, <2>7, <2>8, <2>9 DEF TypeOK, Range1
<1>12. SameSubs
  BY <1>6 DEF SameSubs
<1>13. /\ Texts' /\ Queue' = Queue
       /\ \A x \in Subs, m \in Msgs : Carries(x, m)' <=> Carries(x, m)
  BY <1>12, TextsStay
<1>14. UnsentIsAlone' /\ EffectiveClaims'
  <2>1. \A x \in Subs : sub[x].delivery = "none" => x # s
    BY <1>1
  <2>2. UnsentIsAlone'
    BY <1>6, <1>9, <2>1 DEF UnsentIsAlone
  <2>. QED  BY <1>6, <2>2 DEF EffectiveClaims
<1>15. TargetIsTurn'
  <2>1. \A x \in Subs : sub[x].target # 0 => sub[x].target \in 1..Len(turns)
    BY SubTypes, <1>7
  <2>. QED  BY <1>6, <1>10, <2>1 DEF TargetIsTurn
<1>16. SentOnce'
  <2>1. \A i, j \in 1..Len(got') : got'[i] = got'[j] => i = j
    <3>1. \A i : i \in 1..Len(got') <=> i \in 1..Len(got) \/ i = Len(got) + 1
      BY <1>7, <1>9
    <3>2. \A i \in 1..Len(got) : got[i] # s
      BY <1>1, Types
    <3>3. SUFFICES ASSUME NEW i \in 1..Len(got'), NEW j \in 1..Len(got'), got'[i] = got'[j] PROVE i = j
      OBVIOUS
    <3>4. CASE i \in 1..Len(got) /\ j \in 1..Len(got)
      BY <1>9, <3>3, <3>4 DEF SentOnce
    <3>5. CASE i = Len(got) + 1 \/ j = Len(got) + 1
      BY <1>9, <3>1, <3>2, <3>3, <3>5
    <3>. QED  BY <3>1, <3>4, <3>5
  <2>2. \A x \in Sent' : sub[x].delivery \notin {"none", "notDispatched"}
    BY <1>1, <1>9 DEF SentOnce
  <2>. QED  BY <1>6, <2>1, <2>2 DEF SentOnce
<1>17. CallHolds'
  BY <1>1, <1>2, <1>6 DEF CallHolds
<1>18. ReportIsTrue'
  <2>1. sub[s].target \in 0..Len(turns)
    BY <1>1, SubTypes
  <2>2. sub[s].initial => sub[s].target = 0
    BY <1>1 DEF TargetIsTurn
  <2>3. g = IF d = "accepted" /\ sub[s].initial THEN Len(turns) + 1 ELSE sub[s].target
    BY DEF s
  <2>4. g \in 0..Len(turns')
    BY <1>7, <1>10, <2>1, <2>3
  <2>5. sub[s].initial /\ g # 0 => d = "accepted" /\ turns'[g].by = s
    BY <1>10, <2>2, <2>3
  <2>6. ~sub[s].initial => g = sub[s].target
    BY <2>3
  <2>. QED  BY <1>2, <1>6, <2>4, <2>5, <2>6 DEF ReportIsTrue
<1>19. FenceSays'
  BY <1>2 DEF FenceSays
<1>20. ExposedStays'
  <2>1. SUFFICES ASSUME NEW x \in Subs, Exposed(x)', NEW m \in Msgs, Carries(x, m)
                 PROVE  /\ \A e \in Queue : e.of = 0 => e.m # m
                        /\ \A t \in Subs : t # x /\ sub[t].effective =>
                             \A e \in Range1(sub[t].from) : e.of = 0 => e.m # m
    BY <1>6, <1>13 DEF ExposedStays, Range1
  <2>2. CASE Exposed(x)
    BY <2>1, <2>2 DEF ExposedStays
  <2>3. CASE ~Exposed(x)
    <3>1. x = s
      BY <1>6, <1>9, <2>1, <2>3 DEF Exposed
    <3>2. ASSUME NEW e \in Queue, e.of = 0, e.m = m PROVE FALSE
      BY <1>1, <1>5, <2>1, <3>1, <3>2, HoldsMessage DEF OnePlace
    <3>3. ASSUME NEW t \in Subs, t # s, sub[t].effective, NEW e \in Range1(sub[t].from), e.of = 0, e.m = m
          PROVE  FALSE
      <4>1. Carries(t, m)
        BY <3>3, CarriesEntry, HoldsMessage
      <4>. QED  BY <1>1, <1>5, <2>1, <3>1, <3>3, <4>1 DEF OnePlace
    <3>. QED  BY <3>1, <3>2, <3>3
  <2>. QED  BY <2>2, <2>3
<1>21. \A x \in Subs : CanMove(x)' => CanMove(x)
  BY <1>1, <1>2, <1>6 DEF CanMove, InCall, s
<1>22. CanMove(s)
  BY <1>1 DEF CanMove, InCall, s
<1>23. ASSUME sub[s].initial, NEW t \in Subs, CanMove(t) PROVE t = s
  BY <1>1, <1>23 DEF CanMove, InCall, UnsentIsAlone, s
<1>24. PlacesAreKept'
  <2>1. /\ \A x \in Subs : \A a \in Range1(sub[x].from) : a.pos < nextPos
        /\ \A x \in Subs : CanMove(x)' => \A a \in Range1(sub[x].from), e \in Queue : a.pos # e.pos
    BY <1>21 DEF PlacesAreKept
  <2>2. ASSUME NEW x \in Subs, sub[x].initial, x \in Sent' \/ CanMove(x)', NEW a \in Range1(sub[x].from)
        PROVE  /\ \A e \in Queue : a.pos < e.pos
               /\ \A t \in Subs : x \in Sent' /\ CanMove(t)' /\ t \notin Sent' =>
                    \A b \in Range1(sub[t].from) : a.pos < b.pos
    <3>1. x \in Sent \/ CanMove(x)
      BY <1>9, <1>21, <1>22, <2>2
    <3>2. \A e \in Queue : a.pos < e.pos
      BY <2>2, <3>1 DEF PlacesAreKept
    <3>3. ASSUME NEW t \in Subs, x \in Sent', CanMove(t)', t \notin Sent', NEW b \in Range1(sub[t].from)
          PROVE  a.pos < b.pos
      <4>1. CanMove(t) /\ t \notin Sent /\ t # s
        BY <1>9, <1>21, <3>3
      <4>2. x \in Sent
        BY <1>9, <1>23, <2>2, <3>3, <4>1
      <4>. QED  BY <2>2, <3>3, <4>1, <4>2 DEF PlacesAreKept
    <3>. QED  BY <3>2, <3>3
  <2>. QED  BY <1>6, <1>13, <2>1, <2>2 DEF PlacesAreKept, Range1
<1>25. InOrder'
  <2>1. \A i : i \in 1..Len(got') <=> i \in 1..Len(got) \/ i = Len(got) + 1
    BY <1>7, <1>9
  <2>2. \A i \in 1..Len(got) : got[i] \in Sent /\ got[i] \in Subs
    BY Types
  <2>3. ASSUME NEW i \in 1..Len(got'), NEW j \in 1..Len(got'), i < j,
               sub[got'[i]].initial, sub[got'[j]].initial,
               NEW a \in Range1(sub[got'[i]].from), NEW b \in Range1(sub[got'[j]].from)
        PROVE  a.pos < b.pos
    <3>1. i \in 1..Len(got) /\ got'[i] = got[i]
      BY <1>7, <1>9, <2>3
    <3>2. CASE j \in 1..Len(got)
      BY <1>9, <2>3, <3>1, <3>2 DEF InOrder
    <3>3. CASE j = Len(got) + 1
      <4>1. got'[j] = s
        BY <1>9, <3>3
      <4>. QED  BY <1>1, <1>22, <2>2, <2>3, <3>1, <4>1 DEF PlacesAreKept
    <3>. QED  BY <2>1, <3>2, <3>3
  <2>4. ASSUME NEW i \in 1..Len(got'),
               NEW a \in 1..Len(sub[got'[i]].from), NEW b \in 1..Len(sub[got'[i]].from), a < b
        PROVE  sub[got'[i]].from[a].pos < sub[got'[i]].from[b].pos
    <3>1. got'[i] \in Subs
      BY <1>1, <1>9, <2>1, <2>2
    <3>. QED  BY <2>4, <3>1 DEF TextIsFrozen
  <2>. QED  BY <1>6, <2>3, <2>4 DEF InOrder, Range1
<1>. QED
  BY <1>10, <1>11, <1>13, <1>14, <1>15, <1>16, <1>17, <1>18, <1>19, <1>20, <1>24, <1>25 DEF Texts

LEMMA TakenSteps == ASSUME Inv, Answered \/ AnswerLost PROVE Inv'
<1>1. CASE Answered
  <2> DEFINE g == IF sub[call.s].initial THEN Len(turns) + 1 ELSE sub[call.s].target
  <2>1. Crosses /\ Taken /\ Report("accepted", g)
    BY <1>1 DEF Answered
  <2>2. UNCHANGED <<msg, pending, nextPos, sub, active, phase, lastTurn, intent, wedge, up>>
    BY <1>1 DEF Answered
  <2>. QED  BY <2>1, <2>2, TakenStep
<1>2. CASE AnswerLost
  <2>1. Crosses /\ Taken /\ Report("unknown", sub[call.s].target)
    BY <1>2 DEF AnswerLost, AfterSend
  <2>2. UNCHANGED <<msg, pending, nextPos, sub, active, phase, lastTurn, intent, wedge, up>>
    BY <1>2 DEF AnswerLost
  <2>. QED  BY <2>1, <2>2, TakenStep
<1>. QED
  BY <1>1, <1>2

-----------------------------------------------------------------------------
(* What the authors do to a message.                                       *)

\* What may have been seen is a claim in force or was retried.
LEMMA ExposedIsClaimed ==
  ASSUME Inv, NEW s \in Subs, Exposed(s)
  PROVE  sub[s].effective \/ sub[s].resolved = "retry"
  BY DEF Inv, Exposed, EffectiveClaims, SentOnce

LEMMA FrozenStays == ASSUME TextIsFrozen, sub' = sub PROVE TextIsFrozen'
<1>1. Subs' = Subs
  BY DEF Subs
<1>. QED
  BY <1>1 DEF TextIsFrozen, TextOf, Range1

\* The types of a step that leaves the submissions alone.
LEMMA QueueStepType ==
  ASSUME TypeOK, UNCHANGED <<sub, active, phase, lastTurn, intent, wedge, turns, got, up>>,
         msg' \in [Msgs -> [rev : Nat, withdrawn : BOOLEAN]],
         pending' \in Seq(Entries), Ordered(pending'), nextPos' \in Nat,
         \A e \in Queue' : e.pos < nextPos'
  PROVE  TypeOK'
<1>1. \A i \in 1..Len(pending') : pending'[i].pos < nextPos'
  <2>1. \A i \in 1..Len(pending') : pending'[i] \in Range1(pending')
    BY RangeOf
  <2>. QED  BY <2>1 DEF Queue
<1>2. \A i, j \in 1..Len(pending') : i < j => pending'[i].pos < pending'[j].pos
  BY DEF Ordered
<1>3. /\ sub' \in Seq(Submissions) /\ \A s \in 1..Len(sub') : sub'[s].target <= Len(turns')
      /\ active' \subseteq 1..Len(sub')
      /\ active' # {} => \E s \in active' : \A t \in active' : sub'[t].initial <=> t = s
  BY DEF TypeOK
<1>4. /\ phase' \in Phases /\ lastTurn' \in 0..Len(turns') /\ intent' \in BOOLEAN /\ wedge' \in Wedges
      /\ turns' \in Seq([by : Nat, live : BOOLEAN])
      /\ \A t \in 1..Len(turns') : turns'[t].by \in 1..Len(sub')
      /\ got' \in Seq(Nat) /\ Range1(got') \subseteq 1..Len(sub') /\ up' \in BOOLEAN
  BY DEF TypeOK, Range1
<1>. QED
  BY <1>1, <1>2, <1>3, <1>4 DEF TypeOK, Range1

\* A message moves on in a step that leaves the submissions alone: the entries
\* that do not hold it stay, and at most one entry holds it afterwards.
LEMMA MessageStep ==
  ASSUME Inv, UNCHANGED <<sub, active, turns, got, call>>, TypeOK',
         NEW m \in Msgs, \A k \in Msgs : k # m => msg'[k] = msg[k],
         \A s \in Subs : sub[s].effective \/ sub[s].resolved = "retry" => ~Carries(s, m),
         nextPos' >= nextPos,
         NEW Rest \in SUBSET Queue, \A e \in Rest : ~Holds(e, m),
         \A e \in Queue : e \notin Rest => \A k \in Msgs : Holds(e, k) => k = m,
         NEW X, Queue' = Rest \union X, \A x, y \in X : x = y,
         \A x \in X : /\ x.of = 0 /\ x.m = m /\ Current(<<m, x.rev>>)'
                      /\ \A s \in Subs : \A a \in Range1(sub[s].from) :
                           /\ CanMove(s) => a.pos # x.pos
                           /\ sub[s].initial /\ (s \in Sent \/ CanMove(s)) => a.pos < x.pos,
         msg'[m].rev > 0 /\ (~msg'[m].withdrawn => X # {})
  PROVE  Inv'
<1> USE DEF Inv
<1>1. /\ sub' = sub /\ Subs' = Subs /\ active' = active /\ turns' = turns /\ got' = got
      /\ Sent' = Sent /\ call' = call
  BY DEF Subs, Sent, Range1
<1>2. UnsentIsAlone' /\ EffectiveClaims' /\ TargetIsTurn' /\ SentOnce'
  BY <1>1 DEF UnsentIsAlone, EffectiveClaims, TargetIsTurn, SentOnce
<1>3. TurnsHaveOwners' /\ InOrder'
  <2>1. TurnsHaveOwners'
    BY <1>1 DEF TurnsHaveOwners
  <2>2. InOrder'
    BY <1>1 DEF InOrder, Range1
  <2>. QED  BY <2>1, <2>2
<1>4. CallHolds' /\ ReportIsTrue' /\ FenceSays'
  BY <1>1 DEF CallHolds, ReportIsTrue, FenceSays
<1>5. /\ \A e : TextOf(e)' = TextOf(e)
      /\ \A e, k : Holds(e, k)' <=> Holds(e, k)
      /\ \A s, k : Carries(s, k)' <=> Carries(s, k)
      /\ \A s : Exposed(s)' <=> Exposed(s)
      /\ \A s : CanMove(s)' <=> CanMove(s)
  BY <1>1 DEF TextOf, Holds, Carries, Exposed, CanMove, InCall
<1>6. \A p : p[1] \in Msgs /\ p[1] # m /\ Current(p) => Current(p)'
  BY DEF Current
<1>7. \A x \in X : \A k : Holds(x, k) <=> k = m
  BY HoldsMessage
<1>8. QueueIsCurrent'
  <2>1. SUFFICES ASSUME NEW e \in Queue'
                 PROVE  /\ e.of = 0 => e.m \in Msgs /\ Current(<<e.m, e.rev>>)'
                        /\ e.of # 0 => e.of \in Subs /\ sub[e.of].resolved = "retry"
    BY <1>1 DEF QueueIsCurrent
  <2>2. CASE e \in X
    BY <2>2
  <2>3. CASE e \in Rest
    <3>1. /\ e.of = 0 => e.m \in Msgs /\ Current(<<e.m, e.rev>>)
          /\ e.of # 0 => e.of \in Subs /\ sub[e.of].resolved = "retry"
      BY <2>3 DEF QueueIsCurrent
    <3>2. e.of = 0 => e.m # m
      BY <2>3, HoldsMessage
    <3>3. e.of = 0 => Current(<<e.m, e.rev>>)'
      BY <1>6, <3>1, <3>2
    <3>. QED  BY <3>1, <3>3
  <2>. QED  BY <2>1, <2>2, <2>3
<1>9. TextIsFrozen'
  BY <1>1, FrozenStays
<1>10. TextIsCurrent'
  <2>1. SUFFICES ASSUME NEW s \in Subs, sub[s].effective \/ sub[s].resolved = "retry", NEW p \in sub[s].text
                 PROVE  Current(p)'
    BY <1>1 DEF TextIsCurrent
  <2>2. p[1] \in Msgs
    BY <2>1, SubTypes
  <2>3. p[1] # m
    BY <2>1 DEF Carries
  <2>4. Current(p)
    BY <2>1 DEF TextIsCurrent
  <2>. QED  BY <1>6, <2>2, <2>3, <2>4
<1>11. OnePlace'
  <2>1. SUFFICES ASSUME NEW k \in Msgs
                 PROVE  /\ \A e, f \in Queue' : Holds(e, k) /\ Holds(f, k) => e = f
                        /\ \A s, t \in Subs :
                             sub[s].effective /\ sub[t].effective /\ Carries(s, k) /\ Carries(t, k) => s = t
                        /\ \A e \in Queue', s \in Subs : ~(Holds(e, k) /\ sub[s].effective /\ Carries(s, k))
                        /\ \A s \in Subs : sub[s].effective =>
                             \A e, f \in Range1(sub[s].from) : Holds(e, k) /\ Holds(f, k) => e = f
    BY <1>1, <1>5 DEF OnePlace, Range1
  <2>2. \A e, f \in Queue' : Holds(e, k) /\ Holds(f, k) => e = f
    BY <1>7 DEF OnePlace
  <2>3. \A e \in Queue', s \in Subs : ~(Holds(e, k) /\ sub[s].effective /\ Carries(s, k))
    BY <1>7 DEF OnePlace
  <2>. QED  BY <2>2, <2>3 DEF OnePlace
<1>12. SomePlace'
  <2>1. SUFFICES ASSUME NEW k \in Msgs, msg'[k].rev > 0, ~msg'[k].withdrawn
                 PROVE  (\E e \in Queue' : Holds(e, k)) \/ (\E s \in Subs : sub[s].effective /\ Carries(s, k))
    BY <1>1, <1>5 DEF SomePlace
  <2>2. CASE k = m
    BY <1>7, <2>1, <2>2
  <2>3. CASE k # m
    <3>1. (\E e \in Queue : Holds(e, k)) \/ (\E s \in Subs : sub[s].effective /\ Carries(s, k))
      BY <2>1, <2>3 DEF SomePlace
    <3>. QED  BY <2>3, <3>1
  <2>. QED  BY <2>2, <2>3
<1>13. ExposedStays'
  <2>1. SUFFICES ASSUME NEW s \in Subs, Exposed(s), NEW k \in Msgs, Carries(s, k)
                 PROVE  /\ \A e \in Queue' : e.of = 0 => e.m # k
                        /\ \A t \in Subs : t # s /\ sub[t].effective =>
                             \A e \in Range1(sub[t].from) : e.of = 0 => e.m # k
    BY <1>1, <1>5 DEF ExposedStays, Range1
  <2>2. k # m
    BY <2>1, ExposedIsClaimed
  <2>3. \A e \in Queue' : e.of = 0 => e.m # k
    <3>1. \A e \in Rest : e.of = 0 => e.m # k
      BY <2>1 DEF ExposedStays
    <3>2. \A e \in X : e.m # k
      BY <2>2
    <3>. QED  BY <3>1, <3>2
  <2>. QED  BY <2>1, <2>3 DEF ExposedStays
<1>14. PlacesAreKept'
  <2>1. \A s \in Subs : \A a \in Range1(sub[s].from) : a.pos < nextPos'
    <3>1. nextPos \in Nat /\ nextPos' \in Nat
      BY DEF TypeOK
    <3>. QED  BY <3>1, SubTypes DEF PlacesAreKept
  <2>2. \A s \in Subs : CanMove(s) => \A a \in Range1(sub[s].from), e \in Queue' : a.pos # e.pos
    BY DEF PlacesAreKept
  <2>3. ASSUME NEW s \in Subs, sub[s].initial, s \in Sent \/ CanMove(s), NEW a \in Range1(sub[s].from)
        PROVE  /\ \A e \in Queue' : a.pos < e.pos
               /\ \A t \in Subs : s \in Sent /\ CanMove(t) /\ t \notin Sent =>
                    \A b \in Range1(sub[t].from) : a.pos < b.pos
    BY <2>3 DEF PlacesAreKept
  <2>. QED  BY <1>1, <1>5, <2>1, <2>2, <2>3 DEF PlacesAreKept, Range1
<1>15. WithdrawnWasAccepted'
  BY DEF WithdrawnWasAccepted
<1>. QED
  BY <1>2, <1>3, <1>4, <1>8, <1>9, <1>10, <1>11, <1>12, <1>13, <1>14, <1>15

\* A message nobody accepted yet is nowhere.
LEMMA AcceptStep == ASSUME Inv, NEW m \in Msgs, Accept(m) PROVE Inv'
<1> USE DEF Inv
<1>0. PICK x : x = [m |-> m, rev |-> 1, of |-> 0, pos |-> nextPos]
  OBVIOUS
<1>1. /\ msg[m].rev = 0 /\ msg' = [msg EXCEPT ![m].rev = 1]
      /\ pending' = Append(pending, x) /\ nextPos' = nextPos + 1
      /\ UNCHANGED <<sub, active, phase, lastTurn, intent, wedge, turns, got, call, up>>
  BY <1>0 DEF Accept
<1>2. /\ TypeOK /\ pending \in Seq(Entries) /\ Ordered(pending) /\ nextPos \in Nat
      /\ Len(pending) \in Nat /\ m \in 0..N
  BY Types, BoundsAssumption DEF Msgs
<1>3. x \in Entries /\ x.m = m /\ x.rev = 1 /\ x.of = 0 /\ x.pos = nextPos
  BY <1>0, <1>2 DEF Entries
<1>4. /\ pending' \in Seq(Entries) /\ Ordered(pending') /\ Queue' = Queue \union {x}
      /\ Len(pending') \in Nat
  <2>1. \A e \in Range1(pending) : e.pos < x.pos
    BY <1>2, <1>3, QueueTypes DEF Queue
  <2>2. Ordered(pending')
    BY <1>1, <1>2, <1>3, <2>1, AppendQueue
  <2>3. pending' \in Seq(Entries) /\ Queue' = Queue \union {x}
    BY <1>1, <1>2, <1>3, AppendOf DEF Queue
  <2>. QED  BY <2>2, <2>3
<1>5. \A e \in Queue' : e.pos < nextPos'
  BY <1>1, <1>2, <1>3, <1>4, QueueTypes
<1>6. /\ msg' \in [Msgs -> [rev : Nat, withdrawn : BOOLEAN]]
      /\ msg'[m].rev = 1 /\ msg'[m].withdrawn = msg[m].withdrawn
      /\ \A k \in Msgs : k # m => msg'[k] = msg[k]
  <2>1. ASSUME NEW r \in [rev : Nat, withdrawn : BOOLEAN], NEW o, o = [r EXCEPT !.rev = 1]
        PROVE  o \in [rev : Nat, withdrawn : BOOLEAN] /\ o.rev = 1 /\ o.withdrawn = r.withdrawn
    BY <2>1
  <2> DEFINE State == [rev : Nat, withdrawn : BOOLEAN]
             o == [msg[m] EXCEPT !.rev = 1]
  <2>2. msg \in [Msgs -> State] /\ msg[m] \in State
    BY DEF TypeOK
  <2>3. msg' = [msg EXCEPT ![m] = o]
    BY <1>1
  <2>4. o \in State /\ o.rev = 1 /\ o.withdrawn = msg[m].withdrawn
    BY <2>1, <2>2
  <2> HIDE DEF State, o
  <2>5. msg' \in [Msgs -> State] /\ msg'[m] = o /\ \A k \in Msgs : k # m => msg'[k] = msg[k]
    BY <2>2, <2>3, <2>4
  <2>. QED  BY <2>4, <2>5 DEF State
<1>7. TypeOK'
  <2>1. nextPos' \in Nat
    BY <1>1, <1>2
  <2>. QED  BY <1>1, <1>4, <1>5, <1>6, <2>1, QueueStepType
<1>8. \A s \in Subs : sub[s].effective \/ sub[s].resolved = "retry" => ~Carries(s, m)
  BY <1>1 DEF TextIsCurrent, Current, Carries
<1>9. \A e \in Queue : ~Holds(e, m)
  <2>1. SUFFICES ASSUME NEW e \in Queue, Holds(e, m) PROVE FALSE
    OBVIOUS
  <2>2. CASE e.of = 0
    <3>1. e.m = m /\ Current(<<e.m, e.rev>>)
      BY <2>1, <2>2, HoldsMessage DEF QueueIsCurrent
    <3>. QED  BY <1>1, <3>1 DEF Current
  <2>3. CASE e.of # 0
    <3>1. e.of \in Subs /\ sub[e.of].resolved = "retry" /\ Carries(e.of, m)
      BY <2>1, <2>3, HoldsRetry DEF QueueIsCurrent
    <3>. QED  BY <1>8, <3>1
  <2>. QED  BY <2>2, <2>3
<1>10. Current(<<m, x.rev>>)'
  <2>1. ~msg'[m].withdrawn
    BY <1>1, <1>6 DEF WithdrawnWasAccepted
  <2>. QED  BY <1>3, <1>6, <2>1 DEF Current
<1>11. \A s \in Subs : \A a \in Range1(sub[s].from) : a.pos # x.pos /\ a.pos < x.pos
  <2>1. \A s \in Subs : \A a \in Range1(sub[s].from) : a.pos < nextPos /\ a.pos \in Nat
    BY SubTypes DEF PlacesAreKept
  <2>. QED  BY <1>2, <1>3, <2>1
<1>12. nextPos' >= nextPos /\ msg'[m].rev > 0
  BY <1>1, <1>2, <1>6
<1> DEFINE X == {x}
<1>13. /\ Queue' = Queue \union X /\ \A a, b \in X : a = b
       /\ \A y \in X : /\ y.of = 0 /\ y.m = m /\ Current(<<m, y.rev>>)'
                      /\ \A s \in Subs : \A a \in Range1(sub[s].from) :
                           /\ CanMove(s) => a.pos # y.pos
                           /\ sub[s].initial /\ (s \in Sent \/ CanMove(s)) => a.pos < y.pos
  BY <1>3, <1>4, <1>10, <1>11
<1>14. X # {} /\ Queue \in SUBSET Queue
  OBVIOUS
<1>15. \A e \in Queue : e \notin Queue => \A k \in Msgs : Holds(e, k) => k = m
  OBVIOUS
<1> HIDE DEF X
<1>. QED
  BY <1>1, <1>6, <1>7, <1>8, <1>9, <1>12, <1>13, <1>14, <1>15, MessageStep

\* A message that stands in the queue by itself is nowhere else.
LEMMA LoneMessage ==
  ASSUME Inv, NEW i \in DOMAIN pending, NEW q, q = pending[i], q.of = 0
  PROVE  /\ i \in 1..Len(pending) /\ q \in Queue /\ q \in Entries /\ q.m \in Msgs
         /\ msg[q.m].rev = q.rev /\ q.rev > 0 /\ ~msg[q.m].withdrawn
         /\ \A s \in Subs : sub[s].effective \/ sub[s].resolved = "retry" => ~Carries(s, q.m)
         /\ \A e \in Queue : e # q => ~Holds(e, q.m)
         /\ \A k : Holds(q, k) <=> k = q.m
<1> USE DEF Inv
<1>1. i \in 1..Len(pending) /\ q \in Queue /\ q \in Entries
  BY Types, QueueTypes
<1>2. q.m \in Msgs /\ Current(<<q.m, q.rev>>)
  BY <1>1 DEF QueueIsCurrent
<1>3. \A k : Holds(q, k) <=> k = q.m
  BY HoldsMessage
<1>4. \A e \in Queue : e # q => ~Holds(e, q.m)
  BY <1>1, <1>2, <1>3 DEF OnePlace
<1>5. ASSUME NEW s \in Subs, Carries(s, q.m), sub[s].effective PROVE FALSE
  BY <1>1, <1>2, <1>3, <1>5 DEF OnePlace
<1>6. ASSUME NEW s \in Subs, Carries(s, q.m), sub[s].resolved = "retry" PROVE FALSE
  BY <1>1, <1>2, <1>6 DEF ExposedStays, Exposed
<1>7. msg[q.m].rev = q.rev /\ q.rev > 0 /\ ~msg[q.m].withdrawn
  BY <1>2 DEF Current
<1>. QED
  BY <1>1, <1>2, <1>3, <1>4, <1>5, <1>6, <1>7

LEMMA EditStep == ASSUME Inv, NEW i \in DOMAIN pending, Edit(i) PROVE Inv'
<1> USE DEF Inv
<1>0. PICK q : q = pending[i]
  OBVIOUS
<1>1. /\ q.of = 0 /\ msg' = [msg EXCEPT ![q.m].rev = @ + 1]
      /\ pending' = [pending EXCEPT ![i].rev = @ + 1]
      /\ UNCHANGED <<nextPos, sub, active, phase, lastTurn, intent, wedge, turns, got, call, up>>
  BY <1>0 DEF Edit, Changeable
<1>2. /\ i \in 1..Len(pending) /\ q \in Queue /\ q \in Entries /\ q.m \in Msgs
      /\ msg[q.m].rev = q.rev /\ q.rev > 0 /\ ~msg[q.m].withdrawn
      /\ \A s \in Subs : sub[s].effective \/ sub[s].resolved = "retry" => ~Carries(s, q.m)
      /\ \A e \in Queue : e # q => ~Holds(e, q.m)
      /\ \A k : Holds(q, k) <=> k = q.m
  BY <1>0, <1>1, LoneMessage
<1>3. pending \in Seq(Entries) /\ Ordered(pending) /\ nextPos \in Nat
  BY Types
<1>4. PICK x : x = [q EXCEPT !.rev = @ + 1]
  OBVIOUS
<1>5. /\ x \in Entries /\ x.m = q.m /\ x.of = 0 /\ x.pos = q.pos /\ x.rev = q.rev + 1
      /\ pending' \in Seq(Entries) /\ Ordered(pending')
      /\ Queue' = (Queue \ {q}) \union {x}
  <2>1. x \in Entries /\ x.m = q.m /\ x.of = 0 /\ x.pos = q.pos /\ x.rev = q.rev + 1
    BY <1>1, <1>2, <1>4 DEF Entries
  <2>2. PICK r : r = pending'
    OBVIOUS
  <2>3. r = [pending EXCEPT ![i] = x]
    BY <1>0, <1>1, <1>4, <2>2
  <2>4. r \in Seq(Entries) /\ Ordered(r) /\ Range1(r) = (Range1(pending) \ {q}) \union {x}
    <3>1. i \in 1..Len(pending) /\ x \in Entries /\ x.pos = pending[i].pos
      BY <1>0, <1>2, <2>1
    <3>2. /\ r \in Seq(Entries) /\ Len(r) = Len(pending)
          /\ \A j \in 1..Len(pending) : r[j] = IF j = i THEN x ELSE pending[j]
      BY <1>3, <2>3, <3>1
    <3>3. Ordered(r) /\ Range1(r) = (Range1(pending) \ {pending[i]}) \union {x}
      BY <1>3, <3>1, <3>2, EditOf
    <3>. QED  BY <1>0, <3>2, <3>3
  <2>5. Queue' = Range1(r)
    BY <2>2 DEF Queue, Range1
  <2>. QED  BY <2>1, <2>2, <2>4, <2>5 DEF Queue
<1>6. \A e \in Queue' : e.pos < nextPos'
  BY <1>1, <1>2, <1>5, QueueTypes
<1>7. /\ msg' \in [Msgs -> [rev : Nat, withdrawn : BOOLEAN]]
      /\ msg'[q.m].rev = q.rev + 1 /\ ~msg'[q.m].withdrawn
      /\ \A k \in Msgs : k # q.m => msg'[k] = msg[k]
  <2>1. ASSUME NEW r \in [rev : Nat, withdrawn : BOOLEAN], NEW o, o = [r EXCEPT !.rev = @ + 1]
        PROVE  o \in [rev : Nat, withdrawn : BOOLEAN] /\ o.rev = r.rev + 1 /\ o.withdrawn = r.withdrawn
    BY <2>1
  <2> DEFINE State == [rev : Nat, withdrawn : BOOLEAN]
             o == [msg[q.m] EXCEPT !.rev = @ + 1]
  <2>2. msg \in [Msgs -> State] /\ msg[q.m] \in State
    BY <1>2 DEF TypeOK
  <2>3. msg' = [msg EXCEPT ![q.m] = o]
    BY <1>1
  <2>4. o \in State /\ o.rev = q.rev + 1 /\ ~o.withdrawn
    BY <1>2, <2>1, <2>2
  <2> HIDE DEF State, o
  <2>5. msg' \in [Msgs -> State] /\ msg'[q.m] = o /\ \A k \in Msgs : k # q.m => msg'[k] = msg[k]
    BY <1>2, <2>2, <2>3, <2>4
  <2>. QED  BY <2>4, <2>5 DEF State
<1>8. TypeOK'
  BY <1>1, <1>3, <1>5, <1>6, <1>7, QueueStepType
<1>9. q.rev \in Nat
  BY <1>2, QueueTypes
<1>10. Current(<<q.m, x.rev>>)'
  BY <1>5, <1>7, <1>9 DEF Current
<1>11. \A s \in Subs : \A a \in Range1(sub[s].from) :
         /\ CanMove(s) => a.pos # x.pos
         /\ sub[s].initial /\ (s \in Sent \/ CanMove(s)) => a.pos < x.pos
  BY <1>2, <1>5 DEF PlacesAreKept
<1> DEFINE X == {x}
           Rest == Queue \ {q}
<1>12. /\ Queue' = Rest \union X /\ \A a, b \in X : a = b
       /\ \A y \in X : /\ y.of = 0 /\ y.m = q.m /\ Current(<<q.m, y.rev>>)'
                      /\ \A s \in Subs : \A a \in Range1(sub[s].from) :
                           /\ CanMove(s) => a.pos # y.pos
                           /\ sub[s].initial /\ (s \in Sent \/ CanMove(s)) => a.pos < y.pos
  BY <1>5, <1>10, <1>11
<1>13. X # {} /\ Rest \in SUBSET Queue /\ \A e \in Rest : ~Holds(e, q.m)
  BY <1>2
<1>14. \A e \in Queue : e \notin Rest => \A k \in Msgs : Holds(e, k) => k = q.m
  BY <1>2
<1>15. nextPos' >= nextPos /\ msg'[q.m].rev > 0
  BY <1>1, <1>2, <1>3, <1>7, <1>9
<1> HIDE DEF X, Rest
<1>. QED
  BY <1>1, <1>2, <1>7, <1>8, <1>12, <1>13, <1>14, <1>15, MessageStep

LEMMA WithdrawStep == ASSUME Inv, NEW i \in DOMAIN pending, Withdraw(i) PROVE Inv'
<1> USE DEF Inv
<1>0. PICK q : q = pending[i]
  OBVIOUS
<1>1. /\ q.of = 0 /\ msg' = [msg EXCEPT ![q.m].withdrawn = TRUE]
      /\ pending' = Without(pending, i)
      /\ UNCHANGED <<nextPos, sub, active, phase, lastTurn, intent, wedge, turns, got, call, up>>
  BY <1>0 DEF Withdraw, Changeable
<1>2. /\ i \in 1..Len(pending) /\ q \in Queue /\ q \in Entries /\ q.m \in Msgs
      /\ msg[q.m].rev = q.rev /\ q.rev > 0 /\ ~msg[q.m].withdrawn
      /\ \A s \in Subs : sub[s].effective \/ sub[s].resolved = "retry" => ~Carries(s, q.m)
      /\ \A e \in Queue : e # q => ~Holds(e, q.m)
      /\ \A k : Holds(q, k) <=> k = q.m
  BY <1>0, <1>1, LoneMessage
<1>3. pending \in Seq(Entries) /\ Ordered(pending) /\ nextPos \in Nat
  BY Types
<1>5. /\ pending' \in Seq(Entries) /\ Ordered(pending')
      /\ Queue' = Queue \ {q}
  BY <1>0, <1>1, <1>2, <1>3, WithoutOf DEF Queue
<1>6. \A e \in Queue' : e.pos < nextPos'
  BY <1>1, <1>2, <1>5, QueueTypes
<1>7. /\ msg' \in [Msgs -> [rev : Nat, withdrawn : BOOLEAN]]
      /\ msg'[q.m].rev = q.rev /\ msg'[q.m].withdrawn
      /\ \A k \in Msgs : k # q.m => msg'[k] = msg[k]
  <2>1. ASSUME NEW r \in [rev : Nat, withdrawn : BOOLEAN], NEW o, o = [r EXCEPT !.withdrawn = TRUE]
        PROVE  o \in [rev : Nat, withdrawn : BOOLEAN] /\ o.rev = r.rev /\ o.withdrawn
    BY <2>1
  <2> DEFINE State == [rev : Nat, withdrawn : BOOLEAN]
             o == [msg[q.m] EXCEPT !.withdrawn = TRUE]
  <2>2. msg \in [Msgs -> State] /\ msg[q.m] \in State
    BY <1>2 DEF TypeOK
  <2>3. msg' = [msg EXCEPT ![q.m] = o]
    BY <1>1
  <2>4. o \in State /\ o.rev = q.rev /\ o.withdrawn
    BY <1>2, <2>1, <2>2
  <2> HIDE DEF State, o
  <2>5. msg' \in [Msgs -> State] /\ msg'[q.m] = o /\ \A k \in Msgs : k # q.m => msg'[k] = msg[k]
    BY <1>2, <2>2, <2>3, <2>4
  <2>. QED  BY <2>4, <2>5 DEF State
<1>8. TypeOK'
  BY <1>1, <1>3, <1>5, <1>6, <1>7, QueueStepType
<1> DEFINE X == {}
           Rest == Queue \ {q}
<1>12. /\ Queue' = Rest \union X /\ \A a, b \in X : a = b
       /\ \A y \in X : /\ y.of = 0 /\ y.m = q.m /\ Current(<<q.m, y.rev>>)'
                      /\ \A s \in Subs : \A a \in Range1(sub[s].from) :
                           /\ CanMove(s) => a.pos # y.pos
                           /\ sub[s].initial /\ (s \in Sent \/ CanMove(s)) => a.pos < y.pos
  BY <1>5
<1>13. Rest \in SUBSET Queue /\ \A e \in Rest : ~Holds(e, q.m)
  BY <1>2
<1>14. \A e \in Queue : e \notin Rest => \A k \in Msgs : Holds(e, k) => k = q.m
  BY <1>2
<1>15. nextPos' >= nextPos /\ msg'[q.m].rev > 0 /\ (~msg'[q.m].withdrawn => X # {})
  BY <1>1, <1>2, <1>3, <1>7
<1> HIDE DEF X, Rest
<1>. QED
  BY <1>1, <1>2, <1>7, <1>8, <1>12, <1>13, <1>14, <1>15, MessageStep

-----------------------------------------------------------------------------
(* The decisions on a held crossing.                                       *)

\* Submissions may be added and move on; their texts stay.
KeepsTexts ==
  /\ Subs \subseteq Subs'
  /\ \A s \in Subs : /\ sub'[s].from = sub[s].from /\ sub'[s].text = sub[s].text
                     /\ sub'[s].initial = sub[s].initial
                     /\ sub[s].resolved = "retry" => sub'[s].resolved = "retry"

LEMMA KeptTexts ==
  ASSUME Inv, KeepsTexts
  PROVE  /\ \A s \in Subs : \A m : Carries(s, m)' <=> Carries(s, m)
         /\ \A e : e.of = 0 \/ e.of \in Subs => TextOf(e)' = TextOf(e)
         /\ \A e \in Queue : \A m : Holds(e, m)' <=> Holds(e, m)
         /\ \A s \in Subs : \A e \in Range1(sub[s].from), m \in Msgs : Holds(e, m)' <=> Holds(e, m)
<1> USE DEF Inv
<1>1. \A s \in Subs : \A m : Carries(s, m)' <=> Carries(s, m)
  BY DEF Carries, KeepsTexts
<1>2. \A e : e.of = 0 \/ e.of \in Subs => TextOf(e)' = TextOf(e)
  BY DEF TextOf, KeepsTexts
<1>3. \A e : e.of = 0 \/ e.of \in Subs => \A m : Holds(e, m)' <=> Holds(e, m)
  BY <1>2 DEF Holds
<1>4. \A e \in Queue : e.of = 0 \/ e.of \in Subs
  BY DEF QueueIsCurrent
<1>5. \A s \in Subs : \A e \in Range1(sub[s].from) : e.of = 0 \/ e.of \in Subs
  BY DEF TextIsFrozen
<1>. QED
  BY <1>1, <1>2, <1>3, <1>4, <1>5

LEMMA KeptFrozen ==
  ASSUME Inv, KeepsTexts, NEW s \in Subs
  PROVE  /\ Len(sub'[s].from) > 0
         /\ \A e \in Range1(sub'[s].from) :
              /\ e.of = 0 => e.m \in Msgs
              /\ e.of # 0 => e.of \in Subs' /\ sub'[e.of].resolved = "retry"
         /\ sub'[s].text = UNION {TextOf(e)' : e \in Range1(sub'[s].from)}
         /\ \A a, b \in 1..Len(sub'[s].from) : a < b => sub'[s].from[a].pos < sub'[s].from[b].pos
<1> USE DEF Inv
<1>1. sub'[s].from = sub[s].from /\ sub'[s].text = sub[s].text
  BY DEF KeepsTexts
<1>2. /\ Len(sub[s].from) > 0
      /\ sub[s].text = UNION {TextOf(e) : e \in Range1(sub[s].from)}
      /\ \A a, b \in 1..Len(sub[s].from) : a < b => sub[s].from[a].pos < sub[s].from[b].pos
  BY DEF TextIsFrozen
<1>3. \A e \in Range1(sub[s].from) :
        /\ e.of = 0 => e.m \in Msgs
        /\ e.of # 0 => e.of \in Subs /\ sub[e.of].resolved = "retry"
  BY DEF TextIsFrozen
<1>4. \A e \in Range1(sub[s].from) :
        /\ e.of = 0 => e.m \in Msgs
        /\ e.of # 0 => e.of \in Subs' /\ sub'[e.of].resolved = "retry"
  BY <1>3 DEF KeepsTexts
<1>5. {TextOf(e)' : e \in Range1(sub[s].from)} = {TextOf(e) : e \in Range1(sub[s].from)}
  <2>1. \A e \in Range1(sub[s].from) : TextOf(e)' = TextOf(e)
    BY <1>3, KeptTexts
  <2>. QED  BY <2>1
<1>. QED
  BY <1>1, <1>2, <1>4, <1>5

LEMMA KeptOrder ==
  ASSUME Inv, KeepsTexts, got' = got
  PROVE  InOrder'
<1> USE DEF Inv
<1>1. \A i \in 1..Len(got) : got[i] \in Subs
  BY Types
<1>2. \A i \in 1..Len(got) : /\ sub'[got[i]].from = sub[got[i]].from
                             /\ sub'[got[i]].initial = sub[got[i]].initial
  BY <1>1 DEF KeepsTexts
<1>3. \A i, j \in 1..Len(got) :
        i < j /\ sub'[got[i]].initial /\ sub'[got[j]].initial =>
          \A a \in Range1(sub'[got[i]].from), b \in Range1(sub'[got[j]].from) : a.pos < b.pos
  BY <1>2 DEF InOrder
<1>4. \A i \in 1..Len(got) :
        \A a, b \in 1..Len(sub'[got[i]].from) :
          a < b => sub'[got[i]].from[a].pos < sub'[got[i]].from[b].pos
  BY <1>2 DEF InOrder
<1>. QED
  BY <1>3, <1>4 DEF InOrder, Range1

\* A held crossing is decided: what the carrier knows of the attempts stays true.
LEMMA DecisionStep ==
  ASSUME Inv, NEW s \in Subs, IsHeld(s), NEW o \in Submissions, sub' = [sub EXCEPT ![s] = o],
         o.from = sub[s].from, o.text = sub[s].text, o.initial = sub[s].initial,
         o.delivery = sub[s].delivery, o.target = sub[s].target,
         o.resolved \in {"keep", "retry"}, o.effective <=> o.resolved # "retry",
         UNCHANGED <<active, turns, got, call>>
  PROVE  /\ UnsentIsAlone' /\ EffectiveClaims' /\ TargetIsTurn' /\ SentOnce' /\ TurnsHaveOwners'
         /\ CallHolds' /\ ReportIsTrue' /\ FenceSays'
         /\ sub' \in Seq(Submissions) /\ Len(sub') = Len(sub) /\ Subs' = Subs /\ Sent' = Sent
         /\ sub'[s] = o /\ \A x \in Subs : x # s => sub'[x] = sub[x]
         /\ \A x \in Subs : /\ sub'[x].initial = sub[x].initial /\ sub'[x].target = sub[x].target
                            /\ sub'[x].delivery = sub[x].delivery /\ (CanMove(x)' <=> CanMove(x))
         /\ KeepsTexts /\ sub[s].effective
<1> USE DEF Inv
<1>1. /\ sub' \in Seq(Submissions) /\ Len(sub') = Len(sub) /\ Subs' = Subs
      /\ sub'[s] = o /\ \A x \in Subs : x # s => sub'[x] = sub[x]
  BY UpdateOf
<1>2. sub[s].delivery \in {"crossing", "unknown"} /\ sub[s].resolved = "no"
  BY DEF IsHeld, IsResolved
<1>3. /\ Sent' = Sent /\ active' = active /\ turns' = turns /\ got' = got /\ call' = call
  BY DEF Sent, Range1
<1>4. \A x \in Subs : /\ sub'[x].from = sub[x].from /\ sub'[x].text = sub[x].text
                      /\ sub'[x].initial = sub[x].initial /\ sub'[x].target = sub[x].target
                      /\ sub'[x].delivery = sub[x].delivery
  BY <1>1
<1>5. \A x \in Subs : CanMove(x)' <=> CanMove(x)
  BY <1>3, <1>4 DEF CanMove, InCall
<1>6. KeepsTexts /\ sub[s].effective
  BY <1>1, <1>2, <1>4 DEF KeepsTexts, EffectiveClaims
<1>7. UnsentIsAlone'
  BY <1>1, <1>2, <1>3, <1>4 DEF UnsentIsAlone
<1>8. EffectiveClaims'
  <2>1. ASSUME NEW x \in Subs
        PROVE  sub'[x].effective <=> /\ sub'[x].resolved # "retry"
                                     /\ sub'[x].delivery = "notDispatched" => sub'[x].resolved # "no"
    BY <1>1, <1>2 DEF EffectiveClaims
  <2>. QED  BY <1>1, <2>1 DEF EffectiveClaims
<1>9. TargetIsTurn'
  BY <1>1, <1>3, <1>4 DEF TargetIsTurn
<1>10. SentOnce'
  <2>1. \A x \in Sent : x \in Subs
    BY Types
  <2>. QED  BY <1>3, <1>4, <2>1 DEF SentOnce
<1>11. TurnsHaveOwners'
  <2>1. \A t \in 1..Len(turns) : turns[t].by \in Subs
    BY DEF TypeOK, Subs
  <2>. QED  BY <1>3, <1>4, <2>1 DEF TurnsHaveOwners
<1>12. CallHolds'
  BY <1>1, <1>3, <1>4 DEF CallHolds
<1>13. ReportIsTrue'
  <2>1. call.pc = "reported" => call.s \in Subs
    BY DEF CallHolds
  <2>. QED  BY <1>3, <1>4, <2>1 DEF ReportIsTrue
<1>14. FenceSays'
  BY <1>1, <1>3, <1>4 DEF FenceSays
<1>. QED
  BY <1>1, <1>3, <1>4, <1>5, <1>6, <1>7, <1>8, <1>9, <1>10, <1>11, <1>12, <1>13, <1>14

LEMMA KeepStep == ASSUME Inv, NEW s \in DOMAIN sub, Keep(s) PROVE Inv'
<1> USE DEF Inv
<1>1. /\ s \in Subs /\ IsHeld(s)
      /\ sub' = [sub EXCEPT ![s].resolved = "keep", ![s].waiting = (sub[s].target = 0)]
      /\ UNCHANGED <<msg, pending, nextPos, active, phase, lastTurn, intent, wedge, turns, got, call, up>>
  BY Types DEF Keep
<1>2. sub[s] \in Submissions /\ sub[s].effective /\ sub[s].resolved = "no"
  BY <1>1, SubTypes DEF EffectiveClaims, IsHeld, IsResolved
<1>3. PICK o : o = [sub[s] EXCEPT !.resolved = "keep", !.waiting = (sub[s].target = 0)]
  OBVIOUS
<1>4. sub' = [sub EXCEPT ![s] = o]
  BY <1>1, <1>3
<1>5. /\ o \in Submissions /\ o.from = sub[s].from /\ o.text = sub[s].text
      /\ o.initial = sub[s].initial /\ o.effective = sub[s].effective
      /\ o.resolved = "keep" /\ o.target = sub[s].target /\ o.delivery = sub[s].delivery
  <2>1. PICK w \in BOOLEAN : w = (sub[s].target = 0)
    OBVIOUS
  <2>2. o = [sub[s] EXCEPT !.resolved = "keep", !.waiting = w]
    BY <1>3, <2>1
  <2>. QED  BY <1>2, <2>2 DEF Submissions
<1>6. /\ UnsentIsAlone' /\ EffectiveClaims' /\ TargetIsTurn' /\ SentOnce' /\ TurnsHaveOwners'
      /\ CallHolds' /\ ReportIsTrue' /\ FenceSays'
      /\ sub' \in Seq(Submissions) /\ Len(sub') = Len(sub) /\ Subs' = Subs /\ Sent' = Sent
      /\ sub'[s] = o /\ \A x \in Subs : x # s => sub'[x] = sub[x]
      /\ \A x \in Subs : /\ sub'[x].initial = sub[x].initial /\ sub'[x].target = sub[x].target
                         /\ sub'[x].delivery = sub[x].delivery /\ (CanMove(x)' <=> CanMove(x))
  <2>1. UNCHANGED <<active, turns, got, call>>
    BY <1>1
  <2>2. s \in Subs /\ IsHeld(s)
    BY <1>1
  <2>3. o.resolved \in {"keep", "retry"} /\ (o.effective <=> o.resolved # "retry")
    BY <1>2, <1>5
  <2> HIDE DEF Inv
  <2>. QED  BY <1>4, <1>5, <2>1, <2>2, <2>3, DecisionStep
<1>7. TypeOK'
  <2>1. \A x \in Subs : sub'[x].target <= Len(turns)
    BY <1>6 DEF TypeOK, Subs
  <2>. QED  BY <1>1, <1>6, <2>1, AttemptType
<1>8. SameSubs
  BY <1>2, <1>5, <1>6 DEF SameSubs
<1>9. Texts' /\ ExposedStays' /\ PlacesAreKept' /\ InOrder'
  BY <1>1, <1>6, <1>8, NothingMoves
<1>. QED
  BY <1>6, <1>7, <1>9 DEF Texts

LEMMA RetryStep == ASSUME Inv, NEW s \in DOMAIN sub, Retry(s) PROVE Inv'
<1> USE DEF Inv
<1>0. PICK x : x = [m |-> 0, rev |-> 0, of |-> s, pos |-> nextPos]
  OBVIOUS
<1>1. /\ s \in Subs /\ IsHeld(s)
      /\ sub' = [sub EXCEPT ![s].resolved = "retry", ![s].waiting = (sub[s].target = 0),
                            ![s].effective = FALSE]
      /\ pending' = Append(pending, x) /\ nextPos' = nextPos + 1
      /\ UNCHANGED <<msg, active, phase, lastTurn, intent, wedge, turns, got, call, up>>
  BY <1>0, Types DEF Retry
<1>2. sub[s] \in Submissions /\ sub[s].effective /\ sub[s].resolved = "no"
  BY <1>1, SubTypes DEF EffectiveClaims, IsHeld, IsResolved
<1>3. PICK o : o = [sub[s] EXCEPT !.resolved = "retry", !.waiting = (sub[s].target = 0), !.effective = FALSE]
  OBVIOUS
<1>4. sub' = [sub EXCEPT ![s] = o]
  BY <1>1, <1>3
<1>5. /\ o \in Submissions /\ o.from = sub[s].from /\ o.text = sub[s].text
      /\ o.initial = sub[s].initial /\ ~o.effective
      /\ o.resolved = "retry" /\ o.target = sub[s].target /\ o.delivery = sub[s].delivery
  <2>1. PICK w \in BOOLEAN : w = (sub[s].target = 0)
    OBVIOUS
  <2>2. o = [sub[s] EXCEPT !.resolved = "retry", !.waiting = w, !.effective = FALSE]
    BY <1>3, <2>1
  <2>. QED  BY <1>2, <2>2 DEF Submissions
<1>5a. o.resolved \in {"keep", "retry"} /\ (o.effective <=> o.resolved # "retry")
  BY <1>5
<1>6. /\ UnsentIsAlone' /\ EffectiveClaims' /\ TargetIsTurn' /\ SentOnce' /\ TurnsHaveOwners'
      /\ CallHolds' /\ ReportIsTrue' /\ FenceSays'
      /\ sub' \in Seq(Submissions) /\ Len(sub') = Len(sub) /\ Subs' = Subs /\ Sent' = Sent
      /\ sub'[s] = o /\ \A t \in Subs : t # s => sub'[t] = sub[t]
      /\ \A t \in Subs : /\ sub'[t].initial = sub[t].initial /\ sub'[t].target = sub[t].target
                         /\ sub'[t].delivery = sub[t].delivery /\ (CanMove(t)' <=> CanMove(t))
      /\ KeepsTexts
  <2>1. UNCHANGED <<active, turns, got, call>>
    BY <1>1
  <2>2. s \in Subs /\ IsHeld(s)
    BY <1>1
  <2> HIDE DEF Inv
  <2>. QED  BY <1>4, <1>5, <1>5a, <2>1, <2>2, DecisionStep
<1>7. /\ pending \in Seq(Entries) /\ Ordered(pending) /\ nextPos \in Nat /\ Len(turns) \in Nat
      /\ active \subseteq Subs /\ s \in Nat /\ s # 0
  BY <1>1, Types DEF Subs
<1>8. x \in Entries /\ x.of = s /\ x.pos = nextPos
  <2>1. 0 \in 0..N
    BY BoundsAssumption
  <2>. QED  BY <1>0, <1>7, <2>1 DEF Entries
<1>9. pending' \in Seq(Entries) /\ Ordered(pending') /\ Queue' = Queue \union {x}
  <2>1. \A e \in Range1(pending) : e.pos < x.pos
    BY <1>8, QueueTypes DEF Queue
  <2>2. Ordered(pending')
    BY <1>1, <1>7, <1>8, <2>1, AppendQueue
  <2>. QED  BY <1>1, <1>7, <1>8, <2>2, AppendOf DEF Queue
<1>10. TypeOK'
  <2>1. \A i \in 1..Len(pending') : pending'[i].pos < nextPos'
    <3>1. \A e \in Queue' : e.pos < nextPos'
      BY <1>1, <1>7, <1>8, <1>9, QueueTypes
    <3>. QED  BY <1>9, <3>1, RangeOf DEF Queue
  <2>2. \A i, j \in 1..Len(pending') : i < j => pending'[i].pos < pending'[j].pos
    BY <1>9 DEF Ordered
  <2>3. \A t \in 1..Len(sub') : sub'[t].target <= Len(turns)
    BY <1>6 DEF TypeOK, Subs
  <2>4. active # {} => \E t \in active : \A u \in active : sub'[u].initial <=> u = t
    BY <1>6, <1>7 DEF TypeOK
  <2>5. nextPos' \in Nat
    BY <1>1, <1>7
  <2>6. /\ msg' \in [Msgs -> [rev : Nat, withdrawn : BOOLEAN]] /\ active' \subseteq 1..Len(sub')
        /\ phase' \in Phases /\ lastTurn' \in 0..Len(turns') /\ intent' \in BOOLEAN /\ wedge' \in Wedges
        /\ turns' \in Seq([by : Nat, live : BOOLEAN])
        /\ \A t \in 1..Len(turns') : turns'[t].by \in 1..Len(sub')
        /\ got' \in Seq(Nat) /\ Range1(got') \subseteq 1..Len(sub') /\ up' \in BOOLEAN
    BY <1>1, <1>6 DEF TypeOK, Range1
  <2>7. turns' = turns /\ active' = active
    BY <1>1
  <2>. QED  BY <1>6, <1>9, <2>1, <2>2, <2>3, <2>4, <2>5, <2>6, <2>7 DEF TypeOK, Range1
<1>11. /\ \A t \in Subs : \A m : Carries(t, m)' <=> Carries(t, m)
       /\ \A e \in Queue : \A m : Holds(e, m)' <=> Holds(e, m)
       /\ \A t \in Subs : \A e \in Range1(sub[t].from), m \in Msgs : Holds(e, m)' <=> Holds(e, m)
  BY <1>6, KeptTexts
<1>12. \A m : Holds(x, m)' <=> Carries(s, m)
  <2>1. \A m : Carries(s, m)' <=> Carries(s, m)
    BY <1>1, <1>11
  <2>. QED  BY <1>7, <1>8, <2>1 DEF Holds, TextOf, Carries
<1>13. \A t \in Subs : /\ sub'[t].from = sub[t].from /\ sub'[t].text = sub[t].text
                       /\ sub'[t].effective => t # s /\ sub[t].effective
                       /\ sub'[t].resolved = "retry" <=> t = s \/ sub[t].resolved = "retry"
                       /\ sub[t].effective => t = s \/ sub'[t].effective
  BY <1>2, <1>5, <1>6
<1>14. QueueIsCurrent'
  <2>1. SUFFICES ASSUME NEW e \in Queue'
                 PROVE  /\ e.of = 0 => e.m \in Msgs /\ Current(<<e.m, e.rev>>)'
                        /\ e.of # 0 => e.of \in Subs /\ sub'[e.of].resolved = "retry"
    BY <1>6 DEF QueueIsCurrent
  <2>2. CASE e = x
    BY <1>1, <1>7, <1>8, <1>13, <2>2
  <2>3. CASE e \in Queue
    <3>1. e.of = 0 => e.m \in Msgs /\ Current(<<e.m, e.rev>>)'
      BY <1>1, <2>3 DEF QueueIsCurrent, Current
    <3>2. e.of # 0 => e.of \in Subs /\ sub'[e.of].resolved = "retry"
      BY <1>13, <2>3 DEF QueueIsCurrent
    <3>. QED  BY <3>1, <3>2
  <2>. QED  BY <1>9, <2>1, <2>2, <2>3
<1>15. TextIsFrozen'
  <2>1. \A t \in Subs :
         /\ Len(sub'[t].from) > 0
         /\ \A e \in Range1(sub'[t].from) :
              /\ e.of = 0 => e.m \in Msgs
              /\ e.of # 0 => e.of \in Subs' /\ sub'[e.of].resolved = "retry"
         /\ sub'[t].text = UNION {TextOf(e)' : e \in Range1(sub'[t].from)}
         /\ \A a, b \in 1..Len(sub'[t].from) : a < b => sub'[t].from[a].pos < sub'[t].from[b].pos
    BY <1>6, KeptFrozen
  <2>. QED  BY <1>6, <2>1 DEF TextIsFrozen, Range1, TextOf
<1>16. TextIsCurrent'
  <2>1. \A p : Current(p)' <=> Current(p)
    BY <1>1 DEF Current
  <2>. QED  BY <1>2, <1>6, <1>13, <2>1 DEF TextIsCurrent
<1>17. OnePlace'
  <2>1. SUFFICES ASSUME NEW m \in Msgs
                 PROVE  /\ \A e, f \in Queue' : Holds(e, m)' /\ Holds(f, m)' => e = f
                        /\ \A t, u \in Subs : sub'[t].effective /\ sub'[u].effective
                             /\ Carries(t, m)' /\ Carries(u, m)' => t = u
                        /\ \A e \in Queue', t \in Subs : ~(Holds(e, m)' /\ sub'[t].effective /\ Carries(t, m)')
                        /\ \A t \in Subs : sub'[t].effective =>
                             \A e, f \in Range1(sub'[t].from) : Holds(e, m)' /\ Holds(f, m)' => e = f
    BY <1>6 DEF OnePlace, Range1
  <2>2. \A e, f \in Queue' : Holds(e, m)' /\ Holds(f, m)' => e = f
    <3>1. \A e \in Queue : Holds(e, m)' => ~Carries(s, m)
      BY <1>1, <1>2, <1>11 DEF OnePlace
    <3>2. \A e, f \in Queue : Holds(e, m)' /\ Holds(f, m)' => e = f
      BY <1>11 DEF OnePlace
    <3>. QED  BY <1>9, <1>12, <3>1, <3>2
  <2>3. \A t, u \in Subs : sub'[t].effective /\ sub'[u].effective
                             /\ Carries(t, m)' /\ Carries(u, m)' => t = u
    BY <1>11, <1>13 DEF OnePlace
  <2>4. \A e \in Queue', t \in Subs : ~(Holds(e, m)' /\ sub'[t].effective /\ Carries(t, m)')
    <3>1. \A t \in Subs : sub'[t].effective /\ Carries(t, m)' => ~Carries(s, m)
      BY <1>1, <1>2, <1>11, <1>13 DEF OnePlace
    <3>2. \A e \in Queue, t \in Subs : ~(Holds(e, m)' /\ sub'[t].effective /\ Carries(t, m)')
      BY <1>11, <1>13 DEF OnePlace
    <3>. QED  BY <1>9, <1>12, <3>1, <3>2
  <2>5. \A t \in Subs : sub'[t].effective =>
          \A e, f \in Range1(sub'[t].from) : Holds(e, m)' /\ Holds(f, m)' => e = f
    BY <1>11, <1>13 DEF OnePlace
  <2>. QED  BY <2>2, <2>3, <2>4, <2>5
<1>18. SomePlace'
  <2>1. SUFFICES ASSUME NEW m \in Msgs, msg[m].rev > 0, ~msg[m].withdrawn
                 PROVE  (\E e \in Queue' : Holds(e, m)') \/ (\E t \in Subs : sub'[t].effective /\ Carries(t, m)')
    BY <1>1, <1>6 DEF SomePlace
  <2>2. (\E e \in Queue : Holds(e, m)) \/ (\E t \in Subs : sub[t].effective /\ Carries(t, m))
    BY <2>1 DEF SomePlace
  <2>. QED  BY <1>9, <1>11, <1>12, <1>13, <2>2
<1>19. ExposedStays'
  <2>1. SUFFICES ASSUME NEW t \in Subs, Exposed(t)', NEW m \in Msgs, Carries(t, m)
                 PROVE  /\ \A e \in Queue' : e.of = 0 => e.m # m
                        /\ \A u \in Subs : u # t /\ sub'[u].effective =>
                             \A e \in Range1(sub'[u].from) : e.of = 0 => e.m # m
    BY <1>6, <1>11 DEF ExposedStays, Range1
  <2>2. CASE Exposed(t)
    <3>1. \A e \in Queue : e.of = 0 => e.m # m
      BY <2>1, <2>2 DEF ExposedStays
    <3>2. \A u \in Subs : u # t /\ sub'[u].effective =>
            \A e \in Range1(sub'[u].from) : e.of = 0 => e.m # m
      BY <1>13, <2>1, <2>2 DEF ExposedStays
    <3>. QED  BY <1>7, <1>8, <1>9, <3>1, <3>2
  <2>3. CASE ~Exposed(t)
    <3>1. t = s
      BY <1>6, <1>13, <2>1, <2>3 DEF Exposed
    <3>2. ASSUME NEW e \in Queue, e.of = 0, e.m = m PROVE FALSE
      BY <1>1, <1>2, <2>1, <3>1, <3>2, HoldsMessage DEF OnePlace
    <3>3. ASSUME NEW u \in Subs, u # s, sub'[u].effective, NEW e \in Range1(sub'[u].from), e.of = 0, e.m = m
          PROVE  FALSE
      <4>1. sub[u].effective /\ e \in Range1(sub[u].from)
        BY <1>13, <3>3
      <4>2. Carries(u, m)
        BY <3>3, <4>1, CarriesEntry, HoldsMessage
      <4>. QED  BY <1>1, <1>2, <2>1, <3>1, <3>3, <4>1, <4>2 DEF OnePlace
    <3>. QED  BY <1>7, <1>8, <1>9, <3>1, <3>2, <3>3
  <2>. QED  BY <2>2, <2>3
<1>20. PlacesAreKept'
  <2>1. \A t \in Subs : \A a \in Range1(sub[t].from) : a.pos < nextPos /\ a.pos \in Nat
    BY SubTypes DEF PlacesAreKept
  <2>2. \A t \in Subs : \A a \in Range1(sub[t].from) : a.pos < nextPos' /\ a.pos # x.pos /\ a.pos < x.pos
    BY <1>1, <1>7, <1>8, <2>1
  <2>3. \A t \in Subs : CanMove(t) => \A a \in Range1(sub[t].from), e \in Queue' : a.pos # e.pos
    BY <1>9, <2>2 DEF PlacesAreKept
  <2>4. ASSUME NEW t \in Subs, sub[t].initial, t \in Sent \/ CanMove(t), NEW a \in Range1(sub[t].from)
        PROVE  /\ \A e \in Queue' : a.pos < e.pos
               /\ \A u \in Subs : t \in Sent /\ CanMove(u) /\ u \notin Sent =>
                    \A b \in Range1(sub[u].from) : a.pos < b.pos
    <3>1. \A e \in Queue' : a.pos < e.pos
      BY <1>9, <2>2, <2>4 DEF PlacesAreKept
    <3>. QED  BY <2>4, <3>1 DEF PlacesAreKept
  <2>5. \A t \in Subs : Range1(sub'[t].from) = Range1(sub[t].from)
    BY <1>13
  <2>6. /\ \A t \in Subs : \A a \in Range1(sub'[t].from) : a.pos < nextPos'
        /\ \A t \in Subs : CanMove(t)' => \A a \in Range1(sub'[t].from), e \in Queue' : a.pos # e.pos
    BY <1>6, <2>2, <2>3, <2>5
  <2>7. ASSUME NEW t \in Subs, sub'[t].initial, t \in Sent \/ CanMove(t)', NEW a \in Range1(sub'[t].from)
        PROVE  /\ \A e \in Queue' : a.pos < e.pos
               /\ \A u \in Subs : t \in Sent /\ CanMove(u)' /\ u \notin Sent =>
                    \A b \in Range1(sub'[u].from) : a.pos < b.pos
    BY <1>6, <2>4, <2>5, <2>7
  <2>. QED  BY <1>6, <2>6, <2>7 DEF PlacesAreKept, Range1
<1>21. InOrder' /\ WithdrawnWasAccepted'
  BY <1>1, <1>6, KeptOrder DEF WithdrawnWasAccepted
<1>. QED
  BY <1>6, <1>10, <1>14, <1>15, <1>16, <1>17, <1>18, <1>19, <1>20, <1>21

-----------------------------------------------------------------------------
(* The report.                                                             *)

LEMMA FiniteRange ==
  ASSUME NEW S, NEW q \in Seq(S)
  PROVE  IsFiniteSet(Range1(q))
<1>1. Len(q) \in Nat /\ DOMAIN q = 1..Len(q) /\ q \in [1..Len(q) -> Range1(q)]
  BY DEF Range1
<1>2. q \in Surjection(1..Len(q), Range1(q))
  BY <1>1, RangeOf DEF Surjection
<1>3. IsFiniteSet(1..Len(q))
  BY <1>1, FS_Interval
<1>. QED
  BY <1>2, <1>3, FS_Surjection

\* What a report leaves: the call is over, and nothing may move any more.
LEMMA ReportedStep ==
  ASSUME Inv, call.pc = "reported", NEW s, s = call.s,
         sub' \in Seq(Submissions), Len(sub') = Len(sub), \A x \in Subs : x # s => sub'[x] = sub[x],
         sub'[s].from = sub[s].from, sub'[s].text = sub[s].text, sub'[s].initial = sub[s].initial,
         sub'[s].resolved = sub[s].resolved,
         sub'[s].delivery = call.delivery, sub'[s].target = call.target,
         sub'[s].effective <=> /\ sub[s].resolved # "retry"
                               /\ call.delivery = "notDispatched" => sub[s].resolved # "no",
         active' \in {active, active \ {s}}, active' # active => s \notin Sent,
         call' = IF sub[s].initial THEN [pc |-> "settled", s |-> s] ELSE Free,
         UNCHANGED <<turns, got>>
  PROVE  /\ UnsentIsAlone' /\ EffectiveClaims' /\ TargetIsTurn' /\ SentOnce' /\ TurnsHaveOwners'
         /\ CallHolds' /\ ReportIsTrue' /\ FenceSays'
         /\ KeepsTexts /\ Subs' = Subs /\ Sent' = Sent /\ \A x \in Subs : ~CanMove(x)'
<1> USE DEF Inv
<1>1. /\ s \in Subs /\ s \in active /\ sub[s].delivery = "crossing"
      /\ (sub[s].initial => active = {s})
  BY DEF CallHolds
<1>2. /\ call.delivery \in {"notDispatched", "unknown", "accepted"}
      /\ call.delivery = "notDispatched" => s \notin Sent
      /\ sub[s].initial /\ call.target # 0 =>
           call.delivery = "accepted" /\ turns[call.target].by = s
      /\ ~sub[s].initial => call.target = sub[s].target
  BY DEF ReportIsTrue
<1>3. Subs' = Subs /\ Sent' = Sent /\ turns' = turns /\ got' = got
  BY DEF Subs, Sent, Range1
<1>4. call'.pc \in {"settled", "free"} /\ (call'.pc = "settled" => call'.s = s /\ sub[s].initial)
  BY DEF Free
<1>5. \A x \in Subs : sub[x].delivery # "none"
  BY <1>1 DEF UnsentIsAlone
<1>6. \A x \in Subs : sub'[x].delivery # "none"
  BY <1>2, <1>5
<1>7. \A x \in Subs : ~CanMove(x)'
  BY <1>4, <1>6 DEF CanMove, InCall
<1>8. KeepsTexts
  BY <1>3 DEF KeepsTexts
<1>9. UnsentIsAlone'
  BY <1>3, <1>6 DEF UnsentIsAlone
<1>10. EffectiveClaims'
  <2>1. ASSUME NEW x \in Subs
        PROVE  sub'[x].effective <=> /\ sub'[x].resolved # "retry"
                                     /\ sub'[x].delivery = "notDispatched" => sub'[x].resolved # "no"
    <3>1. CASE x = s
      BY <3>1
    <3>2. CASE x # s
      BY <3>2 DEF EffectiveClaims
    <3>. QED  BY <3>1, <3>2
  <2>. QED  BY <1>3, <2>1 DEF EffectiveClaims
<1>11. TargetIsTurn'
  <2>1. ASSUME NEW x \in Subs
        PROVE  /\ sub'[x].initial /\ sub'[x].target # 0 =>
                    sub'[x].delivery = "accepted" /\ turns[sub'[x].target].by = x
               /\ ~sub'[x].initial => sub'[x].target # 0
    <3>1. CASE x = s
      BY <1>1, <1>2, <3>1 DEF TargetIsTurn
    <3>2. CASE x # s
      BY <3>2 DEF TargetIsTurn
    <3>. QED  BY <3>1, <3>2
  <2>. QED  BY <1>3, <2>1 DEF TargetIsTurn
<1>12. SentOnce'
  <2>1. \A x \in Sent : sub'[x].delivery \notin {"none", "notDispatched"}
    <3>1. \A x \in Sent : x \in Subs
      BY Types
    <3>. QED  BY <1>2, <1>6, <3>1 DEF SentOnce
  <2>. QED  BY <1>3, <2>1 DEF SentOnce
<1>13. TurnsHaveOwners'
  <2>1. \A t \in 1..Len(turns) : turns[t].by \in Subs
    BY DEF TypeOK, Subs
  <2>2. \A x \in Subs : sub'[x].initial = sub[x].initial
    OBVIOUS
  <2>3. \A t \in 1..Len(turns) : turns[t].live => turns[t].by \in active'
    BY DEF TurnsHaveOwners
  <2>. QED  BY <1>3, <2>1, <2>2, <2>3 DEF TurnsHaveOwners
<1>14. CallHolds' /\ ReportIsTrue' /\ FenceSays'
  BY <1>1, <1>3, <1>4 DEF CallHolds, ReportIsTrue, FenceSays
<1>. QED
  BY <1>3, <1>7, <1>8, <1>9, <1>10, <1>11, <1>12, <1>13, <1>14

\* A report that releases nothing.
LEMMA SettleRecords ==
  ASSUME Inv, Settle, ~Releases(call.s)
  PROVE  Inv'
<1> USE DEF Inv
<1>0. PICK s : s = call.s
  OBVIOUS
<1>1. /\ call.pc = "reported"
      /\ sub' = [sub EXCEPT ![s].delivery = call.delivery, ![s].target = call.target]
      /\ call' = IF sub[s].initial THEN [pc |-> "settled", s |-> s] ELSE Free
      /\ UNCHANGED <<msg, pending, nextPos, active, phase, lastTurn, intent, wedge, turns, got, up, left>>
  BY <1>0 DEF Settle
<1>2. /\ s \in Subs /\ s \in active /\ sub[s].delivery = "crossing" /\ Len(turns) \in Nat
      /\ call.delivery \in Deliveries /\ call.target \in Nat /\ call.target <= Len(turns)
  <2>1. s \in Subs /\ s \in active /\ sub[s].delivery = "crossing"
    BY <1>0, <1>1 DEF CallHolds
  <2>2. call.delivery \in {"notDispatched", "unknown", "accepted"} /\ call.target \in 0..Len(turns)
    BY <1>1 DEF ReportIsTrue
  <2>3. Len(turns) \in Nat
    BY Types
  <2>. QED  BY <2>1, <2>2, <2>3 DEF Deliveries
<1>3. PICK o : o = [sub[s] EXCEPT !.delivery = call.delivery, !.target = call.target]
  OBVIOUS
<1>3a. sub[s] \in Submissions
  BY <1>2, SubTypes
<1>3b. sub' = [sub EXCEPT ![s] = o]
  BY <1>1, <1>3
<1>4. /\ o \in Submissions /\ o.from = sub[s].from /\ o.text = sub[s].text
      /\ o.initial = sub[s].initial /\ o.effective = sub[s].effective
      /\ o.resolved = sub[s].resolved /\ o.delivery = call.delivery /\ o.target = call.target
  BY <1>2, <1>3, <1>3a DEF Submissions
<1>5. /\ sub' \in Seq(Submissions) /\ Len(sub') = Len(sub) /\ \A x \in Subs : x # s => sub'[x] = sub[x]
      /\ sub'[s].from = sub[s].from /\ sub'[s].text = sub[s].text
      /\ sub'[s].initial = sub[s].initial /\ sub'[s].effective = sub[s].effective
      /\ sub'[s].resolved = sub[s].resolved /\ sub'[s].delivery = call.delivery
      /\ sub'[s].target = call.target
  <2>1. /\ sub' \in Seq(Submissions) /\ Len(sub') = Len(sub) /\ sub'[s] = o
        /\ \A x \in Subs : x # s => sub'[x] = sub[x]
    BY <1>2, <1>3b, <1>4, UpdateOf
  <2>. QED  BY <1>4, <2>1
<1>6. sub'[s].effective <=> /\ sub[s].resolved # "retry"
                            /\ call.delivery = "notDispatched" => sub[s].resolved # "no"
  <2>1. call.delivery = "notDispatched" => sub[s].resolved # "no"
    BY <1>0 DEF Releases, IsResolved
  <2>2. sub[s].effective <=> sub[s].resolved # "retry"
    BY <1>2 DEF EffectiveClaims
  <2>. QED  BY <1>5, <2>1, <2>2
<1>7. /\ UnsentIsAlone' /\ EffectiveClaims' /\ TargetIsTurn' /\ SentOnce' /\ TurnsHaveOwners'
      /\ CallHolds' /\ ReportIsTrue' /\ FenceSays'
      /\ KeepsTexts /\ Subs' = Subs /\ Sent' = Sent /\ \A x \in Subs : ~CanMove(x)'
  <2>1. active' \in {active, active \ {s}} /\ (active' # active => s \notin Sent)
    BY <1>1
  <2>2. UNCHANGED <<turns, got>>
    BY <1>1
  <2>3. call.pc = "reported" /\ call' = IF sub[s].initial THEN [pc |-> "settled", s |-> s] ELSE Free
    BY <1>1
  <2> HIDE DEF Inv
  <2>. QED  BY <1>0, <1>5, <1>6, <2>1, <2>2, <2>3, ReportedStep
<1>8. TypeOK'
  <2>1. \A x \in Subs : sub'[x].initial = sub[x].initial /\ sub'[x].target <= Len(turns)
    BY <1>2, <1>5 DEF TypeOK, Subs
  <2>. QED  BY <1>1, <1>5, <2>1, AttemptType
<1>9. SameSubs
  BY <1>5, <1>7 DEF SameSubs
<1>10. Texts' /\ ExposedStays' /\ PlacesAreKept' /\ InOrder'
  BY <1>1, <1>7, <1>9, NothingMoves
<1>. QED
  BY <1>7, <1>8, <1>10 DEF Texts

\* A report that proves non-delivery: the entries return to their places.
LEMMA SettleReleases ==
  ASSUME Inv, Settle, Releases(call.s)
  PROVE  /\ Inv' /\ active' = active \ {call.s} /\ call.s \notin Sent
         /\ sub'[call.s].delivery = "notDispatched"
<1> USE DEF Inv
<1>0. PICK s : s = call.s
  OBVIOUS
<1>1. /\ call.pc = "reported" /\ call.delivery = "notDispatched" /\ sub[s].resolved = "no"
      /\ pending' = Restored(sub[s].from) /\ active' = active \ {s}
      /\ call' = IF sub[s].initial THEN [pc |-> "settled", s |-> s] ELSE Free
      /\ UNCHANGED <<msg, nextPos, phase, lastTurn, intent, wedge, turns, got, up, left>>
  BY <1>0 DEF Settle, Releases, IsResolved
<1>2. /\ s \in Subs /\ s \in active /\ sub[s].delivery = "crossing" /\ Len(turns) \in Nat
      /\ (sub[s].initial => active = {s}) /\ s \notin Sent
      /\ call.target \in Nat /\ call.target <= Len(turns)
  <2>1. s \in Subs /\ s \in active /\ sub[s].delivery = "crossing" /\ (sub[s].initial => active = {s})
    BY <1>0, <1>1 DEF CallHolds
  <2>2. call.target \in 0..Len(turns) /\ s \notin Sent
    BY <1>0, <1>1 DEF ReportIsTrue
  <2>3. Len(turns) \in Nat
    BY Types
  <2>. QED  BY <2>1, <2>2, <2>3
<1>3. PICK o : o = [sub[s] EXCEPT !.delivery = "notDispatched", !.target = call.target, !.effective = FALSE]
  OBVIOUS
<1>3a. sub[s] \in Submissions
  BY <1>2, SubTypes
<1>3b. sub' = [sub EXCEPT ![s] = o]
  <2>1. sub' = [[sub EXCEPT ![s].delivery = "notDispatched", ![s].target = call.target]
                  EXCEPT ![s].effective = FALSE]
    BY <1>0, <1>1 DEF Settle
  <2>2. s \in DOMAIN sub
    BY <1>2, Types
  <2>. QED  BY <1>3, <2>1, <2>2
<1>4. /\ o \in Submissions /\ o.from = sub[s].from /\ o.text = sub[s].text
      /\ o.initial = sub[s].initial /\ ~o.effective
      /\ o.resolved = sub[s].resolved /\ o.delivery = "notDispatched" /\ o.target = call.target
  BY <1>2, <1>3, <1>3a DEF Submissions, Deliveries
<1>5. /\ sub' \in Seq(Submissions) /\ Len(sub') = Len(sub) /\ \A x \in Subs : x # s => sub'[x] = sub[x]
      /\ sub'[s].from = sub[s].from /\ sub'[s].text = sub[s].text
      /\ sub'[s].initial = sub[s].initial /\ ~sub'[s].effective
      /\ sub'[s].resolved = sub[s].resolved /\ sub'[s].delivery = "notDispatched"
      /\ sub'[s].target = call.target
  <2>1. /\ sub' \in Seq(Submissions) /\ Len(sub') = Len(sub) /\ sub'[s] = o
        /\ \A x \in Subs : x # s => sub'[x] = sub[x]
    BY <1>2, <1>3b, <1>4, UpdateOf
  <2>. QED  BY <1>4, <2>1
<1>6. /\ UnsentIsAlone' /\ EffectiveClaims' /\ TargetIsTurn' /\ SentOnce' /\ TurnsHaveOwners'
      /\ CallHolds' /\ ReportIsTrue' /\ FenceSays'
      /\ KeepsTexts /\ Subs' = Subs /\ Sent' = Sent /\ \A x \in Subs : ~CanMove(x)'
  <2>1. active' \in {active, active \ {s}} /\ (active' # active => s \notin Sent)
    BY <1>1, <1>2
  <2>2. UNCHANGED <<turns, got>>
    BY <1>1
  <2>3. sub'[s].effective <=> /\ sub[s].resolved # "retry"
                              /\ call.delivery = "notDispatched" => sub[s].resolved # "no"
    BY <1>1, <1>5
  <2>4. sub'[s].delivery = call.delivery
    BY <1>1, <1>5
  <2> HIDE DEF Inv
  <2>. QED  BY <1>0, <1>1, <1>5, <2>1, <2>2, <2>3, <2>4, ReportedStep
<1>7. sub[s].effective /\ CanMove(s)
  BY <1>0, <1>1, <1>2 DEF EffectiveClaims, CanMove, InCall
<1>8. PICK R : R = Range1(sub[s].from)
  OBVIOUS
<1>9. /\ sub[s].from \in Seq(Entries) /\ Ordered(sub[s].from) /\ nextPos \in Nat
      /\ \A e \in R : e \in Entries /\ e.pos \in Nat /\ e.pos < nextPos
  <2>1. /\ sub[s].from \in Seq(Entries)
        /\ \A e \in R : e \in Entries /\ e.pos \in Nat
    BY <1>2, <1>8, SubTypes
  <2>2. \A e \in R : e.pos < nextPos
    BY <1>2, <1>8 DEF PlacesAreKept
  <2>3. Ordered(sub[s].from)
    BY <1>2 DEF TextIsFrozen, Ordered
  <2>. QED  BY <2>1, <2>2, <2>3, Types
<1>10. /\ \A e \in R : e.of = 0 => e.m \in Msgs /\ Current(<<e.m, e.rev>>)
       /\ \A e \in R : e.of # 0 => e.of \in Subs /\ sub[e.of].resolved = "retry"
  <2>1. \A e \in R : /\ e.of = 0 => e.m \in Msgs
                     /\ e.of # 0 => e.of \in Subs /\ sub[e.of].resolved = "retry"
    BY <1>2, <1>8 DEF TextIsFrozen
  <2>2. ASSUME NEW e \in R, e.of = 0 PROVE Current(<<e.m, e.rev>>)
    <3>1. sub[s].text = UNION {TextOf(u) : u \in Range1(sub[s].from)}
      BY <1>2 DEF TextIsFrozen
    <3>2. <<e.m, e.rev>> \in TextOf(e)
      BY <2>2 DEF TextOf
    <3>3. <<e.m, e.rev>> \in sub[s].text
      BY <1>8, <3>1, <3>2
    <3>. QED  BY <1>2, <1>7, <3>3 DEF TextIsCurrent
  <2>. QED  BY <2>1, <2>2
<1>11. Places(Queue \union R)
  <2>1. IsFiniteSet(Queue \union R)
    <3>1. IsFiniteSet(Queue) /\ IsFiniteSet(R)
      BY <1>8, <1>9, Types, FiniteRange DEF Queue
    <3>. QED  BY <3>1, FS_Union
  <2>2. Queue \subseteq Entries /\ R \subseteq Entries
    BY <1>9, QueueTypes
  <2>3. \A e, f \in Queue : e.pos = f.pos => e = f
    BY QueueTypes
  <2>4. \A e, f \in R : e.pos = f.pos => e = f
    BY <1>8, <1>9, SamePosition
  <2>5. \A e \in R, f \in Queue : e.pos # f.pos
    BY <1>2, <1>7, <1>8 DEF PlacesAreKept
  <2>. QED  BY <2>1, <2>2, <2>3, <2>4, <2>5 DEF Places
<1>12. pending' \in Seq(Entries) /\ Ordered(pending') /\ Queue' = Queue \union R
  <2>1. {e \in R : e.of # 0 \/ (msg[e.m].rev = e.rev /\ ~msg[e.m].withdrawn)} = R
    BY <1>10 DEF Current
  <2>2. pending' = ByPosition(Queue \union R)
    BY <1>1, <1>8, <2>1 DEF Restored, Queue
  <2>3. PICK q : q = ByPosition(Queue \union R)
    OBVIOUS
  <2>4. q \in Seq(Entries) /\ Ordered(q) /\ Range1(q) = Queue \union R
    BY <1>11, <2>3, ByPositionOf
  <2>5. Queue' = Range1(q)
    BY <2>2, <2>3 DEF Queue
  <2>. QED  BY <2>2, <2>3, <2>4, <2>5
<1>13. TypeOK'
  <2>1. \A i \in 1..Len(pending') : pending'[i].pos < nextPos'
    <3>1. \A e \in Queue' : e.pos < nextPos'
      BY <1>1, <1>9, <1>12, QueueTypes
    <3>. QED  BY <1>12, <3>1, RangeOf DEF Queue
  <2>2. \A i, j \in 1..Len(pending') : i < j => pending'[i].pos < pending'[j].pos
    BY <1>12 DEF Ordered
  <2>3. \A t \in 1..Len(sub') : sub'[t].target <= Len(turns)
    BY <1>2, <1>5 DEF TypeOK, Subs
  <2>4. active' # {} => \E t \in active' : \A u \in active' : sub'[u].initial <=> u = t
    <3>1. SUFFICES ASSUME active' # {} PROVE \E t \in active' : \A u \in active' : sub'[u].initial <=> u = t
      OBVIOUS
    <3>2. ~sub[s].initial
      BY <1>1, <1>2, <3>1
    <3>3. PICK t \in active : \A u \in active : sub[u].initial <=> u = t
      BY <1>2 DEF TypeOK
    <3>4. t \in active'
      BY <1>1, <1>2, <3>2, <3>3
    <3>5. \A u \in active' : u \in Subs /\ u \in active /\ u # s
      BY <1>1, Types
    <3>. QED  BY <1>5, <3>3, <3>4, <3>5
  <2>5. active' \subseteq 1..Len(sub')
    BY <1>1, <1>5 DEF TypeOK
  <2>6. /\ msg' \in [Msgs -> [rev : Nat, withdrawn : BOOLEAN]] /\ nextPos' \in Nat
        /\ phase' \in Phases /\ lastTurn' \in 0..Len(turns') /\ intent' \in BOOLEAN /\ wedge' \in Wedges
        /\ turns' \in Seq([by : Nat, live : BOOLEAN])
        /\ \A t \in 1..Len(turns') : turns'[t].by \in 1..Len(sub')
        /\ got' \in Seq(Nat) /\ Range1(got') \subseteq 1..Len(sub') /\ up' \in BOOLEAN
    BY <1>1, <1>5 DEF TypeOK, Range1
  <2>7. turns' = turns
    BY <1>1
  <2>. QED  BY <1>5, <1>12, <2>1, <2>2, <2>3, <2>4, <2>5, <2>6, <2>7 DEF TypeOK, Range1
<1>14. /\ \A t \in Subs : \A m : Carries(t, m)' <=> Carries(t, m)
       /\ \A e \in Queue : \A m : Holds(e, m)' <=> Holds(e, m)
       /\ \A t \in Subs : \A e \in Range1(sub[t].from), m \in Msgs : Holds(e, m)' <=> Holds(e, m)
  BY <1>6, KeptTexts
<1>15. \A e \in R, m \in Msgs : Holds(e, m)' <=> Holds(e, m)
  BY <1>2, <1>8, <1>14
<1>16. \A m \in Msgs : Carries(s, m) <=> \E e \in R : Holds(e, m)
  BY <1>2, <1>8, CarriesEntry
<1>17. \A t \in Subs : /\ sub'[t].from = sub[t].from /\ sub'[t].text = sub[t].text
                       /\ sub'[t].initial = sub[t].initial
                       /\ sub'[t].effective => t # s /\ sub[t].effective
                       /\ sub'[t].resolved = sub[t].resolved
                       /\ sub[t].effective => t = s \/ sub'[t].effective
  BY <1>5
<1>18. QueueIsCurrent'
  <2>1. SUFFICES ASSUME NEW e \in Queue'
                 PROVE  /\ e.of = 0 => e.m \in Msgs /\ Current(<<e.m, e.rev>>)'
                        /\ e.of # 0 => e.of \in Subs /\ sub'[e.of].resolved = "retry"
    BY <1>6 DEF QueueIsCurrent
  <2>2. /\ e.of = 0 => e.m \in Msgs /\ Current(<<e.m, e.rev>>)
        /\ e.of # 0 => e.of \in Subs /\ sub[e.of].resolved = "retry"
    BY <1>10, <1>12, <2>1 DEF QueueIsCurrent
  <2>. QED  BY <1>1, <1>17, <2>2 DEF Current
<1>19. TextIsFrozen'
  <2>1. \A t \in Subs :
         /\ Len(sub'[t].from) > 0
         /\ \A e \in Range1(sub'[t].from) :
              /\ e.of = 0 => e.m \in Msgs
              /\ e.of # 0 => e.of \in Subs' /\ sub'[e.of].resolved = "retry"
         /\ sub'[t].text = UNION {TextOf(e)' : e \in Range1(sub'[t].from)}
         /\ \A a, b \in 1..Len(sub'[t].from) : a < b => sub'[t].from[a].pos < sub'[t].from[b].pos
    BY <1>6, KeptFrozen
  <2>. QED  BY <1>6, <2>1 DEF TextIsFrozen, Range1, TextOf
<1>20. TextIsCurrent'
  <2>1. \A p : Current(p)' <=> Current(p)
    BY <1>1 DEF Current
  <2>. QED  BY <1>6, <1>17, <2>1 DEF TextIsCurrent
<1>21. OnePlace'
  <2>1. SUFFICES ASSUME NEW m \in Msgs
                 PROVE  /\ \A e, f \in Queue' : Holds(e, m)' /\ Holds(f, m)' => e = f
                        /\ \A t, u \in Subs : sub'[t].effective /\ sub'[u].effective
                             /\ Carries(t, m)' /\ Carries(u, m)' => t = u
                        /\ \A e \in Queue', t \in Subs : ~(Holds(e, m)' /\ sub'[t].effective /\ Carries(t, m)')
                        /\ \A t \in Subs : sub'[t].effective =>
                             \A e, f \in Range1(sub'[t].from) : Holds(e, m)' /\ Holds(f, m)' => e = f
    BY <1>6 DEF OnePlace, Range1
  <2>2. \A e, f \in Queue' : Holds(e, m)' /\ Holds(f, m)' => e = f
    <3>1. \A e \in Queue, f \in R : ~(Holds(e, m)' /\ Holds(f, m)')
      BY <1>2, <1>7, <1>14, <1>15, <1>16 DEF OnePlace
    <3>2. \A e, f \in Queue : Holds(e, m)' /\ Holds(f, m)' => e = f
      BY <1>14 DEF OnePlace
    <3>3. \A e, f \in R : Holds(e, m)' /\ Holds(f, m)' => e = f
      BY <1>2, <1>7, <1>8, <1>15 DEF OnePlace
    <3>. QED  BY <1>12, <3>1, <3>2, <3>3
  <2>3. \A t, u \in Subs : sub'[t].effective /\ sub'[u].effective
                             /\ Carries(t, m)' /\ Carries(u, m)' => t = u
    BY <1>14, <1>17 DEF OnePlace
  <2>4. \A e \in Queue', t \in Subs : ~(Holds(e, m)' /\ sub'[t].effective /\ Carries(t, m)')
    <3>1. \A t \in Subs : sub'[t].effective /\ Carries(t, m)' => ~Carries(s, m)
      BY <1>2, <1>7, <1>14, <1>17 DEF OnePlace
    <3>2. \A e \in Queue, t \in Subs : ~(Holds(e, m)' /\ sub'[t].effective /\ Carries(t, m)')
      BY <1>14, <1>17 DEF OnePlace
    <3>3. \A e \in R : Holds(e, m)' => Carries(s, m)
      BY <1>15, <1>16
    <3>. QED  BY <1>12, <3>1, <3>2, <3>3
  <2>5. \A t \in Subs : sub'[t].effective =>
          \A e, f \in Range1(sub'[t].from) : Holds(e, m)' /\ Holds(f, m)' => e = f
    BY <1>14, <1>17 DEF OnePlace
  <2>. QED  BY <2>2, <2>3, <2>4, <2>5
<1>22. SomePlace'
  <2>1. SUFFICES ASSUME NEW m \in Msgs, msg[m].rev > 0, ~msg[m].withdrawn
                 PROVE  (\E e \in Queue' : Holds(e, m)') \/ (\E t \in Subs : sub'[t].effective /\ Carries(t, m)')
    BY <1>1, <1>6 DEF SomePlace
  <2>2. (\E e \in Queue : Holds(e, m)) \/ (\E t \in Subs : sub[t].effective /\ Carries(t, m))
    BY <2>1 DEF SomePlace
  <2>. QED  BY <1>12, <1>14, <1>15, <1>16, <1>17, <2>2
<1>23. ExposedStays'
  <2>1. SUFFICES ASSUME NEW t \in Subs, Exposed(t)', NEW m \in Msgs, Carries(t, m)
                 PROVE  /\ \A e \in Queue' : e.of = 0 => e.m # m
                        /\ \A u \in Subs : u # t /\ sub'[u].effective =>
                             \A e \in Range1(sub'[u].from) : e.of = 0 => e.m # m
    BY <1>6, <1>14 DEF ExposedStays, Range1
  <2>2. Exposed(t) /\ t # s
    BY <1>1, <1>2, <1>6, <1>17, <2>1 DEF Exposed
  <2>3. \A e \in Queue : e.of = 0 => e.m # m
    BY <2>1, <2>2 DEF ExposedStays
  <2>4. \A e \in R : e.of = 0 => e.m # m
    BY <1>2, <1>7, <1>8, <2>1, <2>2 DEF ExposedStays
  <2>5. \A u \in Subs : u # t /\ sub'[u].effective =>
          \A e \in Range1(sub'[u].from) : e.of = 0 => e.m # m
    BY <1>17, <2>1, <2>2 DEF ExposedStays
  <2>. QED  BY <1>12, <2>3, <2>4, <2>5
<1>24. PlacesAreKept'
  <2>1. \A t \in Subs : Range1(sub'[t].from) = Range1(sub[t].from)
    BY <1>17
  <2>2. \A t \in Subs : \A a \in Range1(sub'[t].from) : a.pos < nextPos'
    BY <1>1, <2>1 DEF PlacesAreKept
  <2>3. ASSUME NEW t \in Subs, sub'[t].initial, t \in Sent, NEW a \in Range1(sub'[t].from)
        PROVE  \A e \in Queue' : a.pos < e.pos
    <3>1. sub[t].initial /\ a \in Range1(sub[t].from)
      BY <1>17, <2>1, <2>3
    <3>2. \A e \in Queue : a.pos < e.pos
      BY <2>3, <3>1 DEF PlacesAreKept
    <3>3. \A e \in R : a.pos < e.pos
      BY <1>2, <1>7, <1>8, <2>3, <3>1 DEF PlacesAreKept
    <3>. QED  BY <1>12, <3>2, <3>3
  <2>. QED  BY <1>6, <2>2, <2>3 DEF PlacesAreKept, Range1
<1>25. InOrder' /\ WithdrawnWasAccepted'
  BY <1>1, <1>6, KeptOrder DEF WithdrawnWasAccepted
<1>26. Inv'
  BY <1>6, <1>13, <1>18, <1>19, <1>20, <1>21, <1>22, <1>23, <1>24, <1>25
<1>. QED
  BY <1>0, <1>1, <1>2, <1>5, <1>26

LEMMA SettleStep == ASSUME Inv, Settle PROVE Inv'
  BY SettleRecords, SettleReleases

-----------------------------------------------------------------------------
(* The claims.                                                             *)

\* Entries of the queue become a submission: each message follows its entry.
LEMMA ClaimedTexts ==
  ASSUME Inv, NEW q \in Seq(Entries), Len(q) > 0, Ordered(q),
         NEW P, P = Range1(q), P \subseteq Queue, Queue' = Queue \ P,
         NEW n, n = Len(sub) + 1, NEW o \in Submissions, sub' = Append(sub, o),
         o.from = q, o.text = UNION {TextOf(e) : e \in P}, o.effective, o.resolved = "no",
         UNCHANGED <<msg, nextPos, got>>, \A x \in Subs : ~CanMove(x)',
         o.initial => \A a \in P, e \in Queue' : a.pos < e.pos
  PROVE  Texts' /\ ExposedStays' /\ PlacesAreKept' /\ InOrder'
<1> USE DEF Inv
<1>1. /\ sub' \in Seq(Submissions) /\ Len(sub') = n /\ sub'[n] = o
      /\ \A x \in Subs : sub'[x] = sub[x]
      /\ n \notin Subs /\ \A x : x \in Subs' <=> x \in Subs \/ x = n
  <2>1. sub \in Seq(Submissions) /\ Len(sub) \in Nat
    BY Types DEF TypeOK
  <2>2. /\ sub' \in Seq(Submissions) /\ Len(sub') = Len(sub) + 1
        /\ \A i \in 1..Len(sub) : sub'[i] = sub[i]
        /\ sub'[Len(sub) + 1] = o
    BY <2>1, AppendOf
  <2>3. n \notin 1..Len(sub) /\ \A x : x \in 1..n <=> x \in 1..Len(sub) \/ x = n
    BY <2>1
  <2>. QED  BY <2>2, <2>3 DEF Subs
<1>2. KeepsTexts
  BY <1>1 DEF KeepsTexts
<1>3. Sent' = Sent /\ Sent \subseteq Subs /\ n \notin Sent /\ got' = got /\ msg' = msg /\ nextPos' = nextPos
  BY <1>1, Types DEF Sent, Range1
<1>4. /\ \A t \in Subs : \A m : Carries(t, m)' <=> Carries(t, m)
      /\ \A e : e.of = 0 \/ e.of \in Subs => TextOf(e)' = TextOf(e)
      /\ \A e \in Queue : \A m : Holds(e, m)' <=> Holds(e, m)
      /\ \A t \in Subs : \A e \in Range1(sub[t].from), m \in Msgs : Holds(e, m)' <=> Holds(e, m)
  BY <1>2, KeptTexts
<1>5. \A e \in P : TextOf(e)' = TextOf(e)
  BY <1>4 DEF QueueIsCurrent
<1>6. \A m : Carries(n, m)' <=> \E e \in P : Holds(e, m)
  <2>1. \A m : Carries(n, m)' <=> \E p \in o.text : p[1] = m
    BY <1>1 DEF Carries
  <2>. QED  BY <2>1 DEF Holds
<1>7. \A p : Current(p)' <=> Current(p)
  BY <1>3 DEF Current
<1>8. QueueIsCurrent'
  <2>1. SUFFICES ASSUME NEW e \in Queue'
                 PROVE  /\ e.of = 0 => e.m \in Msgs /\ Current(<<e.m, e.rev>>)'
                        /\ e.of # 0 => e.of \in Subs' /\ sub'[e.of].resolved = "retry"
    BY DEF QueueIsCurrent
  <2>2. e \in Queue
    BY <2>1
  <2>3. /\ e.of = 0 => e.m \in Msgs /\ Current(<<e.m, e.rev>>)
        /\ e.of # 0 => e.of \in Subs /\ sub[e.of].resolved = "retry"
    BY <2>2 DEF QueueIsCurrent
  <2>. QED  BY <1>1, <1>7, <2>3
<1>9. TextIsFrozen'
  <2>1. \A t \in Subs :
         /\ Len(sub'[t].from) > 0
         /\ \A e \in Range1(sub'[t].from) :
              /\ e.of = 0 => e.m \in Msgs
              /\ e.of # 0 => e.of \in Subs' /\ sub'[e.of].resolved = "retry"
         /\ sub'[t].text = UNION {TextOf(e)' : e \in Range1(sub'[t].from)}
         /\ \A a, b \in 1..Len(sub'[t].from) : a < b => sub'[t].from[a].pos < sub'[t].from[b].pos
    BY <1>2, KeptFrozen
  <2>2. sub'[n].from = q /\ Range1(sub'[n].from) = P
    BY <1>1
  <2>3. /\ Len(q) > 0
        /\ \A a, b \in 1..Len(q) : a < b => q[a].pos < q[b].pos
    BY DEF Ordered
  <2>4. \A e \in P : /\ e.of = 0 => e.m \in Msgs
                     /\ e.of # 0 => e.of \in Subs' /\ sub'[e.of].resolved = "retry"
    BY <1>1 DEF QueueIsCurrent
  <2>5. sub'[n].text = UNION {TextOf(e)' : e \in P}
    <3>1. {TextOf(e)' : e \in P} = {TextOf(e) : e \in P}
      BY <1>5
    <3>. QED  BY <1>1, <3>1
  <2>6. \A t \in Subs' :
         /\ Len(sub'[t].from) > 0
         /\ \A e \in Range1(sub'[t].from) :
              /\ e.of = 0 => e.m \in Msgs
              /\ e.of # 0 => e.of \in Subs' /\ sub'[e.of].resolved = "retry"
         /\ sub'[t].text = UNION {TextOf(e)' : e \in Range1(sub'[t].from)}
         /\ \A a, b \in 1..Len(sub'[t].from) : a < b => sub'[t].from[a].pos < sub'[t].from[b].pos
    <3>1. SUFFICES ASSUME NEW t \in Subs'
                   PROVE  /\ Len(sub'[t].from) > 0
                          /\ \A e \in Range1(sub'[t].from) :
                               /\ e.of = 0 => e.m \in Msgs
                               /\ e.of # 0 => e.of \in Subs' /\ sub'[e.of].resolved = "retry"
                          /\ sub'[t].text = UNION {TextOf(e)' : e \in Range1(sub'[t].from)}
                          /\ \A a, b \in 1..Len(sub'[t].from) :
                               a < b => sub'[t].from[a].pos < sub'[t].from[b].pos
      OBVIOUS
    <3>2. CASE t \in Subs
      BY <2>1, <3>2
    <3>3. CASE t = n
      <4>1. Len(sub'[t].from) > 0
        BY <3>3, <2>2, <2>3
      <4>2. \A e \in Range1(sub'[t].from) :
              /\ e.of = 0 => e.m \in Msgs
              /\ e.of # 0 => e.of \in Subs' /\ sub'[e.of].resolved = "retry"
        BY <3>3, <2>2, <2>4
      <4>3. sub'[t].text = UNION {TextOf(e)' : e \in Range1(sub'[t].from)}
        BY <3>3, <2>2, <2>5
      <4>4. \A a, b \in 1..Len(sub'[t].from) : a < b => sub'[t].from[a].pos < sub'[t].from[b].pos
        BY <3>3, <2>2, <2>3
      <4>. QED  BY <4>1, <4>2, <4>3, <4>4
    <3>. QED  BY <1>1, <3>1, <3>2, <3>3
  <2>. QED  BY <2>6 DEF TextIsFrozen, Range1, TextOf
<1>10. TextIsCurrent'
  <2>1. ASSUME NEW t \in Subs, sub'[t].effective \/ sub'[t].resolved = "retry", NEW p \in sub'[t].text
        PROVE  Current(p)'
    BY <1>1, <1>7, <2>1 DEF TextIsCurrent
  <2>2. ASSUME NEW p \in o.text PROVE Current(p)'
    <3>1. PICK e \in P : p \in TextOf(e)
      OBVIOUS
    <3>2. CASE e.of = 0
      BY <1>7, <3>1, <3>2 DEF QueueIsCurrent, TextOf
    <3>3. CASE e.of # 0
      <4>1. e.of \in Subs /\ sub[e.of].resolved = "retry" /\ p \in sub[e.of].text
        BY <3>1, <3>3 DEF QueueIsCurrent, TextOf
      <4>. QED  BY <1>7, <4>1 DEF TextIsCurrent
    <3>. QED  BY <3>2, <3>3
  <2>. QED  BY <1>1, <2>1, <2>2 DEF TextIsCurrent
<1>11. OnePlace'
  <2>1. SUFFICES ASSUME NEW m \in Msgs
                 PROVE  /\ \A e, f \in Queue' : Holds(e, m)' /\ Holds(f, m)' => e = f
                        /\ \A t, u \in Subs' : sub'[t].effective /\ sub'[u].effective
                             /\ Carries(t, m)' /\ Carries(u, m)' => t = u
                        /\ \A e \in Queue', t \in Subs' : ~(Holds(e, m)' /\ sub'[t].effective /\ Carries(t, m)')
                        /\ \A t \in Subs' : sub'[t].effective =>
                             \A e, f \in Range1(sub'[t].from) : Holds(e, m)' /\ Holds(f, m)' => e = f
    BY DEF OnePlace, Range1
  <2>2. \A e, f \in Queue : Holds(e, m)' /\ Holds(f, m)' => e = f
    BY <1>4 DEF OnePlace
  <2>3. \A t \in Subs : sub[t].effective /\ Carries(t, m)' => ~Carries(n, m)'
    <3>1. SUFFICES ASSUME NEW t \in Subs, sub[t].effective, Carries(t, m), NEW e \in P, Holds(e, m) PROVE FALSE
      BY <1>4, <1>6
    <3>. QED  BY <3>1 DEF OnePlace
  <2>4. \A t, u \in Subs : sub[t].effective /\ sub[u].effective /\ Carries(t, m)' /\ Carries(u, m)' => t = u
    BY <1>4 DEF OnePlace
  <2>5. \A t, u \in Subs' : sub'[t].effective /\ sub'[u].effective
                             /\ Carries(t, m)' /\ Carries(u, m)' => t = u
    BY <1>1, <2>3, <2>4
  <2>6. \A e \in Queue', t \in Subs' : ~(Holds(e, m)' /\ sub'[t].effective /\ Carries(t, m)')
    <3>1. \A e \in Queue', t \in Subs : ~(Holds(e, m)' /\ sub[t].effective /\ Carries(t, m)')
      BY <1>4 DEF OnePlace
    <3>2. \A e \in Queue' : ~(Holds(e, m)' /\ Carries(n, m)')
      <4>1. SUFFICES ASSUME NEW e \in Queue', Holds(e, m)', NEW f \in P, Holds(f, m) PROVE FALSE
        BY <1>6
      <4>2. e \in Queue /\ f \in Queue /\ e # f
        BY <4>1
      <4>. QED  BY <1>4, <2>2, <4>1, <4>2
    <3>. QED  BY <1>1, <3>1, <3>2
  <2>7. \A t \in Subs' : sub'[t].effective =>
          \A e, f \in Range1(sub'[t].from) : Holds(e, m)' /\ Holds(f, m)' => e = f
    <3>1. \A t \in Subs : sub[t].effective =>
            \A e, f \in Range1(sub[t].from) : Holds(e, m)' /\ Holds(f, m)' => e = f
      BY <1>4 DEF OnePlace
    <3>2. \A e, f \in P : Holds(e, m)' /\ Holds(f, m)' => e = f
      BY <2>2
    <3>. QED  BY <1>1, <3>1, <3>2
  <2>. QED  BY <2>2, <2>5, <2>6, <2>7
<1>12. SomePlace'
  <2>1. SUFFICES ASSUME NEW m \in Msgs, msg[m].rev > 0, ~msg[m].withdrawn
                 PROVE  (\E e \in Queue' : Holds(e, m)') \/ (\E t \in Subs' : sub'[t].effective /\ Carries(t, m)')
    BY <1>3 DEF SomePlace
  <2>2. CASE \E t \in Subs : sub[t].effective /\ Carries(t, m)
    BY <1>1, <1>4, <2>2
  <2>3. CASE \E e \in Queue : Holds(e, m)
    <3>1. PICK e \in Queue : Holds(e, m)
      BY <2>3
    <3>2. CASE e \in P
      BY <1>1, <1>6, <3>1, <3>2
    <3>3. CASE e \notin P
      BY <1>4, <3>1, <3>3
    <3>. QED  BY <3>2, <3>3
  <2>. QED  BY <2>1, <2>2, <2>3 DEF SomePlace
<1>13. ExposedStays'
  <2>1. SUFFICES ASSUME NEW t \in Subs', Exposed(t)', NEW m \in Msgs, Carries(t, m)'
                 PROVE  /\ \A e \in Queue' : e.of = 0 => e.m # m
                        /\ \A u \in Subs' : u # t /\ sub'[u].effective =>
                             \A e \in Range1(sub'[u].from) : e.of = 0 => e.m # m
    BY DEF ExposedStays, Range1
  <2>2. t \in Subs /\ Exposed(t)
    BY <1>1, <1>3, <2>1 DEF Exposed
  <2>3. Carries(t, m)
    BY <1>4, <2>1, <2>2
  <2>4. \A e \in Queue : e.of = 0 => e.m # m
    BY <2>2, <2>3 DEF ExposedStays
  <2>5. \A u \in Subs : u # t /\ sub[u].effective =>
          \A e \in Range1(sub[u].from) : e.of = 0 => e.m # m
    BY <2>2, <2>3 DEF ExposedStays
  <2>6. \A u \in Subs' : u # t /\ sub'[u].effective =>
          \A e \in Range1(sub'[u].from) : e.of = 0 => e.m # m
    BY <1>1, <2>4, <2>5
  <2>. QED  BY <2>4, <2>6
<1>14. PlacesAreKept'
  <2>1. Range1(sub'[n].from) = P /\ \A t \in Subs : Range1(sub'[t].from) = Range1(sub[t].from)
    BY <1>1
  <2>2. \A e \in Queue : e.pos \in Nat /\ e.pos < nextPos
    BY QueueTypes
  <2>3. \A t \in Subs' : \A a \in Range1(sub'[t].from) : a.pos < nextPos'
    <3>1. \A t \in Subs : \A a \in Range1(sub[t].from) : a.pos < nextPos
      BY DEF PlacesAreKept
    <3>2. \A a \in P : a.pos < nextPos
      BY <2>2
    <3>3. ASSUME NEW t \in Subs', NEW a \in Range1(sub'[t].from) PROVE a.pos < nextPos
      <4>1. t \in Subs \/ t = n
        BY <1>1
      <4>2. CASE t \in Subs
        BY <2>1, <3>1, <4>2
      <4>3. CASE t = n
        BY <2>1, <3>2, <4>3
      <4>. QED  BY <4>1, <4>2, <4>3
    <3> HIDE DEF Inv
    <3>. QED  BY <1>3, <3>3
  <2>4. \A a \in P, e \in Queue' : a.pos # e.pos
    BY QueueTypes
  <2>5. \A t \in Subs' : CanMove(t)' => t = n
    BY <1>1
  <2>6. \A t \in Subs' : CanMove(t)' => \A a \in Range1(sub'[t].from), e \in Queue' : a.pos # e.pos
    BY <2>1, <2>4, <2>5
  <2>7. ASSUME NEW t \in Subs', sub'[t].initial, t \in Sent \/ CanMove(t)', NEW a \in Range1(sub'[t].from)
        PROVE  /\ \A e \in Queue' : a.pos < e.pos
               /\ \A u \in Subs' : t \in Sent /\ CanMove(u)' /\ u \notin Sent =>
                    \A b \in Range1(sub'[u].from) : a.pos < b.pos
    <3>1. CASE t = n
      BY <1>1, <1>3, <2>1, <2>7, <3>1
    <3>2. CASE t # n
      <4>1. t \in Subs /\ t \in Sent /\ sub[t].initial /\ a \in Range1(sub[t].from)
        BY <1>1, <2>1, <2>5, <2>7, <3>2
      <4>2. \A e \in Queue : a.pos < e.pos
        BY <4>1 DEF PlacesAreKept
      <4>. QED  BY <2>1, <2>5, <4>2
    <3>. QED  BY <3>1, <3>2
  <2>8. \A t \in Subs' : sub'[t].initial /\ (t \in Sent' \/ CanMove(t)') =>
          \A a \in Range1(sub'[t].from) :
            /\ \A e \in Queue' : a.pos < e.pos
            /\ \A u \in Subs' : t \in Sent' /\ CanMove(u)' /\ u \notin Sent' =>
                 \A b \in Range1(sub'[u].from) : a.pos < b.pos
    BY <1>3, <2>7
  <2>. QED  BY <2>3, <2>6, <2>8 DEF PlacesAreKept, Range1
<1>15. InOrder' /\ WithdrawnWasAccepted'
  BY <1>2, <1>3, KeptOrder DEF WithdrawnWasAccepted
<1>. QED
  BY <1>8, <1>9, <1>10, <1>11, <1>12, <1>13, <1>14, <1>15 DEF Texts

LEMMA ClaimedText ==
  ASSUME Inv, NEW P, P \subseteq Queue
  PROVE  UNION {TextOf(e) : e \in P} \in SUBSET (Msgs \X Nat)
<1> USE DEF Inv
<1>1. SUFFICES ASSUME NEW e \in P PROVE TextOf(e) \subseteq Msgs \X Nat
  OBVIOUS
<1>2. CASE e.of = 0
  <2>1. e.m \in Msgs /\ e.rev \in Nat
    BY <1>2, QueueTypes DEF QueueIsCurrent
  <2>. QED  BY <1>2, <2>1 DEF TextOf
<1>3. CASE e.of # 0
  <2>1. e.of \in Subs
    BY <1>3 DEF QueueIsCurrent
  <2>. QED  BY <1>3, <2>1, SubTypes DEF TextOf
<1>. QED
  BY <1>2, <1>3

\* A claim whose fence still matches follows a settled execution.
LEMMA ClaimFinds ==
  ASSUME Inv, call.pc = "selected", Fence = call.fence, NeedsSettled(call.prefix) => Settled
  PROVE  /\ \A s \in Subs : sub[s].delivery # "none"
         /\ \A t \in 1..Len(turns) : ~turns[t].live
<1> USE DEF Inv
<1>1. TypeOK /\ active \subseteq Subs /\ DOMAIN sub = Subs /\ DOMAIN turns = 1..Len(turns)
  BY Types
<1>2. \A s \in active : sub[s].resolved # "no" /\ sub[s].target = 0
  <2>1. \A s \in Fence.active : Fence.attempts[s][3] # "no" /\ Fence.attempts[s][2] = 0
    BY DEF FenceSays
  <2>. QED  BY <1>1, <2>1, FenceIs
<1>3. \A s \in Subs : sub[s].delivery # "none"
  BY <1>2 DEF UnsentIsAlone
<1>4. ASSUME NEW t \in 1..Len(turns), turns[t].live PROVE FALSE
  <2>1. turns[t].by \in active
    BY <1>4 DEF TurnsHaveOwners
  <2>2. RequiresSettled
    BY <1>1, <1>2, <2>1 DEF RequiresSettled, IsResolved
  <2>3. Settled
    BY <2>2 DEF NeedsSettled
  <2>. QED  BY <1>1, <1>4, <2>3 DEF Settled
<1>. QED
  BY <1>3, <1>4

LEMMA ClaimStep == ASSUME Inv, Claim PROVE Inv'
<1> USE DEF Inv
<1>1. /\ call.pc = "selected"
      /\ UNCHANGED <<msg, nextPos, lastTurn, intent, wedge, turns, got, up, left>>
  BY DEF Claim
<1>2. PICK q : q = call.prefix
  OBVIOUS
<1>3. CASE ~(/\ ExecutionCurrent /\ Fence = call.fence /\ StillHead(q)
             /\ NeedsSettled(q) => Settled)
  <2>1. call' = Free /\ UNCHANGED <<sub, pending, active, phase>>
    BY <1>2, <1>3 DEF Claim
  <2>2. lastTurn \in 0..Len(turns) /\ phase \in Phases /\ intent \in BOOLEAN /\ wedge \in Wedges /\ up \in BOOLEAN
    BY DEF TypeOK
  <2>. QED  BY <1>1, <2>1, <2>2, LeavesStep
<1>4. CASE /\ ExecutionCurrent /\ Fence = call.fence /\ StillHead(q)
           /\ NeedsSettled(q) => Settled
  <2>0. PICK n : n = Len(sub) + 1
    OBVIOUS
  <2>1. /\ sub' = Append(sub, NewSubmission(q, TRUE, "none", 0))
        /\ pending' = SubSeq(pending, Len(q) + 1, Len(pending))
        /\ active' = {n} /\ phase' = "IssuingTurn" /\ call' = [pc |-> "claimed", s |-> n]
    BY <1>2, <1>4, <2>0 DEF Claim
  <2>2. /\ \A s \in Subs : sub[s].delivery # "none"
        /\ \A t \in 1..Len(turns) : ~turns[t].live
    BY <1>1, <1>2, <1>4, ClaimFinds
  <2>3. /\ pending \in Seq(Entries) /\ Ordered(pending) /\ Len(pending) \in Nat /\ nextPos \in Nat
        /\ Len(sub) \in Nat /\ sub \in Seq(Submissions) /\ Len(turns) \in Nat
    BY Types DEF TypeOK
  <2>4. q \in Seq(Entries) /\ Len(q) \in 1..Len(pending) /\ q = SubSeq(pending, 1, Len(q))
    <3>1. q \in Seq(Entries) /\ Len(q) > 0
      BY <1>1, <1>2 DEF FenceSays
    <3>2. Len(q) <= Len(pending) /\ q = SubSeq(pending, 1, Len(q))
      BY <1>4 DEF StillHead
    <3>3. Len(q) \in Nat
      BY <3>1
    <3>. QED  BY <2>3, <3>1, <3>2, <3>3
  <2>5. PICK P : P = Range1(q)
    OBVIOUS
  <2>6. /\ Ordered(q) /\ pending' \in Seq(Entries) /\ Ordered(pending')
        /\ P \subseteq Queue /\ Queue' = Queue \ P /\ \A a \in P, e \in Queue' : a.pos < e.pos
    <3>1. PICK k \in 1..Len(pending) : k = Len(q)
      BY <2>4
    <3>2. PICK r : r = pending'
      OBVIOUS
    <3>3. q = SubSeq(pending, 1, k) /\ r = SubSeq(pending, k + 1, Len(pending))
      BY <2>1, <2>4, <3>1, <3>2
    <3>4. /\ Ordered(q) /\ r \in Seq(Entries) /\ Ordered(r)
          /\ Range1(q) \subseteq Range1(pending) /\ Range1(r) = Range1(pending) \ Range1(q)
          /\ \A a \in Range1(q), e \in Range1(r) : a.pos < e.pos
      <4> DEFINE h == HeadOf(pending, k)
                 l == RestOf(pending, k)
      <4>1. /\ Ordered(h) /\ l \in Seq(Entries) /\ Ordered(l)
            /\ Range1(h) \subseteq Range1(pending) /\ Range1(l) = Range1(pending) \ Range1(h)
            /\ \A a \in Range1(h), e \in Range1(l) : a.pos < e.pos
        BY <2>3, SplitOf
      <4>2. q = h /\ r = l
        BY <3>3 DEF HeadOf, RestOf
      <4> HIDE DEF h, l
      <4>. QED  BY <4>1, <4>2
    <3>5. Queue' = Range1(r)
      BY <3>2 DEF Queue, Range1
    <3>. QED  BY <2>5, <3>2, <3>4, <3>5 DEF Queue
  <2>7. PICK o : o = NewSubmission(q, TRUE, "none", 0)
    OBVIOUS
  <2>8. /\ o \in Submissions /\ o.from = q /\ o.text = UNION {TextOf(e) : e \in P}
        /\ o.initial /\ o.effective /\ o.delivery = "none" /\ o.target = 0 /\ o.resolved = "no"
    <3>1. PICK T : T = UNION {TextOf(e) : e \in P}
      OBVIOUS
    <3>2. o = [from |-> q, text |-> T, initial |-> TRUE, effective |-> TRUE, delivery |-> "none",
               target |-> 0, resolved |-> "no", waiting |-> FALSE]
      BY <2>5, <2>7, <3>1 DEF NewSubmission
    <3>3. T \in SUBSET (Msgs \X Nat)
      BY <2>6, <3>1, ClaimedText
    <3>4. o \in Submissions
      BY <2>4, <3>2, <3>3 DEF Submissions, Deliveries
    <3>5. /\ o.from = q /\ o.text = T /\ o.initial /\ o.effective /\ o.delivery = "none"
          /\ o.target = 0 /\ o.resolved = "no"
      BY <3>2
    <3>. QED  BY <3>1, <3>4, <3>5
  <2>9. sub' = Append(sub, o)
    BY <2>1, <2>7
  <2>10. /\ sub' \in Seq(Submissions) /\ Len(sub') = n /\ sub'[n] = o
         /\ \A x \in Subs : sub'[x] = sub[x]
         /\ n \notin Subs /\ \A x : x \in Subs' <=> x \in Subs \/ x = n
    <3>1. /\ sub' \in Seq(Submissions) /\ Len(sub') = Len(sub) + 1
          /\ \A i \in 1..Len(sub) : sub'[i] = sub[i]
          /\ sub'[Len(sub) + 1] = o
      BY <2>3, <2>8, <2>9, AppendOf
    <3>2. n \notin 1..Len(sub) /\ \A x : x \in 1..n <=> x \in 1..Len(sub) \/ x = n
      BY <2>0, <2>3
    <3>. QED  BY <2>0, <3>1, <3>2 DEF Subs
  <2>11. call'.pc = "claimed" /\ call'.s = n
    BY <2>1
  <2>12. Sent' = Sent /\ Sent \subseteq Subs /\ turns' = turns /\ got' = got
    BY <1>1, Types DEF Sent, Range1
  <2>13. Texts' /\ ExposedStays' /\ PlacesAreKept' /\ InOrder'
    <3>1. \A x \in Subs : ~CanMove(x)'
      BY <2>2, <2>10, <2>11 DEF CanMove, InCall
    <3>2. UNCHANGED <<msg, nextPos, got>> /\ Len(q) > 0
      BY <1>1, <2>4
    <3>. QED  BY <2>0, <2>4, <2>5, <2>6, <2>8, <2>9, <3>1, <3>2, ClaimedTexts
  <2>14. TypeOK'
    <3>1. \A i \in 1..Len(pending') : pending'[i].pos < nextPos'
      <4>1. \A e \in Queue' : e.pos < nextPos'
        BY <1>1, <2>6, QueueTypes
      <4>. QED  BY <2>6, <4>1, RangeOf DEF Queue
    <3>2. \A i, j \in 1..Len(pending') : i < j => pending'[i].pos < pending'[j].pos
      BY <2>6 DEF Ordered
    <3>3. \A t \in 1..Len(sub') : sub'[t].target <= Len(turns')
      <4>1. \A t \in Subs : sub[t].target <= Len(turns)
        BY DEF TypeOK, Subs
      <4>. QED  BY <2>3, <2>8, <2>10, <2>12, <4>1 DEF Subs
    <3>4. active' # {} => \E t \in active' : \A u \in active' : sub'[u].initial <=> u = t
      <4>1. n \in active' /\ \A u \in active' : u = n
        BY <2>1
      <4>2. sub'[n].initial
        BY <2>8, <2>10
      <4>. QED  BY <4>1, <4>2
    <3>5. active' \subseteq 1..Len(sub')
      BY <2>0, <2>1, <2>3, <2>10
    <3>6. /\ msg' \in [Msgs -> [rev : Nat, withdrawn : BOOLEAN]] /\ nextPos' \in Nat
          /\ phase' \in Phases /\ lastTurn' \in 0..Len(turns') /\ intent' \in BOOLEAN /\ wedge' \in Wedges
          /\ turns' \in Seq([by : Nat, live : BOOLEAN])
          /\ got' \in Seq(Nat) /\ up' \in BOOLEAN
      BY <1>1, <2>1 DEF TypeOK, Phases
    <3>7. \A t \in 1..Len(turns') : turns'[t].by \in 1..Len(sub')
      <4>1. \A t \in 1..Len(turns) : turns[t].by \in Subs
        BY DEF TypeOK, Subs
      <4>. QED  BY <2>10, <2>12, <4>1 DEF Subs
    <3>8. Range1(got') \subseteq 1..Len(sub')
      BY <2>10, <2>12 DEF Sent, Subs
    <3>. QED  BY <2>6, <2>10, <3>1, <3>2, <3>3, <3>4, <3>5, <3>6, <3>7, <3>8 DEF TypeOK, Range1
  <2>15. UnsentIsAlone'
    <3>1. \A x \in Subs' : sub'[x].delivery = "none" => x = n
      BY <2>2, <2>10
    <3>2. sub'[n].initial /\ sub'[n].resolved = "no" /\ sub'[n].target = 0 /\ active' = {n} /\ n \notin Sent'
      BY <2>1, <2>8, <2>10, <2>12
    <3>. QED  BY <3>1, <3>2 DEF UnsentIsAlone
  <2>16. EffectiveClaims'
    <3>1. ASSUME NEW x \in Subs'
          PROVE  sub'[x].effective <=> /\ sub'[x].resolved # "retry"
                                       /\ sub'[x].delivery = "notDispatched" => sub'[x].resolved # "no"
      BY <2>8, <2>10, <3>1 DEF EffectiveClaims
    <3>. QED  BY <3>1 DEF EffectiveClaims
  <2>17. TargetIsTurn'
    <3>1. ASSUME NEW x \in Subs'
          PROVE  /\ sub'[x].initial /\ sub'[x].target # 0 =>
                      sub'[x].delivery = "accepted" /\ turns[sub'[x].target].by = x
                 /\ ~sub'[x].initial => sub'[x].target # 0
      BY <2>8, <2>10, <3>1 DEF TargetIsTurn
    <3>. QED  BY <2>12, <3>1 DEF TargetIsTurn
  <2>18. SentOnce'
    BY <2>10, <2>12 DEF SentOnce
  <2>19. TurnsHaveOwners'
    <3>1. \A t \in 1..Len(turns) : turns[t].by \in Subs
      BY DEF TypeOK, Subs
    <3>. QED  BY <2>2, <2>10, <2>12, <3>1 DEF TurnsHaveOwners
  <2>20. CallHolds' /\ ReportIsTrue' /\ FenceSays'
    BY <2>8, <2>10, <2>11 DEF CallHolds, ReportIsTrue, FenceSays
  <2>. QED  BY <2>13, <2>14, <2>15, <2>16, <2>17, <2>18, <2>19, <2>20 DEF Texts
<1>. QED
  BY <1>3, <1>4

LEMMA SteerStep == ASSUME Inv, NEW i \in DOMAIN pending, Steer(i) PROVE Inv'
<1> USE DEF Inv
<1>0. PICK n, q, g : n = Len(sub) + 1 /\ q = pending[i] /\ g = RetainedTarget
  OBVIOUS
<1>1. /\ g # 0 /\ q.of = 0 /\ call.pc = "free"
      /\ sub' = Append(sub, NewSubmission(<<q>>, FALSE, "crossing", g))
      /\ active' = active \union {n} /\ pending' = Without(pending, i)
      /\ UNCHANGED <<msg, nextPos, phase, lastTurn, intent, wedge, turns, got, up>>
      /\ call' = [pc |-> "prepared", s |-> n, settle |-> FALSE, fence |-> Fence']
  BY <1>0 DEF Steer, Changeable
<1>2. /\ pending \in Seq(Entries) /\ Ordered(pending) /\ Len(pending) \in Nat /\ nextPos \in Nat
      /\ Len(sub) \in Nat /\ sub \in Seq(Submissions) /\ Len(turns) \in Nat /\ active \subseteq Subs
      /\ i \in 1..Len(pending)
  BY Types DEF TypeOK
<1>3. q \in Queue /\ q \in Entries
  BY <1>0, <1>2, QueueTypes
<1>4. /\ Original \in active /\ sub[Original].initial /\ g \in 1..Len(turns)
      /\ sub[Original].delivery \in {"unknown", "accepted"}
  BY <1>0, <1>1, RetainedIs
<1>5. \A x \in Subs : sub[x].delivery # "none"
  BY <1>4 DEF UnsentIsAlone
<1>6. PICK f, P : f = <<q>> /\ P = {q}
  OBVIOUS
<1>7. f \in Seq(Entries) /\ Len(f) = 1 /\ f[1] = q /\ Ordered(f) /\ Range1(f) = P
  <2>1. f \in Seq(Entries) /\ Len(f) = 1 /\ f[1] = q
    BY <1>3, <1>6
  <2>2. Ordered(f)
    BY <2>1 DEF Ordered
  <2>3. \A x : x \in Range1(f) <=> \E k \in 1..1 : f[k] = x
    BY <2>1, RangeOf
  <2>4. Range1(f) = P
    BY <1>6, <2>1, <2>3
  <2>. QED  BY <2>1, <2>2, <2>4
<1>8. pending' \in Seq(Entries) /\ Ordered(pending') /\ P \subseteq Queue /\ Queue' = Queue \ P
  <2>1. /\ Without(pending, i) \in Seq(Entries) /\ Ordered(Without(pending, i))
        /\ Range1(Without(pending, i)) = Range1(pending) \ {pending[i]}
    BY <1>2, WithoutOf
  <2>2. Queue' = Range1(Without(pending, i))
    BY <1>1 DEF Queue
  <2>. QED  BY <1>0, <1>1, <1>3, <1>6, <2>1, <2>2 DEF Queue
<1>9. PICK o : o = NewSubmission(f, FALSE, "crossing", g)
  OBVIOUS
<1>10. /\ o \in Submissions /\ o.from = f /\ o.text = UNION {TextOf(e) : e \in P}
       /\ ~o.initial /\ o.effective /\ o.delivery = "crossing" /\ o.target = g /\ o.resolved = "no"
  <2>1. PICK T : T = UNION {TextOf(e) : e \in P}
    OBVIOUS
  <2>2. o = [from |-> f, text |-> T, initial |-> FALSE, effective |-> TRUE, delivery |-> "crossing",
             target |-> g, resolved |-> "no", waiting |-> FALSE]
    BY <1>7, <1>9, <2>1 DEF NewSubmission
  <2>3. T \in SUBSET (Msgs \X Nat)
    BY <1>8, <2>1, ClaimedText
  <2>4. g \in Nat
    BY <1>4
  <2>5. o \in Submissions
    BY <1>7, <2>2, <2>3, <2>4 DEF Submissions, Deliveries
  <2>6. /\ o.from = f /\ o.text = T /\ ~o.initial /\ o.effective /\ o.delivery = "crossing"
        /\ o.target = g /\ o.resolved = "no"
    BY <2>2
  <2>. QED  BY <2>1, <2>5, <2>6
<1>11. sub' = Append(sub, o)
  BY <1>1, <1>6, <1>9
<1>12. /\ sub' \in Seq(Submissions) /\ Len(sub') = n /\ sub'[n] = o
       /\ \A x \in Subs : sub'[x] = sub[x]
       /\ n \notin Subs /\ n \in Subs' /\ \A x : x \in Subs' <=> x \in Subs \/ x = n
  <2>1. /\ sub' \in Seq(Submissions) /\ Len(sub') = Len(sub) + 1
        /\ \A k \in 1..Len(sub) : sub'[k] = sub[k]
        /\ sub'[Len(sub) + 1] = o
    BY <1>2, <1>10, <1>11, AppendOf
  <2>2. n \notin 1..Len(sub) /\ \A x : x \in 1..n <=> x \in 1..Len(sub) \/ x = n
    BY <1>0, <1>2
  <2>. QED  BY <1>0, <2>1, <2>2 DEF Subs
<1>13. call'.pc = "prepared" /\ call'.s = n /\ call'.fence = Fence'
  BY <1>1
<1>14. Sent' = Sent /\ Sent \subseteq Subs /\ turns' = turns /\ got' = got
  BY <1>1, Types DEF Sent, Range1
<1>15. Texts' /\ ExposedStays' /\ PlacesAreKept' /\ InOrder'
  <2>1. \A x \in Subs : ~CanMove(x)'
    BY <1>5, <1>12, <1>13 DEF CanMove, InCall
  <2>2. UNCHANGED <<msg, nextPos, got>> /\ Len(f) > 0
    BY <1>1, <1>7
  <2>3. P = Range1(f) /\ f \in Seq(Entries) /\ Ordered(f)
    BY <1>7
  <2>4. o.initial => \A a \in P, e \in Queue' : a.pos < e.pos
    BY <1>10
  <2>. QED  BY <1>0, <1>8, <1>10, <1>11, <2>1, <2>2, <2>3, <2>4, ClaimedTexts
<1>16. TypeOK'
  <2>1. \A k \in 1..Len(pending') : pending'[k].pos < nextPos'
    <3>1. \A e \in Queue' : e.pos < nextPos'
      BY <1>1, <1>8, QueueTypes
    <3>. QED  BY <1>8, <3>1, RangeOf DEF Queue
  <2>2. \A k, j \in 1..Len(pending') : k < j => pending'[k].pos < pending'[j].pos
    BY <1>8 DEF Ordered
  <2>3. \A t \in 1..Len(sub') : sub'[t].target <= Len(turns')
    <3>1. \A t \in Subs : sub[t].target <= Len(turns)
      BY DEF TypeOK, Subs
    <3>2. g <= Len(turns)
      BY <1>2, <1>4
    <3>. QED  BY <1>10, <1>12, <1>14, <3>1, <3>2 DEF Subs
  <2>4. active' # {} => \E t \in active' : \A u \in active' : sub'[u].initial <=> u = t
    <3>1. PICK t \in active : \A u \in active : sub[u].initial <=> u = t
      BY <1>4 DEF TypeOK
    <3>2. \A u \in active : u \in Subs /\ u # n /\ sub'[u] = sub[u]
      BY <1>2, <1>12
    <3>3. ASSUME NEW u \in active' PROVE sub'[u].initial <=> u = t
      <4>1. CASE u = n
        BY <1>10, <1>12, <3>2, <4>1
      <4>2. CASE u \in active
        BY <3>1, <3>2, <4>2
      <4>. QED  BY <1>1, <4>1, <4>2
    <3>. QED  BY <1>1, <3>1, <3>3
  <2>5. active' \subseteq 1..Len(sub')
    BY <1>1, <1>2, <1>12 DEF Subs
  <2>6. /\ msg' \in [Msgs -> [rev : Nat, withdrawn : BOOLEAN]] /\ nextPos' \in Nat
        /\ phase' \in Phases /\ lastTurn' \in 0..Len(turns') /\ intent' \in BOOLEAN /\ wedge' \in Wedges
        /\ turns' \in Seq([by : Nat, live : BOOLEAN])
        /\ got' \in Seq(Nat) /\ up' \in BOOLEAN
    BY <1>1 DEF TypeOK
  <2>7. \A t \in 1..Len(turns') : turns'[t].by \in 1..Len(sub')
    <3>1. \A t \in 1..Len(turns) : turns[t].by \in Subs
      BY DEF TypeOK, Subs
    <3>. QED  BY <1>12, <1>14, <3>1 DEF Subs
  <2>8. Range1(got') \subseteq 1..Len(sub')
    BY <1>12, <1>14 DEF Sent, Subs
  <2>. QED  BY <1>8, <1>12, <2>1, <2>2, <2>3, <2>4, <2>5, <2>6, <2>7, <2>8 DEF TypeOK, Range1
<1>17. UnsentIsAlone'
  <2>1. \A x \in Subs' : sub'[x].delivery # "none"
    BY <1>5, <1>10, <1>12
  <2>. QED  BY <2>1 DEF UnsentIsAlone
<1>18. EffectiveClaims'
  <2>1. ASSUME NEW x \in Subs'
        PROVE  sub'[x].effective <=> /\ sub'[x].resolved # "retry"
                                     /\ sub'[x].delivery = "notDispatched" => sub'[x].resolved # "no"
    BY <1>10, <1>12, <2>1 DEF EffectiveClaims
  <2>. QED  BY <2>1 DEF EffectiveClaims
<1>19. TargetIsTurn'
  <2>1. ASSUME NEW x \in Subs'
        PROVE  /\ sub'[x].initial /\ sub'[x].target # 0 =>
                    sub'[x].delivery = "accepted" /\ turns[sub'[x].target].by = x
               /\ ~sub'[x].initial => sub'[x].target # 0
    <3>1. CASE x = n
      BY <1>1, <1>10, <1>12, <3>1
    <3>2. CASE x \in Subs
      <4>1. sub'[x] = sub[x]
        BY <1>12, <3>2
      <4>. QED  BY <3>2, <4>1 DEF TargetIsTurn
    <3>. QED  BY <1>12, <2>1, <3>1, <3>2
  <2>. QED  BY <1>14, <2>1 DEF TargetIsTurn
<1>20. SentOnce'
  BY <1>12, <1>14 DEF SentOnce
<1>21. TurnsHaveOwners'
  <2>1. \A t \in 1..Len(turns) : turns[t].by \in Subs
    BY DEF TypeOK, Subs
  <2>2. \A t \in 1..Len(turns) : turns[t].live => turns[t].by \in active'
    BY <1>1 DEF TurnsHaveOwners
  <2>. QED  BY <1>12, <1>14, <2>1, <2>2 DEF TurnsHaveOwners
<1>22. CallHolds'
  BY <1>1, <1>10, <1>12, <1>13, <1>14 DEF CallHolds
<1>23. ReportIsTrue'
  BY <1>13 DEF ReportIsTrue
<1>24. FenceSays'
  <2>1. DOMAIN sub' = Subs'
    BY <1>12 DEF Subs
  <2>2. Fence'.attempts[n] = <<sub'[n].delivery, sub'[n].target, sub'[n].resolved>>
    BY <1>12, <2>1 DEF Fence
  <2>3. Fence'.attempts[n][3] = "no"
    BY <1>10, <1>12, <2>2
  <2>. QED  BY <1>13, <2>3 DEF FenceSays
<1>. QED
  BY <1>15, <1>16, <1>17, <1>18, <1>19, <1>20, <1>21, <1>22, <1>23, <1>24 DEF Texts

-----------------------------------------------------------------------------
(* The invariant.                                                          *)

LEMMA InvInit == Init => Inv
<1> SUFFICES ASSUME Init PROVE Inv
  OBVIOUS
<1>1. /\ msg = [m \in Msgs |-> [rev |-> 0, withdrawn |-> FALSE]] /\ pending = <<>> /\ nextPos = 1
      /\ sub = <<>> /\ active = {} /\ phase = "Idle" /\ lastTurn = 0 /\ intent = FALSE
      /\ wedge = "none" /\ turns = <<>> /\ got = <<>> /\ call.pc = "free" /\ up = TRUE
  BY DEF Init, Free
<1>2. /\ Len(pending) = 0 /\ Len(sub) = 0 /\ Len(turns) = 0 /\ Len(got) = 0
      /\ Queue = {} /\ Subs = {} /\ Sent = {} /\ 1..0 = {}
  BY <1>1 DEF Queue, Subs, Sent, Range1
<1>3. \A m \in Msgs : msg[m].rev = 0 /\ msg[m].withdrawn = FALSE
  BY <1>1
<1>4. TypeOK
  <2>1. msg \in [Msgs -> [rev : Nat, withdrawn : BOOLEAN]]
    BY <1>1
  <2>2. pending \in Seq(Entries) /\ sub \in Seq(Submissions) /\ got \in Seq(Nat)
        /\ turns \in Seq([by : Nat, live : BOOLEAN])
    BY <1>1
  <2>3. intent \in BOOLEAN /\ wedge \in Wedges /\ up \in BOOLEAN
    BY <1>1 DEF Wedges
  <2>. QED  BY <1>1, <1>2, <2>1, <2>2, <2>3 DEF TypeOK, Phases, Sent
<1>5. UnsentIsAlone /\ EffectiveClaims /\ TargetIsTurn
  BY <1>2 DEF UnsentIsAlone, EffectiveClaims, TargetIsTurn
<1>6. SentOnce /\ TurnsHaveOwners
  BY <1>2 DEF SentOnce, TurnsHaveOwners
<1>7. CallHolds /\ ReportIsTrue /\ FenceSays
  BY <1>1 DEF CallHolds, ReportIsTrue, FenceSays
<1>8. QueueIsCurrent /\ TextIsFrozen /\ TextIsCurrent /\ OnePlace
  BY <1>2 DEF QueueIsCurrent, TextIsFrozen, TextIsCurrent, OnePlace
<1>9. SomePlace /\ WithdrawnWasAccepted
  BY <1>3 DEF SomePlace, WithdrawnWasAccepted
<1>10. ExposedStays /\ PlacesAreKept /\ InOrder
  BY <1>2 DEF ExposedStays, PlacesAreKept, InOrder
<1>. QED
  BY <1>4, <1>5, <1>6, <1>7, <1>8, <1>9, <1>10 DEF Inv

LEMMA InvNext == Inv /\ [Next]_vars => Inv'
<1> SUFFICES ASSUME Inv, [Next]_vars PROVE Inv'
  OBVIOUS
<1>1. CASE Human
  BY <1>1, AcceptStep, EditStep, WithdrawStep, KeepStep, RetryStep, StopStep, SteerStep DEF Human
<1>2. CASE Pass
  BY <1>2, SelectStep, ClaimStep, ResumeStep, PrepareStep, RefusedSteps, TakenSteps, SettleStep,
     FrameStep, EndSampleStep, EndConsumeStep DEF Pass
<1>3. CASE Faults
  BY <1>3, FreeingSteps, RefusedSteps, TakenSteps, WedgeSteps DEF Faults
<1>4. CASE Restore
  BY <1>4, RestoreStep
<1>5. CASE \E t \in DOMAIN turns : TurnEnds(t)
  BY <1>5, TurnEndsStep
<1>6. CASE UNCHANGED vars
  <2>1. phase \in Phases /\ lastTurn \in 0..Len(turns) /\ intent \in BOOLEAN /\ wedge \in Wedges /\ up \in BOOLEAN
    BY DEF Inv, TypeOK
  <2>. QED  BY <1>6, <2>1, HeaderStep DEF vars
<1>. QED
  BY <1>1, <1>2, <1>3, <1>4, <1>5, <1>6 DEF Next

\* The inductive invariant holds in every reachable state: where each message
\* is, what may still be sent or released, and what a fence that matches says.
THEOREM Invariance == Spec => []Inv
  BY InvInit, InvNext, PTL DEF Spec

-----------------------------------------------------------------------------
(* What follows.                                                           *)

\* What stands in the queue, is claimed or was retried is current.
LEMMA HeldIsCurrent ==
  ASSUME Inv, NEW m \in Msgs
  PROVE  /\ \A e \in Queue : Holds(e, m) => msg[m].rev > 0 /\ ~msg[m].withdrawn
         /\ \A s \in Subs : sub[s].effective /\ Carries(s, m) => msg[m].rev > 0 /\ ~msg[m].withdrawn
<1> USE DEF Inv
<1>1. \A s \in Subs : (sub[s].effective \/ sub[s].resolved = "retry") /\ Carries(s, m) =>
        msg[m].rev > 0 /\ ~msg[m].withdrawn
  BY DEF TextIsCurrent, Carries, Current
<1>2. ASSUME NEW e \in Queue, Holds(e, m) PROVE msg[m].rev > 0 /\ ~msg[m].withdrawn
  <2>1. CASE e.of = 0
    <3>1. e.m = m /\ Current(<<e.m, e.rev>>)
      BY <1>2, <2>1, HoldsMessage DEF QueueIsCurrent
    <3>. QED  BY <3>1 DEF Current
  <2>2. CASE e.of # 0
    <3>1. e.of \in Subs /\ sub[e.of].resolved = "retry" /\ Carries(e.of, m)
      BY <1>2, <2>2, HoldsRetry DEF QueueIsCurrent
    <3>. QED  BY <1>1, <3>1
  <2>. QED  BY <2>1, <2>2
<1>. QED
  BY <1>1, <1>2

LEMMA IsAccounted == Inv => Accounted
<1> SUFFICES ASSUME Inv, NEW m \in Msgs
             PROVE  Cardinality(QueuedAs(m))
                      + Cardinality({s \in DOMAIN sub : sub[s].effective /\ Carries(s, m)})
                    = IF msg[m].rev > 0 /\ ~msg[m].withdrawn THEN 1 ELSE 0
  BY DEF Accounted
<1> USE DEF Inv
<1> DEFINE A == QueuedAs(m)
           C == {s \in DOMAIN sub : sub[s].effective /\ Carries(s, m)}
<1>1. DOMAIN sub = Subs /\ DOMAIN pending = 1..Len(pending) /\ pending \in Seq(Entries) /\ Ordered(pending)
  BY Types
<1>2. \A i : i \in A <=> i \in 1..Len(pending) /\ Holds(pending[i], m)
  BY <1>1 DEF QueuedAs, Holds
<1>3. \A s : s \in C <=> s \in Subs /\ sub[s].effective /\ Carries(s, m)
  BY <1>1
<1>4. \A i \in 1..Len(pending) : pending[i] \in Queue
  BY QueueTypes
<1>5. \A e \in Queue : \E i \in 1..Len(pending) : pending[i] = e
  BY QueueTypes
<1> HIDE DEF A, C
<1>6. CASE msg[m].rev > 0 /\ ~msg[m].withdrawn
  <2>1. CASE \E e \in Queue : Holds(e, m)
    <3>1. PICK i \in 1..Len(pending) : Holds(pending[i], m)
      BY <1>5, <2>1
    <3>2. A = {i}
      <4>1. \A j \in A : j = i
        <5>1. SUFFICES ASSUME NEW j \in A PROVE j = i
          OBVIOUS
        <5>2. j \in 1..Len(pending) /\ Holds(pending[j], m)
          BY <1>2
        <5>3. pending[j] = pending[i]
          BY <1>4, <3>1, <5>2 DEF OnePlace
        <5>. QED  BY <1>1, <5>2, <5>3, PositionsDiffer
      <4>. QED  BY <1>2, <3>1, <4>1
    <3>3. C = {}
      BY <1>3, <1>4, <3>1 DEF OnePlace
    <3>4. Cardinality(A) = 1 /\ Cardinality(C) = 0
      BY <3>2, <3>3, FS_Singleton, FS_EmptySet
    <3>. QED  BY <1>6, <3>4 DEF A, C
  <2>2. CASE ~ \E e \in Queue : Holds(e, m)
    <3>1. PICK s \in Subs : sub[s].effective /\ Carries(s, m)
      BY <1>6, <2>2 DEF SomePlace
    <3>2. C = {s}
      BY <1>3, <3>1 DEF OnePlace
    <3>3. A = {}
      BY <1>2, <1>4, <2>2
    <3>4. Cardinality(C) = 1 /\ Cardinality(A) = 0
      BY <3>2, <3>3, FS_Singleton, FS_EmptySet
    <3>. QED  BY <1>6, <3>4 DEF A, C
  <2>. QED  BY <2>1, <2>2
<1>7. CASE ~(msg[m].rev > 0 /\ ~msg[m].withdrawn)
  <2>1. A = {} /\ C = {}
    BY <1>2, <1>3, <1>4, <1>7, HeldIsCurrent
  <2>2. Cardinality(A) = 0 /\ Cardinality(C) = 0
    BY <2>1, FS_EmptySet
  <2>. QED  BY <1>7, <2>2 DEF A, C
<1>. QED
  BY <1>6, <1>7

LEMMA IsOneTurn == Inv => OneTurn
<1> SUFFICES ASSUME Inv PROVE Cardinality({t \in DOMAIN turns : turns[t].live}) <= 1
  BY DEF OneTurn
<1> USE DEF Inv
<1> DEFINE L == {t \in DOMAIN turns : turns[t].live}
<1>1. \A t, u \in L : t = u
  <2>1. SUFFICES ASSUME NEW t \in 1..Len(turns), NEW u \in 1..Len(turns), turns[t].live, turns[u].live
                 PROVE  t = u
    BY Types
  <2>2. /\ turns[t].by \in active /\ sub[turns[t].by].initial
        /\ turns[u].by \in active /\ sub[turns[u].by].initial
    BY <2>1 DEF TurnsHaveOwners
  <2>3. turns[t].by = turns[u].by
    BY <2>2, OneInitial
  <2>. QED  BY <2>3 DEF TurnsHaveOwners
<1> HIDE DEF L
<1>2. CASE L = {}
  <2>1. Cardinality(L) = 0
    BY <1>2, FS_EmptySet
  <2>. QED  BY <2>1 DEF L
<1>3. CASE L # {}
  <2>1. PICK t : L = {t}
    BY <1>1, <1>3
  <2>2. Cardinality(L) = 1
    BY <2>1, FS_Singleton
  <2>. QED  BY <2>2 DEF L
<1>. QED
  BY <1>2, <1>3

\* What was taken of a message is taken by its retries and at most one claim.
LEMMA IsNoDuplicate == Inv => NoDuplicateDelivery
<1> SUFFICES ASSUME Inv, NEW m \in Msgs
             PROVE  Cardinality({i \in DOMAIN got : Carries(got[i], m)})
                      <= 1 + Cardinality({s \in DOMAIN sub : Carries(s, m) /\ sub[s].resolved = "retry"})
  BY DEF NoDuplicateDelivery
<1> USE DEF Inv
<1> DEFINE G == {i \in DOMAIN got : Carries(got[i], m)}
           R == {s \in DOMAIN sub : Carries(s, m) /\ sub[s].resolved = "retry"}
<1>1. DOMAIN sub = Subs /\ DOMAIN got = 1..Len(got) /\ Len(sub) \in Nat
  BY Types
<1>2. \A i : i \in G <=> i \in 1..Len(got) /\ Carries(got[i], m)
  BY <1>1
<1>3. \A s : s \in R <=> s \in Subs /\ Carries(s, m) /\ sub[s].resolved = "retry"
  BY <1>1
<1> HIDE DEF G, R
<1>4. IsFiniteSet(R) /\ Cardinality(R) \in Nat
  <2>1. IsFiniteSet(Subs)
    BY <1>1, FS_Interval DEF Subs
  <2>2. R \in SUBSET Subs
    BY <1>3
  <2>3. IsFiniteSet(R)
    BY <2>1, <2>2, FS_Subset
  <2>. QED  BY <2>3, FS_CardinalityType
<1>5. \A i \in G : got[i] \in Subs /\ Carries(got[i], m) /\ (sub[got[i]].effective \/ got[i] \in R)
  <2>1. SUFFICES ASSUME NEW i \in G
                 PROVE  got[i] \in Subs /\ Carries(got[i], m) /\ (sub[got[i]].effective \/ got[i] \in R)
    OBVIOUS
  <2>2. got[i] \in Sent /\ got[i] \in Subs /\ Carries(got[i], m)
    BY <1>2, Types
  <2>3. sub[got[i]].effective \/ sub[got[i]].resolved = "retry"
    BY <2>2, ExposedIsClaimed DEF Exposed
  <2>. QED  BY <1>3, <2>2, <2>3
<1>6. PICK x : \A s \in Subs : sub[s].effective /\ Carries(s, m) => s = x
  <2>1. CASE \E s \in Subs : sub[s].effective /\ Carries(s, m)
    <3>1. PICK y \in Subs : sub[y].effective /\ Carries(y, m)
      BY <2>1
    <3>. QED  BY <3>1 DEF OnePlace
  <2>2. CASE ~ \E s \in Subs : sub[s].effective /\ Carries(s, m)
    BY <2>2
  <2>. QED  BY <2>1, <2>2
<1>7. PICK T : T = R \union {x}
  OBVIOUS
<1>8. IsFiniteSet(T) /\ Cardinality(T) <= 1 + Cardinality(R) /\ Cardinality(T) \in Nat
  <2>1. /\ IsFiniteSet(R \union {x})
        /\ Cardinality(R \union {x}) = IF x \in R THEN Cardinality(R) ELSE Cardinality(R) + 1
    BY <1>4, FS_AddElement
  <2>2. /\ IsFiniteSet(T)
        /\ Cardinality(T) = Cardinality(R) \/ Cardinality(T) = Cardinality(R) + 1
    BY <1>7, <2>1
  <2>. QED  BY <1>4, <2>2
<1>9. [i \in G |-> got[i]] \in Injection(G, T)
  <2>1. \A i \in G : got[i] \in T
    BY <1>5, <1>6, <1>7
  <2>2. \A i, j \in G : got[i] = got[j] => i = j
    BY <1>2 DEF SentOnce
  <2>. QED  BY <2>1, <2>2 DEF Injection, IsInjective
<1>10. IsFiniteSet(G) /\ Cardinality(G) <= Cardinality(T)
  BY <1>8, <1>9, FS_Injection
<1>11. Cardinality(G) \in Nat
  BY <1>10, FS_CardinalityType
<1>12. Cardinality(G) <= 1 + Cardinality(R)
  BY <1>4, <1>8, <1>10, <1>11
<1>. QED
  BY <1>12 DEF G, R

LEMMA IsRetractedUnseen == Inv => RetractedUnseen
<1> SUFFICES ASSUME Inv, NEW i \in DOMAIN got, NEW p \in sub[got[i]].text
             PROVE  p[2] = msg[p[1]].rev /\ ~msg[p[1]].withdrawn
  BY DEF RetractedUnseen
<1>1. got[i] \in Sent /\ got[i] \in Subs
  BY Types DEF Inv
<1>2. sub[got[i]].effective \/ sub[got[i]].resolved = "retry"
  BY <1>1, ExposedIsClaimed DEF Exposed
<1>. QED
  BY <1>1, <1>2 DEF Inv, TextIsCurrent, Current

\* Every accepted message that stands is in exactly one place, the queue or one
\* claim in force, a withdrawn one in none, and at most one native turn runs,
\* for every interleaving of authors, passes, faults and crashes.
THEOREM CarrierStaysSound == Spec => []CarrierIsSound
<1>1. Inv => CarrierIsSound
  BY IsAccounted, IsOneTurn DEF CarrierIsSound, Inv
<1>. QED
  BY <1>1, Invariance, PTL

\* The provider gets a message at most once plus once for each human retry, only
\* in the text its author stands by, and in the order of the queue.
THEOREM DeliveryStaysRight == Spec => []DeliveredRight
<1>1. Inv => DeliveredRight
  BY IsNoDuplicate, IsRetractedUnseen DEF DeliveredRight, Inv
<1>. QED
  BY <1>1, Invariance, PTL

\* What an execution looks like when a step closes it.
ClosedSettled ==
  active # {} /\ active' = {} =>
    /\ \A s \in active :
         sub'[s].delivery # "none" /\ (sub'[s].delivery = "crossing" => IsResolved(s)')
    /\ Settled'

LEMMA EndCloses == ASSUME Inv, EndConsume PROVE ClosedSettled
<1>1. CASE ~MayClose
  BY <1>1 DEF EndConsume, ClosedSettled
<1>2. CASE MayClose
  <2>1. call.pc = "endSampled" /\ Fence = call.fence /\ sub' = sub /\ turns' = turns
    BY <1>2 DEF EndConsume, MayClose
  <2>2. /\ Settled
        /\ \A s \in active :
             sub[s].delivery # "none" /\ (sub[s].delivery = "crossing" => IsResolved(s))
    BY <2>1, EndFindsSettled
  <2>3. Settled'
    BY <2>1, <2>2 DEF Settled
  <2>4. \A s \in active : IsResolved(s) => IsResolved(s)'
    BY <2>1 DEF IsResolved
  <2>. QED  BY <2>1, <2>2, <2>3, <2>4 DEF ClosedSettled
<1>. QED
  BY <1>1, <1>2

\* A release closes an execution only by taking its one submission, which never
\* reached the provider and so opened no turn.
LEMMA SettleCloses == ASSUME Inv, Settle PROVE ClosedSettled
<1>1. CASE ~Releases(call.s)
  BY <1>1 DEF Settle, ClosedSettled
<1>2. CASE Releases(call.s)
  <2>1. /\ active' = active \ {call.s} /\ call.s \notin Sent
        /\ sub'[call.s].delivery = "notDispatched" /\ turns' = turns
    BY <1>2, SettleReleases DEF Settle
  <2>2. SUFFICES ASSUME active # {}, active' = {}
                 PROVE  /\ \A s \in active : sub'[s].delivery = "notDispatched"
                        /\ Settled'
    BY DEF ClosedSettled
  <2>3. \A s \in active : s = call.s
    BY <2>1, <2>2
  <2>4. \A t \in 1..Len(turns) : ~turns[t].live
    BY <2>1, <2>3 DEF Inv, TurnsHaveOwners
  <2>5. Settled'
    BY <2>1, <2>4, Types DEF Settled, Inv
  <2>. QED  BY <2>1, <2>3, <2>5
<1>. QED
  BY <1>1, <1>2

\* An execution is closed only with every submission of it decided and no
\* native turn running, whatever crossed, was lost, steered or stopped before.
THEOREM ExecutionClosesSettled == Spec => ClosesSettled
<1>1. Inv /\ [Next]_vars => [ClosedSettled]_vars
  <2> SUFFICES ASSUME Inv, Next PROVE ClosedSettled
    OBVIOUS
  <2>1. CASE EndConsume
    BY <2>1, EndCloses
  <2>2. CASE Settle
    BY <2>2, SettleCloses
  <2>3. CASE Claim
    BY <2>3 DEF Claim, ClosedSettled
  <2>4. ASSUME NEW i \in DOMAIN pending, Steer(i) PROVE ClosedSettled
    BY <2>4 DEF Steer, ClosedSettled
  <2>5. ASSUME ~EndConsume, ~Settle, ~Claim, \A i \in DOMAIN pending : ~Steer(i)
        PROVE  active' = active
    BY <2>5 DEF Next, Human, Pass, Faults, Accept, Edit, Withdraw, Keep, Retry, Stop,
       Select, Resume, Prepare, Preflight, Answered, Frame, EndSample, PrepareFails,
       BeforeSend, AnswerLost, RequestLost, SettleFails, StopTimeout,
       SystemError, RowFails, Crash, Restore, TurnEnds
  <2>. QED  BY <2>1, <2>2, <2>3, <2>4, <2>5 DEF ClosedSettled
<1>. QED
  BY Invariance, <1>1, PTL DEF Spec, ClosesSettled, ClosedSettled
=============================================================================
