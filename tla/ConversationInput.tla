-------------------------- MODULE ConversationInput --------------------------
(***************************************************************************)
(* How a human message of a Codex conversation reaches the provider's      *)
(* native turn: the one durable queue of accepted messages, the claim that *)
(* freezes a batch of them into a submission, the crossing marker that is  *)
(* committed before the provider call, the report that settles it, the END *)
(* that closes the execution, and the human decisions (Keep, Retry) on a   *)
(* crossing whose outcome is unknown.                                      *)
(*                                                                         *)
(* Every action is one SQLite transaction of the conversation carrier, one *)
(* provider call, or one step of the world.  `call` is the holder of the   *)
(* harness's issuance mutex: the run loop's pass or a steer.  The HTTP     *)
(* handlers (Accept, Edit, Withdraw, Keep, Retry) commit between any two   *)
(* of its steps.                                                           *)
(***************************************************************************)
EXTENDS Integers, Sequences, FiniteSets

CONSTANTS
  N,            \* messages are 1..N, accepted in this order
  Budgets       \* bounds on what the humans do and on what goes wrong

\* messages: how many are accepted; faults: lost requests and answers and failed
\* writes; crashes: of the server.
BudgetType ==
  [{"messages", "edits", "decisions", "stops", "steers", "faults", "crashes"} -> Nat]

ASSUME BoundsAssumption ==
  /\ N \in Nat \ {0}
  /\ Budgets \subseteq BudgetType

VARIABLES
  msg,          \* message -> its current revision and whether it was withdrawn
  pending,      \* the sole queue: messages and retry intents, by position
  nextPos,      \* the queue's allocation counter
  sub,          \* the immutable submissions with their claim and attempt
  active,       \* submissions of the open execution, its Initial among them
  phase, lastTurn, intent,            \* the durable runtime header
  wedge,        \* why the session row is failed, or "none": its execution is current
  turns,        \* native turns of the provider, in the order they started
  got,          \* submissions the provider took, in the order it took them
  call,         \* the holder of the issuance mutex
  up,           \* the server runs
  left          \* what is left of the budget

vars == <<msg, pending, nextPos, sub, active, phase, lastTurn, intent, wedge,
          turns, got, call, up, left>>

Msgs == 1..N
Deliveries == {"none", "crossing", "unknown", "notDispatched", "accepted"}
Phases == {"Idle", "IssuingTurn", "TurnRunning", "IssuingInterrupt",
           "TurnCompleted", "Wedged"}
\* "row": another writer failed the row and the header does not say so yet; the
\* others are the header's wedged_reason.
Wedges == {"none", "row", "timeout", "error", "runtime"}
Free == [pc |-> "free"]

Range1(s) == {s[i] : i \in DOMAIN s}

Init ==
  /\ msg = [m \in Msgs |-> [rev |-> 0, withdrawn |-> FALSE]]
  /\ pending = <<>> /\ nextPos = 1
  /\ sub = <<>> /\ active = {}
  /\ phase = "Idle" /\ lastTurn = 0 /\ intent = FALSE /\ wedge = "none"
  /\ turns = <<>> /\ got = <<>>
  /\ call = Free /\ up = TRUE
  /\ left \in Budgets

Spend(what) ==
  /\ left[what] > 0
  /\ left' = [left EXCEPT ![what] = @ - 1]

-----------------------------------------------------------------------------
(* Reading the carrier.                                                    *)

\* A failed row permits content and returned facts, never a claim or a crossing.
ExecutionCurrent == wedge = "none"

Reason == IF wedge = "row" THEN "none" ELSE wedge

\* The comparison value of a sampled execution: the header, which does not hold
\* the row's state, and everything but the queue.
Fence ==
  [phase |-> phase, last |-> lastTurn, intent |-> intent, active |-> active,
   reason |-> Reason,
   attempts |-> [s \in DOMAIN sub |->
                   <<sub[s].delivery, sub[s].target, sub[s].resolved>>]]

\* The message revisions an entry of the queue stands for.
TextOf(e) == IF e.of = 0 THEN {<<e.m, e.rev>>} ELSE sub[e.of].text

IsResolved(s) == sub[s].resolved # "no"
IsHeld(s) == sub[s].delivery \in {"crossing", "unknown"} /\ ~IsResolved(s)

\* A decision on a crossing with no known turn: its thread must settle first.
RequiresSettled ==
  \E s \in DOMAIN sub : IsResolved(s) /\ (sub[s].waiting \/ sub[s].target = 0)

ResolvedWithoutTarget ==
  /\ active # {}
  /\ \A s \in active : IsResolved(s) /\ sub[s].target = 0

\* What the provider answers when the thread is read: nothing runs.
Settled == \A t \in DOMAIN turns : ~turns[t].live

Original == CHOOSE s \in active : sub[s].initial

\* The open execution's native turn, known from the Initial's report, or 0.
RetainedTarget ==
  IF \E s \in active : sub[s].initial /\ sub[s].delivery \in {"unknown", "accepted"}
  THEN sub[Original].target ELSE 0

\* The same, once every submission of the execution is settled.
SettledForEnd(s) ==
  \/ sub[s].delivery \in {"unknown", "accepted"}
  \/ s # Original /\ sub[s].delivery # "none" /\ IsResolved(s)

MutRetainedForEnd == RetainedTarget

OriginalExecution ==
  IF \A s \in active : SettledForEnd(s) THEN RetainedTarget ELSE 0

-----------------------------------------------------------------------------
(* The humans.                                                             *)

Accept(m) ==
  /\ msg[m].rev = 0 /\ \A k \in 1..(m - 1) : msg[k].rev > 0
  /\ Spend("messages")
  /\ msg' = [msg EXCEPT ![m].rev = 1]
  /\ pending' = Append(pending, [m |-> m, rev |-> 1, of |-> 0, pos |-> nextPos])
  /\ nextPos' = nextPos + 1
  /\ UNCHANGED <<sub, active, phase, lastTurn, intent, wedge, turns, got, call, up>>

\* The queue entry the author may change: its current revision, unclaimed.
Changeable(i) ==
  /\ pending[i].of = 0
  /\ pending[i].rev = msg[pending[i].m].rev
  /\ ~msg[pending[i].m].withdrawn

Edit(i) ==
  /\ i \in DOMAIN pending /\ Changeable(i)
  /\ Spend("edits")
  /\ msg' = [msg EXCEPT ![pending[i].m].rev = @ + 1]
  /\ pending' = [pending EXCEPT ![i].rev = @ + 1]
  /\ UNCHANGED <<nextPos, sub, active, phase, lastTurn, intent, wedge, turns, got, call, up>>

Without(s, i) == [j \in 1..(Len(s) - 1) |-> IF j < i THEN s[j] ELSE s[j + 1]]

Withdraw(i) ==
  /\ i \in DOMAIN pending /\ Changeable(i)
  /\ Spend("edits")
  /\ msg' = [msg EXCEPT ![pending[i].m].withdrawn = TRUE]
  /\ pending' = Without(pending, i)
  /\ UNCHANGED <<nextPos, sub, active, phase, lastTurn, intent, wedge, turns, got, call, up>>

\* The human leaves a held crossing as it is: its claims stay.
Keep(s) ==
  /\ s \in DOMAIN sub /\ IsHeld(s)
  /\ Spend("decisions")
  /\ sub' = [sub EXCEPT ![s].resolved = "keep", ![s].waiting = (sub[s].target = 0)]
  /\ UNCHANGED <<msg, pending, nextPos, active, phase, lastTurn, intent, wedge, turns, got, call, up>>

\* The human sends a held crossing again: its claims retire and one successor
\* joins the end of the queue.
Retry(s) ==
  /\ s \in DOMAIN sub /\ IsHeld(s)
  /\ \A p \in sub[s].text : ~msg[p[1]].withdrawn
  /\ Spend("decisions")
  /\ sub' = [sub EXCEPT ![s].resolved = "retry", ![s].waiting = (sub[s].target = 0),
                        ![s].effective = FALSE]
  /\ pending' = Append(pending, [m |-> 0, rev |-> 0, of |-> s, pos |-> nextPos])
  /\ nextPos' = nextPos + 1
  /\ UNCHANGED <<msg, active, phase, lastTurn, intent, wedge, turns, got, call, up>>

\* Commands and events are served by the run loop, so they never meet a pass;
\* they may meet a steer, which runs on its own task.
RunLoopServes ==
  /\ up
  /\ \/ call.pc = "free"
     \/ call.pc \in {"prepared", "reported"} /\ ~sub[call.s].initial

Stop ==
  /\ RunLoopServes
  /\ ExecutionCurrent /\ phase = "TurnRunning" /\ ~intent /\ RetainedTarget # 0
  /\ Spend("stops")
  /\ phase' = "IssuingInterrupt" /\ intent' = TRUE
  /\ UNCHANGED <<msg, pending, nextPos, sub, active, lastTurn, wedge, turns, got, call, up>>

\* The interrupt was not confirmed in time: the carrier fails, and only the
\* turn's own END restores it.
StopTimeout ==
  /\ up /\ call.pc = "free"
  /\ phase = "IssuingInterrupt"
  /\ phase' = "Wedged" /\ wedge' = "timeout"
  /\ UNCHANGED <<msg, pending, nextPos, sub, active, lastTurn, intent, turns, got, call, up, left>>

\* The provider reports a system error, in any phase: the carrier fails for good.
SystemError ==
  /\ RunLoopServes
  /\ Spend("faults")
  /\ phase' = "Wedged" /\ wedge' = "error"
  /\ UNCHANGED <<msg, pending, nextPos, sub, active, lastTurn, intent, turns, got, call, up>>

\* Another writer (the reaper) fails the session row, between any two steps of a
\* pass; the header is left as it is.
RowFails ==
  /\ up /\ ExecutionCurrent /\ ~intent
  /\ Spend("faults")
  /\ wedge' = "row"
  /\ UNCHANGED <<msg, pending, nextPos, sub, active, phase, lastTurn, intent, turns, got, call, up>>

-----------------------------------------------------------------------------
(* The pass: select, claim.                                                *)

MutIssueOnlyIdle ==
  /\ up /\ call.pc = "free" /\ ExecutionCurrent /\ ~intent
  /\ pending # <<>>
  /\ active = {} /\ phase = "Idle"

MayIssue ==
  /\ up /\ call.pc = "free" /\ ExecutionCurrent /\ ~intent
  /\ pending # <<>>
  /\ \/ active = {} /\ phase \in {"Idle", "TurnCompleted"}
     \/ ResolvedWithoutTarget

\* The first n entries are the batch: the one retry intent or all leading messages.
Batch(n) ==
  \/ n = 1 /\ pending[1].of # 0
  \/ /\ \A i \in 1..n : pending[i].of = 0
     /\ n < Len(pending) => pending[n + 1].of # 0

Select ==
  /\ MayIssue
  /\ \E n \in 1..Len(pending) :
       /\ Batch(n)
       /\ call' = [pc |-> "selected", prefix |-> SubSeq(pending, 1, n), fence |-> Fence]
  /\ UNCHANGED <<msg, pending, nextPos, sub, active, phase, lastTurn, intent, wedge, turns, got, up, left>>

NewSubmission(entries, initial, delivery, target) ==
  [from |-> entries, text |-> UNION {TextOf(e) : e \in Range1(entries)},
   initial |-> initial, effective |-> TRUE, delivery |-> delivery,
   target |-> target, resolved |-> "no", waiting |-> FALSE]

MutIgnoresRevision(prefix) ==
  /\ Len(prefix) <= Len(pending)
  /\ \A i \in DOMAIN prefix : pending[i].m = prefix[i].m /\ pending[i].of = prefix[i].of

\* The selection still is the exact head of the queue, revisions included.
StillHead(prefix) ==
  /\ Len(prefix) <= Len(pending)
  /\ SubSeq(pending, 1, Len(prefix)) = prefix

MutNeverSettles(prefix) == FALSE

NeedsSettled(prefix) == RequiresSettled \/ prefix[1].of # 0

Claim ==
  /\ call.pc = "selected"
  /\ LET prefix == call.prefix IN
     IF /\ ExecutionCurrent /\ Fence = call.fence /\ StillHead(prefix)
        /\ NeedsSettled(prefix) => Settled
     THEN /\ sub' = Append(sub, NewSubmission(prefix, TRUE, "none", 0))
          /\ pending' = SubSeq(pending, Len(prefix) + 1, Len(pending))
          /\ active' = {Len(sub) + 1}
          /\ phase' = "IssuingTurn"
          /\ call' = [pc |-> "claimed", s |-> Len(sub) + 1]
     ELSE /\ call' = Free
          /\ UNCHANGED <<sub, pending, active, phase>>
  /\ UNCHANGED <<msg, nextPos, lastTurn, intent, wedge, turns, got, up, left>>

\* A claim that never crossed is taken up again by a later pass.
Resume ==
  /\ up /\ call.pc = "free" /\ ExecutionCurrent /\ ~intent /\ phase = "IssuingTurn"
  /\ \E s \in active :
       /\ active = {s} /\ sub[s].delivery = "none"
       /\ call' = [pc |-> "claimed", s |-> s]
  /\ UNCHANGED <<msg, pending, nextPos, sub, active, phase, lastTurn, intent, wedge, turns, got, up, left>>

-----------------------------------------------------------------------------
(* The crossing: marker, provider call, report.                            *)

\* The call keeps the fence of the state its marker leaves.
Prepare ==
  /\ call.pc = "claimed"
  /\ ExecutionCurrent /\ phase = "IssuingTurn" /\ call.s \in active /\ sub[call.s].effective
  /\ sub' = [sub EXCEPT ![call.s].delivery = "crossing"]
  /\ UNCHANGED <<msg, pending, nextPos, active, phase, lastTurn, intent, wedge, turns, got, up, left>>
  /\ call' = [pc |-> "prepared", s |-> call.s, fence |-> Fence',
              settle |-> NeedsSettled(sub[call.s].from)]

\* Choosing the model or committing the marker fails, as it does on a failed row;
\* the claim stays.
PrepareFails ==
  /\ call.pc = "claimed"
  /\ IF ExecutionCurrent THEN Spend("faults") ELSE UNCHANGED left
  /\ call' = Free
  /\ UNCHANGED <<msg, pending, nextPos, sub, active, phase, lastTurn, intent, wedge, turns, got, up>>

\* Steering claims one queued message and marks its crossing in one transaction.
Steer(i) ==
  /\ up /\ call.pc = "free"
  /\ ExecutionCurrent /\ phase = "TurnRunning" /\ RetainedTarget # 0
  /\ Spend("steers")
  /\ i \in DOMAIN pending /\ Changeable(i)
  /\ LET s == Len(sub) + 1 IN
     /\ sub' = Append(sub, NewSubmission(<<pending[i]>>, FALSE, "crossing", RetainedTarget))
     /\ active' = active \union {s}
     /\ pending' = Without(pending, i)
     /\ UNCHANGED <<msg, nextPos, phase, lastTurn, intent, wedge, turns, got, up>>
     /\ call' = [pc |-> "prepared", s |-> s, settle |-> FALSE, fence |-> Fence']

\* The last check before the wire: nothing changed since the marker.
Admitted == ExecutionCurrent /\ Fence = call.fence

Report(delivery, target) ==
  call' = [pc |-> "reported", s |-> call.s, delivery |-> delivery, target |-> target]

\* Refused before anything was sent.
Preflight ==
  /\ call.pc = "prepared"
  /\ \/ ~Admitted \/ (call.settle /\ ~Settled)
     \/ ~sub[call.s].initial /\ ~turns[sub[call.s].target].live
  /\ Report("notDispatched", sub[call.s].target)
  /\ UNCHANGED <<msg, pending, nextPos, sub, active, phase, lastTurn, intent, wedge, turns, got, up, left>>

BeforeSend ==
  /\ call.pc = "prepared"
  /\ Spend("faults")
  /\ Report("notDispatched", sub[call.s].target)
  /\ UNCHANGED <<msg, pending, nextPos, sub, active, phase, lastTurn, intent, wedge, turns, got, up>>

Crosses == call.pc = "prepared" /\ Admitted /\ (call.settle => Settled)

\* The provider takes the request: a start opens a turn, a steer joins one.
Taken ==
  LET s == call.s IN
  /\ IF sub[s].initial
     THEN turns' = Append(turns, [by |-> s, live |-> TRUE])
     ELSE turns[sub[s].target].live /\ UNCHANGED turns
  /\ got' = Append(got, s)

Answered ==
  /\ Crosses /\ Taken
  /\ Report("accepted", IF sub[call.s].initial THEN Len(turns) + 1 ELSE sub[call.s].target)
  /\ UNCHANGED <<msg, pending, nextPos, sub, active, phase, lastTurn, intent, wedge, up, left>>

MutAfterSendIsRefusal == "notDispatched"

\* An error after the request was sent says nothing about its delivery.
AfterSend == "unknown"

AnswerLost ==
  /\ Crosses /\ Taken
  /\ Spend("faults")
  /\ Report(AfterSend, sub[call.s].target)
  /\ UNCHANGED <<msg, pending, nextPos, sub, active, phase, lastTurn, intent, wedge, up>>

RequestLost ==
  /\ Crosses
  /\ IF sub[call.s].initial \/ turns[sub[call.s].target].live
     THEN Spend("faults")
     ELSE UNCHANGED left      \* the provider refuses to steer an ended turn
  /\ Report(AfterSend, sub[call.s].target)
  /\ UNCHANGED <<msg, pending, nextPos, sub, active, phase, lastTurn, intent, wedge, turns, got, up>>

MutAppendRestored(entries) == pending \o entries

ByPosition(S) ==
  CHOOSE q \in [1..Cardinality(S) -> S] :
    /\ \A i, j \in 1..Cardinality(S) : i < j => q[i].pos < q[j].pos
    /\ \A e \in S : \E i \in 1..Cardinality(S) : q[i] = e

\* Released entries return to their original places in the queue.
Restored(entries) ==
  ByPosition(Range1(pending) \union
             {e \in Range1(entries) :
                e.of # 0 \/ (msg[e.m].rev = e.rev /\ ~msg[e.m].withdrawn)})

MutReleaseResolved(s) == call.delivery = "notDispatched"

Releases(s) == call.delivery = "notDispatched" /\ ~IsResolved(s)

\* The report is recorded; only proven non-delivery nobody decided releases.
Settle ==
  /\ call.pc = "reported"
  /\ LET s == call.s
         facts == [sub EXCEPT ![s].delivery = call.delivery, ![s].target = call.target]
     IN
     /\ IF Releases(s)
        THEN /\ sub' = [facts EXCEPT ![s].effective = FALSE]
             /\ pending' = Restored(sub[s].from)
             /\ active' = active \ {s}
        ELSE sub' = facts /\ UNCHANGED <<pending, active>>
     /\ call' = IF sub[s].initial THEN [pc |-> "settled", s |-> s] ELSE Free
  /\ UNCHANGED <<msg, nextPos, phase, lastTurn, intent, wedge, turns, got, up, left>>

\* The report cannot be written: the crossing stays held.
SettleFails ==
  /\ call.pc = "reported"
  /\ Spend("faults")
  /\ call' = Free
  /\ UNCHANGED <<msg, pending, nextPos, sub, active, phase, lastTurn, intent, wedge, turns, got, up>>

\* The pass's last transaction moves the phase from the committed checkpoint; on a
\* row that failed meanwhile it wedges the carrier.
Frame ==
  /\ call.pc = "settled"
  /\ LET s == call.s IN
     \/ /\ ExecutionCurrent /\ phase = "IssuingTurn"
        /\ sub[s].delivery = "notDispatched" /\ active = {}
        /\ phase' = "Idle" /\ UNCHANGED <<lastTurn, wedge>>
     \/ /\ ExecutionCurrent /\ phase = "IssuingTurn" /\ sub[s].delivery = "accepted"
        /\ active # {} /\ Original = s
        /\ phase' = "TurnRunning" /\ lastTurn' = sub[s].target /\ UNCHANGED wedge
     \/ /\ ExecutionCurrent
        /\ \/ phase # "IssuingTurn" \/ sub[s].delivery = "unknown"
           \/ sub[s].delivery = "notDispatched" /\ active # {}
        /\ UNCHANGED <<phase, lastTurn, wedge>>
     \/ /\ ~ExecutionCurrent
        /\ phase' = "Wedged" /\ wedge' = IF wedge = "row" THEN "runtime" ELSE wedge
        /\ lastTurn' = IF sub[s].target # 0 THEN sub[s].target ELSE lastTurn
  /\ call' = Free
  /\ UNCHANGED <<msg, pending, nextPos, sub, active, intent, turns, got, up, left>>

-----------------------------------------------------------------------------
(* END.                                                                    *)

TurnEnds(t) ==
  /\ t \in DOMAIN turns /\ turns[t].live
  /\ turns' = [turns EXCEPT ![t].live = FALSE]
  /\ UNCHANGED <<msg, pending, nextPos, sub, active, phase, lastTurn, intent, wedge, got, call, up, left>>

EndSample ==
  /\ up /\ call.pc = "free"
  /\ active # {} /\ OriginalExecution # 0 /\ ~turns[OriginalExecution].live
  /\ call' = [pc |-> "endSampled", fence |-> Fence, turn |-> OriginalExecution]
  /\ UNCHANGED <<msg, pending, nextPos, sub, active, phase, lastTurn, intent, wedge, turns, got, up, left>>

MayClose ==
  /\ Fence = call.fence
  /\ \/ phase \in {"IssuingTurn", "TurnRunning"} /\ ~intent /\ Reason = "none"
     \/ phase = "IssuingInterrupt" /\ intent /\ Reason = "none"
     \/ phase = "Wedged" /\ Reason # "none"
  /\ phase = "IssuingTurn" \/ lastTurn = call.turn


\* The END answers what a Stop's timeout left open, whether the turn still ran; it
\* does not resolve the other failures.
RestoresCarrier == wedge = "timeout" /\ intent

EndConsume ==
  /\ call.pc = "endSampled"
  /\ IF MayClose
     THEN /\ active' = {} /\ phase' = "TurnCompleted" /\ lastTurn' = call.turn
          /\ intent' = FALSE
          /\ wedge' = IF RestoresCarrier THEN "none" ELSE wedge
     ELSE UNCHANGED <<active, phase, lastTurn, intent, wedge>>
  /\ call' = Free
  /\ UNCHANGED <<msg, pending, nextPos, sub, turns, got, up, left>>

-----------------------------------------------------------------------------
(* Crash and retained recovery.                                            *)

Crash ==
  /\ up /\ Spend("crashes")
  /\ up' = FALSE /\ call' = Free
  /\ UNCHANGED <<msg, pending, nextPos, sub, active, phase, lastTurn, intent, wedge, turns, got>>

Restorable ==
  /\ ExecutionCurrent /\ ~intent
  /\ \/ active = {} /\ phase \in {"Idle", "TurnCompleted"}
     \/ phase = "IssuingTurn" /\ \E s \in active : active = {s} /\ sub[s].delivery = "none"
     \/ /\ phase \in {"IssuingTurn", "TurnRunning"} /\ active # {}
        /\ OriginalExecution # 0 /\ sub[Original].delivery = "accepted"

Restore ==
  /\ ~up /\ Restorable /\ Settled
  /\ up' = TRUE
  /\ UNCHANGED <<msg, pending, nextPos, sub, active, phase, lastTurn, intent, wedge, turns, got, call, left>>

-----------------------------------------------------------------------------
Human ==
  \/ \E m \in Msgs : Accept(m)
  \/ \E i \in DOMAIN pending : Edit(i) \/ Withdraw(i)
  \/ \E s \in DOMAIN sub : Keep(s) \/ Retry(s)
  \/ Stop
  \/ \E i \in DOMAIN pending : Steer(i)

Pass ==
  \/ Select \/ Claim \/ Resume \/ Prepare
  \/ Preflight \/ Answered \/ Settle \/ Frame
  \/ EndSample \/ EndConsume

Faults ==
  \/ PrepareFails \/ BeforeSend \/ AnswerLost \/ RequestLost \/ SettleFails
  \/ StopTimeout \/ SystemError \/ RowFails \/ Crash

Next == Human \/ Pass \/ Faults \/ Restore \/ \E t \in DOMAIN turns : TurnEnds(t)

Fairness ==
  /\ WF_vars(Select) /\ WF_vars(Resume) /\ WF_vars(EndSample)
  /\ WF_vars(Claim \/ Prepare \/ Preflight \/ Answered \/ RequestLost \/ Settle
             \/ Frame \/ EndConsume)
  /\ WF_vars(\E t \in DOMAIN turns : TurnEnds(t))

Spec == Init /\ [][Next]_vars
FairSpec == Spec /\ Fairness

-----------------------------------------------------------------------------
(* Properties.                                                             *)

Entries == [m : 0..N, rev : Nat, of : Nat, pos : Nat]
Submissions ==
  [from : Seq(Entries), text : SUBSET (Msgs \X Nat), initial : BOOLEAN, effective : BOOLEAN,
   delivery : Deliveries, target : Nat, resolved : {"no", "keep", "retry"}, waiting : BOOLEAN]

\* Every variable keeps its type: queue positions stay below the allocation
\* counter and strictly increase, and the open execution has its one Initial
\* submission (checkpoint.rs validate).
TypeOK ==
  /\ msg \in [Msgs -> [rev : Nat, withdrawn : BOOLEAN]]
  /\ pending \in Seq(Entries) /\ nextPos \in Nat
  /\ \A i \in 1..Len(pending) : pending[i].pos < nextPos
  /\ \A i, j \in 1..Len(pending) : i < j => pending[i].pos < pending[j].pos
  /\ sub \in Seq(Submissions) /\ \A s \in 1..Len(sub) : sub[s].target <= Len(turns)
  /\ active \subseteq 1..Len(sub)
  /\ active # {} => \E s \in active : \A t \in active : sub[t].initial <=> t = s
  /\ phase \in Phases /\ lastTurn \in 0..Len(turns) /\ intent \in BOOLEAN /\ wedge \in Wedges
  /\ turns \in Seq([by : Nat, live : BOOLEAN]) /\ \A t \in 1..Len(turns) : turns[t].by \in 1..Len(sub)
  /\ got \in Seq(Nat) /\ Range1(got) \subseteq 1..Len(sub)
  /\ up \in BOOLEAN

Carries(s, m) == \E p \in sub[s].text : p[1] = m

QueuedAs(m) == {i \in DOMAIN pending : \E p \in TextOf(pending[i]) : p[1] = m}

\* A message reaches the model at most once, plus once for every time a human
\* asked for a retry of a submission that carried it, whatever was lost,
\* refused, released or interrupted in between (prompt_attempt.rs rpc_failure,
\* input_dispatch settle).
NoDuplicateDelivery ==
  \A m \in Msgs :
    Cardinality({i \in DOMAIN got : Carries(got[i], m)})
      <= 1 + Cardinality({s \in DOMAIN sub : Carries(s, m) /\ sub[s].resolved = "retry"})

\* An accepted message that was not withdrawn is in exactly one place: one
\* entry of the queue or one effective claim; a withdrawn one is in none
\* (release.rs, retry.rs and claims.rs move it in one transaction each).
Accounted ==
  \A m \in Msgs :
    Cardinality(QueuedAs(m))
      + Cardinality({s \in DOMAIN sub : sub[s].effective /\ Carries(s, m)})
    = IF msg[m].rev > 0 /\ ~msg[m].withdrawn THEN 1 ELSE 0

\* The model never sees a text its author replaced or withdrew: what it got is
\* the current revision of a message that stands (claim_validation.rs,
\* pending_controls.rs).
RetractedUnseen ==
  \A i \in DOMAIN got : \A p \in sub[got[i]].text :
    p[2] = msg[p[1]].rev /\ ~msg[p[1]].withdrawn

\* Batches that open turns arrive in the order of the queue and keep that order
\* inside, also after a claim was released and its messages rejoined the queue
\* (release.rs); a retried batch has the place of its retry.
InOrder ==
  /\ \A i, j \in 1..Len(got) :
       i < j /\ sub[got[i]].initial /\ sub[got[j]].initial =>
         \A a \in Range1(sub[got[i]].from), b \in Range1(sub[got[j]].from) : a.pos < b.pos
  /\ \A i \in 1..Len(got) : LET batch == sub[got[i]].from IN
       \A a, b \in 1..Len(batch) : a < b => batch[a].pos < batch[b].pos

\* At most one native turn runs in the conversation, also when a human moved on
\* from a start whose outcome is unknown (checkpoint.rs requires_settled_activity).
OneTurn == Cardinality({t \in DOMAIN turns : turns[t].live}) <= 1

\* An execution is closed only when none of its submissions is still undecided
\* (marked but neither reported nor resolved) and no native turn runs
\* (plans.rs original_input_execution_tx, end_transition.rs consume_tx).
ClosesSettled ==
  [][active # {} /\ active' = {} =>
       /\ \A s \in active :
            sub'[s].delivery # "none" /\ (sub'[s].delivery = "crossing" => IsResolved(s)')
       /\ Settled']_vars

Blocked == \E s \in active : IsHeld(s)

\* What an END cannot resolve: the carrier waits for a human's explicit recovery.
FailedForGood == wedge \in {"row", "error", "runtime"}


\* The carrier is sound: every message in one place, one native turn at a time.
CarrierIsSound == TypeOK /\ Accounted /\ OneTurn

\* What the provider got is what the authors stand by: each message once, in its
\* current text, and in the order of acceptance.
DeliveredRight == NoDuplicateDelivery /\ RetractedUnseen /\ InOrder
=============================================================================
