---------------------------- MODULE OperationRow ----------------------------
(***************************************************************************)
(* One row of the `operations` table and the writes its repository offers  *)
(* (crates/calm-server/src/operation: repo_sqlite.rs, repo_sqlite/writes,  *)
(* mod.rs, settlement.rs, interaction_retry.rs, owned_parked.rs).  Every   *)
(* repository call is one SQLite write transaction, so each operator below *)
(* is a pure map from the row it reads to the row it commits; the modules  *)
(* that extend this one decide who calls it and when.                      *)
(*                                                                         *)
(* Time.  The code compares lease_until_ms and parked_deadline_ms with the *)
(* wall clock and never with each other.  A lease is therefore "live"      *)
(* (lease_until_ms >= now) until it turns "expired" (< now), and a parked  *)
(* deadline is "ahead" until it is "past"; "none" is SQL NULL.             *)
(*                                                                         *)
(* Data.  lease_owner is a fresh identifier per claim, NoOwner is NULL.    *)
(* phase_detail_json matters only for a pending row: who may claim it next *)
(* (retryOwner) and whether a blocker is recorded.  done is the set of     *)
(* compensation steps recorded as completed.  rec is the owner-state entry *)
(* of tx_output_json (the execution an adapter owns), NoRec when absent.   *)
(* The rest of tx_output_json is committed by the transaction that leaves  *)
(* pending, so required_output cannot fail later and is left out.          *)
(***************************************************************************)
EXTENDS Integers, FiniteSets

CONSTANTS
  Tokens,      \* lease owner identifiers (new_id)
  NoOwner,     \* lease_owner IS NULL
  NoRec,       \* no owner-state entry in tx_output_json
  NumSteps     \* steps of a compensation plan

ASSUME RowAssumption ==
  /\ NoOwner \notin Tokens
  /\ NumSteps \in Nat

Steps == 1 .. NumSteps

DrivablePhases == {"pending", "tx_committed", "app_server_interact",
                   "spawn_started", "spawn_succeeded", "compensating"}

TerminalPhases == {"succeeded", "failed", "stuck"}

Phases == DrivablePhases \cup TerminalPhases \cup {"awaiting_retry", "parked"}

RowType(Recs) ==
  [phase      : Phases,
   owner      : Tokens \cup {NoOwner},
   lease      : {"none", "live", "expired"},
   retryOwner : {"driver", "scheduler"},
   blocker    : {"none", "recorded"},
   attempt    : Nat,
   artifacts  : {"none", "recorded"},
   deadline   : {"none", "ahead", "past"},
   done       : SUBSET Steps,
   rec        : Recs \cup {NoRec}]

\* insert_pending_row: a fresh row, owned by the driver or by the scheduler.
NewRow(retryOwner) ==
  [phase |-> "pending", owner |-> NoOwner, lease |-> "none",
   retryOwner |-> retryOwner, blocker |-> "none", attempt |-> 0,
   artifacts |-> "none", deadline |-> "none", done |-> {}, rec |-> NoRec]

Settled(r) == r.phase \in TerminalPhases

-----------------------------------------------------------------------------
(* Claims.  A claim is what the claiming task keeps in memory: the row as  *)
(* it was when the lease was taken.                                        *)

ClaimOf(o, r) == [op |-> o, phase |-> r.phase, owner |-> r.owner, done |-> r.done]

Leased(r, t) == [r EXCEPT !.owner = t, !.lease = "live"]

Unleased(r) == [r EXCEPT !.owner = NoOwner, !.lease = "none"]

\* lease_owner IS NULL OR lease_until_ms < now
OwnerFree(r) == r.owner = NoOwner \/ r.lease = "expired"

\* DRIVER_MAY_CLAIM: a pending row the scheduler owns is not the driver's.
DriverMayClaim(r) == r.phase = "pending" => r.retryOwner = "driver"

\* claim_drivable: lease_until_ms IS NULL OR lease_until_ms < now.
DrivableAwaiting(r) ==
  r.phase \in DrivablePhases \cup {"awaiting_retry"} /\ r.lease # "live" /\ DriverMayClaim(r)
DrivableParked(r) ==
  r.phase \in DrivablePhases \cup {"parked"} /\ r.lease # "live" /\ DriverMayClaim(r)
DrivableNeverExpires(r) ==
  r.phase \in DrivablePhases /\ r.lease = "none" /\ DriverMayClaim(r)
Drivable(r) ==
  /\ r.phase \in DrivablePhases
  /\ r.lease # "live"
  /\ DriverMayClaim(r)

\* claim_operation_for_boot_recovery ignores the lease of the previous process.
BootDrivable(r) == r.phase \in DrivablePhases /\ DriverMayClaim(r)

\* claim_pending_retry: the scheduler adopts a pending row, its blocker kept.
PendingRetryable(r) == r.phase = "pending" /\ OwnerFree(r)
RetryClaimed(r, t) == [Leased(r, t) EXCEPT !.retryOwner = "scheduler"]

\* claim_retry: one winner per attempt generation of an awaiting_retry row.
RetryWonAnyAttempt(r, expected) == r.phase = "awaiting_retry" /\ r.owner = NoOwner
RetryWon(r, expected) ==
  /\ r.phase = "awaiting_retry"
  /\ r.attempt = expected
  /\ r.owner = NoOwner
RetryPressed(r, t) ==
  [Leased(r, t) EXCEPT !.phase = "app_server_interact", !.attempt = r.attempt + 1]

\* claim_parked (steady state) and claim_parked_for_boot.
ParkedClaimable(r, boot) == r.phase = "parked" /\ (boot \/ OwnerFree(r))

\* fetch_claimed_parked: the claim is used only if it is still on a parked row.
ParkedFetched(r, t) == r.phase = "parked" /\ r.owner = t

\* has_live_claim_tx / require_live_claim_tx.
LiveClaimPhaseOnly(r, c) == r.phase = c.phase
LiveClaim(r, c) ==
  /\ r.phase = c.phase
  /\ r.owner = c.owner
  /\ r.lease = "live"

-----------------------------------------------------------------------------
(* Writes.  Each gives the committed row; the caller has checked the fence *)
(* of the call (LiveClaim for the claimed writes).                         *)

\* set_phase, set_phase_and_tx_output and advance_to_tx_committed_tx.
EnterPhase(r, p) ==
  [Unleased(r) EXCEPT !.phase = p, !.retryOwner = "driver", !.blocker = "none"]

\* set_compensating: a fresh plan, no step completed.
EnterCompensating(r) == [EnterPhase(r, "compensating") EXCEPT !.done = {}]

\* set_parked.
EnterParked(r) == [EnterPhase(r, "parked") EXCEPT !.deadline = "ahead"]

\* write_terminal_tx: the only way into a terminal phase.
SettleKeepsLease(r, p) == [r EXCEPT !.phase = p, !.deadline = "none"]
Settle(r, p) ==
  [EnterPhase(r, p) EXCEPT !.deadline = "none"]

\* defer_pending_claim: the driver keeps the lease time as a backoff, the
\* scheduler gives it up.
Defer(r, retryOwner) ==
  [r EXCEPT !.owner = NoOwner,
            !.lease = IF retryOwner = "scheduler" THEN "none" ELSE @,
            !.retryOwner = retryOwner,
            !.blocker = "recorded"]

\* defer_unclaimed_pending: only while no live claimant holds the row.
Unclaimed(r) == r.phase = "pending" /\ OwnerFree(r)
DeferUnclaimed(r) ==
  [Unleased(r) EXCEPT !.retryOwner = "scheduler", !.blocker = "recorded"]

\* release_pending_for_retry, run by the Busy waker under the drive mutex.
ReleasePending(r) == IF Unclaimed(r) THEN Unleased(r) ELSE r

\* update_compensation_state.
RecordLastStepOnly(r, done) == [r EXCEPT !.done = done \ r.done]
RecordSteps(r, done) == [r EXCEPT !.done = done]

\* retain_owned_tx: an adapter that owns its resource keeps the row in phase.
Retained(r) == r.rec # NoRec
=============================================================================
