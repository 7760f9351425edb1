--------------------------- MODULE ScheduleStore ---------------------------
(***************************************************************************)
(* The rows of kaliv-schedules.db and what one transaction of               *)
(* ScheduleStore / ScheduleAdminStore does to a row, as operators on        *)
(* records (worker/app/scheduler.py, worker/app/schedule_admin.py), and the *)
(* two pure policies the runner decides with: refusal() and                 *)
(* _permanent_refusal().                                                    *)
(*                                                                          *)
(* Time is a natural number.  A cadence is "every:Period"; daily cadences   *)
(* differ only in the next due instant.  A fingerprint is abstracted to     *)
(* "the stored approval matches this schedule's tool and arguments", since  *)
(* a stored schedule's arguments are never edited.                          *)
(***************************************************************************)
EXTENDS Integers, FiniteSets

CONSTANTS
  Sched,        \* schedule ids; each stands for one (tool, args) pair
  Read, Write,  \* schedules whose tool has risk "read" / "write"; the others
                \* are desktop tools or tools missing from the registry
  Schedulable,  \* schedules whose tool the registry allows unattended
  Malformed,    \* stored rows whose cadence or misfire policy does not parse
  Period,       \* the cadence
  GrantTTL,     \* ttl_days: how long an approval lasts
  Budgets,      \* the max_runs values an operator may choose (0 = unlimited)
  MaxClaims     \* bound: claim ids issued per schedule

ASSUME StoreAssumption ==
  /\ Read \cup Write \subseteq Sched
  /\ Read \cap Write = {}
  /\ Schedulable \subseteq Read \cup Write
  /\ Period \in Nat \ {0}
  /\ GrantTTL \in Nat
  /\ Budgets \subseteq Nat
  /\ MaxClaims \in Nat

(***************************************************************************)
(* A claim id is uuid4().hex in the code; here the k-th id issued for s.    *)
(***************************************************************************)
Claim == Sched \X (1..MaxClaims)

Row == [row : {"absent", "live", "deleted"}, enabled : BOOLEAN, rev : Nat,
        used : Nat, max : Nat, due : Nat, missed : Nat, expires : Nat,
        approved : BOOLEAN]

NoRow(state) ==
  [row |-> state, enabled |-> FALSE, rev |-> 0, used |-> 0, max |-> 0,
   due |-> 0, missed |-> 0, expires |-> 0, approved |-> FALSE]

(* The occurrences table: one row per claim, "none" before it is written.   *)
Occurrence ==
  [status : {"none", "reserved", "reserved_noslot", "executed", "released",
             "abandoned", "unknown"},
   job : BOOLEAN]           \* job_id bound

NoOccurrence == [status |-> "none", job |-> FALSE]

Unresolved(o) == o.status \in {"reserved", "reserved_noslot"}

(* The ScheduleClaim a runner holds in memory: a frozen copy of the grant.  *)
Snapshot ==
  [rev : Nat, reserved : BOOLEAN, used : Nat, max : Nat, approved : BOOLEAN,
   expired : BOOLEAN, due : Nat]

NoSnapshot ==
  [rev |-> 0, reserved |-> FALSE, used |-> 0, max |-> 0, approved |-> FALSE,
   expired |-> FALSE, due |-> 0]

-----------------------------------------------------------------------------
(* One row under one transaction.                                           *)

NextRun(t) == t + Period

NewGrant(s, t, max) ==
  [row |-> "live", enabled |-> TRUE, rev |-> 0, used |-> 0, max |-> max,
   due |-> NextRun(t), missed |-> 0, expires |-> t + GrantTTL,
   approved |-> s \in Write]

(* Mutants of catch_up: the claimed instant stays due; the claimed          *)
(* occurrence is subtracted twice.                                          *)
CatchUpStaysDue(due, t) ==
  LET n == (t - due) \div Period + 1
  IN  IF t < due THEN [missed |-> 0, due |-> due]
                 ELSE [missed |-> n - 1, due |-> due + (n - 1) * Period]

CatchUpTwice(due, t) ==
  LET n == (t - due) \div Period + 1
  IN  IF t < due THEN [missed |-> 0, due |-> due]
                 ELSE [missed |-> n - 2, due |-> due + n * Period]

(* catch_up: the occurrences due by t are one claim plus the missed ones.   *)
CatchUp(due, t) ==
  LET n == (t - due) \div Period + 1
  IN  IF t < due THEN [missed |-> 0, due |-> due]
                 ELSE [missed |-> n - 1, due |-> due + n * Period]

HasBudget(g) == g.max = 0 \/ g.used < g.max

(* Mutant: a long absence goes uncounted.                                   *)
TakenForgetsMissed(g, t) ==
  [g EXCEPT !.due = CatchUp(g.due, t).due,
            !.used = IF HasBudget(g) THEN @ + 1 ELSE @]

(* claim_due's UPDATE: advance due_at, count the missed, reserve a slot.    *)
Taken(g, t) ==
  [g EXCEPT !.due = CatchUp(g.due, t).due,
            !.missed = @ + CatchUp(g.due, t).missed,
            !.used = IF HasBudget(g) THEN @ + 1 ELSE @]

TakenSnapshot(g, t) ==
  [rev |-> g.rev, reserved |-> HasBudget(g), used |-> Taken(g, t).used,
   max |-> g.max, approved |-> g.approved, expired |-> t >= g.expires,
   due |-> g.due]

(* runs_used = MAX(runs_used-1, 0); no row, no effect.                      *)
Refunded(g) == [g EXCEPT !.used = IF @ > 0 THEN @ - 1 ELSE 0]

(* set_enabled(False) and set_enabled(True): a no-op when already so.       *)
Paused(g) == IF g.enabled THEN [g EXCEPT !.enabled = FALSE, !.rev = @ + 1] ELSE g

Resumed(g, t) ==
  IF g.enabled THEN g
  ELSE [g EXCEPT !.enabled = TRUE, !.due = NextRun(t), !.rev = @ + 1]

(* Mutant: the unknown outcome is noted, the grant keeps running.           *)
NotedUnknown(g) == IF g.row = "live" THEN [g EXCEPT !.rev = @ + 1] ELSE g

(* resolve_unknown_and_pause bumps the revision even if already paused.     *)
PausedUnknown(g) ==
  IF g.row = "live" THEN [g EXCEPT !.enabled = FALSE, !.rev = @ + 1] ELSE g

(* Mutant: renewal extends the horizon and forgets the budget.              *)
RenewedKeepsUsed(s, g, t, max, enable) ==
  [g EXCEPT !.approved = s \in Write, !.expires = t + GrantTTL, !.max = max,
            !.rev = @ + 1,
            !.enabled = IF enable = "keep" THEN @ ELSE enable = "on",
            !.due = IF enable = "on" THEN NextRun(t) ELSE @]

(* renew: enable is "keep" (None), "on" (True) or "off" (False).            *)
Renewed(s, g, t, max, enable) ==
  [g EXCEPT !.approved = s \in Write, !.expires = t + GrantTTL, !.max = max,
            !.used = 0, !.rev = @ + 1,
            !.enabled = IF enable = "keep" THEN @ ELSE enable = "on",
            !.due = IF enable = "on" THEN NextRun(t) ELSE @]

-----------------------------------------------------------------------------
(* The policies.  p is a claim's snapshot.                                  *)

Overused(p) == p.max > 0 /\ p.used > p.max

(* Mutant: the count alone decides, not whether the claim holds a slot.     *)
RefusedByCount(s, p, layerOn, toolOn) ==
  \/ ~layerOn \/ ~toolOn \/ p.expired \/ Overused(p)
  \/ s \notin Read \cup Write
  \/ s \in Write /\ ~p.approved

(* refusal() with a claim in hand: why an occurrence must not run.          *)
Refused(s, p, layerOn, toolOn) ==
  \/ ~layerOn
  \/ ~toolOn
  \/ p.expired
  \/ ~p.reserved
  \/ Overused(p)
  \/ s \notin Read \cup Write
  \/ s \in Write /\ ~p.approved

(* _permanent_refusal(): whether the refused grant is also switched off.    *)
Permanent(s, p) ==
  \/ p.expired
  \/ ~p.reserved
  \/ Overused(p)
  \/ s \notin Read \cup Write
  \/ s \notin Schedulable
  \/ s \in Write /\ ~p.approved

(* refusal() without a claim, as ScheduleAdmin.describe asks it.            *)
BlockedReason(s, g, t) ==
  \/ t >= g.expires
  \/ g.max > 0 /\ g.used >= g.max
  \/ s \notin Read \cup Write
  \/ s \in Write /\ ~g.approved

=============================================================================
