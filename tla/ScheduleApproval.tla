-------------------------- MODULE ScheduleApproval --------------------------
(***************************************************************************)
(* How a scheduled write gets its grant: a human confirms a preview, the    *)
(* backend signs the previewed terms into a token that lives for minutes    *)
(* (backend/internal/httpapi/schedule_approvals.go), a paired client sends  *)
(* it with the request, and the worker verifies it against a preview of its *)
(* own, burns its nonce and stores the grant with a receipt                 *)
(* (worker/app/schedule_approval.py, schedule_api.py, schedule_admin.py).   *)
(*                                                                          *)
(* The burning and the storing are two transactions on one file.  Requests  *)
(* run in a thread pool, clients retry, the worker crashes, and the wall    *)
(* clock, which both programs read, may run ahead and be corrected.         *)
(***************************************************************************)
EXTENDS Integers, FiniteSets

CONSTANTS
  Nonce,           \* random nonces, each in one token
  Id, NoId,        \* schedule ids, never used twice
  Terms,           \* what is signed of a grant: tool, cadence, horizon, budget
  Request,         \* the worker's threads, one request to create or renew in each
  TTL,             \* scheduleApprovalTTL
  Skew,            \* _MAX_CLOCK_SKEW_SECONDS
  Retention,       \* how long a used nonce is kept
  MaxOffset,       \* how far the wall clock may run ahead before it is corrected
  Stall,           \* how long a request may sit between two of its transactions
  Faults,          \* "crash", "store_error"
  MaxNow,          \* bound: time
  MaxRequests,     \* bound: requests; a retry is another one
  MaxRevision      \* bound: changes of a row

(* The last conjunct is what a week of retention is for: a nonce is kept    *)
(* until no correction of the clock can make its token valid again.         *)
ASSUME ApprovalAssumption ==
  /\ NoId \notin Id
  /\ TTL \in Nat \ {0} /\ Skew \in Nat /\ Retention \in Nat /\ MaxOffset \in Nat
  /\ Stall \in Nat \ {0} /\ MaxNow \in Nat /\ MaxRequests \in Nat /\ MaxRevision \in Nat
  /\ Retention >= TTL + 2 * MaxOffset + Stall

VARIABLES
  now, offset,  \* real time, and how far the wall clock is ahead
  token,        \* the tokens the backend has signed
  uses,         \* schedule_approval_uses: when a nonce was used
  row,          \* the schedules
  receipts,     \* approval_receipts
  req,          \* what each request is doing
  requests      \* how many there were

time == <<now, offset>>
requesting == <<req, requests>>
vars == <<time, token, uses, row, receipts, requesting>>

-----------------------------------------------------------------------------
Clock == now + offset
Never == -1

(* A request and the claims of a token say the same things.                 *)
Body == [op : {"create"}, id : {NoId}, terms : Terms]
          \cup [op : {"renew"}, id : Id, terms : Terms]

Unsigned == [signed |-> FALSE, claims |-> <<>>, issued |-> 0, at |-> 0]
Free == [is |-> "free", terms |-> <<>>, revision |-> 0]
Gone == [Free EXCEPT !.is = "gone"]
Idle == [pc |-> "idle", body |-> <<>>, nonce |-> <<>>, since |-> 0]

TypeOK ==
  /\ now \in 0..MaxNow /\ offset \in 0..MaxOffset
  /\ token \in [Nonce -> {Unsigned} \cup
       [signed : {TRUE}, claims : Body, issued : Nat,
        at : Nat]]                  \* history: when it was really confirmed
  /\ uses \in [Nonce -> Nat \cup {Never}]
  /\ row \in [Id -> {Free, Gone} \cup
       [is : {"row"}, terms : Terms, revision : 0..MaxRevision]]
  /\ receipts \in SUBSET [id : Id, nonce : Nonce, revision : Nat,
                          at : Nat]  \* history: when it was really stored
  /\ req \in [Request -> {Idle} \cup
       [pc : {"verify", "consume", "store"}, body : Body,
        nonce : Nonce, since : Nat]]
  /\ requests \in 0..MaxRequests

Init ==
  /\ now = 0 /\ offset = 0
  /\ token = [n \in Nonce |-> Unsigned]
  /\ uses = [n \in Nonce |-> Never]
  /\ row = [i \in Id |-> Free]
  /\ receipts = {}
  /\ req = [r \in Request |-> Idle] /\ requests = 0

-----------------------------------------------------------------------------
(* A preview says what would be granted; a renewal needs its row for that.  *)
(* Its fingerprint is a hash of all it says.                                *)
Previewable(b) == b.op = "renew" => row[b.id].is = "row"

(* Both programs judge a token's time in the same way.                      *)
InTime(n) ==
  /\ token[n].issued <= Clock + Skew
  /\ Clock < token[n].issued + TTL

(* The human has confirmed; the backend previews once more and signs.       *)
Approve(n, b) ==
  /\ ~token[n].signed
  /\ Previewable(b)
  /\ token' = [token EXCEPT ![n] =
       [signed |-> TRUE, claims |-> b, issued |-> Clock, at |-> now]]
  /\ UNCHANGED <<time, uses, row, receipts, requesting>>

(* The backend compares the request with the token; one it refuses, or one  *)
(* without a token, leaves no trace.                                        *)
Forward(r, b, n) ==
  /\ req[r] = Idle /\ requests < MaxRequests
  /\ token[n].signed /\ InTime(n) /\ token[n].claims = b
  /\ req' = [req EXCEPT ![r] = [pc |-> "verify", body |-> b, nonce |-> n, since |-> 0]]
  /\ requests' = requests + 1
  /\ UNCHANGED <<time, token, uses, row, receipts>>

-----------------------------------------------------------------------------
Goto(r, to) == req' = [req EXCEPT ![r].pc = to, ![r].since = now]
Answer(r) == req' = [req EXCEPT ![r] = Idle]

\* Mutant: the worker leaves the token's time to the backend, which has checked it.
VerifiedByBackend(n, b) == token[n].claims = b

Verified(n, b) == InTime(n) /\ token[n].claims = b

(* The worker previews the request and verifies the token against that.     *)
VerifyApproval(r) ==
  LET b == req[r].body
  IN  /\ req[r].pc = "verify"
      /\ IF Previewable(b) /\ Verified(req[r].nonce, b) THEN Goto(r, "consume") ELSE Answer(r)
      /\ UNCHANGED <<time, token, uses, row, receipts, requests>>

\* Mutant: a used nonce is kept for the lifetime of its token.
PrunedAtExpiry == [n \in Nonce |-> IF uses[n] < Clock - TTL THEN Never ELSE uses[n]]

Pruned == [n \in Nonce |-> IF uses[n] < Clock - Retention THEN Never ELSE uses[n]]

(* One transaction: old nonces are pruned, this one is inserted.  A nonce   *)
(* that is there rolls both back.                                           *)
ConsumeApproval(r) ==
  LET n == req[r].nonce
  IN  /\ req[r].pc = "consume"
      /\ \/ /\ Pruned[n] = Never
            /\ uses' = [Pruned EXCEPT ![n] = Clock]
            /\ Goto(r, "store")
         \/ /\ Pruned[n] # Never \/ "store_error" \in Faults
            /\ Answer(r)
            /\ UNCHANGED uses
      /\ UNCHANGED <<time, token, row, receipts, requests>>

-----------------------------------------------------------------------------
\* Mutant: a receipt carries the revision of the row it replaces, a new one's too.
ReceiptBehind(i, n, rev) == [id |-> i, nonce |-> n, revision |-> rev - 1, at |-> now]

\* Mutant: a renewal's receipt is stamped before the revision is raised.
ReceiptBeforeBump(i, n, rev) ==
  [id |-> i, nonce |-> n, revision |-> IF rev = 0 THEN 0 ELSE rev - 1, at |-> now]

Receipt(i, n, rev) == [id |-> i, nonce |-> n, revision |-> rev, at |-> now]

Granted(i, terms, rev, n) ==
  /\ row' = [row EXCEPT ![i] = [is |-> "row", terms |-> terms, revision |-> rev]]
  /\ receipts' = receipts \cup {Receipt(i, n, rev)}

(* The grant and its receipt are one transaction.  A row that has been      *)
(* deleted meanwhile, or a store that fails, ends the request with the      *)
(* token burned.                                                            *)
Store(r) ==
  LET b == req[r].body
  IN  /\ req[r].pc = "store"
      /\ \/ /\ b.op = "create"
            /\ \E i \in Id : row[i] = Free /\ Granted(i, b.terms, 0, req[r].nonce)
         \/ /\ b.op = "renew" /\ Previewable(b) /\ row[b.id].revision < MaxRevision
            /\ Granted(b.id, b.terms, row[b.id].revision + 1, req[r].nonce)
         \/ /\ ~Previewable(b) \/ "store_error" \in Faults
            /\ UNCHANGED <<row, receipts>>
      /\ Answer(r)
      /\ UNCHANGED <<time, token, uses, requests>>

(* Pause, resume, and what recovery does to a grant raise the revision.     *)
SetEnabled(i) ==
  /\ row[i].is = "row" /\ row[i].revision < MaxRevision
  /\ row' = [row EXCEPT ![i].revision = @ + 1]
  /\ UNCHANGED <<time, token, uses, receipts, requesting>>

Delete(i) ==
  /\ row[i].is = "row"
  /\ row' = [row EXCEPT ![i] = Gone]
  /\ UNCHANGED <<time, token, uses, receipts, requesting>>

(* The worker dies with every request it was handling.                      *)
Crash ==
  /\ "crash" \in Faults
  /\ \E r \in Request : req[r] # Idle
  /\ req' = [r \in Request |-> Idle]
  /\ UNCHANGED <<time, token, uses, row, receipts, requests>>

(* SQLite waits five seconds for a lock, so that a request does not sit     *)
(* between its transactions for longer than Stall.                          *)
Tick ==
  /\ now < MaxNow
  /\ \A r \in Request : req[r].pc \in {"consume", "store"} => now < req[r].since + Stall
  /\ now' = now + 1
  /\ UNCHANGED <<offset, token, uses, row, receipts, requesting>>

SetClock ==
  /\ offset' \in 0..MaxOffset \ {offset}
  /\ UNCHANGED <<now, token, uses, row, receipts, requesting>>

Next ==
  \/ \E n \in Nonce, b \in Body : Approve(n, b)
  \/ \E r \in Request, b \in Body, n \in Nonce : Forward(r, b, n)
  \/ \E r \in Request : VerifyApproval(r) \/ ConsumeApproval(r) \/ Store(r)
  \/ \E i \in Id : SetEnabled(i) \/ Delete(i)
  \/ Crash \/ Tick \/ SetClock

Spec == Init /\ [][Next]_vars

-----------------------------------------------------------------------------
(* A human's approval authorizes one write of one grant, whatever requests  *)
(* carry its token: retries, two at once, one from before a crash, one      *)
(* after its nonce was pruned and the clock set back.                       *)
ApprovalWritesOnce == \A p, q \in receipts : p.nonce = q.nonce => p = q

(* A grant for a writing tool is in force on the terms a human confirmed    *)
(* last: the receipt with the highest revision is the only one of that      *)
(* revision, is not ahead of the row, and its token was signed for this     *)
(* tool and these terms.                                                    *)
GrantIsApproved ==
  \A i \in Id : row[i].is = "row" =>
    \E p \in receipts :
      /\ p.id = i /\ p.revision <= row[i].revision
      /\ \A q \in receipts \ {p} : q.id = i => q.revision < p.revision
      /\ token[p.nonce].claims.terms = row[i].terms
      /\ token[p.nonce].claims.id \in {i, NoId}

(* Nothing is granted long after it was confirmed: the token's lifetime, an *)
(* error of the clock and the two waits of a request bound the time between *)
(* the confirmation and the grant.                                          *)
ApprovalIsFresh ==
  \A p \in receipts : p.at < token[p.nonce].at + TTL + MaxOffset + 2 * Stall

=============================================================================
