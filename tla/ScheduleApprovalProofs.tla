----------------------- MODULE ScheduleApprovalProofs -----------------------
(***************************************************************************)
(* What holds of ScheduleApproval for any number of tokens, requests and    *)
(* schedules, any lifetimes, and any error of the wall clock the retention  *)
(* of used nonces allows for.                                               *)
(***************************************************************************)
EXTENDS ScheduleApproval, TLAPS

(* The parts of a well-typed state, one variable at a time.                 *)
Token == {Unsigned} \cup [signed : {TRUE}, claims : Body, issued : Nat, at : Nat]
RowState == {Free, Gone} \cup
  [is : {"row"}, terms : Terms, revision : 0..MaxRevision]
ReceiptType == [id : Id, nonce : Nonce, revision : Nat, at : Nat]
ReqState == {Idle} \cup
  [pc : {"verify", "consume", "store"}, body : Body, nonce : Nonce, since : Nat]

LEMMA Types ==
  TypeOK <=> /\ now \in 0..MaxNow /\ offset \in 0..MaxOffset
             /\ token \in [Nonce -> Token]
             /\ uses \in [Nonce -> Nat \cup {Never}]
             /\ row \in [Id -> RowState]
             /\ receipts \in SUBSET ReceiptType
             /\ req \in [Request -> ReqState]
             /\ requests \in 0..MaxRequests
  BY DEF TypeOK, Token, RowState, ReceiptType, ReqState

(* What the fields of a token, a row and a busy request may be.             *)
LEMMA TokenFields ==
  ASSUME NEW t \in Token
  PROVE  /\ t.at \in Nat /\ t.issued \in Nat /\ t.signed \in BOOLEAN
         /\ t.signed => t.claims \in Body
  <1>1. CASE t = Unsigned
    <2>1. t.at \in Nat /\ t.issued \in Nat
      BY <1>1 DEF Unsigned
    <2>2. t.signed = FALSE
      BY <1>1, Zenon DEF Unsigned
    <2>3. t.signed \in BOOLEAN /\ (t.signed => t.claims \in Body)
      BY <2>2, Zenon
    <2> QED
      BY <2>1, <2>3
  <1>2. CASE t \in [signed : {TRUE}, claims : Body, issued : Nat, at : Nat]
    <2>1. t.signed \in {TRUE} /\ t.claims \in Body /\ t.issued \in Nat /\ t.at \in Nat
      BY <1>2, Zenon
    <2> QED
      BY <2>1
  <1> QED
    BY <1>1, <1>2 DEF Token

LEMMA RowFields ==
  ASSUME NEW w \in RowState, w.is = "row"
  PROVE  w.terms \in Terms /\ w.revision \in 0..MaxRevision
  BY DEF RowState, Free, Gone

LEMMA ReqFields ==
  ASSUME NEW q \in ReqState, q.pc # "idle"
  PROVE  /\ q \in [pc : {"verify", "consume", "store"}, body : Body,
                   nonce : Nonce, since : Nat]
         /\ q.nonce \in Nonce /\ q.body \in Body /\ q.since \in Nat
  BY DEF ReqState, Idle

LEMMA BodyFields ==
  ASSUME NEW b \in Body
  PROVE  /\ b.terms \in Terms /\ b.op \in {"create", "renew"}
         /\ b.op = "create" => b.id = NoId
         /\ b.op = "renew" => b.id \in Id
  BY DEF Body

LEMMA Wall ==
  ASSUME TypeOK
  PROVE  Clock \in Nat /\ now \in Nat /\ now <= Clock /\ Clock <= now + MaxOffset
  BY ApprovalAssumption DEF TypeOK, Clock

LEMMA PrunedType ==
  ASSUME TypeOK
  PROVE  Pruned \in [Nonce -> Nat \cup {Never}]
  BY Types DEF Pruned

-----------------------------------------------------------------------------
(* Type correctness.                                                        *)
LEMMA InitTypes == Init => TypeOK
  <1> SUFFICES ASSUME Init PROVE TypeOK
    OBVIOUS
  <1>1. now \in 0..MaxNow /\ offset \in 0..MaxOffset /\ requests \in 0..MaxRequests
    BY ApprovalAssumption DEF Init
  <1> QED
    BY <1>1, Types DEF Init, Token, RowState, ReqState

LEMMA StepTypes == TypeOK /\ [Next]_vars => TypeOK'
  <1> SUFFICES ASSUME TypeOK, [Next]_vars PROVE TypeOK'
    OBVIOUS
  <1> USE ApprovalAssumption
  <1> DEFINE TokenT == token \in [Nonce -> Token]
             UsesT == uses \in [Nonce -> Nat \cup {Never}]
             RowT == row \in [Id -> RowState]
             ReceiptsT == receipts \in SUBSET ReceiptType
             ReqT == req \in [Request -> ReqState]
             RestT == /\ now \in 0..MaxNow /\ offset \in 0..MaxOffset
                      /\ requests \in 0..MaxRequests
  <1>0. TokenT /\ UsesT /\ RowT /\ ReceiptsT /\ ReqT /\ RestT
    BY Types
  <1>a. SUFFICES TokenT' /\ UsesT' /\ RowT' /\ ReceiptsT' /\ ReqT' /\ RestT'
    BY DEF TypeOK, Token, RowState, ReceiptType, ReqState
  <1>1. ASSUME NEW r \in Request, Answer(r) PROVE ReqT'
    BY <1>0, <1>1 DEF Answer, ReqState
  <1>2. ASSUME NEW r \in Request, NEW to \in {"verify", "consume", "store"},
               req[r].pc # "idle", Goto(r, to)
        PROVE  ReqT'
    <2>1. req[r] \in [pc : {"verify", "consume", "store"}, body : Body,
                      nonce : Nonce, since : Nat]
      BY <1>0, <1>2, ReqFields
    <2>2. [req[r] EXCEPT !.pc = to, !.since = now] \in ReqState
      BY <2>1, Wall DEF ReqState
    <2> QED
      BY <1>0, <1>2, <2>2 DEF Goto
  <1>3. ASSUME NEW n \in Nonce, NEW b \in Body, Approve(n, b)
        PROVE  TokenT' /\ UsesT' /\ RowT' /\ ReceiptsT' /\ ReqT' /\ RestT'
    <2>1. [signed |-> TRUE, claims |-> b, issued |-> Clock, at |-> now] \in Token
      BY Wall DEF Token
    <2> QED
      BY <1>0, <1>3, <2>1 DEF Approve, time, requesting
  <1>4. ASSUME NEW r \in Request, NEW b \in Body, NEW n \in Nonce, Forward(r, b, n)
        PROVE  TokenT' /\ UsesT' /\ RowT' /\ ReceiptsT' /\ ReqT' /\ RestT'
    <2>1. [pc |-> "verify", body |-> b, nonce |-> n, since |-> 0] \in ReqState
      BY DEF ReqState
    <2> QED
      BY <1>0, <1>4, <2>1 DEF Forward, time
  <1>5. ASSUME NEW r \in Request, VerifyApproval(r)
        PROVE  TokenT' /\ UsesT' /\ RowT' /\ ReceiptsT' /\ ReqT' /\ RestT'
    <2>1. ReqT'
      <3>1. CASE Goto(r, "consume")
        BY <1>2, <1>5, <3>1 DEF VerifyApproval
      <3>2. CASE Answer(r)
        BY <1>1, <3>2
      <3> QED
        BY <1>5, <3>1, <3>2 DEF VerifyApproval
    <2> QED
      BY <1>0, <1>5, <2>1 DEF VerifyApproval, time
  <1>6. ASSUME NEW r \in Request, ConsumeApproval(r)
        PROVE  TokenT' /\ UsesT' /\ RowT' /\ ReceiptsT' /\ ReqT' /\ RestT'
    <2>1. req[r].nonce \in Nonce /\ req[r].pc # "idle"
      BY <1>0, <1>6, ReqFields DEF ConsumeApproval
    <2>2. ReqT'
      <3>1. CASE Goto(r, "store")
        BY <1>2, <2>1, <3>1
      <3>2. CASE Answer(r)
        BY <1>1, <3>2
      <3> QED
        BY <1>6, <3>1, <3>2 DEF ConsumeApproval
    <2>3. UsesT'
      BY <1>0, <1>6, <2>1, Wall, PrunedType DEF ConsumeApproval
    <2> QED
      BY <1>0, <1>6, <2>2, <2>3 DEF ConsumeApproval, time
  <1>7. ASSUME NEW r \in Request, Store(r)
        PROVE  TokenT' /\ UsesT' /\ RowT' /\ ReceiptsT' /\ ReqT' /\ RestT'
    <2>1. req[r].nonce \in Nonce /\ req[r].body \in Body
      BY <1>0, <1>7, ReqFields DEF Store
    <2>2. ASSUME NEW i \in Id, NEW terms \in Terms, NEW rev \in 0..MaxRevision,
                 Granted(i, terms, rev, req[r].nonce)
          PROVE  RowT' /\ ReceiptsT'
      <3>1. [is |-> "row", terms |-> terms, revision |-> rev] \in RowState
        BY DEF RowState
      <3>2. Receipt(i, req[r].nonce, rev) \in ReceiptType
        BY <2>1, Wall DEF Receipt, ReceiptType
      <3> QED
        BY <1>0, <2>2, <3>1, <3>2 DEF Granted
    <2>3. RowT' /\ ReceiptsT'
      <3>1. CASE /\ req[r].body.op = "create"
                 /\ \E i \in Id : /\ row[i] = Free
                                  /\ Granted(i, req[r].body.terms, 0, req[r].nonce)
        BY <2>1, <2>2, <3>1, BodyFields
      <3>2. CASE /\ req[r].body.op = "renew" /\ Previewable(req[r].body)
                 /\ row[req[r].body.id].revision < MaxRevision
                 /\ Granted(req[r].body.id, req[r].body.terms,
                            row[req[r].body.id].revision + 1, req[r].nonce)
        <4>1. req[r].body.id \in Id /\ req[r].body.terms \in Terms
          BY <2>1, <3>2, BodyFields
        <4>2. row[req[r].body.id].revision \in 0..MaxRevision
          BY <1>0, <3>2, <4>1, RowFields DEF Previewable
        <4> QED
          BY <2>2, <3>2, <4>1, <4>2
      <3>3. CASE UNCHANGED <<row, receipts>>
        BY <1>0, <3>3
      <3> QED
        BY <1>7, <3>1, <3>2, <3>3 DEF Store
    <2>4. ReqT'
      BY <1>1, <1>7 DEF Store
    <2> QED
      BY <1>0, <1>7, <2>3, <2>4 DEF Store, time
  <1>8. ASSUME NEW i \in Id, SetEnabled(i)
        PROVE  TokenT' /\ UsesT' /\ RowT' /\ ReceiptsT' /\ ReqT' /\ RestT'
    <2>1. row[i] \in [is : {"row"}, terms : Terms, revision : 0..MaxRevision]
      BY <1>0, <1>8 DEF SetEnabled, RowState, Free, Gone
    <2>2. [row[i] EXCEPT !.revision = @ + 1] \in RowState
      BY <1>8, <2>1 DEF SetEnabled, RowState
    <2>3. RowT'
      BY <1>0, <1>8, <2>2 DEF SetEnabled
    <2> QED
      BY <1>0, <1>8, <2>3 DEF SetEnabled, time, requesting
  <1>9. ASSUME NEW i \in Id, Delete(i)
        PROVE  TokenT' /\ UsesT' /\ RowT' /\ ReceiptsT' /\ ReqT' /\ RestT'
    BY <1>0, <1>9 DEF Delete, RowState, time, requesting
  <1>10. CASE Crash
    BY <1>0, <1>10 DEF Crash, ReqState, time
  <1>11. CASE Tick
    BY <1>0, <1>11 DEF Tick, requesting
  <1>12. CASE SetClock
    BY <1>0, <1>12 DEF SetClock, requesting
  <1>13. CASE UNCHANGED vars
    BY <1>0, <1>13 DEF vars, time, requesting
  <1> QED
    BY <1>3, <1>4, <1>5, <1>6, <1>7, <1>8, <1>9, <1>10, <1>11, <1>12, <1>13 DEF Next

(* Every reachable state is well typed.                                     *)
THEOREM ApprovalTypes == Spec => []TypeOK
  BY InitTypes, StepTypes, PTL DEF Spec

-----------------------------------------------------------------------------
(* The inductive invariant.  A token and its use are timed by clocks that   *)
(* err by at most MaxOffset; a request is never far behind the check it     *)
(* passed last; and a nonce that is spent is either still on file or too    *)
(* old for any request that could still consume it.                         *)
Storing(r, n) == req[r].pc = "store" /\ req[r].nonce = n

Spent(n) == \/ \E p \in receipts : p.nonce = n
            \/ \E r \in Request : Storing(r, n)

TokensTimed ==
  \A n \in Nonce : token[n].signed =>
    /\ token[n].at <= now
    /\ token[n].at <= token[n].issued /\ token[n].issued <= token[n].at + MaxOffset

UsesTimed ==
  \A n \in Nonce : uses[n] # Never => token[n].signed /\ token[n].at <= uses[n]

RequestsSigned ==
  \A r \in Request : req[r].pc # "idle" =>
    token[req[r].nonce].signed /\ token[req[r].nonce].claims = req[r].body

CheckedBefore(r, limit) ==
  /\ req[r].since < token[req[r].nonce].at + limit
  /\ req[r].since <= now /\ now <= req[r].since + Stall

RequestsTimed ==
  \A r \in Request :
    /\ req[r].pc = "consume" => CheckedBefore(r, TTL + MaxOffset)
    /\ req[r].pc = "store" => CheckedBefore(r, TTL + MaxOffset + Stall)

SpentOnFile ==
  \A n \in Nonce : Spent(n) =>
    /\ token[n].signed
    /\ uses[n] # Never \/ now > token[n].at + Retention - MaxOffset

OneStore ==
  \A r \in Request, n \in Nonce : Storing(r, n) =>
    /\ \A p \in receipts : p.nonce # n
    /\ \A s \in Request : Storing(s, n) => s = r

ReceiptsBehind ==
  \A p \in receipts :
    /\ row[p.id].is # "free"
    /\ row[p.id].is = "row" => p.revision <= row[p.id].revision

ApprovalInv ==
  /\ TypeOK /\ TokensTimed /\ UsesTimed /\ RequestsSigned /\ RequestsTimed
  /\ SpentOnFile /\ OneStore /\ ReceiptsBehind
  /\ ApprovalWritesOnce /\ ApprovalIsFresh /\ GrantIsApproved

-----------------------------------------------------------------------------
(* What a step may do to a token and to a request, whichever action it is.  *)
LEMMA SignedStays ==
  ASSUME TypeOK, [Next]_vars, NEW n \in Nonce, token[n].signed
  PROVE  token'[n] = token[n]
  <1>1. ASSUME NEW m \in Nonce, NEW b \in Body, Approve(m, b) PROVE token'[n] = token[n]
    <2>1. m # n
      BY <1>1 DEF Approve
    <2> QED
      BY <1>1, <2>1, Types DEF Approve
  <1>2. CASE UNCHANGED token
    BY <1>2
  <1> QED
    BY <1>1, <1>2 DEF Next, Forward, VerifyApproval, ConsumeApproval, Store, SetEnabled,
       Delete, Crash, Tick, SetClock, vars

(* Time goes on, and only while no request is overdue.                      *)
LEMMA TimeGoesOn ==
  ASSUME TypeOK, [Next]_vars
  PROVE  \/ now' = now
         \/ /\ now' = now + 1 /\ UNCHANGED <<token, uses, row, receipts, req>>
            /\ \A r \in Request :
                 req[r].pc \in {"consume", "store"} => now < req[r].since + Stall
  BY DEF Next, Approve, Forward, VerifyApproval, ConsumeApproval, Store, SetEnabled,
     Delete, Crash, Tick, SetClock, vars, time, requesting

(* The ways in which a request comes to its next transaction.               *)
Came(r) ==
  /\ req'[r].pc = "verify"
  /\ req'[r].nonce \in Nonce
  /\ token[req'[r].nonce].signed /\ token[req'[r].nonce].claims = req'[r].body

Passed(r, at, to) ==
  /\ req[r].pc = at
  /\ req'[r] = [req[r] EXCEPT !.pc = to, !.since = now]
  /\ now' = now

LEMMA RequestStep ==
  ASSUME TypeOK, [Next]_vars, NEW r \in Request, req'[r].pc # "idle"
  PROVE  \/ req'[r] = req[r]
         \/ Came(r)
         \/ Passed(r, "verify", "consume") /\ InTime(req[r].nonce)
         \/ Passed(r, "consume", "store")
  <1> DEFINE Goal == \/ req'[r] = req[r]
                     \/ Came(r)
                     \/ Passed(r, "verify", "consume") /\ InTime(req[r].nonce)
                     \/ Passed(r, "consume", "store")
  <1>0. req \in [Request -> ReqState]
    BY Types
  <1>1. ASSUME NEW s \in Request, Answer(s) PROVE Goal
    BY <1>0, <1>1 DEF Answer, Idle
  <1>2. ASSUME NEW s \in Request, NEW b \in Body, NEW n \in Nonce, Forward(s, b, n)
        PROVE  Goal
    <2>1. CASE s = r
      BY <1>0, <1>2, <2>1 DEF Forward, Came
    <2>2. CASE s # r
      BY <1>0, <1>2, <2>2 DEF Forward
    <2> QED
      BY <2>1, <2>2
  <1>3. ASSUME NEW s \in Request, VerifyApproval(s) PROVE Goal
    <2>1. CASE Answer(s)
      BY <1>1, <2>1
    <2>2. CASE Goto(s, "consume") /\ Verified(req[s].nonce, req[s].body)
      BY <1>0, <1>3, <2>2 DEF VerifyApproval, Goto, Verified, Passed, time
    <2> QED
      BY <1>3, <2>1, <2>2 DEF VerifyApproval
  <1>4. ASSUME NEW s \in Request, ConsumeApproval(s) PROVE Goal
    <2>1. CASE Answer(s)
      BY <1>1, <2>1
    <2>2. CASE Goto(s, "store")
      BY <1>0, <1>4, <2>2 DEF ConsumeApproval, Goto, Passed, time
    <2> QED
      BY <1>4, <2>1, <2>2 DEF ConsumeApproval
  <1>5. ASSUME NEW s \in Request, Store(s) PROVE Goal
    BY <1>1, <1>5 DEF Store
  <1>6. CASE Crash
    BY <1>6 DEF Crash, Idle
  <1>7. CASE UNCHANGED req
    BY <1>7
  <1> QED
    BY <1>2, <1>3, <1>4, <1>5, <1>6, <1>7 DEF Next, Approve, SetEnabled, Delete, Tick,
       SetClock, vars, requesting

-----------------------------------------------------------------------------
(* Tokens are timed by the clock that was read when they were signed.       *)
LEMMA TokensTimedStep ==
  ASSUME TypeOK, TokensTimed, [Next]_vars
  PROVE  TokensTimed'
  <1> USE ApprovalAssumption
  <1> SUFFICES ASSUME NEW n \in Nonce, token'[n].signed
               PROVE  /\ token'[n].at <= now'
                      /\ token'[n].at <= token'[n].issued
                      /\ token'[n].issued <= token'[n].at + MaxOffset
    BY DEF TokensTimed
  <1>1. now \in Nat /\ now' \in Nat /\ now' >= now
    BY Wall, TimeGoesOn
  <1>2. CASE token[n].signed
    <2>1. token'[n] = token[n] /\ token[n].at \in Nat /\ token[n].issued \in Nat
      BY <1>2, SignedStays, Types, TokenFields
    <2> QED
      BY <1>1, <1>2, <2>1 DEF TokensTimed
  <1>3. CASE ~token[n].signed
    <2>1. PICK m \in Nonce, b \in Body : Approve(m, b)
      <3>1. token' # token
        BY <1>3
      <3> QED
        BY <3>1 DEF Next, Forward, VerifyApproval, ConsumeApproval, Store, SetEnabled,
           Delete, Crash, Tick, SetClock, vars
    <2>2. m = n
      BY <1>3, <2>1, Types DEF Approve
    <2>3. token'[n] = [signed |-> TRUE, claims |-> b, issued |-> Clock, at |-> now]
      BY <2>1, <2>2, Types DEF Approve
    <2>4. now' = now
      BY <2>1 DEF Approve, time
    <2> QED
      BY <2>3, <2>4, Wall
  <1> QED
    BY <1>2, <1>3

(* A nonce is used while its token, signed before, is in hand.              *)
LEMMA UsesTimedStep ==
  ASSUME TypeOK, TokensTimed, UsesTimed, RequestsSigned, [Next]_vars
  PROVE  UsesTimed'
  <1> SUFFICES ASSUME NEW n \in Nonce, uses'[n] # Never
               PROVE  token'[n].signed /\ token'[n].at <= uses'[n]
    BY DEF UsesTimed
  <1>1. token[n].signed /\ token[n].at <= uses'[n]
    <2>1. ASSUME NEW r \in Request, ConsumeApproval(r),
                 uses' = [Pruned EXCEPT ![req[r].nonce] = Clock]
          PROVE  token[n].signed /\ token[n].at <= uses'[n]
      <3>1. CASE req[r].nonce = n
        <4>1. token[n].signed
          BY <2>1, <3>1 DEF ConsumeApproval, RequestsSigned
        <4>2. token[n].at <= now /\ token[n].at \in Nat
          BY <4>1, Types, TokenFields DEF TokensTimed
        <4>3. uses'[n] = Clock
          BY <2>1, <3>1, PrunedType
        <4> QED
          BY <4>1, <4>2, <4>3, Wall
      <3>2. CASE req[r].nonce # n
        <4>1. uses'[n] = Pruned[n]
          BY <2>1, <3>2, PrunedType
        <4>2. uses'[n] = uses[n]
          BY <4>1 DEF Pruned
        <4> QED
          BY <4>2 DEF UsesTimed
      <3> QED
        BY <3>1, <3>2
    <2>2. CASE UNCHANGED uses
      BY <2>2 DEF UsesTimed
    <2> QED
      BY <2>1, <2>2 DEF Next, Approve, Forward, VerifyApproval, ConsumeApproval, Store,
         SetEnabled, Delete, Crash, Tick, SetClock, vars
  <1> QED
    BY <1>1, SignedStays

(* A request carries the claims of the token it came with.                  *)
LEMMA RequestsSignedStep ==
  ASSUME TypeOK, RequestsSigned, [Next]_vars
  PROVE  RequestsSigned'
  <1> SUFFICES ASSUME NEW r \in Request, req'[r].pc # "idle"
               PROVE  /\ token'[req'[r].nonce].signed
                      /\ token'[req'[r].nonce].claims = req'[r].body
    BY DEF RequestsSigned
  <1>1. CASE Came(r)
    BY <1>1, SignedStays DEF Came
  <1>2. CASE req[r].pc # "idle" /\ req'[r].nonce = req[r].nonce /\ req'[r].body = req[r].body
    <2>1. req[r].nonce \in Nonce
      BY <1>2, Types, ReqFields
    <2> QED
      BY <1>2, <2>1, SignedStays DEF RequestsSigned
  <1>3. ASSUME NEW from, NEW to, from # "idle", Passed(r, from, to)
        PROVE  /\ req[r].pc # "idle"
               /\ req'[r].nonce = req[r].nonce /\ req'[r].body = req[r].body
    <2>1. req[r] \in [pc : {"verify", "consume", "store"}, body : Body,
                      nonce : Nonce, since : Nat]
      BY <1>3, Types, ReqFields DEF Passed
    <2> QED
      BY <1>3, <2>1 DEF Passed
  <1> QED
    BY <1>1, <1>2, <1>3, RequestStep

(* No request is far behind the check it passed last.                       *)
LEMMA RequestsTimedStep ==
  ASSUME TypeOK, TokensTimed, RequestsSigned, RequestsTimed, [Next]_vars
  PROVE  RequestsTimed'
  <1> USE ApprovalAssumption
  <1> SUFFICES ASSUME NEW r \in Request, req'[r].pc \in {"consume", "store"}
               PROVE  /\ req'[r].pc = "consume" => CheckedBefore(r, TTL + MaxOffset)'
                      /\ req'[r].pc = "store" => CheckedBefore(r, TTL + MaxOffset + Stall)'
    BY DEF RequestsTimed
  <1>1. req[r].pc # "idle"
    <2>1. ~Came(r)
      BY DEF Came
    <2> QED
      BY <2>1, RequestStep DEF Passed
  <1>2. /\ req[r] \in [pc : {"verify", "consume", "store"}, body : Body,
                       nonce : Nonce, since : Nat]
        /\ req[r].nonce \in Nonce /\ req[r].since \in Nat
    BY <1>1, Types, ReqFields
  <1> DEFINE t == token[req[r].nonce]
  <1>3. /\ t.signed /\ t.at \in Nat /\ t.issued \in Nat
        /\ t.at <= now /\ t.at <= t.issued /\ t.issued <= t.at + MaxOffset
    BY <1>1, <1>2, Types, TokenFields DEF RequestsSigned, TokensTimed
  <1>4. token'[req[r].nonce] = t
    BY <1>2, <1>3, SignedStays
  <1>5. now \in Nat /\ now <= Clock /\ Clock \in Nat
    BY Wall
  <1>6. CASE req'[r] = req[r]
    BY <1>2, <1>3, <1>4, <1>5, <1>6, TimeGoesOn DEF RequestsTimed, CheckedBefore
  <1>7. CASE Passed(r, "verify", "consume") /\ InTime(req[r].nonce)
    <2>1. req'[r].nonce = req[r].nonce /\ req'[r].since = now /\ req'[r].pc = "consume"
      BY <1>2, <1>7 DEF Passed
    <2>2. now < t.at + (TTL + MaxOffset)
      BY <1>3, <1>5, <1>7 DEF InTime
    <2> QED
      BY <1>4, <1>5, <1>7, <2>1, <2>2 DEF Passed, CheckedBefore
  <1>8. CASE Passed(r, "consume", "store")
    <2>1. req'[r].nonce = req[r].nonce /\ req'[r].since = now /\ req'[r].pc = "store"
      BY <1>2, <1>8 DEF Passed
    <2>2. now < t.at + (TTL + MaxOffset + Stall)
      BY <1>2, <1>3, <1>5, <1>8 DEF Passed, RequestsTimed, CheckedBefore
    <2> QED
      BY <1>4, <1>5, <1>8, <2>1, <2>2 DEF Passed, CheckedBefore
  <1>9. ~Came(r)
    BY DEF Came
  <1> QED
    BY <1>6, <1>7, <1>8, <1>9, RequestStep

(* No request that could consume a nonce comes so late that the nonce may   *)
(* have been pruned: what is on file stays there while its token lives.     *)
LEMMA StillOnFile ==
  ASSUME ApprovalInv, NEW r \in Request, ConsumeApproval(r), Pruned[req[r].nonce] = Never
  PROVE  ~Spent(req[r].nonce)
  <1> USE ApprovalAssumption
  <1> DEFINE n == req[r].nonce
  <1>0. req[r].pc = "consume"
    BY DEF ConsumeApproval
  <1>1. TypeOK /\ n \in Nonce /\ req[r].since \in Nat
    BY <1>0, Types, ReqFields DEF ApprovalInv
  <1>2. now < token[n].at + TTL + MaxOffset + Stall /\ token[n].at \in Nat
    BY <1>0, <1>1, Types, TokenFields DEF ApprovalInv, RequestsTimed, CheckedBefore
  <1>3. now \in Nat /\ Clock <= now + MaxOffset /\ Clock \in Nat
    BY <1>1, Wall
  <1> SUFFICES ASSUME Spent(n) PROVE FALSE
    OBVIOUS
  <1>4. ~(now > token[n].at + Retention - MaxOffset)
    BY <1>2, <1>3
  <1>5. uses[n] # Never
    BY <1>1, <1>4 DEF ApprovalInv, SpentOnFile
  <1>6. token[n].at <= uses[n] /\ uses[n] \in Nat
    BY <1>1, <1>5, Types DEF ApprovalInv, UsesTimed
  <1>7. uses[n] < Clock - Retention
    BY <1>1, <1>5 DEF Pruned
  <1> QED
    BY <1>2, <1>3, <1>6, <1>7

(* A request comes to its store by consuming its nonce.                     *)
Consumes(r, n) ==
  /\ ConsumeApproval(r) /\ req[r].nonce = n /\ n \in Nonce
  /\ Pruned[n] = Never /\ uses' = [Pruned EXCEPT ![n] = Clock]
  /\ \A s \in Request \ {r} : req'[s] = req[s]

LEMMA StoringStep ==
  ASSUME TypeOK, [Next]_vars, NEW r \in Request, NEW n \in Nonce, Storing(r, n)'
  PROVE  Storing(r, n) \/ Consumes(r, n)
  <1>1. req'[r].pc = "store" /\ req'[r].nonce = n
    BY DEF Storing
  <1>2. CASE req'[r] = req[r]
    BY <1>1, <1>2 DEF Storing
  <1>3. CASE Passed(r, "consume", "store")
    <2>0. /\ req \in [Request -> ReqState] /\ req[r].pc = "consume" /\ req'[r] # req[r]
          /\ req[r] \in [pc : {"verify", "consume", "store"}, body : Body,
                         nonce : Nonce, since : Nat]
      BY <1>1, <1>3, Types, ReqFields DEF Passed
    <2>1. req[r].nonce = n
      BY <1>1, <1>3, <2>0 DEF Passed
    <2>2. ASSUME NEW s \in Request, s # r, Answer(s) \/ \E to : Goto(s, to)
          PROVE  FALSE
      BY <2>0, <2>2 DEF Answer, Goto
    <2>3. ~Answer(r) /\ ~Crash
      BY <1>1, <2>0 DEF Answer, Idle, Crash
    <2>4. PICK s \in Request : VerifyApproval(s) \/ ConsumeApproval(s) \/ Store(s)
      <3>1. ASSUME NEW s \in Request, NEW b \in Body, NEW m \in Nonce, Forward(s, b, m)
            PROVE  FALSE
        BY <1>1, <2>0, <3>1 DEF Forward, Idle
      <3> QED
        BY <2>0, <2>3, <3>1 DEF Next, Approve, SetEnabled, Delete, Tick, SetClock, vars,
           requesting
    <2>5. s = r
      BY <2>2, <2>4 DEF VerifyApproval, ConsumeApproval, Store
    <2>6. ConsumeApproval(r)
      BY <2>0, <2>4, <2>5 DEF VerifyApproval, Store
    <2>7. Goto(r, "store")
      BY <2>3, <2>6 DEF ConsumeApproval
    <2>8. \A s1 \in Request \ {r} : req'[s1] = req[s1]
      BY <2>0, <2>7 DEF Goto
    <2> QED
      BY <2>1, <2>3, <2>6, <2>8 DEF ConsumeApproval, Consumes
  <1>4. ~Came(r) /\ ~Passed(r, "verify", "consume")
    <2>1. ASSUME Passed(r, "verify", "consume") PROVE req'[r].pc = "consume"
      <3>1. req[r] \in [pc : {"verify", "consume", "store"}, body : Body,
                        nonce : Nonce, since : Nat]
        BY <2>1, Types, ReqFields DEF Passed
      <3> QED
        BY <2>1, <3>1 DEF Passed
    <2> QED
      BY <1>1, <2>1 DEF Came
  <1> QED
    BY <1>1, <1>2, <1>3, <1>4, RequestStep

(* What a step makes of the grants: one request writes one of them, or no   *)
(* receipt is added and rows only change their revision or go.              *)
Grants(r, i, rev) ==
  /\ Store(r) /\ UNCHANGED <<now, token>>
  /\ Granted(i, req[r].body.terms, rev, req[r].nonce)
  /\ req[r].body.id \in {i, NoId}
  /\ row[i].is = "free" \/ (row[i].is = "row" /\ rev = row[i].revision + 1)

LEMMA GrantStep ==
  ASSUME TypeOK, [Next]_vars
  PROVE  \/ \E r \in Request, i \in Id, rev \in 0..MaxRevision : Grants(r, i, rev)
         \/ /\ receipts' = receipts
            /\ \A i \in Id :
                 \/ row'[i] = row[i]
                 \/ row'[i].is = "gone"
                 \/ /\ row[i].is = "row" /\ row'[i].terms = row[i].terms
                    /\ row'[i].is = "row" /\ row'[i].revision = row[i].revision + 1
  <1> DEFINE Kept == /\ receipts' = receipts
                     /\ \A i \in Id :
                          \/ row'[i] = row[i]
                          \/ row'[i].is = "gone"
                          \/ /\ row[i].is = "row" /\ row'[i].terms = row[i].terms
                             /\ row'[i].is = "row"
                             /\ row'[i].revision = row[i].revision + 1
             Written == \E r \in Request, i \in Id, rev \in 0..MaxRevision : Grants(r, i, rev)
  <1>0. row \in [Id -> RowState]
    BY Types
  <1>1. ASSUME NEW j \in Id, SetEnabled(j) PROVE Kept
    <2>1. row[j] \in [is : {"row"}, terms : Terms, revision : 0..MaxRevision]
      BY <1>0, <1>1 DEF SetEnabled, RowState, Free, Gone
    <2>2. row'[j] = [row[j] EXCEPT !.revision = @ + 1]
      BY <1>0, <1>1 DEF SetEnabled
    <2>3. /\ row[j].is = "row" /\ row'[j].terms = row[j].terms
          /\ row'[j].is = "row" /\ row'[j].revision = row[j].revision + 1
      BY <2>1, <2>2
    <2>4. \A i \in Id \ {j} : row'[i] = row[i]
      BY <1>0, <1>1 DEF SetEnabled
    <2> QED
      BY <1>1, <2>3, <2>4 DEF SetEnabled
  <1>2. ASSUME NEW j \in Id, Delete(j) PROVE Kept
    BY <1>0, <1>2 DEF Delete, Free, Gone
  <1>3. ASSUME NEW r \in Request, Store(r) PROVE Kept \/ Written
    <2>1. req[r].body \in Body
      BY <1>3, Types, ReqFields DEF Store
    <2>2. CASE UNCHANGED <<row, receipts>>
      BY <2>2
    <2>3. ASSUME req[r].body.op = "create",
                 NEW i \in Id, row[i] = Free, Granted(i, req[r].body.terms, 0, req[r].nonce)
          PROVE  Written
      <3>1. row[i].is = "free"
        BY <2>3 DEF Free
      <3>2. req[r].body.id = NoId
        BY <2>1, <2>3, BodyFields
      <3>3. UNCHANGED <<now, token>>
        BY <1>3 DEF Store, time
      <3>4. Grants(r, i, 0)
        BY <1>3, <2>3, <3>1, <3>2, <3>3 DEF Grants
      <3>5. 0 \in 0..MaxRevision
        BY ApprovalAssumption
      <3> QED
        BY <3>4, <3>5
    <2>4. CASE /\ req[r].body.op = "renew" /\ Previewable(req[r].body)
               /\ row[req[r].body.id].revision < MaxRevision
               /\ Granted(req[r].body.id, req[r].body.terms,
                          row[req[r].body.id].revision + 1, req[r].nonce)
      <3>1. req[r].body.id \in Id
        BY <2>1, <2>4, BodyFields
      <3>2. row[req[r].body.id].is = "row"
        BY <2>4 DEF Previewable
      <3>3. row[req[r].body.id].revision + 1 \in 0..MaxRevision
        BY <1>0, <2>4, <3>1, <3>2, RowFields, ApprovalAssumption
      <3>4. Grants(r, req[r].body.id, row[req[r].body.id].revision + 1)
        BY <1>3, <2>4, <3>2 DEF Grants, Store, time
      <3> QED
        BY <3>1, <3>3, <3>4
    <2> QED
      BY <1>3, <2>2, <2>3, <2>4 DEF Store
  <1>4. CASE UNCHANGED <<row, receipts>>
    BY <1>4
  <1> QED
    BY <1>1, <1>2, <1>3, <1>4 DEF Next, Approve, Forward, VerifyApproval, ConsumeApproval,
       Crash, Tick, SetClock, vars

(* A receipt is old, or it is the one the step wrote.                       *)
LEMMA ReceiptStep ==
  ASSUME TypeOK, [Next]_vars, NEW p \in receipts'
  PROVE  \/ p \in receipts
         \/ \E r \in Request, i \in Id, rev \in 0..MaxRevision :
              Grants(r, i, rev) /\ p = Receipt(i, req[r].nonce, rev)
  BY GrantStep DEF Grants, Granted

(* A nonce becomes spent when a request consumes it.                        *)
LEMMA SpentStep ==
  ASSUME TypeOK, [Next]_vars, NEW n \in Nonce, Spent(n)'
  PROVE  Spent(n) \/ \E r \in Request : Consumes(r, n)
  <1>1. ASSUME NEW r \in Request, Storing(r, n)'
        PROVE  Spent(n) \/ Consumes(r, n)
    BY <1>1, StoringStep DEF Spent
  <1>2. ASSUME NEW p \in receipts', p.nonce = n PROVE Spent(n)
    BY <1>2, ReceiptStep DEF Spent, Storing, Grants, Store, Receipt
  <1> QED
    BY <1>1, <1>2 DEF Spent

(* Pruning forgets a spent nonce only when its token is out of date by any  *)
(* reading of the clock.                                                    *)
LEMMA SpentOnFileStep ==
  ASSUME ApprovalInv, [Next]_vars
  PROVE  SpentOnFile'
  <1> USE ApprovalAssumption
  <1>0. TypeOK
    BY DEF ApprovalInv
  <1> SUFFICES ASSUME NEW n \in Nonce, Spent(n)'
               PROVE  /\ token'[n].signed
                      /\ uses'[n] # Never \/ now' > token'[n].at + Retention - MaxOffset
    BY DEF SpentOnFile, Spent, Storing
  <1>1. CASE Spent(n)
    <2>1. token[n].signed /\ token'[n] = token[n] /\ token[n].at \in Nat
      BY <1>0, <1>1, SignedStays, Types, TokenFields DEF ApprovalInv, SpentOnFile
    <2>2. now' >= now /\ now \in Nat /\ now' \in Nat
      BY <1>0, Wall, TimeGoesOn
    <2>3. CASE now > token[n].at + Retention - MaxOffset
      BY <2>1, <2>2, <2>3
    <2>4. CASE uses[n] # Never
      <3>1. CASE UNCHANGED uses
        BY <2>1, <2>4, <3>1
      <3>2. ASSUME NEW r \in Request, uses' = [Pruned EXCEPT ![req[r].nonce] = Clock], now' = now
            PROVE  uses'[n] # Never \/ now' > token'[n].at + Retention - MaxOffset
        <4>1. Clock \in Nat /\ Clock <= now + MaxOffset
          BY <1>0, Wall
        <4>2. CASE uses'[n] = Clock
          BY <4>1, <4>2 DEF Never
        <4>3. CASE uses'[n] = Pruned[n]
          <5>1. CASE uses[n] < Clock - Retention
            <6>1. token[n].at <= uses[n] /\ uses[n] \in Nat
              BY <1>0, <2>4, Types DEF ApprovalInv, UsesTimed
            <6> QED
              BY <2>1, <2>2, <3>2, <4>1, <5>1, <6>1
          <5>2. CASE ~(uses[n] < Clock - Retention)
            BY <2>4, <4>3, <5>2 DEF Pruned
          <5> QED
            BY <5>1, <5>2
        <4> QED
          BY <1>0, <3>2, <4>2, <4>3, PrunedType
      <3> QED
        BY <2>1, <3>1, <3>2 DEF Next, Approve, Forward, VerifyApproval, ConsumeApproval,
           Store, SetEnabled, Delete, Crash, Tick, SetClock, vars, time
    <2> QED
      BY <1>1, <2>1, <2>3, <2>4 DEF ApprovalInv, SpentOnFile
  <1>2. ASSUME NEW r \in Request, Consumes(r, n)
        PROVE  token'[n].signed /\ uses'[n] # Never
    <2>1. token[n].signed
      BY <1>2 DEF Consumes, ConsumeApproval, ApprovalInv, RequestsSigned
    <2>2. uses'[n] = Clock /\ Clock \in Nat
      BY <1>0, <1>2, PrunedType, Wall DEF Consumes
    <2> QED
      BY <1>0, <2>1, <2>2, SignedStays DEF Never
  <1> QED
    BY <1>0, <1>1, <1>2, SpentStep

(* Two requests never store on one nonce, and none on one that has a        *)
(* receipt.                                                                 *)
LEMMA OneStoreStep ==
  ASSUME ApprovalInv, [Next]_vars
  PROVE  OneStore'
  <1>0. TypeOK
    BY DEF ApprovalInv
  <1> SUFFICES ASSUME NEW r \in Request, NEW n \in Nonce, Storing(r, n)'
               PROVE  /\ \A p \in receipts' : p.nonce # n
                      /\ \A s \in Request : Storing(s, n)' => s = r
    BY DEF OneStore, Storing
  <1>1. CASE Consumes(r, n)
    <2>1. ~Spent(n)
      BY <1>1, StillOnFile DEF Consumes
    <2>2. receipts' = receipts
      BY <1>1 DEF Consumes, ConsumeApproval
    <2>3. ASSUME NEW s \in Request, s # r, Storing(s, n)' PROVE FALSE
      BY <1>1, <2>1, <2>3 DEF Consumes, Storing, Spent
    <2> QED
      BY <2>1, <2>2, <2>3 DEF Spent
  <1>2. CASE Storing(r, n) /\ ~Consumes(r, n)
    <2>1. ASSUME NEW s \in Request, Storing(s, n)' PROVE s = r
      <3>1. CASE Storing(s, n)
        BY <1>2, <3>1 DEF ApprovalInv, OneStore
      <3>2. CASE Consumes(s, n)
        <4>1. ~Spent(n)
          BY <3>2, StillOnFile DEF Consumes
        <4> QED
          BY <1>2, <4>1 DEF Spent
      <3> QED
        BY <1>0, <2>1, <3>1, <3>2, StoringStep
    <2>2. ASSUME NEW p \in receipts', p.nonce = n PROVE FALSE
      <3>1. p \notin receipts
        BY <1>2, <2>2 DEF ApprovalInv, OneStore
      <3>2. PICK s \in Request, i \in Id, rev \in 0..MaxRevision :
              Grants(s, i, rev) /\ p = Receipt(i, req[s].nonce, rev)
        BY <1>0, <3>1, ReceiptStep
      <3>3. Storing(s, n) /\ Answer(s)
        BY <2>2, <3>2 DEF Grants, Store, Receipt, Storing
      <3>4. s = r
        BY <1>2, <3>3 DEF ApprovalInv, OneStore
      <3> QED
        BY <1>0, <3>3, <3>4, Types DEF Storing, Answer, Idle
    <2> QED
      BY <2>1, <2>2
  <1> QED
    BY <1>0, <1>1, <1>2, StoringStep

(* Ids are never used twice, and a row's revision only grows.               *)
LEMMA ReceiptsBehindStep ==
  ASSUME TypeOK, ReceiptsBehind, [Next]_vars
  PROVE  ReceiptsBehind'
  <1> SUFFICES ASSUME NEW p \in receipts'
               PROVE  /\ row'[p.id].is # "free"
                      /\ row'[p.id].is = "row" => p.revision <= row'[p.id].revision
    BY DEF ReceiptsBehind
  <1>1. row \in [Id -> RowState] /\ receipts \in SUBSET ReceiptType
    BY Types
  <1>2. ASSUME p \in receipts
        PROVE  /\ p.id \in Id /\ p.revision \in Nat /\ row[p.id].is # "free"
               /\ row[p.id].is = "row" => p.revision <= row[p.id].revision
    BY <1>1, <1>2 DEF ReceiptsBehind, ReceiptType
  <1>3. ASSUME NEW r \in Request, NEW i \in Id, NEW rev \in 0..MaxRevision, Grants(r, i, rev)
        PROVE  /\ row'[p.id].is # "free"
               /\ row'[p.id].is = "row" => p.revision <= row'[p.id].revision
    <2>1. row'[i] = [is |-> "row", terms |-> req[r].body.terms, revision |-> rev]
      BY <1>1, <1>3 DEF Grants, Granted
    <2>2. CASE p = Receipt(i, req[r].nonce, rev)
      BY <2>1, <2>2 DEF Receipt
    <2>3. CASE p \in receipts /\ p.id = i
      <3>1. row[i].is = "row" /\ rev = row[i].revision + 1
        BY <1>2, <1>3, <2>3 DEF Grants
      <3>2. row[i].revision \in Nat
        BY <1>1, <3>1, RowFields, ApprovalAssumption
      <3> QED
        BY <1>2, <2>1, <2>3, <3>1, <3>2
    <2>4. CASE p \in receipts /\ p.id # i
      <3>1. row'[p.id] = row[p.id]
        BY <1>1, <1>2, <1>3, <2>4 DEF Grants, Granted
      <3> QED
        BY <1>2, <2>4, <3>1
    <2> QED
      BY <1>3, <2>2, <2>3, <2>4 DEF Grants, Granted
  <1>4. ASSUME p \in receipts,
               \/ row'[p.id] = row[p.id]
               \/ row'[p.id].is = "gone"
               \/ /\ row[p.id].is = "row" /\ row'[p.id].is = "row"
                  /\ row'[p.id].revision = row[p.id].revision + 1
        PROVE  /\ row'[p.id].is # "free"
               /\ row'[p.id].is = "row" => p.revision <= row'[p.id].revision
    <2>1. CASE row[p.id].is = "row"
      <3>1. row[p.id].revision \in Nat
        BY <1>1, <1>2, <1>4, <2>1, RowFields, ApprovalAssumption
      <3> QED
        BY <1>2, <1>4, <2>1, <3>1
    <2>2. CASE row[p.id].is # "row"
      BY <1>2, <1>4, <2>2
    <2> QED
      BY <2>1, <2>2
  <1> QED
    BY <1>2, <1>3, <1>4, GrantStep

-----------------------------------------------------------------------------
(* A receipt is written for a nonce that has none.                          *)
LEMMA WritesOnceStep ==
  ASSUME ApprovalInv, [Next]_vars
  PROVE  ApprovalWritesOnce'
  <1>0. TypeOK
    BY DEF ApprovalInv
  <1> SUFFICES ASSUME NEW p \in receipts', NEW q \in receipts', p.nonce = q.nonce
               PROVE  p = q
    BY DEF ApprovalWritesOnce
  <1>1. ASSUME NEW r \in Request, NEW i \in Id, NEW rev \in 0..MaxRevision, Grants(r, i, rev)
        PROVE  p = q
    <2>1. Storing(r, req[r].nonce) /\ req[r].nonce \in Nonce
      BY <1>0, <1>1, Types, ReqFields DEF Grants, Store, Storing
    <2>2. \A o \in receipts : o.nonce # req[r].nonce
      BY <2>1 DEF ApprovalInv, OneStore
    <2>3. /\ p \in receipts \/ p = Receipt(i, req[r].nonce, rev)
          /\ q \in receipts \/ q = Receipt(i, req[r].nonce, rev)
      BY <1>1 DEF Grants, Granted
    <2>4. Receipt(i, req[r].nonce, rev).nonce = req[r].nonce
      BY DEF Receipt
    <2> QED
      BY <2>2, <2>3, <2>4 DEF ApprovalInv, ApprovalWritesOnce
  <1>2. CASE receipts' = receipts
    BY <1>2 DEF ApprovalInv, ApprovalWritesOnce
  <1> QED
    BY <1>0, <1>1, <1>2, GrantStep

(* A receipt is written soon after the request's last check.                *)
LEMMA FreshStep ==
  ASSUME ApprovalInv, [Next]_vars
  PROVE  ApprovalIsFresh'
  <1> USE ApprovalAssumption
  <1>0. TypeOK
    BY DEF ApprovalInv
  <1> SUFFICES ASSUME NEW p \in receipts'
               PROVE  p.at < token'[p.nonce].at + TTL + MaxOffset + 2 * Stall
    BY DEF ApprovalIsFresh
  <1>1. CASE p \in receipts
    <2>1. p.nonce \in Nonce
      BY <1>0, <1>1, Types DEF ReceiptType
    <2>2. token'[p.nonce] = token[p.nonce]
      BY <1>0, <1>1, <2>1, SignedStays DEF ApprovalInv, SpentOnFile, Spent
    <2> QED
      BY <1>1, <2>2 DEF ApprovalInv, ApprovalIsFresh
  <1>2. ASSUME NEW r \in Request, NEW i \in Id, NEW rev \in 0..MaxRevision,
               Grants(r, i, rev), p = Receipt(i, req[r].nonce, rev)
        PROVE  p.at < token'[p.nonce].at + TTL + MaxOffset + 2 * Stall
    <2>1. req[r].pc = "store" /\ token' = token
      BY <1>2 DEF Grants, Store
    <2>2. req[r].nonce \in Nonce /\ req[r].since \in Nat
      BY <1>0, <2>1, Types, ReqFields
    <2>3. token[req[r].nonce].at \in Nat
      BY <1>0, <2>2, Types, TokenFields
    <2>4. p.at = now /\ p.nonce = req[r].nonce /\ now \in Nat
      BY <1>0, <1>2, Wall DEF Receipt
    <2> QED
      BY <2>1, <2>2, <2>3, <2>4 DEF ApprovalInv, RequestsTimed, CheckedBefore
  <1> QED
    BY <1>0, <1>1, <1>2, ReceiptStep

(* Who writes a grant leaves the latest receipt of it, and nobody else      *)
(* touches its terms.                                                       *)
LEMMA GrantStaysApproved ==
  ASSUME ApprovalInv, [Next]_vars
  PROVE  GrantIsApproved'
  <1>0. TypeOK /\ row \in [Id -> RowState] /\ receipts \in SUBSET ReceiptType
    BY Types DEF ApprovalInv
  <1> DEFINE Latest(p, i) ==
        /\ p.id = i /\ p.revision <= row[i].revision
        /\ \A q \in receipts \ {p} : q.id = i => q.revision < p.revision
        /\ token[p.nonce].claims.terms = row[i].terms
        /\ token[p.nonce].claims.id \in {i, NoId}
  <1> SUFFICES ASSUME NEW i \in Id, row'[i].is = "row"
               PROVE  \E p \in receipts' : Latest(p, i)'
    BY DEF GrantIsApproved
  <1>1. ASSUME NEW p \in receipts PROVE p.nonce \in Nonce /\ token'[p.nonce] = token[p.nonce]
    <2>1. p.nonce \in Nonce
      BY <1>0, <1>1 DEF ReceiptType
    <2> QED
      BY <1>0, <1>1, <2>1, SignedStays DEF ApprovalInv, SpentOnFile, Spent
  <1>2. ASSUME row[i].is = "row", row'[i].terms = row[i].terms,
               row'[i].revision \in {row[i].revision, row[i].revision + 1},
               \A q \in receipts' : q \notin receipts => q.id # i,
               receipts \subseteq receipts'
        PROVE  \E p \in receipts' : Latest(p, i)'
    <2>1. PICK p \in receipts : Latest(p, i)
      BY <1>2 DEF ApprovalInv, GrantIsApproved
    <2>2. row[i].revision \in Nat /\ p.revision \in Nat
      BY <1>0, <1>2, RowFields, ApprovalAssumption DEF ReceiptType
    <2>3. p.revision <= row'[i].revision
      BY <1>2, <2>1, <2>2
    <2>4. \A q \in receipts' \ {p} : q.id = i => q.revision < p.revision
      BY <1>2, <2>1
    <2> QED
      BY <1>1, <1>2, <2>1, <2>3, <2>4
  <1>3. ASSUME NEW r \in Request, NEW rev \in 0..MaxRevision, Grants(r, i, rev)
        PROVE  \E p \in receipts' : Latest(p, i)'
    <2> DEFINE p == Receipt(i, req[r].nonce, rev)
    <2>1. p \in receipts' /\ p.id = i /\ p.revision = rev /\ p.nonce = req[r].nonce
      BY <1>3 DEF Grants, Granted, Receipt
    <2>2. row'[i].terms = req[r].body.terms /\ row'[i].revision = rev
      BY <1>0, <1>3 DEF Grants, Granted
    <2>3. token'[p.nonce].claims = req[r].body
      BY <1>3, <2>1 DEF Grants, Store, ApprovalInv, RequestsSigned
    <2>4. ASSUME NEW q \in receipts, q.id = i PROVE q.revision < rev
      <3>1. row[i].is # "free" /\ (row[i].is = "row" => q.revision <= row[i].revision)
        BY <2>4 DEF ApprovalInv, ReceiptsBehind
      <3>2. row[i].is = "row" /\ rev = row[i].revision + 1
        BY <1>3, <3>1 DEF Grants
      <3>3. row[i].revision \in Nat /\ q.revision \in Nat
        BY <1>0, <3>2, RowFields, ApprovalAssumption DEF ReceiptType
      <3> QED
        BY <3>1, <3>2, <3>3
    <2>5. \A q \in receipts' \ {p} : q.id = i => q.revision < p.revision
      BY <1>3, <2>1, <2>4 DEF Grants, Granted
    <2>6. req[r].body.id \in {i, NoId}
      BY <1>3 DEF Grants
    <2>7. p.revision <= row'[i].revision
      BY <2>1, <2>2
    <2> QED
      BY <2>1, <2>2, <2>3, <2>5, <2>6, <2>7
  <1>4. ASSUME NEW r \in Request, NEW j \in Id, j # i, NEW rev \in 0..MaxRevision,
               Grants(r, j, rev)
        PROVE  \E p \in receipts' : Latest(p, i)'
    <2>1. row'[i] = row[i]
      BY <1>0, <1>4 DEF Grants, Granted
    <2>2. receipts' = receipts \cup {Receipt(j, req[r].nonce, rev)}
      BY <1>4 DEF Grants, Granted
    <2> QED
      BY <1>2, <1>4, <2>1, <2>2 DEF Receipt
  <1>5. CASE /\ receipts' = receipts
             /\ \/ row'[i] = row[i]
                \/ row'[i].is = "gone"
                \/ /\ row[i].is = "row" /\ row'[i].terms = row[i].terms
                   /\ row'[i].is = "row" /\ row'[i].revision = row[i].revision + 1
    BY <1>2, <1>5
  <1> QED
    BY <1>0, <1>3, <1>4, <1>5, GrantStep

-----------------------------------------------------------------------------
(* At first nothing is signed, used, stored or under way.                   *)
LEMMA InitApproval == Init => ApprovalInv
  <1> SUFFICES ASSUME Init PROVE ApprovalInv
    OBVIOUS
  <1>1. TypeOK
    BY InitTypes
  <1>2. \A n \in Nonce : token[n].signed = FALSE
    BY Zenon DEF Init, Unsigned
  <1>3. TokensTimed /\ UsesTimed
    BY <1>2 DEF Init, TokensTimed, UsesTimed
  <1>4. \A r \in Request : req[r].pc = "idle"
    BY DEF Init, Idle
  <1>5. RequestsSigned /\ RequestsTimed
    BY <1>4 DEF RequestsSigned, RequestsTimed
  <1>6. receipts = {} /\ \A r \in Request, n \in Nonce : ~Storing(r, n)
    BY <1>4 DEF Init, Storing
  <1>7. /\ SpentOnFile /\ OneStore /\ ReceiptsBehind
        /\ ApprovalWritesOnce /\ ApprovalIsFresh
    BY <1>6 DEF SpentOnFile, Spent, OneStore, ReceiptsBehind, ApprovalWritesOnce,
       ApprovalIsFresh
  <1>8. GrantIsApproved
    BY DEF Init, Free, GrantIsApproved
  <1> QED
    BY <1>1, <1>3, <1>5, <1>7, <1>8 DEF ApprovalInv

(* Every step keeps the invariant, part by part.                            *)
LEMMA StepApproval == ApprovalInv /\ [Next]_vars => ApprovalInv'
  <1> SUFFICES ASSUME ApprovalInv, [Next]_vars PROVE ApprovalInv'
    OBVIOUS
  <1>1. TypeOK'
    BY StepTypes DEF ApprovalInv
  <1>2. TokensTimed' /\ UsesTimed' /\ RequestsSigned' /\ RequestsTimed' /\ ReceiptsBehind'
    BY TokensTimedStep, UsesTimedStep, RequestsSignedStep, RequestsTimedStep,
       ReceiptsBehindStep DEF ApprovalInv
  <1>3. SpentOnFile' /\ OneStore' /\ ApprovalWritesOnce' /\ ApprovalIsFresh' /\ GrantIsApproved'
    BY SpentOnFileStep, OneStoreStep, WritesOnceStep, FreshStep, GrantStaysApproved
  <1> QED
    BY <1>1, <1>2, <1>3 DEF ApprovalInv

(* The inductive invariant holds in every reachable state.                  *)
THEOREM ApprovalInvariant == Spec => []ApprovalInv
  BY InitApproval, StepApproval, PTL DEF Spec

(* A human's approval authorizes one write, whatever requests carry its     *)
(* token, however often the worker crashes between burning a nonce and      *)
(* storing the grant, and whenever the clock is corrected.                  *)
THEOREM OneWritePerApproval == Spec => []ApprovalWritesOnce
  <1>1. ApprovalInv => ApprovalWritesOnce
    BY DEF ApprovalInv
  <1> QED
    BY <1>1, ApprovalInvariant, PTL

(* Every grant in force has the terms of the approval its latest receipt    *)
(* names, for its schedule.                                                 *)
THEOREM GrantsAreApproved == Spec => []GrantIsApproved
  <1>1. ApprovalInv => GrantIsApproved
    BY DEF ApprovalInv
  <1> QED
    BY <1>1, ApprovalInvariant, PTL

(* A grant follows its confirmation within the token's lifetime, the error  *)
(* of the clock and two waits.                                              *)
THEOREM ApprovalsAreFresh == Spec => []ApprovalIsFresh
  <1>1. ApprovalInv => ApprovalIsFresh
    BY DEF ApprovalInv
  <1> QED
    BY <1>1, ApprovalInvariant, PTL

=============================================================================
