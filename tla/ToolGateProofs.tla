--------------------------- MODULE ToolGateProofs ---------------------------
(***************************************************************************)
(* What holds of ToolGate for any number of tools, cards, callers, admins,  *)
(* calls, saves and restarts.                                               *)
(***************************************************************************)
EXTENDS ToolGate, FiniteSetTheorems, TLAPS

(***************************************************************************)
(* Cards.                                                                   *)
(***************************************************************************)

(* A caller with a card in hand has not begun to write its row, or is about *)
(* to; one that sweeps has no card of its own.                              *)
Hands ==
  \A c \in Caller :
    /\ call[c].card # NoCard => call[c].at \in {"layer", "tool", "go", "run", "record"}
    /\ call[c].swept # {} => call[c].at = "sweep"
    /\ call[c].at # "idle" /\ call[c].card = NoCard => call[c].tool \in Tool
    /\ call[c].at = "record" => call[c].card # NoCard /\ call[c].say \in Outcome

TypeInv == TypeOK /\ Hands

Has(c, k) == call[c].card = k \/ k \in call[c].swept

(* A card waits, or is with one caller, or is with nobody for good.         *)
OnePlace ==
  /\ \A k \in Card, c \in Caller : Has(c, k) => k \notin pending
  /\ \A k \in Card, c, d \in Caller : Has(c, k) /\ Has(d, k) => c = d

(* An id nobody has given out yet has no history.                           *)
Fresh ==
  \A k \in Card : toolOf[k] = Layer =>
    /\ trail[k] = <<>> /\ ran[k] = 0
    /\ k \notin pending
    /\ \A c \in Caller : ~Has(c, k)

(* Until its row is written a card has none, and it has had an effect only  *)
(* when the row that is being written says so.                              *)
Unwritten ==
  /\ \A k \in pending : trail[k] = <<>> /\ ran[k] = 0
  /\ \A c \in Caller : \A k \in call[c].swept : trail[k] = <<>> /\ ran[k] = 0
  /\ \A c \in Caller : call[c].card # NoCard =>
       /\ trail[call[c].card] = <<>> /\ ran[call[c].card] <= 1
       /\ ran[call[c].card] = 1 =>
            call[c].at = "record" /\ call[c].say \in {"executed", "error"}

CardInv == OnePlace /\ Fresh /\ Unwritten /\ CardsEndOnce

-----------------------------------------------------------------------------
CallState ==
  [at : {"idle", "sweep", "layer", "tool", "go", "run", "record"},
   card : Card \cup {NoCard}, tool : Scope,
   say : {"", "ask", "approved", "approve", "deny"} \cup Outcome,
   swept : SUBSET Card, late : BOOLEAN]
SaveState ==
  [at : {"idle", "open", "dump", "close", "replace", "saved", "failed"},
   on : BOOLEAN, scope : Scope, fd : Inode \cup {NoFile}, text : Content]

SwitchT == enabled \in BOOLEAN /\ disabled \in SUBSET Tool /\ stateError \in BOOLEAN
FilesT ==
  /\ disk \in [Inode -> Content]
  /\ file \in Inode \cup {NoFile} /\ tmp \in Inode \cup {NoFile}
CardsT ==
  /\ pending \in SUBSET Card /\ stale \in SUBSET Card
  /\ toolOf \in [Card -> Scope]
  /\ trail \in [Card -> Seq(Outcome)] /\ ran \in [Card -> Nat]
CallT == call \in [Caller -> CallState]
SaveT == save \in [Admin -> SaveState]
CountT ==
  /\ braked \in SUBSET Scope /\ raced \in BOOLEAN
  /\ calls \in 0..MaxCalls /\ saves \in 0..MaxSaves /\ restarts \in 0..MaxRestarts

LEMMA Types == TypeOK <=> SwitchT /\ FilesT /\ CardsT /\ CallT /\ SaveT /\ CountT
  BY DEF TypeOK, SwitchT, FilesT, CardsT, CallT, SaveT, CountT, CallState, SaveState

LEMMA Admins == Cardinality(Admin) \in Nat /\ NoFile \notin Inode
  BY ToolGateAssumption, FS_CardinalityType DEF NoFile, Inode

(* There is an inode under no name and in no hand.                          *)
LEMMA FreeExists ==
  ASSUME SaveT, FilesT, tmp = NoFile
  PROVE  /\ FreeInode \in Inode /\ FreeInode # file /\ FreeInode # tmp
         /\ \A a \in Admin : FreeInode # save[a].fd
<1> DEFINE fds == {save[a].fd : a \in Admin}
           used == fds \cup {file}
           n == Cardinality(Admin)
<1>1. IsFiniteSet(fds) /\ Cardinality(fds) <= n
  <2> DEFINE f == [a \in Admin |-> save[a].fd]
  <2>1. f \in Surjection(Admin, fds)
    BY DEF Surjection
  <2> HIDE DEF f, fds
  <2> QED
    BY <2>1, ToolGateAssumption, FS_Surjection
<1>2. IsFiniteSet(used) /\ Cardinality(used) <= n + 1
  <2>1. Cardinality(fds) \in Nat /\ n \in Nat
    BY <1>1, Admins, FS_CardinalityType
  <2>2. /\ IsFiniteSet(used)
        /\ Cardinality(used) = IF file \in fds THEN Cardinality(fds) ELSE Cardinality(fds) + 1
    <3> HIDE DEF fds
    <3> QED
      BY <1>1, FS_AddElement
  <2> QED
    BY <1>1, <2>1, <2>2
<1>3. IsFiniteSet(Inode) /\ Cardinality(Inode) = n + 2
  <2>1. n \in Nat /\ n + 1 \in Int /\ 0 \in Int /\ ~(0 > n + 1) /\ n + 1 - 0 + 1 = n + 2
    BY Admins
  <2>2. IsFiniteSet(0..(n + 1)) /\ Cardinality(0..(n + 1)) = n + 1 - 0 + 1
    BY <2>1, FS_Interval
  <2> QED
    BY <2>1, <2>2 DEF Inode
<1>4. \E i \in Inode : i \notin used
  <2> SUFFICES ASSUME Inode \subseteq used PROVE FALSE
    OBVIOUS
  <2>1. Cardinality(Inode) <= Cardinality(used)
    BY <1>2, FS_Subset
  <2>2. Cardinality(used) \in Nat /\ n \in Nat
    BY <1>2, Admins, FS_CardinalityType
  <2> QED
    BY <1>2, <1>3, <2>1, <2>2
<1>5. \E i \in Inode : i \notin {file, tmp} \cup fds
  BY <1>4, Admins
<1> QED
  BY <1>5 DEF FreeInode

LEMMA States ==
  /\ Empty \in Content /\ Torn \in Content
  /\ \A on \in BOOLEAN, off \in SUBSET Tool : State(on, off) \in Content
  /\ Idle \in CallState /\ Rest \in SaveState
  BY DEF Empty, Torn, State, Content, Idle, Rest, CallState, SaveState, Scope

Places == {"idle", "sweep", "layer", "tool", "go", "run", "record"}
Words == {"", "ask", "approved", "approve", "deny"} \cup Outcome

LEMMA Spoken ==
  \A w \in {"executed", "error", "blocked", "expired", "denied"} : w \in Outcome /\ w \in Words
  BY DEF Outcome, Words

(* What a caller's step leaves of its own record, and that it leaves those  *)
(* of the others alone.                                                     *)
Others(c) == \A d \in Caller \ {c} : call'[d] = call[d]

LEMMA Went ==
  ASSUME CallT, NEW c \in Caller, NEW place \in Places, Goes(c, place)
  PROVE  /\ CallT' /\ Others(c)
         /\ call'[c].at = place /\ call'[c].card = call[c].card
         /\ call'[c].tool = call[c].tool /\ call'[c].say = call[c].say
         /\ call'[c].swept = call[c].swept /\ call'[c].late = call[c].late
  BY DEF CallT, CallState, Goes, Others, Places

LEMMA Said ==
  ASSUME CallT, NEW c \in Caller, NEW place \in Places, NEW word \in Words,
         Says(c, place, word)
  PROVE  /\ CallT' /\ Others(c)
         /\ call'[c].at = place /\ call'[c].card = call[c].card
         /\ call'[c].tool = call[c].tool /\ call'[c].say = word
         /\ call'[c].swept = call[c].swept /\ call'[c].late = call[c].late
  BY ZenonT(40) DEF CallT, CallState, Says, Others, Places, Words

LEMMA Ended ==
  ASSUME CallT, NEW c \in Caller, Ends(c)
  PROVE  /\ CallT' /\ Others(c)
         /\ call'[c].at = "idle" /\ call'[c].card = NoCard /\ call'[c].tool = Layer
         /\ call'[c].swept = {} /\ call'[c].late = FALSE
  BY States DEF CallT, Ends, Others, Idle

LEMMA Began ==
  ASSUME CallT, NEW c \in Caller, NEW k \in Card \cup {NoCard}, NEW t \in Scope,
         NEW place \in Places, NEW say \in Words, NEW swept \in SUBSET Card,
         Begins(c, k, t, place, say, swept)
  PROVE  /\ CallT' /\ Others(c)
         /\ call'[c].at = place /\ call'[c].card = k /\ call'[c].tool = t
         /\ call'[c].say = say /\ call'[c].swept = swept /\ call'[c].late = PromisedOff(t)
<1>1. PromisedOff(t) \in BOOLEAN
  BY DEF PromisedOff
<1> QED
  BY <1>1 DEF CallT, CallState, Begins, Others, Places, Words

LEMMA SweptOne ==
  ASSUME CallT, NEW c \in Caller, NEW k \in Card,
         call' = [call EXCEPT ![c].swept = @ \ {k}]
  PROVE  /\ CallT' /\ Others(c)
         /\ call'[c].at = call[c].at /\ call'[c].card = call[c].card
         /\ call'[c].tool = call[c].tool /\ call'[c].say = call[c].say
         /\ call'[c].swept = call[c].swept \ {k} /\ call'[c].late = call[c].late
  BY DEF CallT, CallState, Others

(* What the admins do to the calls: some are no longer late.                *)
LEMMA Relieved ==
  ASSUME CallT, \A c \in Caller : call'[c] = call[c]
                   \/ \E l \in BOOLEAN : call'[c] = [call[c] EXCEPT !.late = l],
         call' = [c \in Caller |-> call'[c]]
  PROVE  /\ CallT'
         /\ \A c \in Caller :
              /\ call'[c].at = call[c].at /\ call'[c].card = call[c].card
              /\ call'[c].tool = call[c].tool /\ call'[c].say = call[c].say
              /\ call'[c].swept = call[c].swept
<1>1. ASSUME NEW c \in Caller
      PROVE  /\ call'[c] \in CallState
             /\ call'[c].at = call[c].at /\ call'[c].card = call[c].card
             /\ call'[c].tool = call[c].tool /\ call'[c].say = call[c].say
             /\ call'[c].swept = call[c].swept
  BY ZenonT(40) DEF CallT, CallState
<1> QED
  BY <1>1 DEF CallT

LEMMA InitTypes == Init => TypeInv
<1> SUFFICES ASSUME Init PROVE TypeInv
  OBVIOUS
<1> USE ToolGateAssumption, States
<1>1. SwitchT
  BY DEF Init, SwitchT
<1>5. CountT
  <2>1. 0 \in 0..MaxCalls /\ 0 \in 0..MaxSaves /\ 0 \in 0..MaxRestarts
    BY ToolGateAssumption
  <2> QED
    BY <2>1 DEF Init, CountT
<1>2. FilesT /\ CardsT
  BY DEF Init, FilesT, CardsT, Scope
<1>3. CallT /\ SaveT
  BY DEF Init, CallT, SaveT
<1>4. Hands
  BY DEF Init, Hands, Idle
<1> QED
  BY <1>1, <1>2, <1>3, <1>4, <1>5, Types DEF TypeInv

LEMMA StepTypes == TypeInv /\ [Next]_vars => TypeInv'
<1> SUFFICES ASSUME TypeInv, [Next]_vars PROVE TypeInv'
  OBVIOUS
<1> USE ToolGateAssumption DEF switch, files, cards, history, bounds
<1>t. SwitchT /\ FilesT /\ CardsT /\ CallT /\ SaveT /\ CountT /\ Hands
  BY Types DEF TypeInv
<1>q. SwitchT' /\ FilesT' /\ CardsT' /\ CallT' /\ SaveT' /\ CountT' /\ Hands' => TypeInv'
  BY Types DEF TypeInv, TypeOK, SwitchT, FilesT, CardsT, CallT, SaveT, CountT, CallState, SaveState
<1>1. ASSUME NEW c \in Caller, Propose(c) PROVE TypeInv'
  <2>c. CallT' /\ Hands'
    <3>1. PICK t \in Tool, say \in {"ask", "approved"} :
            Begins(c, NoCard, t, "sweep", say, pending \cap stale)
      BY <1>1 DEF Propose
    <3>2. /\ t \in Scope /\ "sweep" \in Places /\ say \in Words
          /\ pending \cap stale \in SUBSET Card /\ NoCard \in Card \cup {NoCard}
      BY <1>t DEF CardsT, Scope, Places, Words
    <3>3. /\ CallT' /\ Others(c)
          /\ call'[c].at = "sweep" /\ call'[c].card = NoCard /\ call'[c].tool = t
      BY <3>1, <3>2, <1>t, Began
    <3> QED
      BY <3>3, <1>t DEF Hands, Others
  <2>s. SaveT'
    BY <1>t, <1>1 DEF Propose, SaveT
  <2>f. FilesT'
    BY <1>t, <1>1 DEF Propose, FilesT
  <2>k. CardsT'
    BY <1>t, <1>1 DEF Propose, CardsT
  <2>w. SwitchT' /\ CountT'
    BY <1>t, <1>1 DEF Propose, Begins, SwitchT, CountT, Scope
  <2> QED
    BY <1>q, <2>c, <2>s, <2>f, <2>k, <2>w
<1>2. ASSUME NEW c \in Caller, Sweep(c) PROVE TypeInv'
  <2>c. CallT' /\ Hands'
    <3>1. CASE \E k \in call[c].swept : call' = [call EXCEPT ![c].swept = @ \ {k}]
      <4>1. PICK k \in Card : call' = [call EXCEPT ![c].swept = @ \ {k}]
        BY <3>1, <1>t DEF CallT, CallState
      <4>2. /\ CallT' /\ Others(c)
            /\ call'[c].at = call[c].at /\ call'[c].card = call[c].card
            /\ call'[c].tool = call[c].tool
        BY <4>1, <1>t, SweptOne
      <4> QED
        BY <4>2, <1>t, <1>2 DEF Sweep, Hands, Others
    <3>2. CASE call[c].swept = {} /\ Goes(c, "layer")
      BY <3>2, <1>t, <1>2, Went DEF Sweep, Hands, Others, Places
    <3> QED
      BY <3>1, <3>2, <1>2 DEF Sweep
  <2>s. SaveT'
    BY <1>t, <1>2 DEF Sweep, SaveT
  <2>f. FilesT'
    BY <1>t, <1>2 DEF Sweep, FilesT
  <2>k. CardsT'
    <3>1. \A k \in call[c].swept : k \in Card
      BY <1>t DEF CallT, CallState
    <3>2. "expired" \in Outcome
      BY DEF Outcome
    <3>3. trail' \in [Card -> Seq(Outcome)]
      <4>1. \A k \in Card : Append(trail[k], "expired") \in Seq(Outcome)
        BY <1>t, <3>2 DEF CardsT
      <4>2. \/ UNCHANGED trail
            \/ \E k \in Card : trail' = [trail EXCEPT ![k] = Append(@, "expired")]
        BY <1>2, <3>1 DEF Sweep
      <4> QED
        BY <1>t, <4>1, <4>2 DEF CardsT
    <3> QED
      BY <1>t, <1>2, <3>3 DEF Sweep, CardsT
  <2>w. SwitchT' /\ CountT'
    BY <1>t, <1>2 DEF Sweep, SwitchT, CountT, Scope
  <2> QED
    BY <1>q, <2>c, <2>s, <2>f, <2>k, <2>w
<1>3. ASSUME NEW c \in Caller, Confirm(c) PROVE TypeInv'
  <2>c. CallT' /\ Hands'
    <3>1. PICK k \in pending, say \in {"approve", "deny"} :
            Begins(c, k, toolOf[k], "layer", say, {})
      BY <1>3 DEF Confirm
    <3>2. k \in Card /\ toolOf[k] \in Scope
      BY <1>t DEF CardsT
    <3>3. "layer" \in Places /\ say \in Words /\ {} \in SUBSET Card /\ k \in Card \cup {NoCard}
      BY <3>2 DEF Places, Words
    <3>4. /\ CallT' /\ Others(c)
          /\ call'[c].at = "layer" /\ call'[c].card = k /\ call'[c].swept = {}
      BY <3>1, <3>2, <3>3, <1>t, Began
    <3> QED
      BY <3>2, <3>4, <1>t DEF Hands, Others
  <2>s. SaveT'
    BY <1>t, <1>3 DEF Confirm, SaveT
  <2>f. FilesT'
    BY <1>t, <1>3 DEF Confirm, FilesT
  <2>k. CardsT'
    BY <1>t, <1>3 DEF Confirm, CardsT
  <2>w. SwitchT' /\ CountT'
    BY <1>t, <1>3 DEF Confirm, Begins, SwitchT, CountT, Scope
  <2> QED
    BY <1>q, <2>c, <2>s, <2>f, <2>k, <2>w
<1>4. ASSUME NEW c \in Caller, CheckLayer(c) PROVE TypeInv'
  <2>c. CallT' /\ Hands'
    <3>1. CASE Goes(c, "tool")
      BY <3>1, <1>t, <1>4, Went DEF CheckLayer, Hands, Others, Places
    <3>2. CASE Ends(c)
      BY <3>2, <1>t, Ended DEF Hands, Others
    <3>3. CASE call[c].card # NoCard /\ Says(c, "record", "blocked")
      <4>1. "record" \in Places
        BY DEF Places
      <4>2. /\ CallT' /\ Others(c)
            /\ call'[c].at = "record" /\ call'[c].card = call[c].card
            /\ call'[c].say \in Outcome /\ call'[c].swept = call[c].swept
        BY <4>1, <3>3, <1>t, Said, Spoken
      <4> QED
        BY <4>2, <3>3, <1>t, <1>4 DEF CheckLayer, Hands, Others
    <3> QED
      BY <3>1, <3>2, <3>3, <1>4 DEF CheckLayer, Blocked
  <2>s. SaveT'
    BY <1>t, <1>4 DEF CheckLayer, SaveT
  <2>f. FilesT'
    BY <1>t, <1>4 DEF CheckLayer, FilesT
  <2>k. CardsT'
    BY <1>t, <1>4 DEF CheckLayer, CardsT
  <2>w. SwitchT' /\ CountT'
    BY <1>t, <1>4 DEF CheckLayer, SwitchT, CountT, Scope
  <2> QED
    BY <1>q, <2>c, <2>s, <2>f, <2>k, <2>w
<1>5. ASSUME NEW c \in Caller, CheckTool(c) PROVE TypeInv'
  <2>c. CallT' /\ Hands'
    <3>1. CASE Goes(c, "go")
      BY <3>1, <1>t, <1>5, Went DEF CheckTool, Hands, Others, Places
    <3>2. CASE Ends(c)
      BY <3>2, <1>t, Ended DEF Hands, Others
    <3>3. CASE call[c].card # NoCard /\ Says(c, "record", "blocked")
      <4>1. "record" \in Places
        BY DEF Places
      <4>2. /\ CallT' /\ Others(c)
            /\ call'[c].at = "record" /\ call'[c].card = call[c].card
            /\ call'[c].say \in Outcome /\ call'[c].swept = call[c].swept
        BY <4>1, <3>3, <1>t, Said, Spoken
      <4> QED
        BY <4>2, <3>3, <1>t, <1>5 DEF CheckTool, Hands, Others
    <3> QED
      BY <3>1, <3>2, <3>3, <1>5 DEF CheckTool, Blocked
  <2>s. SaveT'
    BY <1>t, <1>5 DEF CheckTool, SaveT
  <2>f. FilesT'
    BY <1>t, <1>5 DEF CheckTool, FilesT
  <2>k. CardsT'
    BY <1>t, <1>5 DEF CheckTool, CardsT
  <2>w. SwitchT' /\ CountT'
    BY <1>t, <1>5 DEF CheckTool, SwitchT, CountT, Scope
  <2> QED
    BY <1>q, <2>c, <2>s, <2>f, <2>k, <2>w
<1>6. ASSUME NEW c \in Caller, RunNow(c) PROVE TypeInv'
  <2>c. CallT' /\ Hands'
    BY <1>t, <1>6, Went DEF RunNow, Hands, Others, Places
  <2>s. SaveT'
    BY <1>t, <1>6 DEF RunNow, SaveT
  <2>f. FilesT'
    BY <1>t, <1>6 DEF RunNow, FilesT
  <2>k. CardsT'
    BY <1>t, <1>6 DEF RunNow, CardsT
  <2>w. SwitchT' /\ CountT'
    BY <1>t, <1>6 DEF RunNow, SwitchT, CountT, Scope
  <2> QED
    BY <1>q, <2>c, <2>s, <2>f, <2>k, <2>w
<1>7. ASSUME NEW c \in Caller, Park(c) PROVE TypeInv'
  <2>c. CallT' /\ Hands'
    <3>1. CallT' /\ Others(c) /\ call'[c].at = "idle" /\ call'[c].card = NoCard
          /\ call'[c].swept = {}
      BY <1>t, <1>7, Ended DEF Park
    <3> QED
      BY <3>1, <1>t DEF Hands, Others
  <2>s. SaveT'
    BY <1>t, <1>7 DEF Park, SaveT
  <2>f. FilesT'
    BY <1>t, <1>7 DEF Park, FilesT
  <2>k. CardsT'
    BY <1>t, <1>7 DEF Park, CardsT, CallT, CallState
  <2>w. SwitchT' /\ CountT'
    BY <1>t, <1>7 DEF Park, SwitchT, CountT, Scope
  <2> QED
    BY <1>q, <2>c, <2>s, <2>f, <2>k, <2>w
<1>8. ASSUME NEW c \in Caller, Answer(c) PROVE TypeInv'
  <2>c. CallT' /\ Hands'
    <3>1. CASE Goes(c, "run")
      BY <3>1, <1>t, <1>8, Went DEF Answer, Hands, Others, Places
    <3>2. ASSUME NEW word \in {"expired", "denied"}, Says(c, "record", word)
          PROVE  CallT' /\ Hands'
      <4>1. "record" \in Places
        BY DEF Places
      <4>2. /\ CallT' /\ Others(c)
            /\ call'[c].at = "record" /\ call'[c].card = call[c].card
            /\ call'[c].say \in Outcome /\ call'[c].swept = call[c].swept
        BY <4>1, <3>2, <1>t, Said, Spoken
      <4> QED
        BY <4>2, <3>2, <1>t, <1>8 DEF Answer, Hands, Others
    <3> QED
      BY <3>1, <3>2, <1>8 DEF Answer
  <2>s. SaveT'
    BY <1>t, <1>8 DEF Answer, SaveT
  <2>f. FilesT'
    BY <1>t, <1>8 DEF Answer, FilesT
  <2>k. CardsT'
    BY <1>t, <1>8 DEF Answer, CardsT
  <2>w. SwitchT' /\ CountT'
    BY <1>t, <1>8 DEF Answer, SwitchT, CountT, Scope
  <2> QED
    BY <1>q, <2>c, <2>s, <2>f, <2>k, <2>w
<1>9. ASSUME NEW c \in Caller, Execute(c) PROVE TypeInv'
  <2>c. CallT' /\ Hands'
    <3>1. CASE Ends(c)
      BY <3>1, <1>t, Ended DEF Hands, Others
    <3>2. ASSUME NEW word \in {"executed", "error", "blocked"}, Says(c, "record", word),
                 call[c].card # NoCard
          PROVE  CallT' /\ Hands'
      <4>1. "record" \in Places
        BY DEF Places
      <4>2. /\ CallT' /\ Others(c)
            /\ call'[c].at = "record" /\ call'[c].card = call[c].card
            /\ call'[c].say \in Outcome /\ call'[c].swept = call[c].swept
        BY <4>1, <3>2, <1>t, Said, Spoken
      <4> QED
        BY <4>2, <3>2, <1>t, <1>9 DEF Execute, Hands, Others
    <3> QED
      BY <3>1, <3>2, <1>9 DEF Execute
  <2>s. SaveT'
    BY <1>t, <1>9 DEF Execute, SaveT
  <2>f. FilesT'
    BY <1>t, <1>9 DEF Execute, FilesT
  <2>k. CardsT'
    <3>1. call[c].card = NoCard \/ call[c].card \in Card
      BY <1>t DEF CallT, CallState
    <3> QED
      BY <1>t, <1>9, <3>1 DEF Execute, CardsT
  <2>w. SwitchT' /\ CountT'
    BY <1>t, <1>9 DEF Execute, SwitchT, CountT, Scope
  <2> QED
    BY <1>q, <2>c, <2>s, <2>f, <2>k, <2>w
<1>10. ASSUME NEW c \in Caller, RecordOutcome(c) PROVE TypeInv'
  <2>c. CallT' /\ Hands'
    BY <1>t, <1>10, Ended, ZenonT(40) DEF RecordOutcome, Hands, Others
  <2>s. SaveT'
    BY <1>t, <1>10 DEF RecordOutcome, SaveT
  <2>f. FilesT'
    BY <1>t, <1>10 DEF RecordOutcome, FilesT
  <2>k. CardsT'
    <3>1. call[c].card \in Card /\ call[c].say \in Outcome
      BY <1>t, <1>10 DEF RecordOutcome, CallT, CallState, Hands
    <3> QED
      BY <1>t, <1>10, <3>1 DEF RecordOutcome, CardsT
  <2>w. SwitchT' /\ CountT'
    BY <1>t, <1>10 DEF RecordOutcome, SwitchT, CountT, Scope
  <2> QED
    BY <1>q, <2>c, <2>s, <2>f, <2>k, <2>w
<1>11. ASSUME NEW k \in Card, Lapse(k) PROVE TypeInv'
  <2>c. CallT' /\ Hands'
    BY <1>t, <1>11 DEF Lapse, CallT, Hands
  <2>s. SaveT'
    BY <1>t, <1>11 DEF Lapse, SaveT
  <2>f. FilesT'
    BY <1>t, <1>11 DEF Lapse, FilesT
  <2>k. CardsT'
    BY <1>t, <1>11 DEF Lapse, CardsT
  <2>w. SwitchT' /\ CountT'
    BY <1>t, <1>11 DEF Lapse, SwitchT, CountT, Scope
  <2> QED
    BY <1>q, <2>c, <2>s, <2>f, <2>k, <2>w
<1>12. ASSUME NEW a \in Admin, SetEnabled(a) PROVE TypeInv'
  <2>c. CallT' /\ Hands'
    <3>1. /\ call' = [c \in Caller |-> call'[c]]
          /\ \A c \in Caller : call'[c] = call[c]
               \/ \E l \in BOOLEAN : call'[c] = [call[c] EXCEPT !.late = l]
      BY <1>12 DEF SetEnabled
    <3> QED
      BY <3>1, <1>t, Relieved DEF Hands
  <2>s. SaveT'
    <3>1. PICK on \in BOOLEAN, scope \in Scope :
            save' = [save EXCEPT ![a] = [Rest EXCEPT !.at = "open", !.on = on, !.scope = scope]]
      BY <1>12 DEF SetEnabled
    <3>2. [Rest EXCEPT !.at = "open", !.on = on, !.scope = scope] \in SaveState
      BY States DEF Rest, SaveState
    <3> QED
      BY <1>t, <3>1, <3>2 DEF SaveT
  <2>f. FilesT'
    BY <1>t, <1>12 DEF SetEnabled, FilesT
  <2>k. CardsT'
    BY <1>t, <1>12 DEF SetEnabled, CardsT
  <2>w. SwitchT' /\ CountT'
    BY <1>t, <1>12
       DEF SetEnabled, Turned, Busy, OthersBusy, OthersArm, Crowded, SwitchT, CountT, Scope
  <2> QED
    BY <1>q, <2>c, <2>s, <2>f, <2>k, <2>w
<1>13. ASSUME NEW a \in Admin, OpenTmp(a) PROVE TypeInv'
  <2>c. CallT' /\ Hands'
    BY <1>t, <1>13 DEF OpenTmp, CallT, Hands
  <2>i. /\ tmp' \in Inode /\ disk' = [disk EXCEPT ![tmp'] = Empty]
        /\ save' = [save EXCEPT ![a].at = "dump", ![a].fd = tmp']
    BY <1>t, <1>13, FreeExists DEF OpenTmp, FilesT
  <2>s. SaveT'
    BY <1>t, <2>i, ZenonT(40) DEF SaveT, SaveState
  <2>f. FilesT'
    BY <1>t, <1>13, <2>i, States DEF OpenTmp, FilesT
  <2>k. CardsT'
    BY <1>t, <1>13 DEF OpenTmp, CardsT
  <2>w. SwitchT' /\ CountT'
    BY <1>t, <1>13 DEF OpenTmp, SwitchT, CountT, Scope
  <2> QED
    BY <1>q, <2>c, <2>s, <2>f, <2>k, <2>w
<1>14. ASSUME NEW a \in Admin, Dump(a) PROVE TypeInv'
  <2>c. CallT' /\ Hands'
    BY <1>t, <1>14 DEF Dump, CallT, Hands
  <2>s. SaveT'
    <3>1. State(enabled, disabled) \in Content
      BY <1>t, States DEF SwitchT
    <3> QED
      BY <1>t, <1>14, <3>1, ZenonT(40) DEF Dump, SaveT, SaveState
  <2>f. FilesT'
    BY <1>t, <1>14 DEF Dump, FilesT
  <2>k. CardsT'
    BY <1>t, <1>14 DEF Dump, CardsT
  <2>w. SwitchT' /\ CountT'
    BY <1>t, <1>14 DEF Dump, SwitchT, CountT, Scope
  <2> QED
    BY <1>q, <2>c, <2>s, <2>f, <2>k, <2>w
<1>15. ASSUME NEW a \in Admin, CloseTmp(a) PROVE TypeInv'
  <2>c. CallT' /\ Hands'
    BY <1>t, <1>15 DEF CloseTmp, CallT, Hands
  <2>s. SaveT'
    BY <1>t, <1>15, States, ZenonT(40) DEF CloseTmp, SaveT, SaveState
  <2>f. FilesT'
    <3>1. save[a].text \in Content /\ save[a].fd \in Inode \cup {NoFile}
      BY <1>t DEF SaveT, SaveState
    <3>2. \A bytes \in Overlaid(save[a].text, disk[save[a].fd]) : bytes \in Content
      BY <3>1, States DEF Overlaid
    <3> QED
      BY <1>t, <1>15, <3>2 DEF CloseTmp, FilesT
  <2>k. CardsT'
    BY <1>t, <1>15 DEF CloseTmp, CardsT
  <2>w. SwitchT' /\ CountT'
    BY <1>t, <1>15 DEF CloseTmp, SwitchT, CountT, Scope
  <2> QED
    BY <1>q, <2>c, <2>s, <2>f, <2>k, <2>w
<1>16. ASSUME NEW a \in Admin, ReplaceFile(a) PROVE TypeInv'
  <2>c. CallT' /\ Hands'
    BY <1>t, <1>16 DEF ReplaceFile, CallT, Hands
  <2>s. SaveT'
    BY <1>t, <1>16 DEF ReplaceFile, Moves, SaveT, SaveState
  <2>f. FilesT'
    BY <1>t, <1>16, States DEF ReplaceFile, FilesT
  <2>k. CardsT'
    BY <1>t, <1>16 DEF ReplaceFile, CardsT
  <2>w. SwitchT' /\ CountT'
    BY <1>t, <1>16 DEF ReplaceFile, SwitchT, CountT, Scope
  <2> QED
    BY <1>q, <2>c, <2>s, <2>f, <2>k, <2>w
<1>17. ASSUME NEW a \in Admin, DiskFails(a) PROVE TypeInv'
  <2>c. CallT' /\ Hands'
    <3>1. raced' \in BOOLEAN
      BY <1>t, <1>17 DEF DiskFails, OthersBusy, Busy, CountT
    <3>2. /\ call' = [c \in Caller |-> call'[c]]
          /\ \A c \in Caller : call'[c] = call[c]
               \/ \E l \in BOOLEAN : call'[c] = [call[c] EXCEPT !.late = l]
      BY <3>1, <1>17, <1>t DEF DiskFails, CallT, CallState
    <3> QED
      BY <3>2, <1>t, Relieved DEF Hands
  <2>s. SaveT'
    BY <1>t, <1>17, States, ZenonT(40) DEF DiskFails, SaveT, SaveState
  <2>f. FilesT'
    BY <1>t, <1>17 DEF DiskFails, FilesT
  <2>k. CardsT'
    BY <1>t, <1>17 DEF DiskFails, CardsT
  <2>w. SwitchT' /\ CountT'
    BY <1>t, <1>17 DEF DiskFails, OthersBusy, Busy, SwitchT, CountT, Scope
  <2> QED
    BY <1>q, <2>c, <2>s, <2>f, <2>k, <2>w
<1>18. ASSUME NEW a \in Admin, Settle(a) PROVE TypeInv'
  <2>c. CallT' /\ Hands'
    BY <1>t, <1>18 DEF Settle, CallT, Hands
  <2>s. SaveT'
    BY <1>t, <1>18, States DEF Settle, SaveT
  <2>f. FilesT'
    BY <1>t, <1>18 DEF Settle, FilesT
  <2>k. CardsT'
    BY <1>t, <1>18 DEF Settle, CardsT
  <2>w. SwitchT' /\ CountT'
    <3>1. save[a].scope \in Scope
      BY <1>t DEF SaveT, SaveState
    <3> QED
      BY <1>t, <1>18, <3>1 DEF Settle, SwitchT, CountT
  <2> QED
    BY <1>q, <2>c, <2>s, <2>f, <2>k, <2>w
<1>19. ASSUME Restart PROVE TypeInv'
  <2>c. CallT' /\ Hands'
    BY <1>19, States DEF Restart, CallT, Hands, Idle
  <2>s. SaveT'
    BY <1>19, States DEF Restart, SaveT
  <2>f. FilesT'
    BY <1>t, <1>19 DEF Restart, FilesT
  <2>k. CardsT'
    BY <1>t, <1>19 DEF Restart, CardsT
  <2>w. SwitchT' /\ CountT'
    <3>1. Loaded \in Content
      <4>1. CASE file = NoFile
        BY <4>1, States DEF Loaded
      <4>2. CASE file # NoFile /\ disk[file].kind = "state"
        BY <4>2, <1>t DEF Loaded, FilesT
      <4>3. CASE file # NoFile /\ disk[file].kind # "state"
        BY <4>3, States DEF Loaded
      <4> QED
        BY <4>1, <4>2, <4>3
    <3>2. Loaded.enabled \in BOOLEAN /\ Loaded.disabled \in SUBSET Tool
      BY <3>1 DEF Content
    <3> QED
      BY <1>t, <1>19, <3>2 DEF Restart, SwitchT, CountT, Scope
  <2> QED
    BY <1>q, <2>c, <2>s, <2>f, <2>k, <2>w
<1>20. CASE UNCHANGED vars
  BY <1>t, <1>q, <1>20 DEF vars, SwitchT, FilesT, CardsT, CallT, SaveT, CountT, Hands
<1> QED
  BY <1>1, <1>2, <1>3, <1>4, <1>5, <1>6, <1>7, <1>8, <1>9, <1>10, <1>11, <1>12,
     <1>13, <1>14, <1>15, <1>16, <1>17, <1>18, <1>19, <1>20 DEF Next

-----------------------------------------------------------------------------
(***************************************************************************)
(* Cards.                                                                   *)
(***************************************************************************)

(* A step that gives nobody a card and changes none.                        *)
Passive(c) ==
  /\ call'[c].swept \subseteq call[c].swept
  /\ \/ call'[c].card = NoCard
     \/ /\ call'[c].card = call[c].card
        /\ ran[call[c].card] = 1 => call'[c].at = call[c].at /\ call'[c].say = call[c].say

LEMMA QuietCards ==
  ASSUME TypeInv, CardInv, UNCHANGED <<toolOf, trail, ran>>, pending' \subseteq pending,
         \A c \in Caller : Passive(c)
  PROVE  CardInv'
<1>1. \A c \in Caller, k \in Card : Has(c, k)' => Has(c, k)
  BY ToolGateAssumption DEF Passive, Has
<1>2. OnePlace'
  BY <1>1 DEF CardInv, OnePlace
<1>3. Fresh'
  BY <1>1 DEF CardInv, Fresh
<1>4. Unwritten'
  BY DEF Passive, CardInv, Unwritten
<1>5. CardsEndOnce'
  BY DEF CardInv, CardsEndOnce
<1> QED
  BY <1>2, <1>3, <1>4, <1>5 DEF CardInv

LEMMA PassiveOthers ==
  ASSUME NEW c \in Caller, Others(c), NEW d \in Caller, d # c
  PROVE  Passive(d)
  BY DEF Others, Passive

LEMMA PassiveEnd ==
  ASSUME TypeInv, NEW c \in Caller, Ends(c)
  PROVE  \A d \in Caller : Passive(d)
<1>1. CallT /\ CallT' /\ Others(c) /\ call'[c].card = NoCard /\ call'[c].swept = {}
  BY Types, Ended DEF TypeInv
<1> QED
  BY <1>1, PassiveOthers DEF Passive

LEMMA PassiveMove ==
  ASSUME TypeInv, CardInv, NEW c \in Caller, call[c].at # "record",
         NEW place \in Places, NEW word \in Words, Goes(c, place) \/ Says(c, place, word)
  PROVE  \A d \in Caller : Passive(d)
<1>1. CallT
  BY Types DEF TypeInv
<1>2. Others(c) /\ call'[c].card = call[c].card /\ call'[c].swept = call[c].swept
  <2>1. CASE Goes(c, place)
    BY <2>1, <1>1, Went
  <2>2. CASE Says(c, place, word)
    BY <2>2, <1>1, Said
  <2> QED
    BY <2>1, <2>2
<1>3. call[c].card # NoCard => ran[call[c].card] # 1
  BY DEF CardInv, Unwritten
<1> QED
  BY <1>2, <1>3, PassiveOthers DEF Passive

LEMMA StepCards ==
  TypeInv /\ CardInv /\ TypeInv' /\ [Next]_vars => CardInv'
<1> SUFFICES ASSUME TypeInv, CardInv, TypeInv', [Next]_vars PROVE CardInv'
  OBVIOUS
<1> USE ToolGateAssumption DEF switch, files, cards, history, bounds
<1>t. CardsT /\ CallT /\ CountT /\ Hands
  BY Types DEF TypeInv
<1>p. "layer" \in Places /\ "tool" \in Places /\ "go" \in Places /\ "run" \in Places
      /\ "record" \in Places /\ "sweep" \in Places
  BY DEF Places
<1>w. "" \in Words
  BY DEF Words
<1>1. ASSUME NEW c \in Caller, Propose(c) PROVE CardInv'
  <2>1. PICK t \in Tool, say \in {"ask", "approved"} :
          Begins(c, NoCard, t, "sweep", say, pending \cap stale)
    BY <1>1 DEF Propose
  <2>2. /\ t \in Scope /\ say \in Words
        /\ pending \cap stale \in SUBSET Card /\ NoCard \in Card \cup {NoCard}
    BY <1>t DEF CardsT, Scope, Words
  <2>3. /\ Others(c)
        /\ call'[c].card = NoCard /\ call'[c].swept = pending \cap stale
    BY <2>1, <2>2, <1>t, <1>p, Began
  <2>4. pending' = pending \ stale /\ UNCHANGED <<toolOf, trail, ran>>
    BY <1>1 DEF Propose
  <2>5. \A k \in Card : Has(c, k)' => k \in pending
    BY <2>3 DEF Has
  <2>6. \A d \in Caller \ {c}, k \in Card : Has(d, k)' <=> Has(d, k)
    BY <2>3 DEF Has, Others
  <2>7. OnePlace'
    <3>1. \A k \in Card, d \in Caller : Has(d, k)' => k \notin pending'
      BY <2>3, <2>4, <2>6 DEF Has, CardInv, OnePlace
    <3>2. \A k \in Card, d, e \in Caller : Has(d, k)' /\ Has(e, k)' => d = e
      BY <2>5, <2>6 DEF CardInv, OnePlace
    <3> QED
      BY <3>1, <3>2 DEF OnePlace
  <2>8. Fresh'
    BY <2>4, <2>5, <2>6 DEF CardInv, Fresh
  <2>9. Unwritten'
    BY <2>3, <2>4 DEF CardInv, Unwritten, Others
  <2>10. CardsEndOnce'
    BY <2>4 DEF CardInv, CardsEndOnce
  <2> QED
    BY <2>7, <2>8, <2>9, <2>10 DEF CardInv
<1>2. ASSUME NEW c \in Caller, Sweep(c) PROVE CardInv'
  <2>1. CASE \E k \in call[c].swept :
               /\ trail' = [trail EXCEPT ![k] = Append(@, "expired")]
               /\ call' = [call EXCEPT ![c].swept = @ \ {k}]
    <3>1. PICK k \in Card : /\ k \in call[c].swept
                            /\ trail' = [trail EXCEPT ![k] = Append(@, "expired")]
                            /\ call' = [call EXCEPT ![c].swept = @ \ {k}]
      BY <2>1, <1>t DEF CallT, CallState
    <3>2. /\ Others(c) /\ call'[c].swept = call[c].swept \ {k}
          /\ call'[c].card = call[c].card /\ call'[c].at = call[c].at
          /\ call'[c].say = call[c].say
      BY <3>1, <1>t, SweptOne
    <3>3. UNCHANGED <<pending, toolOf, ran>>
      BY <1>2 DEF Sweep
    <3>4. /\ trail[k] = <<>> /\ ran[k] = 0 /\ k \notin pending /\ toolOf[k] # Layer
          /\ call[c].card = NoCard
      BY <3>1, <1>t, <1>2 DEF CardInv, Unwritten, OnePlace, Fresh, Has, Hands, Sweep
    <3>5. trail'[k] = <<"expired">> /\ \A j \in Card \ {k} : trail'[j] = trail[j]
      BY <3>1, <3>4, <1>t DEF CardsT
    <3>6. \A d \in Caller : ~Has(d, k)'
      BY <3>1, <3>2, <3>4 DEF Has, CardInv, OnePlace, Others
    <3>7. \A d \in Caller, j \in Card : Has(d, j)' => Has(d, j)
      BY <3>2 DEF Has, Others
    <3>8. OnePlace'
      BY <3>3, <3>7 DEF CardInv, OnePlace
    <3>9. Fresh'
      BY <3>3, <3>4, <3>5, <3>7 DEF CardInv, Fresh
    <3>10. Unwritten'
      <4>1. \A j \in pending' : trail'[j] = <<>> /\ ran'[j] = 0
        BY <3>3, <3>4, <3>5, <1>t DEF CardInv, Unwritten, CardsT
      <4>2. ASSUME NEW d \in Caller, NEW j \in call'[d].swept
            PROVE  trail'[j] = <<>> /\ ran'[j] = 0
        <5>1. j \in Card /\ j \in call[d].swept
          BY <4>2, <3>2, <1>t DEF Others, CallT, CallState
        <5>2. j # k
          BY <5>1, <3>6 DEF Has
        <5> QED
          BY <5>1, <5>2, <3>3, <3>5 DEF CardInv, Unwritten
      <4>3. ASSUME NEW d \in Caller, call'[d].card # NoCard
            PROVE  /\ d # c /\ call'[d] = call[d] /\ call[d].card \in Card
                   /\ call[d].card # k
        <5>1. d # c /\ call'[d] = call[d] /\ call[d].card \in Card
          BY <4>3, <3>2, <3>4, <1>t, ZenonT(40) DEF Others, CallT, CallState
        <5> QED
          BY <5>1, <3>6 DEF Has
      <4> QED
        BY <4>1, <4>2, <4>3, <3>3, <3>5 DEF CardInv, Unwritten
    <3>11. CardsEndOnce'
      <4>1. Len(trail'[k]) = 1 /\ ran'[k] = 0
        BY <3>3, <3>4, <3>5
      <4>2. \A j \in Card \ {k} : trail'[j] = trail[j] /\ ran'[j] = ran[j]
        BY <3>3, <3>5
      <4>3. 1 <= 1 /\ 0 <= 1 /\ 0 # 1
        OBVIOUS
      <4> QED
        BY <4>1, <4>2, <4>3 DEF CardInv, CardsEndOnce
    <3> QED
      BY <3>8, <3>9, <3>10, <3>11 DEF CardInv
  <2>2. CASE Goes(c, "layer") /\ UNCHANGED trail
    BY <2>2, <1>2, <1>p, <1>w, PassiveMove, QuietCards DEF Sweep
  <2> QED
    BY <2>1, <2>2, <1>2 DEF Sweep
<1>3. ASSUME NEW c \in Caller, Confirm(c) PROVE CardInv'
  <2>1. PICK k \in pending, say \in {"approve", "deny"} :
          pending' = pending \ {k} /\ Begins(c, k, toolOf[k], "layer", say, {})
    BY <1>3 DEF Confirm
  <2>2. /\ k \in Card /\ toolOf[k] \in Scope /\ say \in Words
        /\ {} \in SUBSET Card /\ k \in Card \cup {NoCard}
    BY <1>t DEF CardsT, Words
  <2>3. Others(c) /\ call'[c].card = k /\ call'[c].swept = {} /\ call'[c].at = "layer"
    BY <2>1, <2>2, <1>t, <1>p, Began
  <2>4. UNCHANGED <<toolOf, trail, ran>>
    BY <1>3 DEF Confirm
  <2>5. \A j \in Card : Has(c, j)' <=> j = k
    BY <2>3 DEF Has
  <2>6. \A d \in Caller \ {c}, j \in Card : Has(d, j)' <=> Has(d, j)
    BY <2>3 DEF Has, Others
  <2>7. OnePlace'
    <3>1. \A j \in Card, d \in Caller : Has(d, j)' => j \notin pending'
      BY <2>1, <2>5, <2>6 DEF CardInv, OnePlace
    <3>2. \A j \in Card, d, e \in Caller : Has(d, j)' /\ Has(e, j)' => d = e
      BY <2>1, <2>2, <2>5, <2>6 DEF CardInv, OnePlace
    <3> QED
      BY <3>1, <3>2 DEF OnePlace
  <2>8. Fresh'
    BY <2>1, <2>2, <2>4, <2>5, <2>6 DEF CardInv, Fresh
  <2>9. Unwritten'
    BY <2>1, <2>2, <2>3, <2>4 DEF CardInv, Unwritten, Others
  <2>10. CardsEndOnce'
    BY <2>4 DEF CardInv, CardsEndOnce
  <2> QED
    BY <2>7, <2>8, <2>9, <2>10 DEF CardInv
<1>4. ASSUME NEW c \in Caller, CheckLayer(c) PROVE CardInv'
  <2>1. \A d \in Caller : Passive(d)
    BY <1>4, <1>p, <1>w, Spoken, PassiveMove, PassiveEnd DEF CheckLayer, Blocked
  <2> QED
    BY <2>1, <1>4, QuietCards DEF CheckLayer
<1>5. ASSUME NEW c \in Caller, CheckTool(c) PROVE CardInv'
  <2>1. \A d \in Caller : Passive(d)
    BY <1>5, <1>p, <1>w, Spoken, PassiveMove, PassiveEnd DEF CheckTool, Blocked
  <2> QED
    BY <2>1, <1>5, QuietCards DEF CheckTool
<1>6. ASSUME NEW c \in Caller, RunNow(c) PROVE CardInv'
  BY <1>6, <1>p, <1>w, PassiveMove, QuietCards DEF RunNow
<1>7. ASSUME NEW c \in Caller, Park(c) PROVE CardInv'
  <2>1. PICK k \in Card : /\ toolOf[k] = Layer /\ pending' = pending \cup {k}
                          /\ toolOf' = [toolOf EXCEPT ![k] = call[c].tool]
    BY <1>7 DEF Park
  <2>2. UNCHANGED <<trail, ran>> /\ Ends(c)
    BY <1>7 DEF Park
  <2>3. Others(c) /\ call'[c].card = NoCard /\ call'[c].swept = {}
    BY <2>2, <1>t, Ended
  <2>4. \A d \in Caller, j \in Card : Has(d, j)' => Has(d, j)
    BY <2>3 DEF Has, Others
  <2>5. trail[k] = <<>> /\ ran[k] = 0 /\ \A d \in Caller : ~Has(d, k)
    BY <2>1 DEF CardInv, Fresh
  <2>6. \A j \in Card \ {k} : toolOf'[j] = toolOf[j] /\ (j \in pending' <=> j \in pending)
    BY <2>1, <1>t DEF CardsT
  <2>7. OnePlace'
    BY <2>4, <2>5, <2>6 DEF CardInv, OnePlace
  <2>8. Fresh'
    <3>1. toolOf'[k] = Layer => call[c].tool = Layer
      BY <2>1, <1>t DEF CardsT
    <3>2. call[c].tool # Layer
      BY <1>7, <1>t DEF Park, Hands, CallT, CallState, Scope
    <3> QED
      BY <3>1, <3>2, <2>2, <2>4, <2>6 DEF CardInv, Fresh
  <2>9. Unwritten'
    BY <2>1, <2>2, <2>3, <2>5 DEF CardInv, Unwritten, Others
  <2>10. CardsEndOnce'
    BY <2>2 DEF CardInv, CardsEndOnce
  <2> QED
    BY <2>7, <2>8, <2>9, <2>10 DEF CardInv
<1>8. ASSUME NEW c \in Caller, Answer(c) PROVE CardInv'
  <2>1. \A d \in Caller : Passive(d)
    BY <1>8, <1>p, <1>w, Spoken, PassiveMove DEF Answer
  <2> QED
    BY <2>1, <1>8, QuietCards DEF Answer
<1>9. ASSUME NEW c \in Caller, Execute(c) PROVE CardInv'
  <2>1. CASE Ends(c) /\ UNCHANGED ran
    BY <2>1, <1>9, PassiveEnd, QuietCards DEF Execute
  <2>2. ASSUME call[c].card # NoCard,
               NEW outcome \in {"executed", "error", "blocked"}, NEW effect \in BOOLEAN,
               outcome = "blocked" => ~effect, Says(c, "record", outcome),
               ran' = [ran EXCEPT ![call[c].card] = IF effect THEN @ + 1 ELSE @]
        PROVE  CardInv'
    <3> DEFINE k == call[c].card
    <3>1. UNCHANGED <<pending, toolOf, trail>> /\ call[c].at = "run"
      BY <1>9 DEF Execute
    <3>2. k \in Card /\ trail[k] = <<>> /\ ran[k] = 0 /\ k \notin pending
      <4>1. k \in Card
        BY <2>2, <1>t DEF CallT, CallState
      <4>2. trail[k] = <<>> /\ ran[k] <= 1 /\ ran[k] # 1
        BY <2>2, <3>1 DEF CardInv, Unwritten
      <4>3. ran[k] \in Nat
        BY <4>1, <1>t DEF CardsT
      <4>4. k \notin pending
        BY <4>1 DEF CardInv, OnePlace, Has
      <4> QED
        BY <4>1, <4>2, <4>3, <4>4
    <3>3. PICK j \in Card : j = k
      BY <3>2
    <3>4. Others(c) /\ call'[c].at = "record" /\ call'[c].card = j /\ call'[c].say = outcome
          /\ call'[c].swept = call[c].swept
      BY <2>2, <1>t, <1>p, <3>3, Spoken, Said
    <3>5. /\ ran'[j] \in {0, 1} /\ (ran'[j] = 1 => outcome # "blocked")
          /\ \A i \in Card \ {j} : ran'[i] = ran[i]
      BY <2>2, <3>2, <3>3, <1>t DEF CardsT
    <3>6. \A d \in Caller, i \in Card : Has(d, i)' <=> Has(d, i)
      BY <3>3, <3>4 DEF Has, Others
    <3>7. Has(c, j) /\ j \notin pending /\ \A d \in Caller \ {c} : ~Has(d, j)
      BY <3>2, <3>3 DEF Has, CardInv, OnePlace
    <3>8. OnePlace' /\ Fresh'
      BY <3>1, <3>3, <3>5, <3>6, <3>7 DEF CardInv, OnePlace, Fresh
    <3>9. Unwritten'
      <4>1. \A i \in pending' : trail'[i] = <<>> /\ ran'[i] = 0
        BY <3>1, <3>5, <3>7, <1>t DEF CardInv, Unwritten, CardsT
      <4>2. ASSUME NEW d \in Caller, NEW i \in call'[d].swept
            PROVE  trail'[i] = <<>> /\ ran'[i] = 0
        <5>1. i \in Card /\ i \in call[d].swept /\ i # j
          <6>1. CASE d = c
            BY <6>1, <4>2, <3>1, <3>4, <1>t DEF Hands
          <6>2. CASE d # c
            BY <6>2, <4>2, <3>4, <3>7, <1>t DEF Others, CallT, CallState, Has
          <6> QED
            BY <6>1, <6>2
        <5> QED
          BY <5>1, <3>1, <3>5 DEF CardInv, Unwritten
      <4>3. ASSUME NEW d \in Caller, call'[d].card # NoCard, d # c
            PROVE  call'[d] = call[d] /\ call[d].card \in Card /\ call[d].card # j
        BY <4>3, <3>4, <3>7, <1>t, ZenonT(40) DEF Others, CallT, CallState, Has
      <4>4. /\ trail'[call'[c].card] = <<>> /\ ran'[call'[c].card] <= 1
            /\ ran'[call'[c].card] = 1 =>
                 call'[c].at = "record" /\ call'[c].say \in {"executed", "error"}
        BY <2>2, <3>1, <3>2, <3>3, <3>4, <3>5
      <4> QED
        BY <4>1, <4>2, <4>3, <4>4, <3>1, <3>5 DEF CardInv, Unwritten
    <3>10. CardsEndOnce'
      BY <3>1, <3>2, <3>3, <3>5 DEF CardInv, CardsEndOnce
    <3> QED
      BY <3>8, <3>9, <3>10 DEF CardInv
  <2> QED
    BY <2>1, <2>2, <1>9 DEF Execute
<1>10. ASSUME NEW c \in Caller, RecordOutcome(c) PROVE CardInv'
  <2>1. /\ UNCHANGED <<pending, toolOf, ran>> /\ call[c].at = "record" /\ Ends(c)
        /\ trail' = [trail EXCEPT ![call[c].card] = Append(@, call[c].say)]
    BY <1>10 DEF RecordOutcome
  <2>2. PICK k \in Card : k = call[c].card
    BY <2>1, <1>t DEF Hands, CallT, CallState
  <2>3. /\ trail[k] = <<>> /\ ran[k] <= 1 /\ k \notin pending /\ toolOf[k] # Layer
        /\ ran[k] = 1 => call[c].say \in {"executed", "error"}
    BY <2>1, <2>2, <1>t DEF CardInv, Unwritten, OnePlace, Fresh, Has, Hands
  <2>4. trail'[k] = <<call[c].say>> /\ \A j \in Card \ {k} : trail'[j] = trail[j]
    BY <2>1, <2>2, <2>3, <1>t DEF CardsT
  <2>5. Others(c) /\ call'[c].card = NoCard /\ call'[c].swept = {}
    BY <2>1, <1>t, Ended
  <2>6. \A d \in Caller : ~Has(d, k)'
    BY <2>2, <2>5 DEF Has, CardInv, OnePlace, Others
  <2>7. \A d \in Caller, j \in Card : Has(d, j)' => Has(d, j)
    BY <2>5 DEF Has, Others
  <2>8. OnePlace' /\ Fresh'
    BY <2>1, <2>3, <2>4, <2>7 DEF CardInv, OnePlace, Fresh
  <2>9. Unwritten'
    <3>1. \A j \in pending' : trail'[j] = <<>> /\ ran'[j] = 0
      BY <2>1, <2>3, <2>4, <1>t DEF CardInv, Unwritten, CardsT
    <3>2. ASSUME NEW d \in Caller, NEW j \in call'[d].swept
          PROVE  trail'[j] = <<>> /\ ran'[j] = 0
      <4>1. j \in Card /\ j \in call[d].swept /\ j # k
        BY <3>2, <2>5, <2>6, <1>t DEF Others, CallT, CallState, Has
      <4> QED
        BY <4>1, <2>1, <2>4 DEF CardInv, Unwritten
    <3>3. ASSUME NEW d \in Caller, call'[d].card # NoCard
          PROVE  call'[d] = call[d] /\ call[d].card \in Card /\ call[d].card # k
      BY <3>3, <2>5, <2>6, <1>t DEF Others, CallT, CallState, Has
    <3>4. ASSUME NEW d \in Caller, call'[d].card # NoCard
          PROVE  /\ trail'[call'[d].card] = <<>> /\ ran'[call'[d].card] <= 1
                 /\ ran'[call'[d].card] = 1 =>
                      call'[d].at = "record" /\ call'[d].say \in {"executed", "error"}
      <4>1. call'[d] = call[d] /\ call[d].card \in Card /\ call[d].card # k
        BY <3>3, <3>4
      <4>2. trail'[call[d].card] = trail[call[d].card] /\ ran' = ran
        BY <4>1, <2>1, <2>4
      <4> QED
        BY <3>4, <4>1, <4>2 DEF CardInv, Unwritten
    <3> QED
      BY <3>1, <3>2, <3>4 DEF Unwritten
  <2>10. CardsEndOnce'
    BY <2>1, <2>3, <2>4 DEF CardInv, CardsEndOnce
  <2> QED
    BY <2>8, <2>9, <2>10 DEF CardInv
<1>11. ASSUME NEW k \in Card, Lapse(k) PROVE CardInv'
  BY <1>11, QuietCards DEF Lapse, Passive
<1>12. ASSUME NEW a \in Admin, SetEnabled(a) PROVE CardInv'
  <2>1. /\ call' = [c \in Caller |-> call'[c]]
        /\ \A c \in Caller : call'[c] = call[c]
             \/ \E l \in BOOLEAN : call'[c] = [call[c] EXCEPT !.late = l]
    BY <1>12 DEF SetEnabled
  <2>2. \A c \in Caller : Passive(c)
    BY <2>1, <1>t, Relieved DEF Passive
  <2> QED
    BY <2>2, <1>12, QuietCards DEF SetEnabled
<1>13. ASSUME NEW a \in Admin, OpenTmp(a) \/ Dump(a) \/ CloseTmp(a) \/ ReplaceFile(a) \/ Settle(a)
       PROVE  CardInv'
  <2>1. UNCHANGED <<cards, call>>
    BY <1>13 DEF OpenTmp, Dump, CloseTmp, ReplaceFile, Settle
  <2> QED
    BY <2>1, QuietCards DEF Passive
<1>14. ASSUME NEW a \in Admin, DiskFails(a) PROVE CardInv'
  <2>1. raced' \in BOOLEAN
    BY <1>t, <1>14 DEF DiskFails, OthersBusy, Busy, CountT
  <2>2. /\ call' = [c \in Caller |-> call'[c]]
        /\ \A c \in Caller : call'[c] = call[c]
             \/ \E l \in BOOLEAN : call'[c] = [call[c] EXCEPT !.late = l]
    BY <2>1, <1>14, <1>t DEF DiskFails, CallT, CallState
  <2>3. \A c \in Caller : Passive(c)
    BY <2>2, <1>t, Relieved DEF Passive
  <2> QED
    BY <2>3, <1>14, QuietCards DEF DiskFails
<1>15. ASSUME Restart PROVE CardInv'
  <2>1. \A c \in Caller : Passive(c)
    BY <1>15 DEF Restart, Passive, Idle
  <2> QED
    BY <2>1, <1>15, QuietCards DEF Restart
<1>16. CASE UNCHANGED vars
  BY <1>16, QuietCards DEF vars, Passive
<1> QED
  BY <1>1, <1>2, <1>3, <1>4, <1>5, <1>6, <1>7, <1>8, <1>9, <1>10, <1>11, <1>12, <1>13, <1>14,
     <1>15, <1>16 DEF Next

-----------------------------------------------------------------------------
(***************************************************************************)
(* The switch.                                                              *)
(***************************************************************************)

Off(s, st) == IF s = Layer THEN ~st.enabled ELSE s \in st.disabled
Memory == State(enabled, disabled)
Closing(a) == save[a].at = "close"

(* A state honours the promises: what is braked, and what a save that has   *)
(* put its file in place is about to promise.                               *)
Honours(st) ==
  /\ \A s \in braked : Off(s, st)
  /\ \A a \in Admin : save[a].at = "saved" /\ ~save[a].on => Off(save[a].scope, st)

(* Handles and names: a save has the file open from its first step until it *)
(* closes it, and then has nothing more to write.                           *)
Inodes ==
  /\ file # NoFile => file # tmp
  /\ \A a \in Admin :
       /\ save[a].fd # NoFile <=> save[a].at \in {"dump", "close"}
       /\ Closing(a) => save[a].text.kind = "state"

(* At most two saves at once, and an arming one alone.                      *)
FewSaves ==
  /\ \A a, b, c \in Admin : Busy(a) /\ Busy(b) /\ Busy(c) => a = b \/ b = c \/ a = c
  /\ \A a, b \in Admin : Busy(a) /\ Busy(b) /\ save[a].on => a = b

(* What is promised off, and what is being saved as off, is off in memory.  *)
MemoryOff ==
  /\ \A s \in braked : Off(s, Memory)
  /\ \A a \in Admin : Busy(a) /\ ~save[a].on => Off(save[a].scope, Memory)

(* Two saves with one file open: the second to open it emptied it.          *)
Shared ==
  \A a, b \in Admin : a # b /\ save[a].fd = save[b].fd /\ save[a].fd # NoFile =>
    disk[save[a].fd] = Empty

(* What a save is about to write is what the memory was when it was dumped: *)
(* its own scope is off in it, it keeps off no more than the memory, and of *)
(* two such texts one was dumped after the other.                           *)
Within(st, later) ==
  /\ st.disabled \subseteq later.disabled
  /\ later.enabled => st.enabled

Dumped ==
  /\ \A a \in Admin : Closing(a) =>
       /\ Within(save[a].text, Memory)
       /\ ~save[a].on => Off(save[a].scope, save[a].text)
  /\ \A a, b \in Admin : Closing(a) /\ Closing(b) =>
       Within(save[a].text, save[b].text) \/ Within(save[b].text, save[a].text)

(* A save that will not write to the present .tmp any more, but may put it  *)
(* in place.                                                                *)
Past(a) ==
  \/ save[a].at = "replace"
  \/ save[a].at \in {"dump", "close"} /\ save[a].fd # tmp

(* A text dumped before a promise was made cannot become the file: what it  *)
(* would be written over is longer.                                         *)
Stale ==
  \A a \in Admin : Closing(a) =>
    /\ save[a].fd = file =>
         Honours(save[a].text) \/ Longer(disk[file], save[a].text)
    /\ save[a].fd = tmp =>
         /\ Honours(save[a].text)
         /\ \A b \in Admin : Past(b) /\ ~save[b].on =>
              Off(save[b].scope, save[a].text) \/ Longer(disk[tmp], save[a].text)

(* What a restart may load honours every promise, and so does what a save   *)
(* may put in its place.                                                    *)
FileKeeps ==
  /\ file = NoFile => braked = {} /\ \A a \in Admin : save[a].at # "saved"
  /\ file # NoFile /\ disk[file].kind = "state" => Honours(disk[file])
  /\ \A a \in Admin : Past(a) /\ tmp # NoFile /\ disk[tmp].kind = "state" =>
       /\ Honours(disk[tmp])
       /\ ~save[a].on => Off(save[a].scope, disk[tmp])

(* A call that came later than a promise has not passed its check.          *)
Late ==
  \A c \in Caller : call[c].late =>
    /\ PromisedOff(call[c].tool)
    /\ call[c].at \notin {"idle", "go", "run"}
    /\ call[c].at = "tool" => call[c].tool \in braked /\ call[c].tool # Layer

SaveInv == FewSaves /\ MemoryOff /\ Shared /\ Dumped /\ Stale /\ FileKeeps

BrakeInv ==
  /\ Inodes
  /\ raced => braked = {}
  /\ ~raced => SaveInv
  /\ Late

(* What the steps of a save do, field by field.                             *)
OtherSaves(a) == \A b \in Admin \ {a} : save'[b] = save[b]
SameScope(a) == save'[a].on = save[a].on /\ save'[a].scope = save[a].scope

LEMMA SaveFields ==
  ASSUME SaveT, NEW a \in Admin
  PROVE  /\ save[a].on \in BOOLEAN /\ save[a].scope \in Scope
         /\ save[a].fd \in Inode \cup {NoFile} /\ save[a].text \in Content
         /\ save[a].at \in {"idle", "open", "dump", "close", "replace", "saved", "failed"}
  BY DEF SaveT, SaveState

LEMMA OpenEffect ==
  ASSUME SaveT, FilesT, NEW a \in Admin, OpenTmp(a)
  PROVE  /\ OtherSaves(a) /\ SameScope(a)
         /\ save[a].at = "open" /\ save'[a].at = "dump" /\ save'[a].fd = tmp'
         /\ tmp' \in Inode /\ tmp' # NoFile /\ file' = file
         /\ disk'[tmp'] = Empty /\ \A i \in Inode \ {tmp'} : disk'[i] = disk[i]
         /\ tmp # NoFile => tmp' = tmp
         /\ tmp = NoFile => tmp' # file /\ \A b \in Admin : save[b].fd # tmp'
         /\ UNCHANGED <<enabled, disabled, call, braked, raced>>
<1>1. /\ tmp' \in Inode /\ disk' = [disk EXCEPT ![tmp'] = Empty]
      /\ save' = [save EXCEPT ![a].at = "dump", ![a].fd = tmp']
      /\ tmp # NoFile => tmp' = tmp
      /\ tmp = NoFile => tmp' # file /\ \A b \in Admin : save[b].fd # tmp'
  BY FreeExists DEF OpenTmp, FilesT
<1>2. UNCHANGED <<file, enabled, disabled, call, braked, raced>> /\ save[a].at = "open"
  BY DEF OpenTmp, switch, history
<1>3. OtherSaves(a) /\ SameScope(a) /\ save'[a].at = "dump" /\ save'[a].fd = tmp'
  BY <1>1 DEF OtherSaves, SameScope, SaveT, SaveState
<1>4. disk'[tmp'] = Empty /\ \A i \in Inode \ {tmp'} : disk'[i] = disk[i]
  BY <1>1 DEF FilesT
<1> QED
  BY <1>1, <1>2, <1>3, <1>4, Admins

LEMMA DumpEffect ==
  ASSUME SaveT, NEW a \in Admin, Dump(a)
  PROVE  /\ OtherSaves(a) /\ SameScope(a)
         /\ save[a].at = "dump" /\ save'[a].at = "close"
         /\ save'[a].fd = save[a].fd /\ save'[a].text = Memory
         /\ UNCHANGED <<disk, file, tmp, enabled, disabled, call, braked, raced>>
<1>1. UNCHANGED <<disk, file, tmp, enabled, disabled, call, braked, raced>>
  BY DEF Dump, switch, files, history
<1>2. save[a].at = "dump" /\ save' = [save EXCEPT ![a].at = "close", ![a].text = Memory]
  BY DEF Dump, Memory
<1> QED
  BY <1>1, <1>2 DEF OtherSaves, SameScope, SaveT, SaveState

LEMMA CloseEffect ==
  ASSUME SaveT, FilesT, Inodes, NEW a \in Admin, CloseTmp(a)
  PROVE  /\ OtherSaves(a) /\ SameScope(a)
         /\ save[a].at = "close" /\ save'[a].at = "replace" /\ save'[a].fd = NoFile
         /\ save[a].fd \in Inode
         /\ disk'[save[a].fd] \in Overlaid(save[a].text, disk[save[a].fd])
         /\ \A i \in Inode \ {save[a].fd} : disk'[i] = disk[i]
         /\ UNCHANGED <<file, tmp, enabled, disabled, call, braked, raced>>
<1>1. UNCHANGED <<file, tmp, enabled, disabled, call, braked, raced>> /\ save[a].at = "close"
  BY DEF CloseTmp, switch, history
<1>2. save' = [save EXCEPT ![a].at = "replace", ![a].fd = NoFile, ![a].text = Empty]
  BY DEF CloseTmp
<1>3. save[a].fd \in Inode
  BY <1>1 DEF Inodes, SaveT, SaveState
<1>4. PICK bytes \in Overlaid(save[a].text, disk[save[a].fd]) :
        disk' = [disk EXCEPT ![save[a].fd] = bytes]
  BY DEF CloseTmp
<1>5. OtherSaves(a) /\ SameScope(a) /\ save'[a].at = "replace" /\ save'[a].fd = NoFile
  BY <1>2 DEF OtherSaves, SameScope, SaveT, SaveState
<1> QED
  BY <1>1, <1>3, <1>4, <1>5 DEF FilesT

LEMMA ReplaceEffect ==
  ASSUME SaveT, FilesT, NEW a \in Admin, ReplaceFile(a)
  PROVE  /\ OtherSaves(a) /\ SameScope(a)
         /\ save[a].at = "replace" /\ save'[a].fd = save[a].fd
         /\ \/ /\ save'[a].at = "saved" /\ tmp # NoFile /\ file' = tmp /\ tmp' = NoFile
               /\ file # NoFile => disk'[file] = Empty
               /\ \A i \in Inode \ {file} : disk'[i] = disk[i]
            \/ save'[a].at = "failed" /\ UNCHANGED <<disk, file, tmp>>
         /\ UNCHANGED <<enabled, disabled, call, braked, raced>>
<1>1. UNCHANGED <<enabled, disabled, call, braked, raced>> /\ save[a].at = "replace"
  BY DEF ReplaceFile, switch, history
<1>2. CASE /\ tmp # NoFile /\ file' = tmp /\ tmp' = NoFile
           /\ disk' = [i \in Inode |-> IF i = file THEN Empty ELSE disk[i]]
           /\ Moves(a, "saved")
  <2>1. OtherSaves(a) /\ SameScope(a) /\ save'[a].at = "saved" /\ save'[a].fd = save[a].fd
    BY <1>2 DEF Moves, OtherSaves, SameScope, SaveT, SaveState
  <2>2. /\ file # NoFile => disk'[file] = Empty
        /\ \A i \in Inode \ {file} : disk'[i] = disk[i]
    BY <1>2 DEF FilesT
  <2> QED
    BY <1>1, <1>2, <2>1, <2>2
<1>3. CASE Moves(a, "failed") /\ UNCHANGED files
  BY <1>1, <1>3 DEF Moves, files, OtherSaves, SameScope, SaveT, SaveState
<1> QED
  BY <1>2, <1>3 DEF ReplaceFile

LEMMA FailEffect ==
  ASSUME SaveT, NEW a \in Admin, DiskFails(a)
  PROVE  /\ OtherSaves(a) /\ SameScope(a)
         /\ save[a].at \in {"open", "close", "replace"}
         /\ save'[a].at = "failed" /\ save'[a].fd = NoFile
         /\ raced' = (raced \/ OthersBusy(a))
         /\ braked' = (IF raced' THEN {} ELSE braked)
         /\ UNCHANGED <<disk, file, tmp, enabled, disabled>>
<1>1. /\ UNCHANGED <<disk, file, tmp, enabled, disabled>>
      /\ save[a].at \in {"open", "close", "replace"}
      /\ raced' = (raced \/ OthersBusy(a)) /\ braked' = (IF raced' THEN {} ELSE braked)
  BY DEF DiskFails, switch, files
<1>2. save' = [save EXCEPT ![a].at = "failed", ![a].fd = NoFile, ![a].text = Empty]
  BY DEF DiskFails
<1>3. OtherSaves(a) /\ SameScope(a) /\ save'[a].at = "failed" /\ save'[a].fd = NoFile
  BY <1>2 DEF OtherSaves, SameScope, SaveT, SaveState
<1> QED
  BY <1>1, <1>3

LEMMA SettleEffect ==
  ASSUME SaveT, NEW a \in Admin, Settle(a)
  PROVE  /\ OtherSaves(a)
         /\ save[a].at \in {"saved", "failed"} /\ save'[a].at = "idle" /\ save'[a].fd = NoFile
         /\ braked' = IF save[a].at = "saved" /\ ~save[a].on /\ ~raced
                      THEN braked \cup {save[a].scope} ELSE braked
         /\ UNCHANGED <<disk, file, tmp, enabled, disabled, call, raced>>
<1>1. /\ UNCHANGED <<disk, file, tmp, enabled, disabled, call, raced>>
      /\ save[a].at \in {"saved", "failed"}
      /\ braked' = IF save[a].at = "saved" /\ ~save[a].on /\ ~raced
                   THEN braked \cup {save[a].scope} ELSE braked
  BY DEF Settle, files
<1>2. OtherSaves(a) /\ save'[a].at = "idle" /\ save'[a].fd = NoFile
  BY DEF Settle, Rest, OtherSaves, SaveT
<1> QED
  BY <1>1, <1>2

LEMMA SetEffect ==
  ASSUME SaveT, SwitchT, NEW a \in Admin, SetEnabled(a)
  PROVE  \E on \in BOOLEAN, scope \in Scope :
           /\ OtherSaves(a) /\ ~Busy(a)
           /\ save'[a].at = "open" /\ save'[a].fd = NoFile
           /\ save'[a].on = on /\ save'[a].scope = scope
           /\ raced' = (raced \/ (OthersBusy(a) /\ on) \/ OthersArm \/ Crowded(a))
           /\ braked' = IF raced' THEN {} ELSE IF on THEN braked \ {scope} ELSE braked
           /\ call' = [c \in Caller |->
                         IF raced' \/ (on /\ scope \in {call[c].tool, Layer})
                         THEN [call[c] EXCEPT !.late = FALSE] ELSE call[c]]
           /\ \A s \in Scope : s # scope => (Off(s, Memory') <=> Off(s, Memory))
           /\ ~on => Off(scope, Memory') /\ Within(Memory, Memory')
           /\ UNCHANGED <<disk, file, tmp>>
<1>1. PICK on \in BOOLEAN, scope \in Scope :
           /\ Turned(on, scope)
           /\ save' = [save EXCEPT ![a] = [Rest EXCEPT !.at = "open", !.on = on, !.scope = scope]]
           /\ raced' = (raced \/ (OthersBusy(a) /\ on) \/ OthersArm \/ Crowded(a))
           /\ braked' = IF raced' THEN {} ELSE IF on THEN braked \ {scope} ELSE braked
           /\ call' = [c \in Caller |->
                         IF raced' \/ (on /\ scope \in {call[c].tool, Layer})
                         THEN [call[c] EXCEPT !.late = FALSE] ELSE call[c]]
  BY DEF SetEnabled
<1>2. UNCHANGED <<disk, file, tmp>> /\ ~Busy(a)
  BY DEF SetEnabled, files
<1>3. OtherSaves(a) /\ save'[a] = [Rest EXCEPT !.at = "open", !.on = on, !.scope = scope]
  BY <1>1 DEF OtherSaves, SaveT
<1>4. /\ save'[a].at = "open" /\ save'[a].fd = NoFile
      /\ save'[a].on = on /\ save'[a].scope = scope
  BY <1>3 DEF Rest
<1>5. /\ \A s \in Scope : s # scope => (Off(s, Memory') <=> Off(s, Memory))
      /\ ~on => Off(scope, Memory') /\ Within(Memory, Memory')
  <2>1. CASE scope = Layer
    BY <1>1, <2>1, ToolGateAssumption DEF Turned, Off, Memory, State, Within, SwitchT, Scope
  <2>2. CASE scope # Layer /\ on
    BY <1>1, <2>2, ToolGateAssumption DEF Turned, Off, Memory, State, Within, SwitchT, Scope
  <2>3. CASE scope # Layer /\ ~on
    BY <1>1, <2>3, ToolGateAssumption DEF Turned, Off, Memory, State, Within, SwitchT, Scope
  <2> QED
    BY <2>1, <2>2, <2>3
<1> QED
  BY <1>1, <1>2, <1>3, <1>4, <1>5

LEMMA StepInodes ==
  TypeInv /\ TypeInv' /\ Inodes /\ [Next]_vars => Inodes'
<1> SUFFICES ASSUME TypeInv, TypeInv', Inodes, [Next]_vars PROVE Inodes'
  OBVIOUS
<1>t. SaveT /\ FilesT /\ SwitchT
  BY Types DEF TypeInv
<1>1. ASSUME NEW a \in Admin, SetEnabled(a) PROVE Inodes'
  BY <1>1, <1>t, SetEffect DEF Inodes, OtherSaves, Closing
<1>2. ASSUME NEW a \in Admin, OpenTmp(a) PROVE Inodes'
  BY <1>2, <1>t, OpenEffect DEF Inodes, OtherSaves, Closing
<1>3. ASSUME NEW a \in Admin, Dump(a) PROVE Inodes'
  BY <1>3, <1>t, DumpEffect DEF Inodes, OtherSaves, Closing, Memory, State
<1>4. ASSUME NEW a \in Admin, CloseTmp(a) PROVE Inodes'
  BY <1>4, <1>t, CloseEffect DEF Inodes, OtherSaves, Closing
<1>5. ASSUME NEW a \in Admin, ReplaceFile(a) PROVE Inodes'
  BY <1>5, <1>t, ReplaceEffect DEF Inodes, OtherSaves, Closing
<1>6. ASSUME NEW a \in Admin, DiskFails(a) PROVE Inodes'
  BY <1>6, <1>t, FailEffect DEF Inodes, OtherSaves, Closing
<1>7. ASSUME NEW a \in Admin, Settle(a) PROVE Inodes'
  BY <1>7, <1>t, SettleEffect DEF Inodes, OtherSaves, Closing
<1>8. ASSUME Restart PROVE Inodes'
  BY <1>8 DEF Restart, files, Inodes, Closing, Rest
<1>9. CASE UNCHANGED <<files, save>>
  BY <1>9 DEF files, Inodes, Closing
<1>10. ASSUME NEW c \in Caller,
              \/ Propose(c) \/ Sweep(c) \/ Confirm(c) \/ CheckLayer(c) \/ CheckTool(c)
              \/ RunNow(c) \/ Park(c) \/ Answer(c) \/ Execute(c) \/ RecordOutcome(c)
       PROVE  UNCHANGED <<files, save>>
  BY <1>10 DEF Propose, Sweep, Confirm, CheckLayer, CheckTool, RunNow, Park, Answer, Execute,
     RecordOutcome
<1>11. ASSUME NEW k \in Card, Lapse(k) PROVE UNCHANGED <<files, save>>
  BY <1>11 DEF Lapse
<1> QED
  BY <1>1, <1>2, <1>3, <1>4, <1>5, <1>6, <1>7, <1>8, <1>9, <1>10, <1>11 DEF Next, vars

(* Callers leave the switch, its files and its saves alone.                 *)
LEMMA QuietSaves ==
  ASSUME SaveInv, UNCHANGED <<disk, file, tmp, enabled, disabled, save, braked>>
  PROVE  SaveInv'
  BY DEF SaveInv, FewSaves, MemoryOff, Shared, Dumped, Stale, FileKeeps, Busy, Off, Memory,
     Closing, Past, Honours

LEMMA SaveSet ==
  ASSUME TypeInv, TypeInv', Inodes, SaveInv, ~raced, ~raced', NEW a \in Admin, SetEnabled(a)
  PROVE  SaveInv'
<1>t. SaveT /\ FilesT /\ SwitchT /\ CountT
  BY Types DEF TypeInv
<1>1. PICK on \in BOOLEAN, scope \in Scope :
        /\ OtherSaves(a) /\ ~Busy(a)
        /\ save'[a].at = "open" /\ save'[a].fd = NoFile
        /\ save'[a].on = on /\ save'[a].scope = scope
        /\ raced' = (raced \/ (OthersBusy(a) /\ on) \/ OthersArm \/ Crowded(a))
        /\ braked' = IF raced' THEN {} ELSE IF on THEN braked \ {scope} ELSE braked
        /\ \A s \in Scope : s # scope => (Off(s, Memory') <=> Off(s, Memory))
        /\ ~on => Off(scope, Memory') /\ Within(Memory, Memory')
        /\ UNCHANGED <<disk, file, tmp>>
  BY <1>t, SetEffect
<1>2. ~(OthersBusy(a) /\ on) /\ ~OthersArm /\ ~Crowded(a)
  BY <1>1
<1>3. \A b \in Admin \ {a} : save'[b] = save[b] /\ (Busy(b)' <=> Busy(b))
  BY <1>1 DEF OtherSaves, Busy
<1>4. braked' \subseteq braked /\ (on => scope \notin braked') /\ braked \subseteq Scope
  BY <1>1, <1>t DEF CountT
<1>5. on => \A b \in Admin \ {a} : ~Busy(b)
  BY <1>2 DEF OthersBusy
<1>6. FewSaves'
  <2>1. ASSUME NEW b \in Admin, NEW c \in Admin, NEW d \in Admin, Busy(b)', Busy(c)', Busy(d)'
        PROVE  b = c \/ c = d \/ b = d
    BY <2>1, <1>2, <1>3 DEF Crowded, SaveInv, FewSaves
  <2>2. ASSUME NEW b \in Admin, NEW c \in Admin, Busy(b)', Busy(c)', save'[b].on
        PROVE  b = c
    BY <2>2, <1>1, <1>2, <1>3 DEF OthersBusy, OthersArm
  <2> QED
    BY <2>1, <2>2 DEF FewSaves
<1>7. MemoryOff'
  <2>1. \A s \in braked' : Off(s, Memory')
    BY <1>1, <1>4 DEF SaveInv, MemoryOff
  <2>2. ASSUME NEW b \in Admin, Busy(b)', ~save'[b].on PROVE Off(save'[b].scope, Memory')
    <3>1. CASE b = a
      BY <3>1, <2>2, <1>1
    <3>2. CASE b # a
      <4>1. Busy(b) /\ ~save[b].on /\ save'[b].scope = save[b].scope /\ ~on
        BY <3>2, <2>2, <1>3, <1>5
      <4>2. save[b].scope \in Scope /\ Off(save[b].scope, Memory)
        BY <4>1, <1>t, SaveFields DEF SaveInv, MemoryOff
      <4> QED
        BY <4>1, <4>2, <1>1
    <3> QED
      BY <3>1, <3>2
  <2> QED
    BY <2>1, <2>2 DEF MemoryOff, Off, Memory
<1>8. Shared'
  BY <1>1, <1>3 DEF SaveInv, Shared
<1>9. \A b \in Admin : Closing(b)' => b # a /\ Closing(b) /\ save'[b] = save[b] /\ ~on
  BY <1>1, <1>3, <1>5 DEF Closing, Busy
<1>10. Dumped'
  BY <1>1, <1>9 DEF SaveInv, Dumped, Within, Off, Memory, State
<1>11. \A b \in Admin : /\ Past(b)' => b # a /\ Past(b) /\ save'[b] = save[b]
                        /\ save'[b].at = "saved" =>
                               b # a /\ save[b].at = "saved" /\ save'[b] = save[b]
  BY <1>1, <1>3 DEF Past
<1>12. Stale'
  BY <1>1, <1>4, <1>9, <1>11 DEF SaveInv, Stale, Honours
<1>13. FileKeeps'
  BY <1>1, <1>4, <1>11 DEF SaveInv, FileKeeps, Honours
<1> QED
  BY <1>6, <1>7, <1>8, <1>10, <1>12, <1>13 DEF SaveInv

LEMMA SaveOpen ==
  ASSUME TypeInv, Inodes, SaveInv, NEW a \in Admin, OpenTmp(a)
  PROVE  SaveInv'
<1>t. SaveT /\ FilesT /\ SwitchT
  BY Types DEF TypeInv
<1>1. /\ OtherSaves(a) /\ SameScope(a)
      /\ save[a].at = "open" /\ save'[a].at = "dump" /\ save'[a].fd = tmp'
      /\ tmp' \in Inode /\ tmp' # NoFile /\ file' = file
      /\ disk'[tmp'] = Empty /\ \A i \in Inode \ {tmp'} : disk'[i] = disk[i]
      /\ tmp # NoFile => tmp' = tmp
      /\ tmp = NoFile => tmp' # file /\ \A b \in Admin : save[b].fd # tmp'
      /\ UNCHANGED <<enabled, disabled, braked>>
  BY <1>t, OpenEffect
<1>2. \A b \in Admin \ {a} : save'[b] = save[b]
  BY <1>1 DEF OtherSaves
<1>3. \A b \in Admin : /\ Busy(b)' <=> Busy(b)
                       /\ save'[b].on = save[b].on /\ save'[b].scope = save[b].scope
                       /\ save'[b].at = "saved" <=> save[b].at = "saved"
  BY <1>1, <1>2 DEF Busy, SameScope
<1>4. FewSaves' /\ MemoryOff'
  BY <1>1, <1>3 DEF SaveInv, FewSaves, MemoryOff, Off, Memory
<1>5. Shared'
  BY <1>1, <1>2, <1>t, SaveFields DEF SaveInv, Shared
<1>6. \A b \in Admin : Closing(b)' => b # a /\ Closing(b) /\ save'[b] = save[b]
  BY <1>1, <1>2 DEF Closing
<1>7. Dumped'
  BY <1>1, <1>6 DEF SaveInv, Dumped, Off, Memory
<1>8. file # NoFile => file' # tmp' /\ disk'[file'] = disk[file]
  BY <1>1, <1>t DEF Inodes, FilesT
<1>9. Stale'
  <2> SUFFICES ASSUME NEW b \in Admin, Closing(b)'
               PROVE  /\ save'[b].fd = file' =>
                           Honours(save[b].text)' \/ Longer(disk'[file'], save'[b].text)
                      /\ save'[b].fd = tmp' =>
                           /\ Honours(save[b].text)'
                           /\ \A c \in Admin : Past(c)' /\ ~save'[c].on =>
                                \/ Off(save'[c].scope, save'[b].text)
                                \/ Longer(disk'[tmp'], save'[b].text)
    BY DEF Stale
  <2>1. b # a /\ Closing(b) /\ save'[b] = save[b] /\ save[b].fd # NoFile
    BY <1>6 DEF Inodes, Closing
  <2>2. Honours(save[b].text)' <=> Honours(save[b].text)
    BY <2>1, <1>1, <1>3 DEF Honours
  <2>3. save'[b].fd = file' => Honours(save[b].text)' \/ Longer(disk'[file'], save'[b].text)
    BY <2>1, <2>2, <1>1, <1>8 DEF SaveInv, Stale
  <2>4. ASSUME save'[b].fd = tmp', NEW c \in Admin, Past(c)' PROVE FALSE
    <3>1. c # a /\ c # b
      BY <2>1, <2>4, <1>1 DEF Past, Closing
    <3>2. Busy(a) /\ Busy(b) /\ Busy(c)
      BY <3>1, <2>1, <2>4, <1>1, <1>2 DEF Busy, Past, Closing
    <3> QED
      BY <3>1, <3>2, <2>1 DEF SaveInv, FewSaves
  <2>5. save'[b].fd = tmp' => Honours(save[b].text)'
    BY <2>1, <2>2, <1>1 DEF SaveInv, Stale
  <2> QED
    BY <2>3, <2>4, <2>5
<1>10. FileKeeps'
  <2>1. file' = NoFile => braked' = {} /\ \A b \in Admin : save'[b].at # "saved"
    BY <1>1, <1>3 DEF SaveInv, FileKeeps
  <2>2. file' # NoFile /\ disk'[file'].kind = "state" => Honours(disk[file])'
    BY <1>1, <1>3, <1>8 DEF SaveInv, FileKeeps, Honours
  <2>3. disk'[tmp'].kind # "state"
    BY <1>1 DEF Empty
  <2> QED
    BY <2>1, <2>2, <2>3 DEF FileKeeps
<1> QED
  BY <1>4, <1>5, <1>7, <1>9, <1>10 DEF SaveInv

LEMMA SaveDump ==
  ASSUME TypeInv, Inodes, SaveInv, NEW a \in Admin, Dump(a)
  PROVE  SaveInv'
<1>t. SaveT /\ FilesT /\ SwitchT
  BY Types DEF TypeInv
<1>1. /\ OtherSaves(a) /\ SameScope(a)
      /\ save[a].at = "dump" /\ save'[a].at = "close"
      /\ save'[a].fd = save[a].fd /\ save'[a].text = Memory
      /\ UNCHANGED <<disk, file, tmp, enabled, disabled, braked>>
  BY <1>t, DumpEffect
<1>2. \A b \in Admin \ {a} : save'[b] = save[b]
  BY <1>1 DEF OtherSaves
<1>3. \A b \in Admin : /\ Busy(b)' <=> Busy(b)
                       /\ save'[b].on = save[b].on /\ save'[b].scope = save[b].scope
                       /\ save'[b].fd = save[b].fd
                       /\ save'[b].at = "saved" <=> save[b].at = "saved"
                       /\ Past(b)' <=> Past(b)
  BY <1>1, <1>2 DEF Busy, SameScope, Past
<1>4. FewSaves' /\ MemoryOff' /\ Shared'
  BY <1>1, <1>3 DEF SaveInv, FewSaves, MemoryOff, Shared, Off, Memory
<1>5. \A b \in Admin : Closing(b)' => b = a \/ (Closing(b) /\ save'[b] = save[b])
  BY <1>2 DEF Closing
<1>6. Dumped'
  <2>1. /\ Within(Memory, Memory)
        /\ ~save[a].on => Off(save[a].scope, Memory)
    BY <1>1 DEF SaveInv, MemoryOff, Busy, Within
  <2>2. \A b \in Admin : Closing(b) => Within(save[b].text, Memory)
    BY DEF SaveInv, Dumped
  <2> QED
    BY <1>1, <1>3, <1>5, <2>1, <2>2 DEF SaveInv, Dumped, Off, Memory, State, Within
<1>7. Honours(Memory) /\ \A b \in Admin : Past(b) /\ ~save[b].on => Off(save[b].scope, Memory)
  BY DEF SaveInv, MemoryOff, Honours, Busy, Past
<1>8. Stale'
  <2> SUFFICES ASSUME NEW b \in Admin, Closing(b)'
               PROVE  /\ save'[b].fd = file' =>
                           Honours(save[b].text)' \/ Longer(disk'[file'], save'[b].text)
                      /\ save'[b].fd = tmp' =>
                           /\ Honours(save[b].text)'
                           /\ \A c \in Admin : Past(c)' /\ ~save'[c].on =>
                                \/ Off(save'[c].scope, save'[b].text)
                                \/ Longer(disk'[tmp'], save'[b].text)
    BY DEF Stale
  <2>1. CASE b = a
    BY <2>1, <1>1, <1>3, <1>7 DEF Honours, Off
  <2>2. CASE b # a
    <3>1. Closing(b) /\ save'[b] = save[b]
      BY <2>2, <1>5
    <3> QED
      BY <3>1, <1>1, <1>3 DEF SaveInv, Stale, Honours
  <2> QED
    BY <2>1, <2>2
<1>9. FileKeeps'
  BY <1>1, <1>3 DEF SaveInv, FileKeeps, Honours
<1> QED
  BY <1>4, <1>6, <1>8, <1>9 DEF SaveInv

(* What two texts leave in a file.                                          *)
LEMMA Overlay ==
  ASSUME NEW text, NEW held, NEW bytes \in Overlaid(text, held), bytes.kind = "state"
  PROVE  bytes = text /\ ~Longer(held, text)
  BY DEF Overlaid, Torn

LEMMA OverEmpty ==
  ASSUME NEW text, NEW bytes \in Overlaid(text, Empty)
  PROVE  bytes = text
  BY DEF Overlaid, Empty, Longer

(* Of two texts of which one was dumped later, the later one is longer      *)
(* unless they are the same.                                                *)
LEMMA LaterIsLonger ==
  ASSUME NEW st \in Content, NEW later \in Content, st.kind = "state", later.kind = "state",
         Within(st, later)
  PROVE  \/ Longer(later, st)
         \/ st.disabled = later.disabled /\ (st.enabled <=> later.enabled)
  BY DEF Content, Within, Longer

LEMMA SaveClose ==
  ASSUME TypeInv, Inodes, SaveInv, NEW a \in Admin, CloseTmp(a)
  PROVE  SaveInv'
<1>t. SaveT /\ FilesT /\ SwitchT
  BY Types DEF TypeInv
<1> DEFINE i == save[a].fd
<1>1. /\ OtherSaves(a) /\ SameScope(a)
      /\ save[a].at = "close" /\ save'[a].at = "replace" /\ save'[a].fd = NoFile
      /\ i \in Inode
      /\ disk'[i] \in Overlaid(save[a].text, disk[i])
      /\ \A j \in Inode \ {i} : disk'[j] = disk[j]
      /\ UNCHANGED <<file, tmp, enabled, disabled, braked>>
  BY <1>t, CloseEffect
<1>2. \A b \in Admin \ {a} : save'[b] = save[b]
  BY <1>1 DEF OtherSaves
<1>3. \A b \in Admin : /\ Busy(b)' <=> Busy(b)
                       /\ save'[b].on = save[b].on /\ save'[b].scope = save[b].scope
                       /\ save'[b].at = "saved" <=> save[b].at = "saved"
  BY <1>1, <1>2 DEF Busy, SameScope
<1>4. FewSaves' /\ MemoryOff'
  BY <1>1, <1>3 DEF SaveInv, FewSaves, MemoryOff, Off, Memory
<1>5. \A b, c \in Admin : b # c /\ b # a /\ c # a => ~(Busy(b) /\ Busy(c))
  BY <1>1 DEF SaveInv, FewSaves, Busy
<1>6. Shared'
  <2> SUFFICES ASSUME NEW b \in Admin, NEW c \in Admin, b # c,
                      save'[b].fd = save'[c].fd, save'[b].fd # NoFile
               PROVE  FALSE
    BY DEF Shared
  <2>1. b # a /\ c # a
    BY <1>1
  <2>2. Busy(b) /\ Busy(c)
    BY <2>1, <1>2 DEF Inodes, Busy
  <2> QED
    BY <2>1, <2>2, <1>5
<1>7. \A b \in Admin : Closing(b)' => b # a /\ Closing(b) /\ save'[b] = save[b]
  BY <1>1, <1>2 DEF Closing
<1>8. Dumped'
  BY <1>1, <1>7 DEF SaveInv, Dumped, Off, Memory
<1>9. /\ save[a].text \in Content /\ save[a].text.kind = "state"
      /\ ~save[a].on => Off(save[a].scope, save[a].text)
  BY <1>1, <1>t, SaveFields DEF Inodes, Closing, SaveInv, Dumped
<1>10. ASSUME NEW b \in Admin, b # a, Closing(b)
       PROVE  /\ save[b].text \in Content /\ save[b].text.kind = "state"
              /\ save[b].fd \in Inode
              /\ save[b].fd = i => disk[i] = Empty /\ disk'[i] = save[a].text
  <2>1. save[b].text \in Content /\ save[b].text.kind = "state" /\ save[b].fd \in Inode
    BY <1>10, <1>t, SaveFields DEF Inodes, Closing
  <2>2. save[b].fd = i => disk[i] = Empty
    BY <2>1, <1>10, <1>1, Admins DEF SaveInv, Shared
  <2> QED
    BY <2>1, <2>2, <1>1, OverEmpty
<1>11. Stale'
  <2> SUFFICES ASSUME NEW b \in Admin, Closing(b)'
               PROVE  /\ save'[b].fd = file' =>
                           Honours(save[b].text)' \/ Longer(disk'[file'], save'[b].text)
                      /\ save'[b].fd = tmp' =>
                           /\ Honours(save[b].text)'
                           /\ \A c \in Admin : Past(c)' /\ ~save'[c].on =>
                                \/ Off(save'[c].scope, save'[b].text)
                                \/ Longer(disk'[tmp'], save'[b].text)
    BY DEF Stale
  <2>1. b # a /\ Closing(b) /\ save'[b] = save[b]
    BY <1>7
  <2>2. Honours(save[b].text)' <=> Honours(save[b].text)
    BY <2>1, <1>1, <1>3 DEF Honours
  <2>3. ~Longer(Empty, save[b].text)
    BY DEF Longer, Empty
  <2>4. save'[b].fd = file' => Honours(save[b].text)' \/ Longer(disk'[file'], save'[b].text)
    <3>1. CASE save[b].fd = i
      BY <3>1, <2>1, <2>2, <2>3, <1>10, <1>1 DEF SaveInv, Stale
    <3>2. CASE save[b].fd # i
      BY <3>2, <2>1, <2>2, <1>10, <1>1 DEF SaveInv, Stale
    <3> QED
      BY <3>1, <3>2
  <2>5. save'[b].fd = tmp' => Honours(save[b].text)'
    BY <2>1, <2>2, <1>1 DEF SaveInv, Stale
  <2>6. ASSUME save[b].fd = tmp, NEW c \in Admin, Past(c)', ~save'[c].on
        PROVE  Off(save'[c].scope, save[b].text) \/ Longer(disk'[tmp'], save[b].text)
    <3>1. c = a
      <4>1. CASE c = b
        BY <4>1, <2>1, <2>6, <1>1 DEF Past, Closing
      <4>2. CASE c # a /\ c # b
        <5>1. Busy(b) /\ Busy(c)
          BY <4>2, <2>1, <2>6, <1>2 DEF Busy, Past, Closing
        <5> QED
          BY <5>1, <4>2, <2>1, <1>5
      <4> QED
        BY <4>1, <4>2
    <3>2. CASE i # tmp
      <4>1. Past(a) /\ disk'[tmp'] = disk[tmp]
        BY <3>2, <2>1, <2>6, <1>1, <1>10 DEF Past
      <4> QED
        BY <4>1, <3>1, <2>1, <2>6, <1>3 DEF SaveInv, Stale
    <3>3. CASE i = tmp
      <4>1. disk'[tmp'] = save[a].text
        BY <3>3, <2>1, <2>6, <1>1, <1>10
      <4>2. Off(save[a].scope, save[a].text)
        BY <3>1, <2>6, <1>3, <1>9
      <4>3. CASE Within(save[a].text, save[b].text)
        <5>1. Off(save[a].scope, save[b].text)
          BY <4>2, <4>3 DEF Off, Within
        <5> QED
          BY <5>1, <3>1, <1>3
      <4>4. CASE Within(save[b].text, save[a].text)
        <5>1. \/ Longer(save[a].text, save[b].text)
              \/ /\ save[b].text.disabled = save[a].text.disabled
                 /\ save[b].text.enabled <=> save[a].text.enabled
          BY <4>4, <2>1, <1>9, <1>10, LaterIsLonger
        <5>2. Longer(save[a].text, save[b].text) \/ Off(save[a].scope, save[b].text)
          BY <4>2, <5>1 DEF Off
        <5> QED
          BY <5>2, <4>1, <3>1, <1>3
      <4> QED
        BY <4>3, <4>4, <2>1, <1>1 DEF SaveInv, Dumped, Closing
    <3> QED
      BY <3>2, <3>3
  <2> QED
    BY <2>1, <2>4, <2>5, <2>6, <1>1
<1>12. disk'[i].kind = "state" => disk'[i] = save[a].text /\ ~Longer(disk[i], save[a].text)
  BY <1>1, Overlay
<1>13. FileKeeps'
  <2>1. file' = NoFile => braked' = {} /\ \A b \in Admin : save'[b].at # "saved"
    BY <1>1, <1>3 DEF SaveInv, FileKeeps
  <2>2. ASSUME file' # NoFile, disk'[file'].kind = "state" PROVE Honours(disk[file])'
    <3>1. Honours(disk'[file])
      <4>1. CASE i = file
        BY <4>1, <2>2, <1>1, <1>12 DEF SaveInv, Stale, Closing
      <4>2. CASE i # file
        BY <4>2, <2>2, <1>1, <1>t DEF SaveInv, FileKeeps, FilesT
      <4> QED
        BY <4>1, <4>2
    <3> QED
      BY <3>1, <1>1, <1>3 DEF Honours
  <2>3. ASSUME NEW c \in Admin, Past(c)', tmp' # NoFile, disk'[tmp'].kind = "state"
        PROVE  Honours(disk[tmp])' /\ (~save'[c].on => Off(save'[c].scope, disk'[tmp']))
    <3>1. Honours(disk'[tmp]) /\ (~save[c].on => Off(save[c].scope, disk'[tmp]))
      <4>1. CASE i = tmp
        <5>1. disk'[tmp] = save[a].text /\ ~Longer(disk[tmp], save[a].text)
          BY <4>1, <2>3, <1>1, <1>12
        <5>2. Honours(save[a].text)
          BY <4>1, <1>1 DEF SaveInv, Stale, Closing
        <5>3. c # a => Past(c)
          BY <2>3, <1>1, <1>2 DEF Past
        <5>4. ~save[c].on => Off(save[c].scope, save[a].text)
          BY <4>1, <5>1, <5>3, <1>1, <1>9 DEF SaveInv, Stale, Closing
        <5> QED
          BY <5>1, <5>2, <5>4
      <4>2. CASE i # tmp
        <5>1. disk'[tmp] = disk[tmp] /\ tmp # NoFile
          BY <4>2, <2>3, <1>1, <1>t DEF FilesT
        <5>2. Past(c)
          BY <4>2, <2>3, <1>1, <1>2 DEF Past
        <5> QED
          BY <5>1, <5>2, <2>3, <1>1 DEF SaveInv, FileKeeps
      <4> QED
        BY <4>1, <4>2
    <3> QED
      BY <3>1, <1>1, <1>3 DEF Honours
  <2> QED
    BY <2>1, <2>2, <2>3 DEF FileKeeps
<1> QED
  BY <1>4, <1>6, <1>8, <1>11, <1>13 DEF SaveInv

LEMMA SaveReplace ==
  ASSUME TypeInv, Inodes, SaveInv, NEW a \in Admin, ReplaceFile(a)
  PROVE  SaveInv'
<1>t. SaveT /\ FilesT /\ SwitchT
  BY Types DEF TypeInv
<1>1. /\ OtherSaves(a) /\ SameScope(a)
      /\ save[a].at = "replace" /\ save'[a].fd = save[a].fd
      /\ save'[a].at \in {"saved", "failed"}
      /\ UNCHANGED <<enabled, disabled, braked>>
  BY <1>t, ReplaceEffect
<1>2. \A b \in Admin \ {a} : save'[b] = save[b]
  BY <1>1 DEF OtherSaves
<1>3. \A b \in Admin : /\ Busy(b)' <=> Busy(b)
                       /\ save'[b].on = save[b].on /\ save'[b].scope = save[b].scope
                       /\ save'[b].fd = save[b].fd
                       /\ Closing(b)' => b # a /\ Closing(b) /\ save'[b] = save[b]
                       /\ b # a => (save'[b].at = "saved" <=> save[b].at = "saved")
  BY <1>1, <1>2 DEF Busy, SameScope, Closing
<1>4. FewSaves' /\ MemoryOff'
  BY <1>1, <1>3 DEF SaveInv, FewSaves, MemoryOff, Off, Memory
<1>5. Dumped'
  BY <1>1, <1>3 DEF SaveInv, Dumped, Off, Memory
<1>6. CASE save'[a].at = "failed" /\ UNCHANGED <<disk, file, tmp>>
  <2>1. \A b \in Admin : /\ Past(b)' => Past(b)
                         /\ save'[b].at = "saved" => save[b].at = "saved"
    BY <1>1, <1>2, <1>6 DEF Past
  <2>2. Shared'
    BY <1>3, <1>6 DEF SaveInv, Shared
  <2>3. Stale'
    BY <2>1, <1>1, <1>3, <1>6 DEF SaveInv, Stale, Honours
  <2>4. FileKeeps'
    BY <2>1, <1>1, <1>3, <1>6 DEF SaveInv, FileKeeps, Honours
  <2> QED
    BY <2>2, <2>3, <2>4, <1>4, <1>5 DEF SaveInv
<1>7. CASE /\ save'[a].at = "saved" /\ tmp # NoFile /\ file' = tmp /\ tmp' = NoFile
           /\ file # NoFile => disk'[file] = Empty
           /\ \A i \in Inode \ {file} : disk'[i] = disk[i]
  <2>1. Past(a) /\ file # tmp /\ tmp \in Inode /\ disk'[file'] = disk[tmp]
    BY <1>1, <1>7, <1>t DEF Past, Inodes, FilesT
  <2>2. Shared'
    <3> SUFFICES ASSUME NEW b \in Admin, NEW c \in Admin, b # c,
                        save[b].fd = save[c].fd, save[b].fd # NoFile
                 PROVE  disk'[save[b].fd] = Empty
      BY <1>3 DEF Shared
    <3>1. save[b].fd \in Inode /\ disk[save[b].fd] = Empty
      BY <1>t, SaveFields DEF SaveInv, Shared
    <3> QED
      BY <3>1, <1>7
  <2>3. \A b \in Admin : save'[b].at = "saved" => b = a \/ save[b].at = "saved"
    BY <1>3
  <2>4. Stale'
    <3> SUFFICES ASSUME NEW b \in Admin, Closing(b)'
                 PROVE  /\ save'[b].fd = file' =>
                             Honours(save[b].text)' \/ Longer(disk'[file'], save'[b].text)
                        /\ save'[b].fd # tmp'
      BY DEF Stale
    <3>1. b # a /\ Closing(b) /\ save'[b] = save[b] /\ save[b].fd # NoFile
      BY <1>3 DEF Inodes, Closing
    <3>2. ASSUME save[b].fd = tmp
          PROVE  Honours(save[b].text)' \/ Longer(disk[tmp], save[b].text)
      <4>1. /\ Honours(save[b].text)
            /\ ~save[a].on => Off(save[a].scope, save[b].text) \/ Longer(disk[tmp], save[b].text)
        BY <3>1, <3>2, <2>1 DEF SaveInv, Stale
      <4> QED
        BY <4>1, <3>1, <2>3, <1>1, <1>3 DEF Honours
    <3> QED
      BY <3>1, <3>2, <2>1, <1>7
  <2>5. FileKeeps'
    <3>1. file' # NoFile /\ tmp' = NoFile
      BY <1>7
    <3>2. ASSUME disk'[file'].kind = "state" PROVE Honours(disk[file])'
      <4>1. Honours(disk[tmp]) /\ (~save[a].on => Off(save[a].scope, disk[tmp]))
        BY <3>2, <2>1, <1>7 DEF SaveInv, FileKeeps
      <4> QED
        BY <4>1, <2>1, <2>3, <1>1, <1>3 DEF Honours
    <3> QED
      BY <3>1, <3>2 DEF FileKeeps
  <2> QED
    BY <2>2, <2>4, <2>5, <1>4, <1>5 DEF SaveInv
<1> QED
  BY <1>6, <1>7, <1>t, ReplaceEffect

(* A save that ends: alone and failed, or with its promise made.            *)
LEMMA SaveEnds ==
  ASSUME TypeInv, Inodes, SaveInv, ~raced, ~raced', NEW a \in Admin, DiskFails(a) \/ Settle(a)
  PROVE  SaveInv'
<1>t. SaveT /\ FilesT /\ SwitchT
  BY Types DEF TypeInv
<1>1. CASE DiskFails(a)
  <2>1. /\ OtherSaves(a) /\ SameScope(a)
        /\ save[a].at \in {"open", "close", "replace"}
        /\ save'[a].at = "failed" /\ save'[a].fd = NoFile
        /\ ~OthersBusy(a)
        /\ UNCHANGED <<disk, file, tmp, enabled, disabled, braked>>
    BY <1>1, <1>t, FailEffect
  <2>2. \A b \in Admin \ {a} : save'[b] = save[b] /\ save[b].at = "idle" /\ save[b].fd = NoFile
    BY <2>1 DEF OtherSaves, OthersBusy, Busy, Inodes
  <2>3. \A b \in Admin : /\ Busy(b)' <=> Busy(b)
                         /\ save'[b].on = save[b].on /\ save'[b].scope = save[b].scope
    BY <2>1, <2>2 DEF Busy, SameScope
  <2>4. FewSaves' /\ MemoryOff'
    BY <2>1, <2>3 DEF SaveInv, FewSaves, MemoryOff, Off, Memory
  <2>5. \A b \in Admin : save'[b].fd = NoFile /\ ~Closing(b)' /\ ~Past(b)' /\ save'[b].at # "saved"
    BY <2>1, <2>2 DEF Closing, Past
  <2>6. Shared' /\ Dumped' /\ Stale'
    BY <2>5 DEF Shared, Dumped, Stale
  <2>7. FileKeeps'
    BY <2>1, <2>5 DEF SaveInv, FileKeeps, Honours
  <2> QED
    BY <2>4, <2>6, <2>7 DEF SaveInv
<1>2. CASE Settle(a)
  <2>1. /\ OtherSaves(a)
        /\ save[a].at \in {"saved", "failed"} /\ save'[a].at = "idle" /\ save'[a].fd = NoFile
        /\ braked' = IF save[a].at = "saved" /\ ~save[a].on
                     THEN braked \cup {save[a].scope} ELSE braked
        /\ UNCHANGED <<disk, file, tmp, enabled, disabled>>
    BY <1>2, <1>t, SettleEffect
  <2>2. \A b \in Admin \ {a} : save'[b] = save[b]
    BY <2>1 DEF OtherSaves
  <2>3. \A b \in Admin : Busy(b)' => Busy(b) /\ b # a /\ save'[b] = save[b]
    BY <2>1, <2>2 DEF Busy
  <2>4. FewSaves'
    BY <2>3 DEF SaveInv, FewSaves
  <2>5. MemoryOff'
    BY <2>1, <2>3 DEF SaveInv, MemoryOff, Off, Memory, Busy
  <2>6. Shared'
    BY <2>1, <2>2 DEF SaveInv, Shared
  <2>7. \A b \in Admin : Closing(b)' => b # a /\ Closing(b) /\ save'[b] = save[b]
    BY <2>1, <2>2 DEF Closing
  <2>8. Dumped'
    BY <2>1, <2>7 DEF SaveInv, Dumped, Off, Memory
  <2>9. ASSUME NEW st, Honours(st)
        PROVE  /\ \A s \in braked' : Off(s, st)
               /\ \A b \in Admin : save'[b].at = "saved" /\ ~save'[b].on => Off(save'[b].scope, st)
    BY <2>9, <2>1, <2>2 DEF Honours
  <2>10. \A b \in Admin : Past(b)' => b # a /\ Past(b) /\ save'[b] = save[b]
    BY <2>1, <2>2 DEF Past
  <2>11. Stale'
    <3> SUFFICES ASSUME NEW b \in Admin, Closing(b)'
                 PROVE  /\ save'[b].fd = file' =>
                             Honours(save[b].text)' \/ Longer(disk'[file'], save'[b].text)
                        /\ save'[b].fd = tmp' =>
                             /\ Honours(save[b].text)'
                             /\ \A c \in Admin : Past(c)' /\ ~save'[c].on =>
                                  \/ Off(save'[c].scope, save'[b].text)
                                  \/ Longer(disk'[tmp'], save'[b].text)
      BY DEF Stale
    <3>1. Closing(b) /\ save'[b] = save[b]
      BY <2>7
    <3>2. Honours(save[b].text) => Honours(save[b].text)'
      BY <3>1, <2>9 DEF Honours
    <3> QED
      BY <3>1, <3>2, <2>1, <2>10 DEF SaveInv, Stale
  <2>12. FileKeeps'
    <3>1. file' = NoFile => braked' = {} /\ \A b \in Admin : save'[b].at # "saved"
      BY <2>1, <2>2 DEF SaveInv, FileKeeps
    <3>2. Honours(disk[file]) => Honours(disk[file])'
      BY <2>1, <2>9 DEF Honours
    <3>3. Honours(disk[tmp]) => Honours(disk[tmp])'
      BY <2>1, <2>9 DEF Honours
    <3> QED
      BY <3>1, <3>2, <3>3, <2>1, <2>10 DEF SaveInv, FileKeeps
  <2> QED
    BY <2>4, <2>5, <2>6, <2>8, <2>11, <2>12 DEF SaveInv
<1> QED
  BY <1>1, <1>2

LEMMA SaveRestart ==
  ASSUME TypeInv, SaveInv, ~raced, Restart
  PROVE  SaveInv'
<1>t. SaveT /\ FilesT /\ SwitchT /\ CountT
  BY Types DEF TypeInv
<1>1. /\ enabled' = Loaded.enabled /\ disabled' = Loaded.disabled
      /\ save' = [b \in Admin |-> Rest] /\ UNCHANGED <<disk, file, tmp>>
      /\ braked' = IF file # NoFile /\ disk[file].kind # "state" THEN {Layer} ELSE braked
  BY DEF Restart, files
<1>2. \A b \in Admin : ~Busy(b)' /\ ~Closing(b)' /\ ~Past(b)' /\ save'[b].at # "saved"
                       /\ save'[b].fd = NoFile
  BY <1>1 DEF Busy, Closing, Past, Rest
<1>3. FewSaves' /\ Shared' /\ Dumped' /\ Stale'
  BY <1>2 DEF FewSaves, Shared, Dumped, Stale
<1>4. FileKeeps'
  BY <1>1, <1>2 DEF SaveInv, FileKeeps, Honours
<1>5. \A s \in braked' : Off(s, Loaded)
  <2>1. CASE file = NoFile
    BY <2>1, <1>1 DEF SaveInv, FileKeeps
  <2>2. CASE file # NoFile /\ disk[file].kind = "state"
    BY <2>2, <1>1 DEF SaveInv, FileKeeps, Honours, Loaded
  <2>3. CASE file # NoFile /\ disk[file].kind # "state"
    BY <2>3, <1>1 DEF Loaded, State, Off
  <2> QED
    BY <2>1, <2>2, <2>3
<1>6. MemoryOff'
  <2>1. \A s \in braked' : Off(s, Memory')
    BY <1>1, <1>5 DEF Off, Memory, State
  <2> QED
    BY <2>1, <1>2 DEF MemoryOff, Off, Memory
<1> QED
  BY <1>3, <1>4, <1>6 DEF SaveInv


-----------------------------------------------------------------------------
(* A caller's step keeps Late when it does so of the caller.                *)
LEMMA LateOther ==
  ASSUME Late, NEW c \in Caller, Others(c), UNCHANGED braked,
         call'[c].late =>
           /\ PromisedOff(call'[c].tool)
           /\ call'[c].at \notin {"idle", "go", "run"}
           /\ call'[c].at = "tool" => call'[c].tool \in braked /\ call'[c].tool # Layer
  PROVE  Late'
  BY DEF Late, Others, PromisedOff

LEMMA LateCaller ==
  ASSUME TypeInv, raced => braked = {}, ~raced => SaveInv, Late, NEW c \in Caller,
         \/ Propose(c) \/ Sweep(c) \/ Confirm(c) \/ CheckLayer(c) \/ CheckTool(c)
         \/ RunNow(c) \/ Park(c) \/ Answer(c) \/ Execute(c) \/ RecordOutcome(c)
  PROVE  Late'
<1>t. CardsT /\ CallT
  BY Types DEF TypeInv
<1>p. /\ "layer" \in Places /\ "tool" \in Places /\ "go" \in Places /\ "run" \in Places
      /\ "record" \in Places /\ "sweep" \in Places
  BY DEF Places
<1>b. UNCHANGED braked
  BY DEF Propose, Sweep, Confirm, CheckLayer, CheckTool, RunNow, Park, Answer, Execute,
     RecordOutcome, history
<1>m. \A s \in braked : Off(s, Memory)
  BY DEF SaveInv, MemoryOff
<1>e. ASSUME Ends(c) PROVE Late'
  BY <1>e, <1>t, <1>b, Ended, LateOther
<1>r. ASSUME NEW word \in Words, Says(c, "record", word) PROVE Late'
  <2>1. /\ Others(c) /\ call'[c].at = "record" /\ call'[c].tool = call[c].tool
        /\ call'[c].late = call[c].late
    BY <1>r, <1>p, <1>t, Said
  <2> QED
    BY <2>1, <1>b, LateOther DEF Late
<1>x. Blocked(c) => Late'
  BY <1>e, <1>r, Spoken DEF Blocked
<1>g. ASSUME NEW place \in {"go", "run"}, Goes(c, place), ~call[c].late PROVE Late'
  <2>1. Others(c) /\ call'[c].late = call[c].late
    BY <1>g, <1>p, <1>t, Went
  <2> QED
    BY <2>1, <1>g, <1>b, LateOther
<1>1. CASE Propose(c)
  <2>1. PICK t \in Tool, say \in {"ask", "approved"} :
          Begins(c, NoCard, t, "sweep", say, pending \cap stale)
    BY <1>1 DEF Propose
  <2>2. /\ t \in Scope /\ say \in Words
        /\ pending \cap stale \in SUBSET Card /\ NoCard \in Card \cup {NoCard}
    BY <1>t DEF CardsT, Scope, Words
  <2>3. /\ Others(c) /\ call'[c].at = "sweep" /\ call'[c].tool = t
        /\ call'[c].late = PromisedOff(t)
    BY <2>1, <2>2, <1>p, <1>t, Began
  <2> QED
    BY <2>3, <1>b, LateOther
<1>2. CASE Sweep(c)
  <2>1. ASSUME NEW k \in call[c].swept, call' = [call EXCEPT ![c].swept = @ \ {k}] PROVE Late'
    <3>1. k \in Card
      BY <1>t DEF CallT, CallState
    <3>2. /\ Others(c) /\ call'[c].at = call[c].at /\ call'[c].tool = call[c].tool
          /\ call'[c].late = call[c].late
      BY <2>1, <3>1, <1>t, SweptOne
    <3> QED
      BY <3>2, <1>b, LateOther DEF Late
  <2>2. ASSUME Goes(c, "layer") PROVE Late'
    <3>1. /\ Others(c) /\ call'[c].at = "layer" /\ call'[c].tool = call[c].tool
          /\ call'[c].late = call[c].late
      BY <2>2, <1>p, <1>t, Went
    <3> QED
      BY <3>1, <1>b, LateOther DEF Late
  <2> QED
    BY <1>2, <2>1, <2>2 DEF Sweep
<1>3. CASE Confirm(c)
  <2>1. PICK k \in pending, say \in {"approve", "deny"} :
          Begins(c, k, toolOf[k], "layer", say, {})
    BY <1>3 DEF Confirm
  <2>2. k \in Card \cup {NoCard} /\ toolOf[k] \in Scope /\ say \in Words /\ {} \in SUBSET Card
    BY <1>t DEF CardsT, Words
  <2>3. /\ Others(c) /\ call'[c].at = "layer" /\ call'[c].tool = toolOf[k]
        /\ call'[c].late = PromisedOff(toolOf[k])
    BY <2>1, <2>2, <1>p, <1>t, Began
  <2> QED
    BY <2>3, <1>b, LateOther
<1>4. CASE CheckLayer(c)
  <2>1. CASE enabled /\ Goes(c, "tool")
    <3>1. /\ Others(c) /\ call'[c].at = "tool" /\ call'[c].tool = call[c].tool
          /\ call'[c].late = call[c].late
      BY <2>1, <1>p, <1>t, Went
    <3>2. Layer \notin braked
      BY <2>1, <1>m DEF Off, Memory, State
    <3>3. call[c].late => call[c].tool \in braked /\ call[c].tool # Layer
      BY <3>2 DEF Late, PromisedOff
    <3> QED
      BY <3>1, <3>3, <1>b, LateOther DEF Late
  <2> QED
    BY <1>4, <1>x, <2>1 DEF CheckLayer
<1>5. CASE CheckTool(c)
  <2>1. CASE call[c].tool \notin disabled /\ Goes(c, "go")
    <3>1. ~call[c].late
      BY <1>5, <2>1, <1>m DEF CheckTool, Late, Off, Memory, State
    <3> QED
      BY <2>1, <3>1, <1>g
  <2> QED
    BY <1>5, <1>x, <2>1 DEF CheckTool
<1>6. CASE RunNow(c)
  BY <1>6, <1>g DEF RunNow, Late
<1>7. CASE Park(c)
  BY <1>7, <1>e DEF Park
<1>8. CASE Answer(c)
  <2>1. ~call[c].late
    BY <1>8 DEF Answer, Late
  <2> QED
    BY <1>8, <2>1, <1>g, <1>r, Spoken DEF Answer
<1>9. CASE Execute(c)
  BY <1>9, <1>e, <1>r, Spoken DEF Execute
<1>10. CASE RecordOutcome(c)
  BY <1>10, <1>e DEF RecordOutcome
<1> QED
  BY <1>1, <1>2, <1>3, <1>4, <1>5, <1>6, <1>7, <1>8, <1>9, <1>10

(* What the admins and a restart do to the calls and to the promises.       *)
LEMMA LateOthers ==
  ASSUME TypeInv, raced => braked = {}, Late,
         \/ \E a \in Admin :
              \/ SetEnabled(a) \/ OpenTmp(a) \/ Dump(a) \/ CloseTmp(a) \/ ReplaceFile(a)
              \/ DiskFails(a) \/ Settle(a)
         \/ Restart
         \/ UNCHANGED <<call, braked, raced>>
  PROVE  Late' /\ (raced' => braked' = {}) /\ (raced => raced')
<1>t. SaveT /\ SwitchT /\ FilesT /\ CallT /\ CountT
  BY Types DEF TypeInv
<1>q. ASSUME call' = call, raced' = raced, braked \subseteq braked', raced => braked' = {}
      PROVE  Late' /\ (raced' => braked' = {}) /\ (raced => raced')
  BY <1>q DEF Late, PromisedOff
<1>1. ASSUME NEW a \in Admin, SetEnabled(a)
      PROVE  Late' /\ (raced' => braked' = {}) /\ (raced => raced')
  <2>1. PICK on \in BOOLEAN, scope \in Scope :
          /\ raced' = (raced \/ (OthersBusy(a) /\ on) \/ OthersArm \/ Crowded(a))
          /\ braked' = IF raced' THEN {} ELSE IF on THEN braked \ {scope} ELSE braked
          /\ call' = [c \in Caller |->
                        IF raced' \/ (on /\ scope \in {call[c].tool, Layer})
                        THEN [call[c] EXCEPT !.late = FALSE] ELSE call[c]]
    BY <1>1, <1>t, SetEffect
  <2>2. (raced' => braked' = {}) /\ (raced => raced')
    BY <2>1
  <2>3. ASSUME NEW c \in Caller, call'[c].late
        PROVE  call'[c] = call[c] /\ ~raced' /\ ~(on /\ scope \in {call[c].tool, Layer})
    BY <2>1, <2>3, <1>t DEF CallT, CallState
  <2>4. ASSUME NEW c \in Caller, call'[c].late
        PROVE  /\ PromisedOff(call[c].tool)'
               /\ call'[c].at \notin {"idle", "go", "run"}
               /\ call'[c].at = "tool" => call'[c].tool \in braked' /\ call'[c].tool # Layer
    <3>1. /\ PromisedOff(call[c].tool) /\ call[c].at \notin {"idle", "go", "run"}
          /\ call[c].at = "tool" => call[c].tool \in braked /\ call[c].tool # Layer
      BY <2>3, <2>4 DEF Late
    <3>2. braked' = IF on THEN braked \ {scope} ELSE braked
      BY <2>1, <2>3, <2>4
    <3> QED
      BY <2>3, <2>4, <3>1, <3>2 DEF PromisedOff
  <2> QED
    BY <2>2, <2>4 DEF Late
<1>2. ASSUME NEW a \in Admin, OpenTmp(a) \/ Dump(a) \/ CloseTmp(a) \/ ReplaceFile(a)
      PROVE  Late' /\ (raced' => braked' = {}) /\ (raced => raced')
  BY <1>2, <1>q DEF OpenTmp, Dump, CloseTmp, ReplaceFile, history
<1>3. ASSUME NEW a \in Admin, DiskFails(a)
      PROVE  Late' /\ (raced' => braked' = {}) /\ (raced => raced')
  <2>1. /\ raced' = (raced \/ OthersBusy(a))
        /\ braked' = (IF raced' THEN {} ELSE braked)
        /\ call' = [c \in Caller |-> [call[c] EXCEPT !.late = @ /\ ~raced']]
    BY <1>3 DEF DiskFails
  <2>2. (raced' => braked' = {}) /\ (raced => raced')
    BY <2>1
  <2>3. ASSUME NEW c \in Caller
        PROVE  /\ call'[c].at = call[c].at /\ call'[c].tool = call[c].tool
               /\ call'[c].late <=> call[c].late /\ ~raced'
    BY <2>1, <1>t DEF CallT, CallState
  <2>4. Late'
    BY <2>1, <2>3 DEF Late, PromisedOff
  <2> QED
    BY <2>2, <2>4
<1>4. ASSUME NEW a \in Admin, Settle(a)
      PROVE  Late' /\ (raced' => braked' = {}) /\ (raced => raced')
  <2>1. /\ UNCHANGED <<call, raced>>
        /\ braked' = IF save[a].at = "saved" /\ ~save[a].on /\ ~raced
                     THEN braked \cup {save[a].scope} ELSE braked
    BY <1>4, <1>t, SettleEffect
  <2> QED
    BY <2>1, <1>q
<1>5. ASSUME Restart
      PROVE  Late' /\ (raced' => braked' = {}) /\ (raced => raced')
  BY <1>5 DEF Restart, Late, Idle
<1>6. ASSUME UNCHANGED <<call, braked, raced>>
      PROVE  Late' /\ (raced' => braked' = {}) /\ (raced => raced')
  BY <1>6, <1>q
<1> QED
  BY <1>1, <1>2, <1>3, <1>4, <1>5, <1>6

LEMMA StepBrake ==
  TypeInv /\ BrakeInv /\ TypeInv' /\ [Next]_vars => BrakeInv'
<1> SUFFICES ASSUME TypeInv, BrakeInv, TypeInv', [Next]_vars PROVE BrakeInv'
  OBVIOUS
<1>b. Inodes /\ (raced => braked = {}) /\ (~raced => SaveInv) /\ Late
  BY DEF BrakeInv
<1>i. Inodes'
  BY <1>b, StepInodes
<1>q. ASSUME UNCHANGED <<disk, file, tmp, enabled, disabled, save, braked, raced>>
      PROVE  (raced' => braked' = {}) /\ (~raced' => SaveInv')
  BY <1>q, <1>b, QuietSaves
<1>1. ASSUME NEW c \in Caller,
             \/ Propose(c) \/ Sweep(c) \/ Confirm(c) \/ CheckLayer(c) \/ CheckTool(c)
             \/ RunNow(c) \/ Park(c) \/ Answer(c) \/ Execute(c) \/ RecordOutcome(c)
      PROVE  BrakeInv'
  <2>1. UNCHANGED <<disk, file, tmp, enabled, disabled, save, braked, raced>>
    BY <1>1 DEF Propose, Sweep, Confirm, CheckLayer, CheckTool, RunNow, Park, Answer, Execute,
       RecordOutcome, switch, files, history
  <2> QED
    BY <1>1, <1>b, <1>i, <1>q, <2>1, LateCaller DEF BrakeInv
<1>2. ASSUME NEW k \in Card, Lapse(k) PROVE BrakeInv'
  <2>1. UNCHANGED <<disk, file, tmp, enabled, disabled, save, call, braked, raced>>
    BY <1>2 DEF Lapse, switch, files, history
  <2> QED
    BY <1>b, <1>i, <1>q, <2>1, LateOthers DEF BrakeInv
<1>3. ASSUME NEW a \in Admin,
             \/ SetEnabled(a) \/ OpenTmp(a) \/ Dump(a) \/ CloseTmp(a) \/ ReplaceFile(a)
             \/ DiskFails(a) \/ Settle(a)
      PROVE  BrakeInv'
  <2>1. Late' /\ (raced' => braked' = {}) /\ (raced => raced')
    BY <1>3, <1>b, LateOthers
  <2>2. ASSUME ~raced' PROVE SaveInv'
    <3>1. ~raced /\ SaveInv
      BY <2>1, <2>2, <1>b
    <3> QED
      BY <1>3, <2>2, <3>1, <1>b, SaveSet, SaveOpen, SaveDump, SaveClose, SaveReplace, SaveEnds
  <2> QED
    BY <1>i, <2>1, <2>2 DEF BrakeInv
<1>4. CASE Restart
  <2>1. Late' /\ (raced' => braked' = {}) /\ (raced => raced')
    BY <1>4, <1>b, LateOthers
  <2>2. ~raced' => SaveInv'
    BY <1>4, <1>b, <2>1, SaveRestart
  <2> QED
    BY <1>i, <2>1, <2>2 DEF BrakeInv
<1>5. CASE UNCHANGED vars
  <2>1. UNCHANGED <<disk, file, tmp, enabled, disabled, save, call, braked, raced>>
    BY <1>5 DEF vars, switch, files, history
  <2> QED
    BY <1>b, <1>i, <1>q, <2>1, LateOthers DEF BrakeInv
<1> QED
  BY <1>1, <1>2, <1>3, <1>4, <1>5 DEF Next

-----------------------------------------------------------------------------
(* The inductive invariant of the gate: shapes, cards and brake.            *)
GateInv == TypeInv /\ CardInv /\ BrakeInv

LEMMA InitGate == Init => GateInv
<1> SUFFICES ASSUME Init PROVE GateInv
  OBVIOUS
<1>1. TypeInv
  BY InitTypes
<1>2. \A c \in Caller : /\ call[c].at = "idle" /\ call[c].card = NoCard
                         /\ call[c].swept = {} /\ call[c].late = FALSE
  BY DEF Init, Idle
<1>3. \A a \in Admin : save[a] = Rest
  BY DEF Init
<1>4. CardInv
  <2>1. \A c \in Caller, k \in Card : ~Has(c, k)
    BY <1>2, ToolGateAssumption DEF Has
  <2>2. pending = {} /\ \A k \in Card : trail[k] = <<>> /\ ran[k] = 0
    BY DEF Init
  <2>3. CardsEndOnce
    BY <2>2 DEF CardsEndOnce
  <2>4. OnePlace /\ Fresh
    BY <2>1, <2>2 DEF OnePlace, Fresh
  <2>5. Unwritten
    BY <1>2, <2>2 DEF Unwritten
  <2> QED
    BY <2>3, <2>4, <2>5 DEF CardInv
<1>5. BrakeInv
  <2>1. file = NoFile /\ tmp = NoFile /\ raced = FALSE /\ braked = {}
    BY DEF Init
  <2>2. Inodes
    BY <1>3, <2>1 DEF Inodes, Closing, Rest
  <2>3. \A a \in Admin : ~Busy(a) /\ ~Closing(a) /\ ~Past(a) /\ save[a].at # "saved"
                         /\ save[a].fd = NoFile
    BY <1>3 DEF Busy, Closing, Past, Rest
  <2>4. SaveInv
    BY <2>1, <2>3 DEF SaveInv, FewSaves, MemoryOff, Shared, Dumped, Stale, FileKeeps
  <2>5. Late
    BY <1>2 DEF Late
  <2> QED
    BY <2>1, <2>2, <2>4, <2>5 DEF BrakeInv
<1> QED
  BY <1>1, <1>4, <1>5 DEF GateInv

LEMMA GateInvariant == Spec => []GateInv
<1>1. Init => GateInv
  BY InitGate
<1>2. GateInv /\ [Next]_vars => GateInv'
  BY StepTypes, StepCards, StepBrake DEF GateInv
<1> QED
  BY <1>1, <1>2, PTL DEF Spec

(* The switch, the two files it is saved in, the cards, the callers and the *)
(* admins keep their shapes, and the counters their bounds.                 *)
THEOREM GateTypes == Spec => []TypeOK
<1>1. GateInv => TypeOK
  BY DEF GateInv, TypeInv
<1> QED
  BY <1>1, GateInvariant, PTL

(* However many people answer a card, sweep it, pull the brake or restart   *)
(* the worker: it gets one audit row at most, its tool runs once at most,   *)
(* and never if that row says it was refused.                               *)
THEOREM CardsEnd == Spec => []CardsEndOnce
<1>1. GateInv => CardsEndOnce
  BY DEF GateInv, CardInv
<1> QED
  BY <1>1, GateInvariant, PTL

(* A call that comes after a brake was saved does not reach its tool,       *)
(* however many restarts there are and wherever they come, over two saves   *)
(* that overlap, until the brake is released.                               *)
THEOREM BrakeStays == Spec => []BrakeHolds
<1>1. GateInv => BrakeHolds
  BY DEF GateInv, BrakeInv, Late, BrakeHolds
<1> QED
  BY <1>1, GateInvariant, PTL

=============================================================================
