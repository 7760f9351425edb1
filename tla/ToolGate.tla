------------------------------ MODULE ToolGate ------------------------------
(***************************************************************************)
(* The gate in front of every tool (worker/app/tools.py): a read runs at    *)
(* once, a write waits on a card until a human answers or its time is up,   *)
(* and the kill switch, for one tool or for the whole layer, must hold      *)
(* against both and across a restart.                                       *)
(*                                                                          *)
(* Requests run in a thread pool: callers propose and answer, admins turn   *)
(* the switch.  Cards are under a lock.  The switch is not: every read of   *)
(* it, and every file operation of saving it, is a step of its own.         *)
(***************************************************************************)
EXTENDS Integers, Sequences, FiniteSets

CONSTANTS
  Tool, Read,     \* the registry, and its tools that need no card
  Layer,          \* the switch of the whole layer
  Card, NoCard,   \* confirmation ids
  Caller, Admin,  \* threads
  EnvEnabled,     \* KALIV_TOOLS_ENABLED, the default of a first run
  Faults,         \* "disk": a file operation of a save may fail
  MaxCalls,       \* bound: proposals and answers
  MaxSaves,       \* bound: turns of the switch
  MaxRestarts     \* bound: restarts of the worker

ASSUME ToolGateAssumption ==
  /\ Read \subseteq Tool /\ Layer \notin Tool /\ NoCard \notin Card
  /\ IsFiniteSet(Admin)
  /\ EnvEnabled \in BOOLEAN /\ MaxCalls \in Nat /\ MaxSaves \in Nat /\ MaxRestarts \in Nat

VARIABLES
  enabled, disabled,     \* the switch in memory
  stateError,            \* what /health/full reports of it
  disk, file, tmp,       \* files by inode, and the inodes under the two names
  pending, stale,        \* cards that wait, cards whose time is up
  toolOf,                \* the tool a card is for, or Layer before it exists
  call,                  \* what each caller is doing
  save,                  \* what each admin is doing
  trail, ran,            \* audit rows and effects of each card
  braked,                \* history: switches a save has promised to keep off
  raced,                 \* history: a save overlapped an arming, a failed or two saves
  calls, saves, restarts \* how many so far

switch == <<enabled, disabled, stateError>>
files == <<disk, file, tmp>>
cards == <<pending, stale, toolOf, trail, ran>>
history == <<braked, raced>>
bounds == <<calls, saves, restarts>>
vars == <<switch, files, cards, call, save, history, bounds>>

-----------------------------------------------------------------------------
Outcome == {"executed", "error", "blocked", "expired", "denied"}
Scope == Tool \cup {Layer}

(* A file holds a state, nothing yet, or bytes that do not parse.           *)
State(on, off) == [kind |-> "state", enabled |-> on, disabled |-> off]
Empty == [kind |-> "empty", enabled |-> FALSE, disabled |-> {}]
Torn == [kind |-> "torn", enabled |-> FALSE, disabled |-> {}]
Content == [kind : {"state", "empty", "torn"}, enabled : BOOLEAN, disabled : SUBSET Tool]
Inode == 0..(Cardinality(Admin) + 1)
NoFile == -1

Idle == [at |-> "idle", card |-> NoCard, tool |-> Layer, say |-> "", swept |-> {},
         late |-> FALSE]
Rest == [at |-> "idle", on |-> FALSE, scope |-> Layer, fd |-> NoFile, text |-> Empty]

TypeOK ==
  /\ enabled \in BOOLEAN /\ disabled \in SUBSET Tool /\ stateError \in BOOLEAN
  /\ disk \in [Inode -> Content]
  /\ file \in Inode \cup {NoFile} /\ tmp \in Inode \cup {NoFile}
  /\ pending \in SUBSET Card /\ stale \in SUBSET Card
  /\ toolOf \in [Card -> Scope]
  /\ trail \in [Card -> Seq(Outcome)] /\ ran \in [Card -> Nat]
  /\ call \in [Caller ->
       [at : {"idle", "sweep", "layer", "tool", "go", "run", "record"},
        card : Card \cup {NoCard}, tool : Scope,
        say : {"", "ask", "approved", "approve", "deny"} \cup Outcome,
        swept : SUBSET Card,
        late : BOOLEAN]]           \* history: began when its tool was promised off
  /\ save \in [Admin ->
       [at : {"idle", "open", "dump", "close", "replace", "saved", "failed"},
        on : BOOLEAN, scope : Scope, fd : Inode \cup {NoFile}, text : Content]]
  /\ braked \in SUBSET Scope /\ raced \in BOOLEAN
  /\ calls \in 0..MaxCalls /\ saves \in 0..MaxSaves /\ restarts \in 0..MaxRestarts

Init ==
  /\ enabled = EnvEnabled /\ disabled = {} /\ stateError = FALSE
  /\ disk = [i \in Inode |-> Empty] /\ file = NoFile /\ tmp = NoFile
  /\ pending = {} /\ stale = {} /\ toolOf = [c \in Card |-> Layer]
  /\ trail = [c \in Card |-> <<>>] /\ ran = [c \in Card |-> 0]
  /\ call = [c \in Caller |-> Idle] /\ save = [a \in Admin |-> Rest]
  /\ braked = {} /\ raced = FALSE
  /\ calls = 0 /\ saves = 0 /\ restarts = 0

-----------------------------------------------------------------------------
(* Callers.                                                                 *)
Goes(c, place) == call' = [call EXCEPT ![c].at = place]
Ends(c) == call' = [call EXCEPT ![c] = Idle]
Says(c, place, word) == call' = [call EXCEPT ![c].at = place, ![c].say = word]
PromisedOff(t) == {t, Layer} \cap braked # {}
Begins(c, k, t, place, say, swept) ==
  /\ call' = [call EXCEPT ![c] = [at |-> place, card |-> k, tool |-> t, say |-> say,
                                 swept |-> swept, late |-> PromisedOff(t)]]
  /\ calls < MaxCalls /\ calls' = calls + 1

(* propose: sweep the cards nobody answered under the lock, then write      *)
(* their audit rows.                                                        *)
Propose(c) ==
  /\ call[c].at = "idle"
  /\ \E t \in Tool, say \in {"ask", "approved"} :
       /\ t \in Read => say = "ask"
       /\ Begins(c, NoCard, t, "sweep", say, pending \cap stale)
  /\ pending' = pending \ stale
  /\ UNCHANGED <<switch, files, stale, toolOf, trail, ran, save, history, saves, restarts>>

Sweep(c) ==
  /\ call[c].at = "sweep"
  /\ \/ \E k \in call[c].swept :
          /\ trail' = [trail EXCEPT ![k] = Append(@, "expired")]
          /\ call' = [call EXCEPT ![c].swept = @ \ {k}]
     \/ call[c].swept = {} /\ Goes(c, "layer") /\ UNCHANGED trail
  /\ UNCHANGED <<switch, files, pending, stale, toolOf, ran, save, history, bounds>>

\* Mutant: the card is looked up under the lock and taken off later.
ConfirmLooksUp(c) ==
  /\ call[c].at = "idle"
  /\ \E k \in pending, say \in {"approve", "deny"} :
       /\ Begins(c, k, toolOf[k], "layer", say, {})
  /\ UNCHANGED <<switch, files, cards, save, history, saves, restarts>>

(* confirm: taking the card off the table is what makes an answer the only  *)
(* one; any other answer is refused.                                        *)
Confirm(c) ==
  /\ call[c].at = "idle"
  /\ \E k \in pending, say \in {"approve", "deny"} :
       /\ pending' = pending \ {k}
       /\ Begins(c, k, toolOf[k], "layer", say, {})
  /\ UNCHANGED <<switch, files, stale, toolOf, trail, ran, save, history, saves, restarts>>

\* is_enabled: the layer, then the tool.  A refused proposal has no card.
Blocked(c) == IF call[c].card = NoCard THEN Ends(c) ELSE Says(c, "record", "blocked")

CheckLayer(c) ==
  /\ call[c].at = "layer"
  /\ \/ enabled /\ Goes(c, "tool")
     \/ ~enabled /\ Blocked(c)
  /\ UNCHANGED <<switch, files, cards, save, history, bounds>>

CheckTool(c) ==
  /\ call[c].at = "tool"
  /\ \/ call[c].tool \notin disabled /\ Goes(c, "go")
     \/ call[c].tool \in disabled /\ Blocked(c)
  /\ UNCHANGED <<switch, files, cards, save, history, bounds>>

(* A read, or a write its schedule pre-approved, runs; another write gets   *)
(* a card under an id never used before.                                    *)
RunNow(c) ==
  /\ call[c].at = "go" /\ call[c].card = NoCard
  /\ call[c].tool \in Read \/ call[c].say = "approved"
  /\ Goes(c, "run")
  /\ UNCHANGED <<switch, files, cards, save, history, bounds>>

Park(c) ==
  /\ call[c].at = "go" /\ call[c].card = NoCard
  /\ call[c].tool \notin Read /\ call[c].say = "ask"
  /\ \E k \in Card :
       /\ toolOf[k] = Layer
       /\ toolOf' = [toolOf EXCEPT ![k] = call[c].tool]
       /\ pending' = pending \cup {k}
  /\ Ends(c)
  /\ UNCHANGED <<switch, files, stale, trail, ran, save, history, bounds>>

Answer(c) ==
  /\ call[c].at = "go" /\ call[c].card # NoCard
  /\ \/ call[c].card \in stale /\ Says(c, "record", "expired")
     \/ call[c].card \notin stale /\ call[c].say = "deny" /\ Says(c, "record", "denied")
     \/ call[c].card \notin stale /\ call[c].say = "approve" /\ Goes(c, "run")
  /\ UNCHANGED <<switch, files, cards, save, history, bounds>>

(* _execute: the tool returns, refuses, or raises with or without effect.   *)
(* What ran without a card leaves a row that no card is accounted by.       *)
Execute(c) ==
  /\ call[c].at = "run"
  /\ \/ call[c].card = NoCard /\ Ends(c) /\ UNCHANGED ran
     \/ /\ call[c].card # NoCard
        /\ \E outcome \in {"executed", "error", "blocked"}, effect \in BOOLEAN :
             /\ outcome = "executed" => effect
             /\ outcome = "blocked" => ~effect
             /\ Says(c, "record", outcome)
             /\ ran' = [ran EXCEPT ![call[c].card] = IF effect THEN @ + 1 ELSE @]
  /\ UNCHANGED <<switch, files, pending, stale, toolOf, trail, save, history, bounds>>

RecordOutcome(c) ==
  /\ call[c].at = "record"
  /\ trail' = [trail EXCEPT ![call[c].card] = Append(@, call[c].say)]
  /\ Ends(c)
  /\ UNCHANGED <<switch, files, pending, stale, toolOf, ran, save, history, bounds>>

Lapse(k) ==
  /\ toolOf[k] # Layer /\ k \notin stale
  /\ stale' = stale \cup {k}
  /\ UNCHANGED <<switch, files, pending, toolOf, trail, ran, call, save, history, bounds>>

-----------------------------------------------------------------------------
(***************************************************************************)
(* Admins: set_enabled changes the memory, then _save_state writes .tmp and *)
(* renames it.  Two saves at once write one .tmp: its open truncates it for *)
(* both, and each writes from the start when it closes.                     *)
(***************************************************************************)
Busy(a) == save[a].at # "idle"
OthersBusy(a) == \E b \in Admin \ {a} : Busy(b)
OthersArm == \E b \in Admin : Busy(b) /\ save[b].on
Crowded(a) == \E b, c \in Admin \ {a} : b # c /\ Busy(b) /\ Busy(c)

Moves(a, place) == save' = [save EXCEPT ![a].at = place]

\* Mutant: the switch of the layer is kept among the tools' switches too.
TurnedAlways(on, scope) ==
  /\ enabled' = (IF scope = Layer THEN on ELSE enabled)
  /\ disabled' = IF on THEN disabled \ {scope} ELSE disabled \cup {scope}

Turned(on, scope) ==
  /\ enabled' = (IF scope = Layer THEN on ELSE enabled)
  /\ disabled' = CASE scope = Layer -> disabled
                   [] scope # Layer /\ on -> disabled \ {scope}
                   [] scope # Layer /\ ~on -> disabled \cup {scope}

SetEnabled(a) ==
  /\ ~Busy(a) /\ saves < MaxSaves /\ saves' = saves + 1
  /\ \E on \in BOOLEAN, scope \in Scope :
       /\ Turned(on, scope)
       /\ save' = [save EXCEPT ![a] = [Rest EXCEPT !.at = "open", !.on = on, !.scope = scope]]
       /\ raced' = (raced \/ (OthersBusy(a) /\ on) \/ OthersArm \/ Crowded(a))
       /\ braked' = IF raced' THEN {} ELSE IF on THEN braked \ {scope} ELSE braked
       /\ call' = [c \in Caller |->
                     IF raced' \/ (on /\ scope \in {call[c].tool, Layer})
                     THEN [call[c] EXCEPT !.late = FALSE] ELSE call[c]]
  /\ UNCHANGED <<stateError, files, cards, calls, restarts>>

FreeInode == CHOOSE i \in Inode : i \notin {file, tmp} \cup {save[a].fd : a \in Admin}

OpenTmp(a) ==
  /\ save[a].at = "open"
  /\ LET i == IF tmp = NoFile THEN FreeInode ELSE tmp
     IN /\ tmp' = i
        /\ disk' = [disk EXCEPT ![i] = Empty]
        /\ save' = [save EXCEPT ![a].at = "dump", ![a].fd = i]
  /\ UNCHANGED <<switch, file, cards, call, history, bounds>>

Dump(a) ==
  /\ save[a].at = "dump"
  /\ save' = [save EXCEPT ![a].at = "close", ![a].text = State(enabled, disabled)]
  /\ UNCHANGED <<switch, files, cards, call, history, bounds>>

(* A state is longer for each further tool it names, and "false" is longer  *)
(* than "true"; between others it depends on the names.                     *)
Longer(text, held) ==
  /\ text.kind = "state" /\ held.kind = "state"
  /\ \/ held.disabled \subseteq text.disabled /\ held.disabled # text.disabled
     \/ held.disabled = text.disabled /\ held.enabled /\ ~text.enabled

(* What a file may hold after text was written over its beginning: the text *)
(* unless a longer state shows after it, or both run together.              *)
Overlaid(text, held) ==
  {bytes \in {text, Torn} :
     /\ Longer(held, text) => bytes = Torn
     /\ held.kind = "empty" \/ held = text \/ Longer(text, held) => bytes = text}

CloseTmp(a) ==
  /\ save[a].at = "close"
  /\ \E bytes \in Overlaid(save[a].text, disk[save[a].fd]) :
       disk' = [disk EXCEPT ![save[a].fd] = bytes]
  /\ save' = [save EXCEPT ![a].at = "replace", ![a].fd = NoFile, ![a].text = Empty]
  /\ UNCHANGED <<switch, file, tmp, cards, call, history, bounds>>

(* os.replace fails when another save has taken the name away; where the    *)
(* platform shares no open files, also when another has it open.            *)
ReplaceFile(a) ==
  /\ save[a].at = "replace"
  /\ \/ /\ tmp # NoFile /\ file' = tmp /\ tmp' = NoFile
        /\ disk' = [i \in Inode |-> IF i = file THEN Empty ELSE disk[i]]
        /\ Moves(a, "saved")
     \/ /\ tmp = NoFile \/ \E b \in Admin : save[b].fd = tmp
        /\ Moves(a, "failed") /\ UNCHANGED files
  /\ UNCHANGED <<switch, cards, call, history, bounds>>

DiskFails(a) ==
  /\ "disk" \in Faults
  /\ save[a].at \in {"open", "close", "replace"}
  /\ save' = [save EXCEPT ![a].at = "failed", ![a].fd = NoFile, ![a].text = Empty]
  /\ raced' = (raced \/ OthersBusy(a))
  /\ braked' = (IF raced' THEN {} ELSE braked)
  /\ call' = [c \in Caller |-> [call[c] EXCEPT !.late = @ /\ ~raced']]
  /\ UNCHANGED <<switch, files, cards, bounds>>

\* A save that went well promises its brake; it also clears the last error.
Settle(a) ==
  /\ save[a].at \in {"saved", "failed"}
  /\ stateError' = (save[a].at = "failed")
  /\ braked' = IF save[a].at = "saved" /\ ~save[a].on /\ ~raced
               THEN braked \cup {save[a].scope} ELSE braked
  /\ save' = [save EXCEPT ![a] = Rest]
  /\ UNCHANGED <<enabled, disabled, files, cards, call, raced, bounds>>

-----------------------------------------------------------------------------
\* Mutant: a file that cannot be read is a first run.
LoadedOrDefault ==
  IF file # NoFile /\ disk[file].kind = "state" THEN disk[file] ELSE State(EnvEnabled, {})

(* _load_state: a first run takes the default, an unreadable file is off.   *)
Loaded ==
  CASE file = NoFile -> State(EnvEnabled, {})
    [] file # NoFile /\ disk[file].kind = "state" -> disk[file]
    [] file # NoFile /\ disk[file].kind # "state" -> State(FALSE, {})

(* The worker dies at any point and starts again: threads, cards and what   *)
(* was not written are gone.  A file that cannot be read has lost the       *)
(* switches of the tools: of them all, the layer's is off instead.          *)
Restart ==
  /\ restarts < MaxRestarts /\ restarts' = restarts + 1
  /\ enabled' = Loaded.enabled /\ disabled' = Loaded.disabled
  /\ stateError' = (file # NoFile /\ disk[file].kind # "state")
  /\ braked' = IF stateError' /\ ~raced THEN {Layer} ELSE braked
  /\ pending' = {}
  /\ call' = [c \in Caller |-> Idle] /\ save' = [a \in Admin |-> Rest]
  /\ UNCHANGED <<files, stale, toolOf, trail, ran, raced, calls, saves>>

Next ==
  \/ \E c \in Caller :
       \/ Propose(c) \/ Sweep(c) \/ Confirm(c) \/ CheckLayer(c) \/ CheckTool(c)
       \/ RunNow(c) \/ Park(c) \/ Answer(c) \/ Execute(c) \/ RecordOutcome(c)
  \/ \E k \in Card : Lapse(k)
  \/ \E a \in Admin :
       \/ SetEnabled(a) \/ OpenTmp(a) \/ Dump(a) \/ CloseTmp(a) \/ ReplaceFile(a)
       \/ DiskFails(a) \/ Settle(a)
  \/ Restart

Spec == Init /\ [][Next]_vars

-----------------------------------------------------------------------------
(* A card ends in one way: two answers, an answer and the sweep, the brake  *)
(* and a restart give it at most one audit row, and its tool ran at most    *)
(* once and only if that row does not say it was refused.                   *)
CardsEndOnce ==
  \A k \in Card :
    /\ Len(trail[k]) <= 1 /\ ran[k] <= 1
    /\ trail[k] # <<>> /\ ran[k] = 1 => trail[k][1] \in {"executed", "error"}

(* Once the brake was pulled and saved, no call that comes later reaches    *)
(* its tool until it is armed again, over restarts at any point and two     *)
(* saves that overlap, unless one of them arms or fails; where the two left *)
(* a file nobody can read, until the layer is armed.                        *)
BrakeHolds == \A c \in Caller : call[c].late => call[c].at # "run"

=============================================================================
