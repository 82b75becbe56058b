------------------------------ MODULE Helpers ------------------------------
(***************************************************************************)
(* One conversation and the helper agents it spawns                        *)
(* (internal/llm/agent: research-tool.go, agent-tool.go,                    *)
(* subagent_registry.go): the waves of a research run and its supervisors,  *)
(* the registry a person kills helpers through, and the session row that    *)
(* holds what everything cost.  What helpers may do is Permission's.        *)
(*                                                                         *)
(* A helper is one goroutine.  What it asked a model for is a number of     *)
(* requests of cost one; what it answered is "reply" or "error".            *)
(***************************************************************************)
EXTENDS Integers, FiniteSets

CONSTANTS First, Second,     \* lanes that work blind; lanes that read the others
          InFlight,          \* ResearchMaxInFlight
          Mode,              \* the modes research is called in
          MaxSpend, MaxCall, MaxTurn,   \* bounds: requests paid, tool calls, turns,
          MaxKill, MaxAsk, MaxWriter,   \* kills, helpers' questions, other writers,
          MaxBusy                       \* lanes of one run and other writers together

AllModes == {"sequential", "parallel", "supervised"}

ASSUME HelpersAssumption ==
  /\ First \subseteq Nat /\ Second \subseteq Nat /\ First \cap Second = {}
  /\ IsFiniteSet(First) /\ IsFiniteSet(Second)
  /\ InFlight \in Nat \ {0} /\ Mode \subseteq AllModes
  /\ MaxSpend \in Nat /\ MaxCall \in Nat /\ MaxTurn \in Nat
  /\ MaxKill \in Nat /\ MaxAsk \in Nat /\ MaxWriter \in Nat /\ MaxBusy \in Nat

VARIABLES
  pc,           \* where the turn is: its own request, or inside a tool call
  mode, lanes,  \* of the research run: its mode, its roles
  launching,    \* goroutines the present wave has still to start
  dead,         \* the turn's context is cancelled
  at,           \* each helper's goroutine
  row,          \* its row in the registry; "over": done, failed or killed
  doomed,       \* rows taken out by a kill whose cancel has not been called
  killed,       \* helpers at work whose own context was cancelled
  sweeping,     \* cancelled, and CancelForSession not yet called
  out, spent,   \* what a helper answered; paid and has not reported yet
  reported,     \* what the helpers of the call reported
  ledger, copy, \* the cost in the session row; read and not yet saved
  total, excused, \* history: all that was paid; what the row may lack of it
  late, early,  \* history: helpers that asked after they were swept; that were
                \* cancelled before they had a session
  count         \* the bounded counters

Lanes(L) == [job : {"lane"}, lane : L]
Solo     == [job |-> "solo"]         \* the one helper of the agent tool
Tree     == [job |-> "tree"]         \* in a sweep: the whole conversation
Audit(w) == [job |-> "audit", lane |-> w.lane]
Worker   == Lanes(First \union Second) \union [job : {"audit"}, lane : First] \union {Solo}
Turn     == "turn"
Writer   == {Turn, "title", "compaction"}
Nothing  == -1

run     == <<pc, mode, lanes, launching, dead>>
kills   == <<doomed, killed, sweeping>>
paid    == <<out, spent, reported>>
books   == <<ledger, copy>>
past    == <<total, excused, late, early>>
vars    == <<run, at, row, kills, paid, books, past, count>>

Holding == {"starting", "working", "parked", "refused", "reading"}
Over    == {"none", "ended"}

\* Mutant: only the turn's context is looked at.
CutByTurnOnly(w) == dead

Cut(w) == dead \/ w \in killed

Slots == IF mode = "sequential" THEN 1 ELSE InFlight

-----------------------------------------------------------------------------
(* The turn: a request of its own, then tool calls.  TrackUsage reads the    *)
(* session row, adds to it and writes it whole.                             *)

NewTurn ==
  /\ pc = "idle" /\ count.turn < MaxTurn
  /\ pc' = "request" /\ count' = [count EXCEPT !.turn = @ + 1]
  /\ UNCHANGED <<mode, lanes, launching, dead, at, row, kills, paid, books, past>>

TrackReads ==
  /\ pc = "request" /\ ~dead /\ total < MaxSpend
  /\ total' = total + 1 /\ copy' = [copy EXCEPT ![Turn] = ledger]
  /\ pc' = "tracking"
  /\ UNCHANGED <<mode, lanes, launching, dead, at, row, kills, paid, ledger, excused, late, early,
                 count>>

\* What was saved since this writer's read is overwritten.
Saves(w, n) ==
  /\ ledger' = copy[w] + n
  /\ excused' = excused + ledger - copy[w]
  /\ copy' = [copy EXCEPT ![w] = Nothing]

TrackSaves ==
  /\ pc = "tracking" /\ ~dead
  /\ Saves(Turn, 1)
  /\ pc' = "tools"
  /\ UNCHANGED <<mode, lanes, launching, dead, at, row, kills, paid, total, late, early, count>>

\* The turn ends, on its own or because it was cancelled, which may keep a request it
\* paid for out of the row.
EndTurn ==
  /\ pc \in {"request", "tracking", "tools"} /\ (pc = "tracking" => dead)
  /\ pc' = "idle" /\ dead' = FALSE
  /\ copy' = [copy EXCEPT ![Turn] = Nothing]
  /\ excused' = IF pc = "tracking" THEN excused + 1 ELSE excused
  /\ UNCHANGED <<mode, lanes, launching, at, row, kills, paid, ledger, total, late, early, count>>

\* Escape: the turn's context, then CancelForSession.
Escape ==
  /\ pc # "idle" /\ ~dead
  /\ dead' = TRUE /\ sweeping' = sweeping \union {Tree}
  /\ early' = early \union {w \in Worker : at[w] \in {"started", "queued", "starting"}}
  /\ UNCHANGED <<pc, mode, lanes, launching, at, row, doomed, killed, paid, books, total,
                 excused, late, count>>

-----------------------------------------------------------------------------
(* A conversation with a turn behind it: its title may be made, and a       *)
(* compaction may have begun, before the next turn.  generateTitle reads    *)
(* the row, waits for a model (whose charge it books nowhere) and writes it *)
(* back whole; Summarize reads it when its model has answered.              *)

Charge(w) == IF w = "compaction" THEN 1 ELSE 0

WriterReads(w) ==
  /\ w # Turn /\ count.writer < MaxWriter /\ Cardinality(lanes) < MaxBusy
  /\ total + Charge(w) <= MaxSpend /\ total' = total + Charge(w)
  /\ copy' = [copy EXCEPT ![w] = ledger]
  /\ copy[w] = Nothing /\ count' = [count EXCEPT !.writer = @ + 1]
  /\ UNCHANGED <<run, at, row, kills, paid, ledger, excused, late, early>>

\* Mutant: a row is saved that was not read.
WriterSavesUnread(w) ==
  /\ w # Turn /\ Saves(w, Charge(w))
  /\ UNCHANGED <<run, at, row, kills, paid, total, late, early, count>>

WriterSaves(w) ==
  /\ w # Turn /\ copy[w] # Nothing /\ Saves(w, Charge(w))
  /\ UNCHANGED <<run, at, row, kills, paid, total, late, early, count>>

\* A compaction is cancelled, or its summary is not stored.
WriterFails(w) ==
  /\ w = "compaction" /\ copy[w] # Nothing
  /\ copy' = [copy EXCEPT ![w] = Nothing] /\ excused' = excused + Charge(w)
  /\ UNCHANGED <<run, at, row, kills, paid, ledger, total, late, early, count>>

-----------------------------------------------------------------------------
(* A call of the research tool. *)

Charged ==
  /\ pc = "tools" /\ ~dead /\ count.call < MaxCall
  /\ count' = [count EXCEPT !.call = @ + 1]

\* The roles of a run are those its arguments and the configuration select.
CallResearch(m, L) ==
  /\ Charged /\ L # {} /\ Cardinality(L) + count.writer <= MaxBusy
  /\ mode' = m /\ lanes' = L /\ pc' = "asking"
  /\ UNCHANGED <<launching, dead, at, row, kills, paid, books, past>>

\* The one question for the whole fleet is answered; whatever the answer, the run begins.
AskFleet ==
  /\ pc = "asking"
  /\ pc' = "first" /\ launching' = Lanes(lanes \intersect First)
  /\ UNCHANGED <<mode, lanes, dead, at, row, kills, paid, books, past, count>>

\* In the order of the lanes.  launchWave looks at the context before each start; the
\* supervisors' loop does not.
Launch(w) ==
  /\ w \in launching /\ \A v \in launching : w.lane <= v.lane
  /\ pc \in {"first", "second"} => ~dead
  /\ launching' = launching \ {w}
  /\ at' = [at EXCEPT ![w] = "started"]
  /\ early' = IF dead THEN early \union {w} ELSE early
  /\ UNCHANGED <<pc, mode, lanes, dead, row, kills, paid, books, total, excused, late, count>>

StopLaunching ==
  /\ pc \in {"first", "second"} /\ dead /\ launching # {}
  /\ launching' = {}
  /\ UNCHANGED <<pc, mode, lanes, dead, at, row, kills, paid, books, past, count>>

Waited  == launching = {} /\ \A w \in Worker : at[w] \in Over
Replied == {w \in Lanes(First) : out[w] = "reply"}

\* Supervisors are for the blind lanes that replied.
AfterFirst ==
  /\ IF mode = "supervised"
       THEN pc' = "audits" /\ launching' = {Audit(w) : w \in Replied}
       ELSE pc' = "second" /\ launching' = Lanes(lanes \intersect Second)
  /\ UNCHANGED <<mode, lanes, dead, at, row, kills, paid, books, past, count>>

\* Mutant: a cancelled wave is not waited for.
JoinFirstEarly == pc = "first" /\ (Waited \/ dead) /\ AfterFirst

\* Mutant: supervisors are not started for a cancelled run.
JoinFirstLive ==
  /\ pc = "first" /\ Waited
  /\ IF dead THEN /\ pc' = "second" /\ launching' = Lanes(lanes \intersect Second)
                  /\ UNCHANGED <<mode, lanes, dead, at, row, kills, paid, books, past, count>>
             ELSE AfterFirst

JoinFirst == pc = "first" /\ Waited /\ AfterFirst

JoinAudits ==
  /\ pc = "audits" /\ Waited
  /\ pc' = "second" /\ launching' = Lanes(lanes \intersect Second)
  /\ UNCHANGED <<mode, lanes, dead, at, row, kills, paid, books, past, count>>

\* The roll-up reads the session row, unless nothing was spent.  Its context outlives
\* the cancellation.
JoinSecond ==
  /\ pc = "second" /\ Waited
  /\ IF reported = 0
       THEN pc' = "report" /\ UNCHANGED copy
       ELSE pc' = "rollup" /\ copy' = [copy EXCEPT ![Turn] = ledger]
  /\ UNCHANGED <<mode, lanes, launching, dead, at, row, kills, paid, ledger, past, count>>

RollUp ==
  /\ pc = "rollup"
  /\ Saves(Turn, reported)
  /\ pc' = "report"
  /\ UNCHANGED <<mode, lanes, launching, dead, at, row, kills, paid, total, late, early, count>>

\* What the helpers of a call leave behind; a kill still under way has only its
\* sweep to do, and that reaches the whole conversation.
Dismiss ==
  /\ at' = [w \in Worker |-> "none"] /\ row' = [w \in Worker |-> "none"]
  /\ out' = [w \in Worker |-> "none"] /\ spent' = [w \in Worker |-> 0] /\ reported' = 0
  /\ doomed' = {} /\ killed' = {} /\ late' = {} /\ early' = {}
  /\ sweeping' = IF doomed \union sweeping = {} THEN {} ELSE {Tree}

\* UnregisterSubAgentsForCall is deferred.
Return ==
  /\ pc = "report"
  /\ pc' = "tools" /\ mode' = "parallel" /\ lanes' = {} /\ Dismiss
  /\ UNCHANGED <<launching, dead, books, total, excused, count>>

-----------------------------------------------------------------------------
(* A helper's goroutine. *)

Moves(w, from, to) == at[w] = from /\ at' = [at EXCEPT ![w] = to]

\* SetSubAgentState: nothing for a row that is gone.
SetRow(w, s) == row' = IF row[w] = "none" THEN row ELSE [row EXCEPT ![w] = s]

Register(w) ==
  /\ Moves(w, "started", "queued")
  /\ row' = [row EXCEPT ![w] = "queued"]
  /\ UNCHANGED <<run, kills, paid, books, past, count>>

HasSlot == Cardinality({v \in Worker : at[v] \in Holding}) < Slots

\* Mutant: the state is set on whatever row there was.
TakeSlotAndShow(w) ==
  /\ HasSlot /\ Moves(w, "queued", "starting")
  /\ row' = [row EXCEPT ![w] = "running"]
  /\ UNCHANGED <<run, kills, paid, books, past, count>>

\* Both cases of the select may be ready; Go then picks either.
TakeSlot(w) ==
  /\ HasSlot /\ Moves(w, "queued", "starting")
  /\ SetRow(w, "running")
  /\ UNCHANGED <<run, kills, paid, books, past, count>>

\* Nothing of a helper that ended is waited for, killed or cancelled any more.
Leaves(w) == killed' = killed \ {w} /\ late' = late \ {w} /\ early' = early \ {w}

GiveUp(w) ==
  /\ Cut(w) /\ Moves(w, "queued", "ended")
  /\ SetRow(w, "over") /\ Leaves(w)
  /\ out' = [out EXCEPT ![w] = "error"]
  /\ UNCHANGED <<run, doomed, sweeping, spent, reported, books, total, excused, count>>

\* NewAgent, CreateTaskSession, RegisterChildSession.
CreateSession(w) ==
  /\ \/ ~Cut(w) /\ Moves(w, "starting", "working") /\ UNCHANGED out
     \/ Moves(w, "starting", "reading") /\ out' = [out EXCEPT ![w] = "error"]
  /\ UNCHANGED <<run, row, kills, spent, reported, books, past, count>>

\* A model answers the helper and its usage is saved with the helper's context.
Spend(w) ==
  /\ at[w] = "working" /\ ~Cut(w) /\ total < MaxSpend
  /\ spent' = [spent EXCEPT ![w] = @ + 1] /\ total' = total + 1
  /\ UNCHANGED <<run, at, row, kills, out, reported, books, excused, late, early, count>>

\* A tool of the helper asks for permission; it does not look at its context.
Ask(w) ==
  /\ Moves(w, "working", "parked")
  /\ count.ask < MaxAsk /\ count' = [count EXCEPT !.ask = @ + 1]
  /\ late' = IF w \in killed \ sweeping \/ (dead /\ Tree \notin sweeping)
             THEN late \union {w} ELSE late
  /\ UNCHANGED <<run, row, kills, paid, books, total, excused, early>>

\* Mutant: nobody answers for a person who went away.
AnswerWhileWanted(w) ==
  /\ ~Cut(w)
  /\ Moves(w, "parked", "working") \/ Moves(w, "parked", "refused")
  /\ UNCHANGED <<run, row, kills, paid, books, past, count>>

\* Allowed; refused, or the ten minutes are over.
Answer(w) ==
  /\ Moves(w, "parked", "working") \/ Moves(w, "parked", "refused")
  /\ UNCHANGED <<run, row, kills, paid, books, past, count>>

\* The helper's own run is over: an answer, or none.
Finish(w) ==
  /\ Moves(w, "working", "reading") \/ Moves(w, "refused", "reading")
  /\ \E o \in {"reply", "error"} : out' = [out EXCEPT ![w] = o]
  /\ UNCHANGED <<run, row, kills, spent, reported, books, past, count>>

Settled(w, n) ==
  /\ w # Solo /\ Moves(w, "reading", "ended")
  /\ reported' = reported + n /\ spent' = [spent EXCEPT ![w] = 0]
  /\ excused' = IF Cut(w) THEN excused + spent[w] ELSE excused
  /\ SetRow(w, "over") /\ Leaves(w)
  /\ UNCHANGED <<run, doomed, sweeping, out, books, total, count>>

\* Mutant: a helper that failed reports that it spent nothing.
SettleReplies(w) == Settled(w, IF Cut(w) \/ out[w] = "error" THEN 0 ELSE spent[w])

\* spendOf reads the helper's row with the helper's context; then the state is shown,
\* the result kept and the slot given back.
Settle(w) == Settled(w, IF Cut(w) THEN 0 ELSE spent[w])

-----------------------------------------------------------------------------
(* Kills.  The rows go first, under the registry's lock; each helper is then *)
(* cancelled and its questions swept.                                       *)

Dooms(all) ==
  /\ all # {} /\ \A w \in all : row[w] # "none"
  /\ count.kill < MaxKill /\ count' = [count EXCEPT !.kill = @ + 1]
  /\ row' = [w \in Worker |-> IF w \in all THEN "none" ELSE row[w]]
  /\ doomed' = doomed \union all
  /\ UNCHANGED <<run, at, killed, sweeping, paid, books, past>>

Kill(w) == Dooms({w})
KillAll == Dooms({w \in Worker : row[w] # "none"})

HasSession(w) == at[w] \notin {"none", "started", "queued", "starting"}

Swept(x) == [w \in Worker |->
  IF at[w] = "parked" /\ (x = Tree \/ HasSession(x)) THEN "refused" ELSE at[w]]

\* Mutant: its questions are swept before the helper is cancelled.
CancelAfterSweep(w) ==
  /\ w \in doomed
  /\ \/ w \notin sweeping /\ sweeping' = sweeping \union {w} /\ at' = Swept(w)
        /\ UNCHANGED <<doomed, killed>>
     \/ w \in sweeping /\ sweeping' = sweeping \ {w} /\ doomed' = doomed \ {w}
        /\ killed' = killed \union {w} /\ UNCHANGED at
  /\ UNCHANGED <<run, row, paid, books, past, count>>

CancelHelper(w) ==
  /\ w \in doomed
  /\ doomed' = doomed \ {w} /\ sweeping' = sweeping \union {w}
  /\ killed' = IF at[w] = "ended" THEN killed ELSE killed \union {w}
  /\ early' = IF at[w] \in {"queued", "starting"} THEN early \union {w} ELSE early
  /\ UNCHANGED <<run, at, row, paid, books, total, excused, late, count>>

\* CancelForSession: "no" to every question of the tree; a helper without a
\* session is in no tree.
Sweep(x) ==
  /\ x \in sweeping /\ sweeping' = sweeping \ {x}
  /\ at' = Swept(x)
  /\ UNCHANGED <<run, row, doomed, killed, paid, books, past, count>>

-----------------------------------------------------------------------------
(* A call of the agent tool: one helper, registered once it has a session.   *)

CallAgent ==
  /\ Charged
  /\ at' = [at EXCEPT ![Solo] = "working"] /\ row' = [row EXCEPT ![Solo] = "running"]
  /\ pc' = "solo"
  /\ UNCHANGED <<mode, lanes, launching, dead, kills, paid, books, past>>

\* The helper failed, or the turn is cancelled: the tool returns before it reads
\* or saves what the helper cost.
AgentFails ==
  /\ \/ pc = "solo" /\ at[Solo] = "reading" /\ (out[Solo] = "error" \/ dead)
     \/ pc = "soloSave" /\ dead
  /\ excused' = excused + spent[Solo]
  /\ pc' = "tools" /\ copy' = [copy EXCEPT ![Turn] = Nothing] /\ Dismiss
  /\ UNCHANGED <<mode, lanes, launching, dead, ledger, total, count>>

AgentReads ==
  /\ pc = "solo" /\ at[Solo] = "reading" /\ out[Solo] = "reply" /\ ~dead
  /\ copy' = [copy EXCEPT ![Turn] = ledger]
  /\ pc' = "soloSave"
  /\ UNCHANGED <<mode, lanes, launching, dead, at, row, kills, paid, ledger, past, count>>

AgentSaves ==
  /\ pc = "soloSave" /\ ~dead
  /\ Saves(Turn, spent[Solo])
  /\ pc' = "tools" /\ Dismiss
  /\ UNCHANGED <<mode, lanes, launching, dead, total, count>>

-----------------------------------------------------------------------------
Init ==
  /\ pc = "idle" /\ mode = "parallel" /\ lanes = {} /\ launching = {} /\ dead = FALSE
  /\ at = [w \in Worker |-> "none"] /\ row = [w \in Worker |-> "none"]
  /\ doomed = {} /\ killed = {} /\ sweeping = {} /\ late = {} /\ early = {}
  /\ out = [w \in Worker |-> "none"] /\ spent = [w \in Worker |-> 0] /\ reported = 0
  /\ ledger = 0 /\ copy = [w \in Writer |-> Nothing]
  /\ total = 0 /\ excused = 0
  /\ count = [turn |-> 0, call |-> 0, kill |-> 0, ask |-> 0, writer |-> 0]

TurnStep  == NewTurn \/ TrackReads \/ TrackSaves \/ EndTurn \/ Escape
Writers   == \E w \in Writer : WriterReads(w) \/ WriterSaves(w) \/ WriterFails(w)
Call      == CallAgent \/ \E m \in Mode, L \in SUBSET (First \union Second) : CallResearch(m, L)
Research  == \/ AskFleet \/ StopLaunching \/ JoinFirst \/ JoinAudits \/ JoinSecond
             \/ RollUp \/ Return \/ \E w \in Worker : Launch(w)
AgentTool == AgentFails \/ AgentReads \/ AgentSaves
Goroutine(w) == \/ Register(w) \/ TakeSlot(w) \/ GiveUp(w) \/ CreateSession(w) \/ Spend(w)
                \/ Ask(w) \/ Answer(w) \/ Finish(w) \/ Settle(w)
Person    == \/ KillAll \/ \E w \in Worker : Kill(w) \/ CancelHelper(w)
             \/ \E x \in Worker \union {Tree} : Sweep(x)

Next == \/ TurnStep \/ Writers \/ Call \/ Research \/ AgentTool \/ Person
        \/ \E w \in Worker : Goroutine(w)

Spec == Init /\ [][Next]_vars

\* The scheduler is not idle while the turn, or while a helper, can go on; a question
\* is answered within ten minutes.  No model need ever answer: only a cancelled helper
\* ends for sure, as its loop looks at the context between its calls.
GoesOn(w) == \/ Register(w) \/ TakeSlot(w) \/ GiveUp(w) \/ CreateSession(w) \/ Answer(w)
             \/ (Cut(w) /\ Finish(w)) \/ Settle(w)

Fairness ==
  /\ WF_vars((dead /\ EndTurn) \/ Research \/ AgentTool)
  /\ WF_vars(\E w \in Worker : GoesOn(w))

FairSpec == Spec /\ Fairness

-----------------------------------------------------------------------------
(* Properties. *)

TypeOK ==
  /\ pc \in {"idle", "request", "tracking", "tools", "asking", "first", "audits", "second",
             "rollup", "report", "solo", "soloSave"}
  /\ mode \in AllModes /\ lanes \subseteq First \union Second
  /\ launching \subseteq Worker /\ dead \in BOOLEAN
  /\ at \in [Worker -> Holding \union Over \union {"started", "queued"}]
  /\ row \in [Worker -> {"none", "queued", "running", "over"}]
  /\ doomed \subseteq Worker /\ killed \subseteq Worker /\ sweeping \subseteq Worker \union {Tree}
  /\ late \subseteq Worker /\ early \subseteq Worker
  /\ out \in [Worker -> {"none", "reply", "error"}]
  /\ spent \in [Worker -> Nat] /\ reported \in Nat
  /\ ledger \in Nat /\ copy \in [Writer -> Nat \union {Nothing}]
  /\ total \in Nat /\ excused \in Int
  /\ count \in [turn : 0..MaxTurn, call : 0..MaxCall, kill : 0..MaxKill, ask : 0..MaxAsk,
                writer : 0..MaxWriter]

InCall == pc \notin {"idle", "request", "tracking", "tools"}

\* Between tool calls the session row holds all that the conversation, its compaction
\* and its helpers were charged, except what another writer's stale copy overwrote and
\* what was spent by those who were cancelled or (the agent tool's) failed before their
\* row was read; a compaction is billed when it is saved.
Unsaved == IF copy["compaction"] = Nothing THEN 0 ELSE Charge("compaction")
AllSpendBilled == ~InCall /\ pc # "tracking" => ledger + Unsaved + excused = total

\* Nobody is at work whose result the run already reads: a wave is read when all its
\* goroutines are through, also when it was cancelled half launched.
NobodyWritesBehind ==
  /\ pc = "audits" => \A w \in Lanes(First \union Second) : at[w] \in Over
  /\ pc = "second" => \A w \in Worker \ Lanes(Second) : at[w] \in Over
  /\ pc \notin {"first", "audits", "second", "solo", "soloSave"} =>
       \A w \in Worker : at[w] \in Over

\* In a supervised run no blind lane's reply goes on without an audit of its own or a
\* note that there was none, whoever cancelled what.
EveryReplyAudited ==
  pc \in {"second", "rollup", "report"} /\ mode = "supervised" =>
    \A w \in Replied : at[Audit(w)] = "ended" /\ out[Audit(w)] # "none"

\* A helper cancelled before it had a session, in the queue or on its way out of it,
\* never costs anything.
EarlyCutSpendsNothing == \A w \in early : spent[w] = 0

\* A cancelled helper is not left waiting for a person: its questions are swept, and only
\* one it asks after the sweep is left.
CancelledNotParked ==
  \A w \in Worker :
    /\ at[w] = "parked"
    /\ (w \in killed /\ w \notin sweeping) \/ (dead /\ Tree \notin sweeping)
    => w \in late

\* The registry says what the goroutines do: a helper has its row for as long as it is
\* there, unless it was killed, and then never again; no more run than there are slots;
\* no row outlives its call.
RowsTruthful ==
  /\ \A w \in Worker :
       /\ row[w] = "queued" => at[w] = "queued"
       /\ row[w] = "running" => at[w] \in Holding
       /\ row[w] = "over" => at[w] = "ended"
       /\ at[w] \in {"queued"} \union Holding => (row[w] = "none" <=> w \in doomed \union killed)
  /\ pc \in {"first", "audits", "second"} =>
       Cardinality({w \in Worker : row[w] = "running"}) <= Slots
  /\ ~InCall => \A w \in Worker : row[w] = "none"

\* A cancelled turn ends, with all its helpers, even if no model ever answers.
CancelEnds == dead ~> pc = "idle"
=============================================================================
