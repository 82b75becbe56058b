-------------------------------- MODULE Turn --------------------------------
(***************************************************************************)
(* One conversation: its stored messages, and those who write them         *)
(* (internal/llm/agent/agent.go: processGeneration, streamAndHandleEvents,  *)
(* Summarize).  What the session row counts as spent is in Helpers.        *)
(*                                                                         *)
(* A round is one request to the model: one assistant message, the tool    *)
(* calls it announces, and one message holding their results.  The stored  *)
(* rows are kept in the order the database lists them.  A row says whose   *)
(* round it belongs to, which calls it announces ("assistant") or answers  *)
(* ("tool"), and how it was marked finished.  The program can die between  *)
(* any two writes, and a write can fail.                                   *)
(***************************************************************************)
EXTENDS Naturals, FiniteSets, SequencesExt

CONSTANTS MaxCall,     \* tool calls one assistant message can announce
          MaxTurn, MaxRound, MaxCompaction,   \* bounds of a history
          MaxAccident,                        \* failed writes and deaths
          MaxEffort                           \* bound: all of them together (see Room)

ASSUME TurnAssumption ==
  /\ MaxCall \in Nat /\ MaxTurn \in Nat /\ MaxRound \in Nat
  /\ MaxCompaction \in Nat /\ MaxAccident \in Nat /\ MaxEffort \in Nat

VARIABLES
  rows,        \* the messages of the conversation, as List returns them
  summary,     \* the session row's summary message: a compaction's number, 0 for none
  pc,          \* where processGeneration is; "idle": no turn
  history,     \* msgHistory: what the next request carries
  round, at,   \* this request's number and the index of its assistant row
  mem, fin,    \* the assistant message in memory: its calls, how it is finished
  result,      \* toolResults
  failure,     \* why the round is given up
  cancelled,   \* the turn's context
  cpc,         \* where each call of Summarize is; "none": not begun, or over
  count,       \* the bounded counters
  torn,        \* history: rounds that a death or a failed write went through, or whose
               \* mark a cancellation refused for good
  covers       \* history: per summary stored or being made, the rows it was made from and
               \* whether a turn began beside it

store == <<rows, summary>>
msg   == <<round, at, mem, fin, result, failure>>
turn  == <<pc, history, msg, cancelled>>
past  == <<torn, covers>>
vars  == <<store, turn, cpc, count, past>>

Call   == 1..MaxCall
Round  == 1..MaxRound
Finish == {"none", "tool_use", "end", "error", "canceled", "denied"}
Result == {"none", "ran", "refused", "denied", "notRun"}
Row    == [role : {"user", "assistant", "tool", "summary"}, of : Nat,
           calls : SUBSET Call, fin : Finish]

User(n)            == [role |-> "user", of |-> n, calls |-> {}, fin |-> "end"]
Summary(n)         == [role |-> "summary", of |-> n, calls |-> {}, fin |-> "end"]
Answers(r, cs)     == [role |-> "tool", of |-> r, calls |-> cs, fin |-> "end"]
Assistant(r, cs, f) == [role |-> "assistant", of |-> r, calls |-> cs, fin |-> f]
Counts == [turn : 0..MaxTurn, round : 0..MaxRound, compaction : 0..MaxCompaction,
           accident : 0..MaxAccident]
Covers == [1..MaxCompaction -> [seen : Nat, beside : BOOLEAN]]
\* Whether n more fit in one history; a compaction counts for two.
Room(n) == count.turn + count.round + 2 * count.compaction + count.accident + n <= MaxEffort

NoResult == [c \in Call |-> "none"]
NoCompaction == [n \in 1..MaxCompaction |-> "none"]

-----------------------------------------------------------------------------
(* answerOrphanedToolCalls: what is missing is added to the copy sent. *)

\* The message a tool row at i follows: the last row up to i that is none.
Owner(s, i) ==
  LET before == {k \in 1..i : s[k].role # "tool"}
  IN  IF before = {} THEN 0 ELSE CHOOSE k \in before : \A l \in before : l <= k

Missing(s, k, i) ==
  s[k].calls \ UNION {s[j].calls : j \in {l \in k + 1 .. i : s[l].of = s[k].of}}

\* i ends the run of tool rows after an assistant row k some call of which has no result.
LeavesOpen(s, i) ==
  LET k == Owner(s, i)
  IN  /\ k # 0 /\ s[k].role = "assistant"
      /\ i = Len(s) \/ s[i + 1].role # "tool"
      /\ Missing(s, k, i) # {}

\* Mutant: only an assistant message that ends the history is looked at.
RepairedAtTheEnd(s) ==
  IF s # <<>> /\ LeavesOpen(s, Len(s))
    THEN Append(s, Answers(s[Owner(s, Len(s))].of, Missing(s, Owner(s, Len(s)), Len(s))))
    ELSE s

Repaired(s) ==
  FlattenSeq([i \in 1..Len(s) |->
    IF LeavesOpen(s, i)
      THEN <<s[i], Answers(s[Owner(s, i)].of, Missing(s, Owner(s, i), i))>>
      ELSE <<s[i]>>])

\* A summary in force hides what came before it and is sent as the user's.
FromSummary(s, n) ==
  LET where == {i \in 1..Len(s) : s[i].role = "summary" /\ s[i].of = n}
  IN  IF n = 0 \/ where = {} THEN s
      ELSE LET i == CHOOSE j \in where : TRUE
           IN  [SubSeq(s, i, Len(s)) EXCEPT ![1].role = "user"]

\* What a provider takes: a tool row only after the assistant row that announced
\* its calls, each call answered once, and none left open.
Acceptable(s) == \A i \in 1..Len(s) :
  /\ ~LeavesOpen(s, i)
  /\ s[i].role = "tool" =>
       LET k == Owner(s, i)
       IN  /\ k # 0 /\ s[k].role = "assistant" /\ s[i].of = s[k].of
           /\ s[i].calls \subseteq s[k].calls \ UNION {s[j].calls : j \in k + 1 .. i - 1}

-----------------------------------------------------------------------------
(* Writes.  A write made with the turn's context is refused once that is    *)
(* cancelled; any write can fail for a reason of the database's own.        *)

Fault == /\ count.accident < MaxAccident /\ Room(1)
         /\ count' = [count EXCEPT !.accident = @ + 1]

\* The round a fault or a death goes through.
Tear == torn' = IF pc \in {"idle", "load", "slice", "user", "ask"} THEN torn
                ELSE torn \union {round}

Stored(cs, f) == [rows EXCEPT ![at] = Assistant(round, cs, f)]

\* The assistant row is written, or the write fails and nobody is told.
StoreOrLose(cs, f) ==
  \/ rows' = Stored(cs, f) /\ UNCHANGED <<count, torn>>
  \/ UNCHANGED rows /\ Fault /\ Tear

End == /\ pc' = "idle" /\ history' = <<>> /\ cancelled' = FALSE
       /\ round' = 0 /\ at' = 0 /\ mem' = {} /\ fin' = "none"
       /\ result' = NoResult /\ failure' = "none"

-----------------------------------------------------------------------------
(* processGeneration, up to the first request. *)

Begin ==
  /\ pc = "idle" /\ count.turn < MaxTurn /\ Room(1)
  /\ pc' = "load" /\ count' = [count EXCEPT !.turn = @ + 1]
  /\ covers' = [n \in 1..MaxCompaction |->
                  IF cpc[n] = "none" THEN covers[n] ELSE [covers[n] EXCEPT !.beside = TRUE]]
  /\ UNCHANGED <<store, history, msg, cancelled, cpc, torn>>

\* The person's Escape, at any time.
Cancel ==
  /\ pc # "idle" /\ ~cancelled
  /\ cancelled' = TRUE
  /\ UNCHANGED <<store, pc, history, msg, cpc, count, past>>

Load ==
  /\ pc = "load" /\ ~cancelled
  /\ history' = Repaired(rows)
  /\ pc' = "slice"
  /\ UNCHANGED <<store, msg, cancelled, cpc, count, past>>

Slice ==
  /\ pc = "slice" /\ ~cancelled
  /\ history' = FromSummary(history, summary)
  /\ pc' = "user"
  /\ UNCHANGED <<store, msg, cancelled, cpc, count, past>>

StoreUser ==
  /\ pc = "user" /\ ~cancelled
  /\ rows' = Append(rows, User(count.turn))
  /\ history' = Append(history, User(count.turn))
  /\ pc' = "ask"
  /\ UNCHANGED <<summary, msg, cancelled, cpc, count, past>>

\* The context is cancelled, or the user's row cannot be written: the turn is over.
NotAsked ==
  /\ \/ pc \in {"load", "slice", "user", "ask"} /\ cancelled /\ UNCHANGED count
     \/ pc = "user" /\ Fault
  /\ End /\ UNCHANGED <<store, cpc, past>>

-----------------------------------------------------------------------------
(* streamAndHandleEvents: the request goes out, then its answer's row is made. *)

Ask ==
  /\ pc = "ask" /\ ~cancelled /\ count.round < MaxRound /\ Room(1)
  /\ pc' = "asked" /\ round' = count.round + 1
  /\ at' = 0 /\ mem' = {} /\ fin' = "none" /\ result' = NoResult
  /\ count' = [count EXCEPT !.round = @ + 1]
  /\ UNCHANGED <<store, history, failure, cancelled, cpc, past>>

\* Mutant: the row's place is taken after it was added.
CreateRowOffByOne ==
  /\ pc = "asked" /\ ~cancelled
  /\ rows' = Append(rows, Assistant(round, {}, "none"))
  /\ at' = Len(rows') + 1
  /\ pc' = "stream"
  /\ UNCHANGED <<summary, history, round, mem, fin, result, failure, cancelled, cpc, count, past>>

CreateRow ==
  /\ pc = "asked" /\ ~cancelled
  /\ rows' = Append(rows, Assistant(round, {}, "none"))
  /\ at' = Len(rows) + 1
  /\ pc' = "stream"
  /\ UNCHANGED <<summary, history, round, mem, fin, result, failure, cancelled, cpc, count, past>>

\* Mutant: the request is made again as if it had not been sent.
AskAgain ==
  /\ pc = "asked"
  /\ \/ cancelled /\ UNCHANGED count
     \/ Fault
  /\ pc' = "ask" /\ UNCHANGED <<history, msg, cancelled, store, cpc, past>>

\* No row was made; the update that marks one canceled finds none.
NoRow ==
  /\ pc = "asked"
  /\ \/ cancelled /\ UNCHANGED count
     \/ Fault
  /\ End /\ UNCHANGED <<store, cpc, past>>

\* The processEvent branches that change the message: it is changed in memory,
\* then written with the turn's context.
Event(cs, f, next) ==
  /\ pc = "stream"
  /\ mem' = cs /\ fin' = f
  /\ \/ /\ ~cancelled /\ rows' = Stored(cs, f)
        /\ pc' = next /\ UNCHANGED <<failure, count, torn>>
     \/ cancelled /\ pc' = "abort" /\ failure' = "cancel" /\ UNCHANGED <<rows, count, torn>>
     \/ Fault /\ Tear /\ pc' = "abort" /\ failure' = "error" /\ UNCHANGED rows
  /\ UNCHANGED <<summary, history, round, at, result, cancelled, cpc, covers>>

\* EventToolUseStart.  Calls are numbered in the order they are announced.
AnnounceCall ==
  \E c \in Call : /\ mem = 1..c - 1 /\ fin = "none"
                  /\ Event(1..c, fin, "stream")

\* EventComplete: the calls are those of the finished response.
Complete ==
  \E n \in 0..MaxCall, f \in {"tool_use", "end"} :
    /\ f = "tool_use" => n > 0
    /\ Event(1..n, f, "usage")

\* EventError, or the stream closed with neither a completion nor an error.  Cancelled
\* after the look at the context: the write is refused, and nobody repeats it.
StreamFails ==
  /\ pc = "stream"
  /\ fin' = "error" /\ failure' = "error" /\ pc' = "abort"
  /\ \/ ~cancelled /\ StoreOrLose(mem, "error")
     \/ cancelled /\ UNCHANGED <<rows, count>> /\ Tear
  /\ UNCHANGED <<summary, history, round, at, mem, result, cancelled, cpc, covers>>

\* Seen after an event (or after the last): marked with a live context.  Seen
\* before an event is handled: the mark is lost with the dead one.
StreamCancelled ==
  /\ pc \in {"stream", "streamed"} /\ cancelled
  /\ fin' = "canceled" /\ failure' = "cancel" /\ pc' = "abort"
  /\ \/ StoreOrLose(mem, "canceled")
     \/ pc = "stream" /\ UNCHANGED <<rows, count, torn>>
  /\ UNCHANGED <<summary, history, round, at, mem, result, cancelled, cpc, covers>>

-----------------------------------------------------------------------------
(* TrackUsage: the session row is read and saved with the turn's context.   *)

TrackUsage ==
  /\ pc = "usage" /\ ~cancelled
  /\ pc' = "streamed"
  /\ UNCHANGED <<store, history, msg, cancelled, cpc, count, past>>

UsageFails ==
  /\ pc = "usage"
  /\ \/ cancelled /\ failure' = "cancel" /\ fin' = "canceled" /\ UNCHANGED <<count, torn>>
     \/ Fault /\ Tear /\ failure' = "error" /\ UNCHANGED fin
  /\ pc' = "abort"
  /\ UNCHANGED <<store, history, round, at, mem, result, cancelled, cpc, covers>>

-----------------------------------------------------------------------------
(* A round given up: cancelPendingToolCalls, then processGeneration. *)

\* Mutant: an early return that answers nothing.
AbortSilently ==
  /\ pc = "abort"
  /\ IF failure = "cancel" THEN pc' = "mark" /\ UNCHANGED <<history, msg, cancelled>> ELSE End
  /\ UNCHANGED <<store, cpc, count, past>>

\* The results are stored whatever became of the context; a failure is logged.
Abort ==
  /\ pc = "abort"
  /\ \/ mem = {} /\ UNCHANGED <<rows, count, torn>>
     \/ mem # {} /\ rows' = Append(rows, Answers(round, mem)) /\ UNCHANGED <<count, torn>>
     \/ mem # {} /\ UNCHANGED rows /\ Fault /\ Tear
  /\ IF failure = "cancel" THEN pc' = "mark" /\ UNCHANGED <<history, msg, cancelled>> ELSE End
  /\ UNCHANGED <<summary, cpc, covers>>

\* Mutant: whoever ends the turn records the cancelled calls once more.
MarkAndAnswer ==
  /\ pc = "mark"
  /\ rows' = Append(Stored(mem, "canceled"), Answers(round, mem))
  /\ End /\ UNCHANGED <<summary, cpc, count, past>>

\* Mutant: the mark is written with the dead context.
MarkLost ==
  /\ pc = "mark"
  /\ End /\ UNCHANGED <<store, cpc, count, past>>

\* The message that was being written is written again with a live context.
MarkCanceled ==
  /\ pc = "mark"
  /\ StoreOrLose(mem, "canceled")
  /\ End /\ UNCHANGED <<summary, cpc, covers>>

-----------------------------------------------------------------------------
(* The tool loop.  A call is attempted only when the one before it is done. *)

StartTools ==
  /\ pc = "streamed" /\ ~cancelled
  /\ IF mem = {} THEN End ELSE pc' = "tools" /\ UNCHANGED <<history, msg, cancelled>>
  /\ UNCHANGED <<store, cpc, count, past>>

Pending   == {c \in mem : result[c] = "none"}
IsNext(c) == c \in Pending /\ \A d \in Pending : c <= d

\* Call c came to r; the calls after it are not made.
StopAt(c, r) ==
  result' = [d \in Call |-> IF d = c THEN r ELSE IF d \in Pending THEN "notRun" ELSE result[d]]

\* The tool ran (well or badly), or its name or arguments were of no use; or the
\* person's own hook refused it.  The turn goes on with the next call.
RunCall(c) ==
  /\ pc = "tools" /\ IsNext(c) /\ ~cancelled
  /\ \E r \in {"ran", "refused"} : result' = [result EXCEPT ![c] = r]
  /\ UNCHANGED <<store, pc, history, round, at, mem, fin, failure, cancelled, cpc, count, past>>

\* Mutant: a denied call does not stop the calls sent with it.
DenyAndGoOn(c) ==
  /\ pc = "tools" /\ IsNext(c) /\ ~cancelled
  /\ result' = [result EXCEPT ![c] = "denied"]
  /\ UNCHANGED <<store, pc, history, round, at, mem, fin, failure, cancelled, cpc, count, past>>

\* A person pressed Deny: the model is told and the turn goes on, without the
\* calls that were sent along.  Refused otherwise (a mode, nobody answered, the
\* context died while the question stood): the turn ends.
Deny(c) ==
  /\ pc = "tools" /\ IsNext(c)
  /\ \/ StopAt(c, "denied") /\ UNCHANGED failure
     \/ StopAt(c, "denied") /\ failure' = "denied"
  /\ pc' = "results"
  /\ UNCHANGED <<store, history, round, at, mem, fin, cancelled, cpc, count, past>>

CancelTools(c) ==
  /\ pc = "tools" /\ IsNext(c) /\ cancelled
  /\ StopAt(c, "notRun")
  /\ fin' = "canceled" /\ StoreOrLose(mem, "canceled")
  /\ pc' = "results"
  /\ UNCHANGED <<summary, history, round, at, mem, failure, cancelled, cpc, covers>>

ToolsDone ==
  /\ pc = "tools" /\ Pending = {}
  /\ pc' = "results"
  /\ UNCHANGED <<store, history, msg, cancelled, cpc, count, past>>

-----------------------------------------------------------------------------
(* After the loop. *)

\* Mutant: a refused turn is marked finished before its results are stored.
StoreResultsAfterMark ==
  /\ pc = "results"
  /\ IF failure = "denied" /\ fin # "denied"
       THEN /\ rows' = Stored(mem, "denied") /\ fin' = "denied"
            /\ UNCHANGED <<pc, history, round, at, mem, result, failure, cancelled>>
       ELSE rows' = Append(rows, Answers(round, mem)) /\ End
  /\ UNCHANGED <<summary, cpc, count, past>>

\* The results are stored with a live context.  A refused turn is then marked; a
\* model that repeats itself is stopped; an answer that asked for tools is
\* followed by the next request; any other ends the turn.
StoreResults ==
  /\ pc = "results"
  /\ rows' = Append(rows, Answers(round, mem))
  /\ \/ failure = "denied" /\ pc' = "denied" /\ UNCHANGED <<history, msg, cancelled>>
     \/ /\ failure = "none" /\ fin = "tool_use"
        /\ pc' \in {"ask", "overflow"}
        /\ history' = history \o <<Assistant(round, mem, fin), Answers(round, mem)>>
        /\ UNCHANGED <<msg, cancelled>>
     \/ failure = "none" /\ (fin = "tool_use" => \E c \in mem : result[c] = "ran") /\ End
  /\ UNCHANGED <<summary, cpc, count, past>>

ResultsFail ==
  /\ pc = "results" /\ Fault /\ Tear
  /\ End /\ UNCHANGED <<store, cpc, covers>>

MarkDenied ==
  /\ pc = "denied"
  /\ StoreOrLose(mem, "denied")
  /\ End /\ UNCHANGED <<summary, cpc, covers>>

\* The next request would not fit, and leaving old results out does not help.
Overflow ==
  /\ pc = "overflow"
  /\ StoreOrLose(mem, "error")
  /\ End /\ UNCHANGED <<summary, cpc, covers>>

-----------------------------------------------------------------------------
(* Summarize: begun while no turn of the session runs; a turn can begin     *)
(* beside it, and so can another compaction.  It stores a summary row, then  *)
(* names it in the session row.                                              *)

Nothing == [seen |-> 0, beside |-> FALSE]

\* Mutant: the compaction is begun without asking whether a turn runs.
CompactAnyTime ==
  /\ count.compaction < MaxCompaction /\ Room(2)
  /\ count' = [count EXCEPT !.compaction = @ + 1]
  /\ cpc' = [cpc EXCEPT ![count'.compaction] = "started"]
  /\ UNCHANGED <<store, turn, past>>

Compact ==
  /\ count.compaction < MaxCompaction /\ Room(2)
  /\ pc = "idle"
  /\ count' = [count EXCEPT !.compaction = @ + 1]
  /\ cpc' = [cpc EXCEPT ![count'.compaction] = "started"]
  /\ UNCHANGED <<store, turn, past>>

CompactLists(n) ==
  /\ cpc[n] = "started" /\ rows # <<>>
  /\ covers' = [covers EXCEPT ![n].seen = Len(rows)]
  /\ cpc' = [cpc EXCEPT ![n] = "asked"]
  /\ UNCHANGED <<store, turn, count, torn>>

CompactStores(n) ==
  /\ cpc[n] = "asked"
  /\ rows' = Append(rows, Summary(n))
  /\ cpc' = [cpc EXCEPT ![n] = "stored"]
  /\ UNCHANGED <<summary, turn, count, past>>

CompactSaves(n) ==
  /\ cpc[n] = "stored"
  /\ summary' = n
  /\ cpc' = [cpc EXCEPT ![n] = "none"]
  /\ UNCHANGED <<rows, turn, count, past>>

\* What is recorded of the compactions in ended that stored no summary goes with them.
Forget(ended) ==
  covers' = [n \in 1..MaxCompaction |->
               IF n \in ended /\ cpc[n] \in {"started", "asked"} THEN Nothing ELSE covers[n]]

\* Cancelled, no answer, nothing to summarise, or a write failed.
CompactFails(n) ==
  /\ cpc[n] # "none" /\ cpc' = [cpc EXCEPT ![n] = "none"] /\ Forget({n})
  /\ UNCHANGED <<store, turn, count, torn>>

-----------------------------------------------------------------------------
(* The program dies.  What was stored is all that is left. *)

Crash ==
  /\ Fault /\ Tear /\ End
  /\ cpc' = NoCompaction /\ Forget(1..MaxCompaction)
  /\ UNCHANGED store

-----------------------------------------------------------------------------
Init ==
  /\ rows = <<>> /\ summary = 0
  /\ pc = "idle" /\ history = <<>> /\ cancelled = FALSE
  /\ round = 0 /\ at = 0 /\ mem = {} /\ fin = "none"
  /\ result = NoResult /\ failure = "none"
  /\ cpc = NoCompaction
  /\ count = [turn |-> 0, round |-> 0, compaction |-> 0, accident |-> 0]
  /\ torn = {} /\ covers = [n \in 1..MaxCompaction |-> Nothing]

Generate == \/ Load \/ Slice \/ StoreUser \/ NotAsked \/ Ask \/ CreateRow \/ NoRow
Stream   == \/ AnnounceCall \/ Complete \/ StreamFails \/ StreamCancelled
            \/ TrackUsage \/ UsageFails
GiveUp   == Abort \/ MarkCanceled
Tools    == \/ StartTools \/ ToolsDone
            \/ \E c \in Call : RunCall(c) \/ Deny(c) \/ CancelTools(c)
Settle   == StoreResults \/ ResultsFail \/ MarkDenied \/ Overflow
TurnStep == Generate \/ Stream \/ GiveUp \/ Tools \/ Settle
Compaction == \/ Compact
              \/ \E n \in 1..MaxCompaction : \/ CompactLists(n) \/ CompactStores(n)
                                             \/ CompactSaves(n) \/ CompactFails(n)

Next == Begin \/ Cancel \/ TurnStep \/ Compaction \/ Crash

Spec == Init /\ [][Next]_vars

-----------------------------------------------------------------------------
(* Properties. *)

TypeOK ==
  /\ rows \in Seq(Row) /\ summary \in 0..MaxCompaction
  /\ pc \in {"idle", "load", "slice", "user", "ask", "asked", "stream", "usage", "streamed",
             "tools", "results", "denied", "overflow", "abort", "mark"}
  /\ round \in 0..MaxRound /\ at \in 0..Len(rows)
  /\ mem \subseteq Call /\ fin \in Finish /\ result \in [Call -> Result]
  /\ failure \in {"none", "cancel", "error", "denied"} /\ cancelled \in BOOLEAN
  /\ cpc \in [1..MaxCompaction -> {"none", "started", "asked", "stored"}]
  /\ count \in Counts /\ torn \subseteq Round /\ covers \in Covers

ToolRows == {j \in 1..Len(rows) : rows[j].role = "tool"}
AnswersTo(j, i) == /\ rows[i].role = "assistant" /\ rows[j].role = "tool"
                   /\ rows[j].of = rows[i].of

\* A call is answered at most once, by the row that comes next after its own; only a
\* summary, stored by a compaction running beside the turn, can stand between them.
AnsweredOnceInPlace ==
  \A j \in ToolRows :
    /\ \A k \in ToolRows : rows[k].of = rows[j].of => k = j
    /\ \E i \in 1..j - 1 : /\ AnswersTo(j, i)
                          /\ \A k \in i + 1 .. j - 1 : rows[k].role = "summary"

\* However a round ended (finished, cancelled in the stream or among the tools, denied,
\* refused, stuck, failed), each of its calls has a result and its message is marked
\* finished, unless the program died or a write failed on the way.
NoRoundLeftOpen ==
  \A i \in 1..Len(rows) :
    rows[i].role = "assistant" /\ rows[i].of # round /\ rows[i].of \notin torn =>
      /\ rows[i].fin # "none"
      /\ rows[i].calls # {} =>
           \E j \in i + 1 .. Len(rows) : AnswersTo(j, i) /\ rows[j].calls = rows[i].calls

\* Rows an overlapping compaction stored inside a round; results whose calls were never
\* stored, because the write of the message failed and that of the results did not.
Split  == \E i, k, j \in 1..Len(rows) : i < k /\ k < j /\ AnswersTo(j, i)
Orphan == \E i, j \in 1..Len(rows) : AnswersTo(j, i) /\ ~(rows[j].calls \subseteq rows[i].calls)

\* Whatever deaths and failed writes left behind, the history a turn or a compaction
\* sends is one a provider takes: every call answered once, in place.  (Not so once a round
\* is split or a result has lost its call: nothing repairs those.)
SentIsAcceptable ==
  /\ pc = "asked" => Split \/ Orphan \/ Acceptable(history)
  /\ (\E n \in 1..MaxCompaction : cpc[n] = "started") =>
       Split \/ Orphan \/ Acceptable(Repaired(rows))

\* A result loses its call only in a round that died or failed, or for as long as a
\* cancelled round takes to write its message again.
OrphanOnlyIfTorn ==
  \A i, j \in 1..Len(rows) :
    AnswersTo(j, i) /\ ~(rows[j].calls \subseteq rows[i].calls) =>
      rows[i].of \in torn \/ (rows[i].of = round /\ pc = "mark")

\* A compaction beside which no turn began has read every row before its summary,
\* summaries that others stored beside it excepted, and its summary stands inside no
\* round: nothing is forgotten, nothing is split, however many compactions overlap.
QuietCompactionKeepsAll ==
  \A k \in 1..Len(rows) : rows[k].role = "summary" /\ ~covers[rows[k].of].beside =>
    /\ \A i \in covers[rows[k].of].seen + 1 .. k - 1 : rows[i].role = "summary"
    /\ \A i \in 1..k - 1, j \in k + 1 .. Len(rows) : ~AnswersTo(j, i)

\* No call that follows a denied one in the same message is attempted.
DenialStopsTheRest ==
  \A c, d \in mem : result[c] = "denied" /\ c < d => result[d] \notin {"ran", "refused", "denied"}

\* A refused turn's message is marked only once its calls have their results: the front
\* end prints it at that moment, for good.
MarkedAfterAnswered ==
  \A i \in 1..Len(rows) : rows[i].fin = "denied" =>
    \E j \in i + 1 .. Len(rows) : AnswersTo(j, i)

\* The rounds of the conversation keep ToolRounds' promise: one at a time, each closed once.
Answered == {rows[j].of : j \in ToolRows}
Phase(r, answered) == IF r > count.round THEN "none"
                      ELSE IF r \in answered THEN "answered"
                      ELSE IF r = round THEN "open" ELSE "left"
Phases == LET answered == Answered IN [r \in Round |-> Phase(r, answered)]
Rounds == INSTANCE ToolRounds WITH phase <- Phases
KeepsRounds == Rounds!Spec
=============================================================================
