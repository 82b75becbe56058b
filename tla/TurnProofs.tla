----------------------------- MODULE TurnProofs -----------------------------
(* Proofs about Turn, for every number of calls, rounds, compactions and accidents. *)
EXTENDS Turn, TLAPS

-----------------------------------------------------------------------------
(* Rows. *)

LEMMA AppendRow ==
  ASSUME rows \in Seq(Row), NEW e \in Row
  PROVE  /\ Append(rows, e) \in Seq(Row)
         /\ Len(Append(rows, e)) = Len(rows) + 1
         /\ \A i \in 1..Len(rows) : Append(rows, e)[i] = rows[i]
         /\ Append(rows, e)[Len(rows) + 1] = e
OBVIOUS

LEMMA StoredRow ==
  ASSUME rows \in Seq(Row), at \in 1..Len(rows), round \in Nat, NEW cs \in SUBSET Call,
         NEW f \in Finish
  PROVE  /\ Stored(cs, f) \in Seq(Row)
         /\ Len(Stored(cs, f)) = Len(rows)
         /\ \A i \in 1..Len(rows) : i # at => Stored(cs, f)[i] = rows[i]
         /\ Stored(cs, f)[at] = Assistant(round, cs, f)
<1>1. Assistant(round, cs, f) \in Row
  BY DEF Assistant, Row
<1> QED
  BY <1>1 DEF Stored

LEMMA RowTypes ==
  ASSUME NEW n \in Nat, NEW cs \in SUBSET Call, NEW f \in Finish
  PROVE  User(n) \in Row /\ Summary(n) \in Row /\ Answers(n, cs) \in Row /\ Assistant(n, cs, f) \in Row
BY DEF User, Summary, Answers, Assistant, Row, Finish

-----------------------------------------------------------------------------
(* The inductive invariant. *)

Streaming == {"stream", "usage", "streamed", "tools", "results", "abort"}
Settling  == {"mark", "denied", "overflow"}

\* While a round is worked on, its row is where `at` says; until its results are stored
\* only summaries come after that row.
Placed ==
  /\ pc \in Streaming \union Settling =>
       /\ round = count.round /\ round \in Round /\ at \in 1..Len(rows)
       /\ rows[at].role = "assistant" /\ rows[at].of = round
  /\ pc \in Streaming => \A k \in at + 1 .. Len(rows) : rows[k].role = "summary"

\* Before its row is made a round has none; a turn that asks again has its answer.
Asked ==
  /\ pc = "asked" =>
       /\ round = count.round /\ round \in Round
       /\ \A i \in 1..Len(rows) : rows[i].role \in {"assistant", "tool"} => rows[i].of # round
  /\ pc \in {"idle", "load", "slice", "user"} => round = 0
  /\ pc = "ask" => round = 0 \/ round \in Answered

\* The rows of a round: numbered, one message, answered once and in place.
Numbered == \A i \in 1..Len(rows) :
  rows[i].role \in {"assistant", "tool"} => rows[i].of \in 1..count.round
OneMessage == \A i, j \in 1..Len(rows) :
  rows[i].role = "assistant" /\ rows[j].role = "assistant" /\ rows[i].of = rows[j].of => i = j

RowInv == Numbered /\ OneMessage /\ AnsweredOnceInPlace
Inv == TypeOK /\ Placed /\ Asked /\ RowInv

\* A round being worked on has no answer yet.
LEMMA NotAnsweredYet ==
  ASSUME TypeOK, Placed, RowInv, pc \in Streaming
  PROVE  round \notin Answered
<1> SUFFICES ASSUME NEW j \in ToolRows, rows[j].of = round PROVE FALSE
  BY DEF Answered
<1> USE DEF ToolRows
<1>1. PICK i \in 1..j - 1 : AnswersTo(j, i) /\ \A k \in i + 1 .. j - 1 : rows[k].role = "summary"
  BY DEF RowInv, AnsweredOnceInPlace
<1>2. i \in 1..Len(rows) /\ j \in 1..Len(rows) /\ at \in 1..Len(rows)
  BY DEF Placed, TypeOK
<1>3. i = at
  BY <1>1, <1>2 DEF RowInv, OneMessage, Placed, AnswersTo
<1>4. rows[j].role = "summary"
  BY <1>1, <1>2, <1>3 DEF Placed, TypeOK
<1> QED
  BY <1>4

\* Writing the round's message again moves no row.
LEMMA RewriteKeeps ==
  ASSUME TypeOK, Placed, RowInv, pc \in Streaming \union Settling,
         NEW cs \in SUBSET Call, NEW f \in Finish, rows' = Stored(cs, f), count'.round = count.round
  PROVE  /\ RowInv' /\ Answered' = Answered /\ Len(rows') = Len(rows) /\ rows' \in Seq(Row)
         /\ \A i \in 1..Len(rows) : rows'[i].role = rows[i].role /\ rows'[i].of = rows[i].of
<1>1. /\ rows' \in Seq(Row) /\ Len(rows') = Len(rows)
      /\ \A i \in 1..Len(rows) : i # at => rows'[i] = rows[i]
      /\ rows'[at] = Assistant(round, cs, f)
  BY StoredRow DEF Placed, TypeOK
<1>2. \A i \in 1..Len(rows) : rows'[i].role = rows[i].role /\ rows'[i].of = rows[i].of
  BY <1>1 DEF Placed, Assistant
<1>3. ToolRows' = ToolRows
  BY <1>1, <1>2 DEF ToolRows
<1>4. \A i, j \in 1..Len(rows) : AnswersTo(j, i)' <=> AnswersTo(j, i)
  BY <1>2 DEF AnswersTo
<1>5. AnsweredOnceInPlace'
  <2>1. SUFFICES ASSUME NEW j \in ToolRows
                 PROVE  /\ \A k \in ToolRows : rows'[k].of = rows'[j].of => k = j
                        /\ \E i \in 1..j - 1 : /\ AnswersTo(j, i)'
                                               /\ \A k \in i + 1 .. j - 1 : rows'[k].role = "summary"
    BY <1>3 DEF AnsweredOnceInPlace
  <2>2. PICK i \in 1..j - 1 : AnswersTo(j, i) /\ \A k \in i + 1 .. j - 1 : rows[k].role = "summary"
    BY DEF RowInv, AnsweredOnceInPlace
  <2>3. \A k \in ToolRows : rows[k].of = rows[j].of => k = j
    BY DEF RowInv, AnsweredOnceInPlace
  <2>4. /\ j \in 1..Len(rows) /\ i \in 1..Len(rows)
        /\ \A k \in i + 1 .. j - 1 : k \in 1..Len(rows)
    BY DEF ToolRows, TypeOK
  <2> QED
    BY <2>2, <2>3, <2>4, <1>2, <1>4 DEF ToolRows
<1>6. Numbered' /\ OneMessage'
  BY <1>1, <1>2 DEF RowInv, Numbered, OneMessage
<1>7. Answered' = Answered
  BY <1>2, <1>3 DEF Answered, ToolRows
<1> QED
  BY <1>1, <1>2, <1>5, <1>6, <1>7 DEF RowInv

\* A row at the end that is not a round's disturbs nothing.
LEMMA PlainAppendKeeps ==
  ASSUME TypeOK, RowInv, NEW e \in Row, e.role \in {"user", "summary"},
         rows' = Append(rows, e), count'.round = count.round
  PROVE  RowInv' /\ Answered' = Answered
<1>1. /\ Len(rows') = Len(rows) + 1 /\ rows'[Len(rows) + 1] = e
      /\ \A i \in 1..Len(rows) : rows'[i] = rows[i]
  BY AppendRow DEF TypeOK
<1>2. Len(rows) \in Nat /\ ToolRows \subseteq 1..Len(rows)
  BY DEF TypeOK, ToolRows
<1>3. ToolRows' = ToolRows
  BY <1>1, <1>2 DEF ToolRows
<1>4. AnsweredOnceInPlace'
  <2>1. SUFFICES ASSUME NEW j \in ToolRows
                 PROVE  /\ \A k \in ToolRows : rows'[k].of = rows'[j].of => k = j
                        /\ \E i \in 1..j - 1 : /\ AnswersTo(j, i)'
                                               /\ \A k \in i + 1 .. j - 1 : rows'[k].role = "summary"
    BY <1>3 DEF AnsweredOnceInPlace
  <2>2. PICK i \in 1..j - 1 : AnswersTo(j, i) /\ \A k \in i + 1 .. j - 1 : rows[k].role = "summary"
    BY DEF RowInv, AnsweredOnceInPlace
  <2>3. \A k \in ToolRows : rows[k].of = rows[j].of => k = j
    BY DEF RowInv, AnsweredOnceInPlace
  <2>4. j \in 1..Len(rows) /\ i \in 1..Len(rows) /\ \A k \in i + 1 .. j - 1 : k \in 1..Len(rows)
    BY <1>2
  <2>5. AnswersTo(j, i)'
    BY <2>2, <2>4, <1>1 DEF AnswersTo
  <2> QED
    BY <2>2, <2>3, <2>4, <2>5, <1>1, <1>2
<1>5. Numbered' /\ OneMessage'
  BY <1>1, <1>2 DEF RowInv, Numbered, OneMessage
<1>6. Answered' = Answered
  <2>1. \A j \in ToolRows : rows'[j].of = rows[j].of
    BY <1>1, <1>2
  <2> QED
    BY <1>3, <2>1 DEF Answered
<1> QED
  BY <1>4, <1>5, <1>6 DEF RowInv

\* The row of a new round has no namesake.
LEMMA MessageAppendKeeps ==
  ASSUME TypeOK, RowInv, Asked, pc = "asked",
         rows' = Append(rows, Assistant(round, {}, "none")), count'.round = count.round
  PROVE  RowInv' /\ Answered' = Answered
<1> DEFINE e == Assistant(round, {}, "none")
<1>0. e \in Row /\ e.role = "assistant" /\ e.of = round /\ round \in 1..count.round
  <2>1. round = count.round /\ round \in Nat /\ 1 <= round
    BY DEF Asked, Round
  <2>2. {} \in SUBSET Call /\ "none" \in Finish
    BY DEF Finish
  <2>3. e \in Row
    BY <2>1, <2>2, RowTypes
  <2> QED
    BY <2>1, <2>3 DEF Assistant
<1>1. /\ Len(rows') = Len(rows) + 1 /\ rows'[Len(rows) + 1] = e
      /\ \A i \in 1..Len(rows) : rows'[i] = rows[i]
  BY <1>0, AppendRow DEF TypeOK
<1> HIDE DEF e
<1>2. Len(rows) \in Nat /\ ToolRows \subseteq 1..Len(rows)
  BY DEF TypeOK, ToolRows
<1>3. ToolRows' = ToolRows
  BY <1>0, <1>1, <1>2 DEF ToolRows
<1>4. AnsweredOnceInPlace'
  <2>1. SUFFICES ASSUME NEW j \in ToolRows
                 PROVE  /\ \A k \in ToolRows : rows'[k].of = rows'[j].of => k = j
                        /\ \E i \in 1..j - 1 : /\ AnswersTo(j, i)'
                                               /\ \A k \in i + 1 .. j - 1 : rows'[k].role = "summary"
    BY <1>3 DEF AnsweredOnceInPlace
  <2>2. PICK i \in 1..j - 1 : AnswersTo(j, i) /\ \A k \in i + 1 .. j - 1 : rows[k].role = "summary"
    BY DEF RowInv, AnsweredOnceInPlace
  <2>3. \A k \in ToolRows : rows[k].of = rows[j].of => k = j
    BY DEF RowInv, AnsweredOnceInPlace
  <2>4. j \in 1..Len(rows) /\ i \in 1..Len(rows) /\ \A k \in i + 1 .. j - 1 : k \in 1..Len(rows)
    BY <1>2
  <2>5. AnswersTo(j, i)'
    BY <2>2, <2>4, <1>1 DEF AnswersTo
  <2> QED
    BY <2>2, <2>3, <2>4, <2>5, <1>1, <1>2
<1>5. \A i \in 1..Len(rows) : rows[i].role = "assistant" => rows[i].of # round
  BY DEF Asked
<1>6. Numbered' /\ OneMessage'
  BY <1>0, <1>1, <1>2, <1>5 DEF RowInv, Numbered, OneMessage
<1>7. Answered' = Answered
  <2>1. \A j \in ToolRows : rows'[j].of = rows[j].of
    BY <1>1, <1>2
  <2> QED
    BY <1>3, <2>1 DEF Answered
<1> QED
  BY <1>4, <1>6, <1>7 DEF RowInv

\* The results of a round come once, right after its message.
LEMMA AnswerAppendKeeps ==
  ASSUME TypeOK, Placed, RowInv, pc \in Streaming, NEW cs \in SUBSET Call,
         rows' = Append(rows, Answers(round, cs)), count'.round = count.round
  PROVE  RowInv' /\ Answered' = Answered \union {round}
<1> DEFINE e == Answers(round, cs)
<1> Len(rows) \in Nat
  BY DEF TypeOK
<1> PICK n \in Nat : n = Len(rows) + 1
  OBVIOUS
<1> PICK a : a = at
  OBVIOUS
<1>0. /\ e \in Row /\ e.role = "tool" /\ e.of = round
      /\ round \in 1..count.round /\ at \in 1..Len(rows)
      /\ rows[at].role = "assistant" /\ rows[at].of = round
      /\ \A k \in at + 1 .. Len(rows) : rows[k].role = "summary"
  BY RowTypes DEF TypeOK, Placed, Answers, Round
<1>1. /\ Len(rows') = n /\ rows'[n] = e
      /\ \A i \in 1..Len(rows) : rows'[i] = rows[i]
  BY <1>0, AppendRow DEF TypeOK
<1> HIDE DEF e
<1>2. Len(rows) \in Nat /\ ToolRows \subseteq 1..Len(rows) /\ n \notin ToolRows
  BY DEF TypeOK, ToolRows
<1>3. ToolRows' = ToolRows \union {n}
  BY <1>0, <1>1, <1>2 DEF ToolRows
<1>4. \A j \in ToolRows : rows[j].of # round
  BY NotAnsweredYet DEF Answered
<1>5. AnsweredOnceInPlace'
  <2>1. SUFFICES ASSUME NEW j \in ToolRows'
                 PROVE  /\ \A k \in ToolRows' : rows'[k].of = rows'[j].of => k = j
                        /\ \E i \in 1..j - 1 : /\ AnswersTo(j, i)'
                                               /\ \A k \in i + 1 .. j - 1 : rows'[k].role = "summary"
    BY DEF AnsweredOnceInPlace
  <2>2. CASE j = n
    <3>1. a \in 1..n - 1 /\ AnswersTo(n, a)'
      BY <1>0, <1>1, <1>2 DEF AnswersTo
    <3>2. \A k \in a + 1 .. n - 1 : rows'[k].role = "summary"
      BY <1>0, <1>1, <1>2
    <3>3. \A k \in ToolRows' : rows'[k].of = rows'[n].of => k = n
      BY <1>0, <1>1, <1>2, <1>3, <1>4
    <3> QED
      BY <2>2, <3>1, <3>2, <3>3
  <2>3. CASE j # n
    <3>1. j \in ToolRows /\ j \in 1..Len(rows) /\ rows[j].of # round
      BY <2>3, <1>2, <1>3, <1>4
    <3>2. PICK i \in 1..j - 1 : AnswersTo(j, i) /\ \A k \in i + 1 .. j - 1 : rows[k].role = "summary"
      BY <3>1 DEF RowInv, AnsweredOnceInPlace
    <3>3. \A k \in ToolRows : rows[k].of = rows[j].of => k = j
      BY <3>1 DEF RowInv, AnsweredOnceInPlace
    <3>4. i \in 1..Len(rows) /\ \A k \in i + 1 .. j - 1 : k \in 1..Len(rows)
      BY <1>2, <3>1
    <3>5. AnswersTo(j, i)'
      BY <3>1, <3>2, <3>4, <1>1 DEF AnswersTo
    <3>6. \A k \in ToolRows' : rows'[k].of = rows'[j].of => k = j
      BY <3>1, <3>3, <1>0, <1>1, <1>2, <1>3
    <3> QED
      BY <3>1, <3>2, <3>4, <3>5, <3>6, <1>1
  <2> QED
    BY <2>2, <2>3
<1>6. Numbered' /\ OneMessage'
  BY <1>0, <1>1, <1>2 DEF RowInv, Numbered, OneMessage
<1>7. Answered' = Answered \union {round}
  <2>1. \A j \in ToolRows : rows'[j].of = rows[j].of
    BY <1>1, <1>2
  <2>2. rows'[n].of = round
    BY <1>0, <1>1
  <2> QED
    BY <1>3, <2>1, <2>2 DEF Answered
<1> QED
  BY <1>5, <1>6, <1>7 DEF RowInv

-----------------------------------------------------------------------------
(* Type correctness. *)

\* The counters.
LEMMA CountTyped ==
  ASSUME count \in Counts
  PROVE  /\ Fault => count' \in Counts /\ count'.round = count.round
         /\ count.turn < MaxTurn =>
              /\ [count EXCEPT !.turn = @ + 1] \in Counts
              /\ [count EXCEPT !.turn = @ + 1].round = count.round
         /\ count.round < MaxRound =>
              /\ [count EXCEPT !.round = @ + 1] \in Counts
              /\ [count EXCEPT !.round = @ + 1].round = count.round + 1
         /\ count.compaction < MaxCompaction =>
              /\ [count EXCEPT !.compaction = @ + 1] \in Counts
              /\ [count EXCEPT !.compaction = @ + 1].round = count.round
BY TurnAssumption DEF Fault, Counts

LEMMA CoversTyped ==
  ASSUME covers \in Covers
  PROVE  /\ Begin => covers' \in Covers
         /\ \A n \in 1..MaxCompaction, k \in Nat : [covers EXCEPT ![n].seen = k] \in Covers
         /\ \A ended : Forget(ended) => covers' \in Covers
<1>1. \A n \in 1..MaxCompaction : [covers[n] EXCEPT !.beside = TRUE] \in [seen : Nat, beside : BOOLEAN]
  BY DEF Covers
<1>2. Nothing \in [seen : Nat, beside : BOOLEAN]
  BY DEF Nothing
<1>3. Begin => covers' \in Covers
  BY <1>1 DEF Begin, Covers
<1>4. \A ended : Forget(ended) => covers' \in Covers
  BY <1>2 DEF Forget, Covers
<1> QED
  BY <1>3, <1>4 DEF Covers

\* A fault is counted; the round it goes through is one.
LEMMA FaultTyped ==
  ASSUME TypeOK, Placed, Asked
  PROVE  /\ Fault => count' \in Counts /\ count'.round = count.round
         /\ Tear => torn' \subseteq Round
<1>1. count \in Counts /\ torn \subseteq Round
  BY DEF TypeOK
<1>2. pc \notin {"idle", "load", "slice", "user", "ask"} => round \in Round
  BY DEF TypeOK, Placed, Asked, Streaming, Settling
<1> QED
  BY <1>1, <1>2, CountTyped DEF Tear

\* The message a round stores is a row.
LEMMA StoreTyped ==
  ASSUME TypeOK, Placed, Asked, pc \in Streaming \union Settling,
         NEW cs \in SUBSET Call, NEW f \in Finish, StoreOrLose(cs, f)
  PROVE  /\ rows' \in Seq(Row) /\ Len(rows') = Len(rows) /\ torn' \subseteq Round
         /\ count' \in Counts /\ count'.round = count.round
BY StoredRow, FaultTyped DEF StoreOrLose, TypeOK, Placed

LEMMA EndTyped ==
  ASSUME End, Len(rows') \in Nat
  PROVE  /\ pc' = "idle" /\ round' \in 0..MaxRound /\ at' \in 0..Len(rows')
         /\ mem' \subseteq Call /\ fin' \in Finish /\ result' \in [Call -> Result]
         /\ failure' = "none" /\ cancelled' \in BOOLEAN
<1>1. result' \in [Call -> Result]
  BY DEF End, NoResult, Result
<1>2. 0 \in 0..MaxRound /\ 0 \in 0..Len(rows')
  BY TurnAssumption
<1> QED
  BY <1>1, <1>2 DEF End, Finish

LEMMA NextTyped == Inv /\ [Next]_vars => TypeOK'
<1> SUFFICES ASSUME Inv, [Next]_vars PROVE TypeOK'
  OBVIOUS
<1> TypeOK /\ Placed /\ Asked
  BY DEF Inv
<1> USE TurnAssumption DEF TypeOK
<1>1. CASE UNCHANGED vars
  BY <1>1 DEF vars, store, msg, turn, past
<1>2. CASE Begin
  BY <1>2, CountTyped, CoversTyped DEF Begin, vars, store, msg, turn, past
<1>3. CASE Cancel
  BY <1>3 DEF Cancel, vars, store, msg, turn, past
<1>4. CASE Load
  BY <1>4 DEF Load, vars, store, msg, turn, past
<1>5. CASE Slice
  BY <1>5 DEF Slice, vars, store, msg, turn, past
<1>6. CASE StoreUser
  <2>1. User(count.turn) \in Row
    BY DEF User, Row, Finish, Counts
  <2> QED
    BY <1>6, <2>1, AppendRow DEF StoreUser, vars, store, msg, turn, past
<1>7. CASE NotAsked
  BY <1>7, EndTyped, FaultTyped DEF NotAsked, vars, store, msg, turn, past
<1>8. CASE Ask
  <2>1. NoResult \in [Call -> Result] /\ 0 \in 0..Len(rows) /\ count.round + 1 \in 0..MaxRound
    BY <1>8 DEF NoResult, Result, Ask, Counts
  <2> QED
    BY <1>8, <2>1, CountTyped DEF Ask, Finish, vars, store, msg, turn, past
<1>9. CASE CreateRow
  BY <1>9, AppendRow, RowTypes DEF CreateRow, Finish, vars, store, msg, turn, past
<1>10. CASE NoRow
  BY <1>10, EndTyped, FaultTyped DEF NoRow, vars, store, msg, turn, past
<1>11. ASSUME NEW m \in Nat, m <= MaxCall, NEW f \in Finish, NEW next \in {"stream", "usage"}, Event(1..m, f, next) PROVE TypeOK'
  BY <1>11, StoredRow, FaultTyped DEF Event, Call, Placed, Streaming, vars, store, msg, turn, past
<1>12. CASE AnnounceCall
  BY <1>12, <1>11 DEF AnnounceCall, Call
<1>13. CASE Complete
  BY <1>13, <1>11 DEF Complete, Finish
<1>14. CASE StreamFails
  <2>1. CASE StoreOrLose(mem, "error")
    BY <1>14, <2>1, StoreTyped DEF StreamFails, Streaming, Finish, vars, store, msg, turn, past
  <2>2. CASE UNCHANGED <<rows, count>> /\ Tear
    BY <1>14, <2>2, FaultTyped DEF StreamFails, Finish, vars, store, msg, turn, past
  <2> QED
    BY <1>14, <2>1, <2>2 DEF StreamFails
<1>15. CASE StreamCancelled
  BY <1>15, StoreTyped DEF StreamCancelled, Streaming, Finish, vars, store, msg, turn, past
<1>16. CASE TrackUsage
  BY <1>16 DEF TrackUsage, vars, store, msg, turn, past
<1>17. CASE UsageFails
  BY <1>17, FaultTyped DEF UsageFails, Finish, vars, store, msg, turn, past
<1>18. CASE Abort
  <2>1. Answers(round, mem) \in Row
    BY RowTypes
  <2>a. rows' \in Seq(Row) /\ Len(rows') >= Len(rows)
    BY <1>18, <2>1, AppendRow DEF Abort
  <2>b. count' \in Counts /\ torn' \subseteq Round
    BY <1>18, FaultTyped DEF Abort
  <2>2. rows' \in Seq(Row) /\ Len(rows') >= Len(rows) /\ count' \in Counts /\ torn' \subseteq Round
    BY <2>a, <2>b
  <2>3. CASE failure = "cancel"
    BY <1>18, <2>2, <2>3 DEF Abort, vars, store, msg, turn, past
  <2>4. CASE failure # "cancel"
    BY <1>18, <2>2, <2>4, EndTyped DEF Abort, vars, store, msg, turn, past
  <2> QED
    BY <2>3, <2>4
<1>19. CASE MarkCanceled
  BY <1>19, StoreTyped, EndTyped DEF MarkCanceled, Settling, Finish, vars, store, msg, turn, past
<1>20. CASE StartTools
  BY <1>20, EndTyped DEF StartTools, vars, store, msg, turn, past
<1>21. CASE ToolsDone
  BY <1>21 DEF ToolsDone, vars, store, msg, turn, past
<1>22. ASSUME NEW c \in Call, RunCall(c) PROVE TypeOK'
  BY <1>22 DEF RunCall, Result, vars, store, msg, turn, past
<1>23. ASSUME NEW c \in Call, Deny(c) PROVE TypeOK'
  BY <1>23 DEF Deny, StopAt, Result, vars, store, msg, turn, past
<1>24. ASSUME NEW c \in Call, CancelTools(c) PROVE TypeOK'
  BY <1>24, StoreTyped DEF CancelTools, StopAt, Streaming, Result, Finish, vars, store, msg, turn, past
<1>25. CASE StoreResults
  <2>1. Answers(round, mem) \in Row
    BY RowTypes
  <2>2. rows' \in Seq(Row) /\ Len(rows') = Len(rows) + 1
    BY <1>25, <2>1, AppendRow DEF StoreResults
  <2>3. CASE End
    BY <1>25, <2>2, <2>3, EndTyped DEF StoreResults, vars, store, msg, turn, past
  <2>4. CASE pc' \in {"denied", "ask", "overflow"} /\ UNCHANGED <<msg, cancelled>>
    BY <1>25, <2>2, <2>4 DEF StoreResults, vars, store, msg, turn, past
  <2> QED
    BY <1>25, <2>3, <2>4 DEF StoreResults
<1>26. CASE ResultsFail
  BY <1>26, FaultTyped, EndTyped DEF ResultsFail, vars, store, msg, turn, past
<1>27. CASE MarkDenied
  BY <1>27, StoreTyped, EndTyped DEF MarkDenied, Settling, Finish, vars, store, msg, turn, past
<1>28. CASE Overflow
  BY <1>28, StoreTyped, EndTyped DEF Overflow, Settling, Finish, vars, store, msg, turn, past
<1>29. CASE Compact
  <2>1. count' \in Counts
    BY <1>29, CountTyped DEF Compact
  <2>2. cpc' \in [1..MaxCompaction -> {"none", "started", "asked", "stored"}]
    BY <1>29 DEF Compact
  <2> QED
    BY <1>29, <2>1, <2>2 DEF Compact, vars, store, msg, turn, past
<1>30. ASSUME NEW n \in 1..MaxCompaction, CompactLists(n) PROVE TypeOK'
  <2>1. Len(rows) \in Nat
    OBVIOUS
  <2>2. covers' \in Covers
    BY <1>30, <2>1, CoversTyped DEF CompactLists
  <2> QED
    BY <1>30, <2>2 DEF CompactLists, vars, store, msg, turn, past
<1>31. ASSUME NEW n \in 1..MaxCompaction, CompactStores(n) PROVE TypeOK'
  <2>1. Summary(n) \in Row
    BY DEF Summary, Row, Finish
  <2> QED
    BY <1>31, <2>1, AppendRow DEF CompactStores, vars, store, msg, turn, past
<1>32. ASSUME NEW n \in 1..MaxCompaction, CompactSaves(n) PROVE TypeOK'
  BY <1>32 DEF CompactSaves, vars, store, msg, turn, past
<1>33. ASSUME NEW n \in 1..MaxCompaction, CompactFails(n) PROVE TypeOK'
  BY <1>33, CoversTyped DEF CompactFails, vars, store, msg, turn, past
<1>34. CASE Crash
  <2>1. covers' \in Covers /\ cpc' \in [1..MaxCompaction -> {"none", "started", "asked", "stored"}]
    BY <1>34, CoversTyped DEF Crash, NoCompaction
  <2>2. count' \in Counts /\ torn' \subseteq Round
    BY <1>34, FaultTyped DEF Crash
  <2> QED
    BY <1>34, <2>1, <2>2, EndTyped DEF Crash, vars, store, msg, turn, past
<1> QED
  BY <1>1, <1>2, <1>3, <1>4, <1>5, <1>6, <1>7, <1>8, <1>9, <1>10, <1>11, <1>12, <1>13, <1>14, <1>15, <1>16, <1>17, <1>18, <1>19, <1>20, <1>21, <1>22, <1>23, <1>24, <1>25, <1>26, <1>27, <1>28, <1>29, <1>30, <1>31, <1>32, <1>33, <1>34
  DEF Next, TurnStep, Generate, Stream, GiveUp, Tools, Settle, Compaction

-----------------------------------------------------------------------------
(* The rounds. *)

LEMMA SameRowsKeep ==
  ASSUME TypeOK, RowInv, rows' = rows, count' \in Counts, count.round <= count'.round
  PROVE  RowInv' /\ Answered' = Answered /\ ToolRows' = ToolRows
<1>1. ToolRows' = ToolRows
  BY DEF ToolRows
<1>2. Numbered'
  BY DEF RowInv, Numbered, TypeOK, Counts
<1>3. OneMessage' /\ AnsweredOnceInPlace'
  BY <1>1 DEF RowInv, OneMessage, AnsweredOnceInPlace, AnswersTo
<1> QED
  BY <1>1, <1>2, <1>3 DEF RowInv, Answered

\* Where the round stands is kept by a step that moves neither it nor its rows.
LEMMA SameStage ==
  ASSUME TypeOK, Placed, Asked, RowInv, count' \in Counts, count'.round = count.round,
         rows' = rows, UNCHANGED <<round, at>>,
         \/ pc' = pc
         \/ pc \in Streaming /\ pc' \in Streaming
         \/ pc \in Streaming \union Settling /\ pc' \in Settling
         \/ pc \in {"idle", "load", "slice", "user"} /\ pc' \in {"load", "slice", "user", "ask"}
  PROVE  Placed' /\ Asked' /\ RowInv'
<1>1. RowInv' /\ Answered' = Answered
  BY SameRowsKeep DEF TypeOK, Counts
<1>2. Placed'
  BY DEF Placed, Streaming, Settling
<1>3. Asked'
  BY <1>1 DEF Asked, Streaming, Settling
<1> QED
  BY <1>1, <1>2, <1>3

\* A turn that ends leaves no round behind it.
LEMMA EndPlaced == End => Placed' /\ Asked'
BY DEF End, Placed, Asked, Streaming, Settling

\* Writing the message again, and going on or ending.
LEMMA RewriteStage ==
  ASSUME TypeOK, Placed, RowInv, pc \in Streaming \union Settling,
         NEW cs \in SUBSET Call, NEW f \in Finish, StoreOrLose(cs, f),
         \/ End
         \/ pc \in Streaming /\ pc' \in Streaming /\ UNCHANGED <<round, at>>
  PROVE  Placed' /\ Asked' /\ RowInv' /\ Answered' = Answered
<1>1. count' \in Counts /\ count'.round = count.round
  BY CountTyped DEF StoreOrLose, TypeOK
<1>2. CASE rows' = Stored(cs, f)
  <2>1. /\ RowInv' /\ Answered' = Answered /\ Len(rows') = Len(rows) /\ Len(rows) \in Nat
        /\ \A i \in 1..Len(rows) : rows'[i].role = rows[i].role /\ rows'[i].of = rows[i].of
    BY <1>1, <1>2, RewriteKeeps DEF TypeOK
  <2>2. CASE pc \in Streaming /\ pc' \in Streaming /\ UNCHANGED <<round, at>>
    <3>1. round' = count'.round /\ round' \in Round /\ at' \in 1..Len(rows')
      BY <1>1, <2>1, <2>2 DEF Placed
    <3>2. rows'[at].role = "assistant" /\ rows'[at].of = round
      BY <2>1, <2>2 DEF Placed
    <3>3. \A k \in at + 1 .. Len(rows) : rows'[k].role = "summary"
      BY <2>1, <2>2 DEF Placed, TypeOK
    <3>4. Placed'
      BY <2>1, <2>2, <3>1, <3>2, <3>3 DEF Placed
    <3> QED
      BY <2>1, <2>2, <3>4 DEF Asked, Streaming
  <2> QED
    BY <2>1, <2>2, EndPlaced
<1>3. CASE rows' = rows
  <2>1. RowInv' /\ Answered' = Answered
    BY <1>1, <1>3, SameRowsKeep DEF TypeOK, Counts
  <2>2. CASE pc \in Streaming /\ pc' \in Streaming /\ UNCHANGED <<round, at>>
    BY <1>1, <1>3, <2>1, <2>2 DEF Placed, Asked, Streaming
  <2> QED
    BY <2>1, <2>2, EndPlaced
<1> QED
  BY <1>2, <1>3 DEF StoreOrLose

\* Storing the results, and going on or ending.
LEMMA AnswerStage ==
  ASSUME TypeOK, Placed, RowInv, pc \in Streaming, rows' = Append(rows, Answers(round, mem)),
         count' = count,
         \/ End
         \/ pc' \in Settling \union {"ask"} /\ UNCHANGED <<round, at>>
  PROVE  Placed' /\ Asked' /\ RowInv' /\ Answered' = Answered \union {round}
<1>1. RowInv' /\ Answered' = Answered \union {round}
  BY AnswerAppendKeeps DEF TypeOK
<1>2. CASE pc' \in Settling \union {"ask"} /\ UNCHANGED <<round, at>>
  <2>1. Answers(round, mem) \in Row
    BY RowTypes DEF TypeOK
  <2>2. Len(rows') = Len(rows) + 1 /\ Len(rows) \in Nat /\ \A i \in 1..Len(rows) : rows'[i] = rows[i]
    BY <2>1, AppendRow DEF TypeOK
  <2>3. Placed'
    BY <1>2, <2>2 DEF Placed, Streaming, Settling
  <2> QED
    BY <1>1, <1>2, <2>3 DEF Asked, Settling
<1> QED
  BY <1>1, <1>2, EndPlaced

LEMMA NextPlaced == Inv /\ [Next]_vars => Placed' /\ Asked' /\ RowInv'
<1> SUFFICES ASSUME Inv, [Next]_vars PROVE Placed' /\ Asked' /\ RowInv'
  OBVIOUS
<1>0. /\ TypeOK /\ Placed /\ Asked /\ RowInv
      /\ count \in Counts /\ count.round \in Nat /\ count.round <= count.round
      /\ mem \in SUBSET Call /\ Len(rows) \in Nat
  BY DEF Inv, TypeOK, Counts
<1>1. CASE UNCHANGED vars
  BY <1>0, <1>1, SameStage DEF vars, store, msg, turn, past
<1>2. CASE Begin
  BY <1>0, <1>2, CountTyped, SameStage DEF Begin, vars, store, msg, turn, past
<1>3. CASE Cancel
  BY <1>0, <1>3, SameStage DEF Cancel, vars, store, msg, turn, past
<1>4. CASE Load
  BY <1>0, <1>4, SameStage DEF Load, vars, store, msg, turn, past
<1>5. CASE Slice
  BY <1>0, <1>5, SameStage DEF Slice, vars, store, msg, turn, past
<1>6. CASE StoreUser
  <2>1. User(count.turn) \in Row /\ User(count.turn).role = "user"
    BY <1>0 DEF User, Row, Finish, Counts
  <2>2. RowInv'
    BY <1>0, <1>6, <2>1, PlainAppendKeeps DEF StoreUser
  <2>3. Placed' /\ Asked'
    BY <1>0, <1>6 DEF StoreUser, msg, Placed, Asked, Streaming, Settling
  <2> QED
    BY <2>2, <2>3
<1>7. CASE NotAsked
  BY <1>0, <1>7, CountTyped, EndPlaced, SameRowsKeep DEF NotAsked, vars, store, msg, turn, past
<1>8. CASE Ask
  <2>1. count' \in Counts /\ count'.round = count.round + 1 /\ rows' = rows
        /\ round' = count'.round /\ pc' = "asked" /\ count.round < MaxRound
    BY <1>0, <1>8, CountTyped DEF Ask, store
  <2>2. RowInv'
    BY <1>0, <2>1, SameRowsKeep
  <2>3. \A i \in 1..Len(rows) : rows[i].role \in {"assistant", "tool"} => rows[i].of # round'
    BY <1>0, <2>1 DEF RowInv, Numbered
  <2>4. round' \in Round
    BY <1>0, <2>1, TurnAssumption DEF Round
  <2> QED
    BY <2>1, <2>2, <2>3, <2>4 DEF Placed, Asked, Streaming, Settling
<1>9. CASE CreateRow
  <2>1. RowInv'
    BY <1>0, <1>9, MessageAppendKeeps DEF CreateRow
  <2>2. Assistant(round, {}, "none") \in Row
    BY <1>0, RowTypes DEF TypeOK, Finish
  <2>3. Len(rows') = Len(rows) + 1 /\ rows'[Len(rows) + 1] = Assistant(round, {}, "none")
    BY <1>0, <1>9, <2>2, AppendRow DEF CreateRow, TypeOK
  <2>4. rows'[at'].role = "assistant" /\ rows'[at'].of = round
    BY <1>9, <2>3 DEF CreateRow, Assistant
  <2> QED
    BY <1>0, <1>9, <2>1, <2>3, <2>4 DEF CreateRow, Placed, Asked, Streaming, Settling
<1>10. CASE NoRow
  BY <1>0, <1>10, CountTyped, EndPlaced, SameRowsKeep DEF NoRow, vars, store, msg, turn, past
<1>11. ASSUME NEW cs \in SUBSET Call, NEW f \in Finish, NEW next \in {"stream", "usage"},
            Event(cs, f, next)
     PROVE  Placed' /\ Asked' /\ RowInv'
  <2>1. pc \in Streaming /\ pc' \in Streaming /\ UNCHANGED <<round, at>>
    BY <1>11 DEF Event, Streaming
  <2>2. CASE rows' = Stored(cs, f) /\ UNCHANGED <<count, torn>>
    BY <1>0, <2>1, <2>2, RewriteStage DEF StoreOrLose
  <2>3. CASE UNCHANGED <<rows, count>>
    BY <1>0, <2>1, <2>3, SameStage
  <2>4. CASE Fault /\ UNCHANGED rows
    BY <1>0, <2>1, <2>4, CountTyped, SameStage
  <2> QED
    BY <1>11, <2>2, <2>3, <2>4 DEF Event
<1>12. CASE AnnounceCall
  <2>1. PICK c \in Call : Event(1..c, fin, "stream")
    BY <1>12 DEF AnnounceCall
  <2>2. 1..c \in SUBSET Call /\ fin \in Finish
    BY <1>0, TurnAssumption DEF Call, TypeOK
  <2> QED
    BY <2>1, <2>2, <1>11
<1>13. CASE Complete
  <2>1. PICK m \in 0..MaxCall, f \in {"tool_use", "end"} : Event(1..m, f, "usage")
    BY <1>13 DEF Complete
  <2>2. 1..m \in SUBSET Call /\ f \in Finish
    BY TurnAssumption DEF Call, Finish
  <2> QED
    BY <2>1, <2>2, <1>11
<1>14. CASE StreamFails
  <2>1. pc \in Streaming /\ pc' \in Streaming /\ UNCHANGED <<round, at>>
    BY <1>14 DEF StreamFails, Streaming
  <2>2. StoreOrLose(mem, "error") \/ UNCHANGED <<rows, count>>
    BY <1>14 DEF StreamFails
  <2> QED
    BY <1>0, <2>1, <2>2, RewriteStage, SameStage DEF Finish
<1>15. CASE StreamCancelled
  <2>1. pc \in Streaming /\ pc' \in Streaming /\ UNCHANGED <<round, at>>
    BY <1>15 DEF StreamCancelled, Streaming
  <2>2. StoreOrLose(mem, "canceled") \/ UNCHANGED <<rows, count>>
    BY <1>15 DEF StreamCancelled
  <2> QED
    BY <1>0, <2>1, <2>2, RewriteStage, SameStage DEF Finish
<1>16. CASE TrackUsage
  BY <1>0, <1>16, SameStage DEF TrackUsage, Streaming, vars, store, msg, turn, past
<1>17. CASE UsageFails
  BY <1>0, <1>17, CountTyped, SameStage DEF UsageFails, Streaming, vars, store, msg, turn, past
<1>18. CASE Abort
  <2>1. pc \in Streaming
    BY <1>18 DEF Abort, Streaming
  <2>2. \/ rows' = Append(rows, Answers(round, mem)) /\ count' = count
        \/ rows' = rows /\ count' \in Counts /\ count'.round = count.round
    BY <1>0, <1>18, CountTyped DEF Abort
  <2>3. CASE failure = "cancel"
    <3>1. pc' \in Settling /\ UNCHANGED <<round, at>>
      BY <1>18, <2>3 DEF Abort, Settling, msg
    <3> QED
      BY <1>0, <2>1, <2>2, <3>1, AnswerStage, SameStage
  <2>4. CASE failure # "cancel"
    <3>1. End
      BY <1>18, <2>4 DEF Abort
    <3> QED
      BY <1>0, <2>1, <2>2, <3>1, AnswerStage, EndPlaced, SameRowsKeep
  <2> QED
    BY <2>3, <2>4
<1>19. CASE MarkCanceled
  BY <1>0, <1>19, RewriteStage DEF MarkCanceled, Settling, Finish
<1>20. CASE StartTools
  <2>1. UNCHANGED <<rows, count>> /\ pc \in Streaming
    BY <1>20 DEF StartTools, store, Streaming
  <2>2. CASE mem = {}
    BY <1>0, <1>20, <2>1, <2>2, EndPlaced, SameRowsKeep DEF StartTools
  <2>3. CASE mem # {}
    BY <1>0, <1>20, <2>1, <2>3, SameStage DEF StartTools, Streaming, msg
  <2> QED
    BY <2>2, <2>3
<1>21. CASE ToolsDone
  BY <1>0, <1>21, SameStage DEF ToolsDone, Streaming, vars, store, msg, turn, past
<1>22. ASSUME NEW c \in Call, RunCall(c) PROVE Placed' /\ Asked' /\ RowInv'
  BY <1>0, <1>22, SameStage DEF RunCall, vars, store, msg, turn, past
<1>23. ASSUME NEW c \in Call, Deny(c) PROVE Placed' /\ Asked' /\ RowInv'
  BY <1>0, <1>23, SameStage DEF Deny, Streaming, vars, store, msg, turn, past
<1>24. ASSUME NEW c \in Call, CancelTools(c) PROVE Placed' /\ Asked' /\ RowInv'
  BY <1>0, <1>24, RewriteStage DEF CancelTools, Streaming, Finish
<1>25. CASE StoreResults
  <2>1. pc \in Streaming /\ rows' = Append(rows, Answers(round, mem)) /\ count' = count
    BY <1>25 DEF StoreResults, Streaming
  <2>2. CASE End
    BY <1>0, <2>1, <2>2, AnswerStage
  <2>3. CASE pc' \in {"denied", "ask", "overflow"} /\ UNCHANGED <<msg, cancelled>>
    <3>1. pc' \in Settling \union {"ask"} /\ UNCHANGED <<round, at>>
      BY <2>3 DEF Settling, msg
    <3> QED
      BY <1>0, <2>1, <3>1, AnswerStage
  <2> QED
    BY <1>25, <2>2, <2>3 DEF StoreResults
<1>26. CASE ResultsFail
  BY <1>0, <1>26, CountTyped, EndPlaced, SameRowsKeep DEF ResultsFail, vars, store, msg, turn, past
<1>27. CASE MarkDenied
  BY <1>0, <1>27, RewriteStage DEF MarkDenied, Settling, Finish
<1>28. CASE Overflow
  BY <1>0, <1>28, RewriteStage DEF Overflow, Settling, Finish
<1>29. CASE Compact
  BY <1>0, <1>29, CountTyped, SameStage DEF Compact, vars, store, msg, turn, past
<1>30. ASSUME NEW n \in 1..MaxCompaction, CompactLists(n) PROVE Placed' /\ Asked' /\ RowInv'
  BY <1>0, <1>30, SameStage DEF CompactLists, vars, store, msg, turn, past
<1>31. ASSUME NEW n \in 1..MaxCompaction, CompactStores(n) PROVE Placed' /\ Asked' /\ RowInv'
  <2>1. Summary(n) \in Row /\ Summary(n).role = "summary"
    BY DEF Summary, Row, Finish
  <2>2. /\ Len(rows') = Len(rows) + 1 /\ rows'[Len(rows) + 1].role = "summary"
        /\ \A i \in 1..Len(rows) : rows'[i] = rows[i]
    BY <1>0, <1>31, <2>1, AppendRow DEF CompactStores, TypeOK
  <2>3. RowInv' /\ Answered' = Answered
    BY <1>0, <1>31, <2>1, PlainAppendKeeps DEF CompactStores
  <2>4. UNCHANGED <<pc, round, at, count>>
    BY <1>31 DEF CompactStores, turn, msg
  <2>5. Placed'
    BY <1>0, <2>2, <2>4 DEF Placed
  <2>6. Asked'
    BY <1>0, <2>2, <2>3, <2>4 DEF Asked
  <2> QED
    BY <2>3, <2>5, <2>6
<1>32. ASSUME NEW n \in 1..MaxCompaction, CompactSaves(n) PROVE Placed' /\ Asked' /\ RowInv'
  BY <1>0, <1>32, SameStage DEF CompactSaves, vars, store, msg, turn, past
<1>33. ASSUME NEW n \in 1..MaxCompaction, CompactFails(n) PROVE Placed' /\ Asked' /\ RowInv'
  BY <1>0, <1>33, SameStage DEF CompactFails, vars, store, msg, turn, past
<1>34. CASE Crash
  BY <1>0, <1>34, CountTyped, EndPlaced, SameRowsKeep DEF Crash, vars, store, msg, turn, past
<1> QED
  BY <1>1, <1>2, <1>3, <1>4, <1>5, <1>6, <1>7, <1>8, <1>9, <1>10, <1>11, <1>12, <1>13, <1>14, <1>15, <1>16, <1>17, <1>18, <1>19, <1>20, <1>21, <1>22, <1>23, <1>24, <1>25, <1>26, <1>27, <1>28, <1>29, <1>30, <1>31, <1>32, <1>33, <1>34
  DEF Next, TurnStep, Generate, Stream, GiveUp, Tools, Settle, Compaction

LEMMA InitInv == Init => Inv
<1> SUFFICES ASSUME Init PROVE Inv
  OBVIOUS
<1>1. TypeOK
  <2>1. /\ covers \in Covers /\ count \in Counts
        /\ cpc \in [1..MaxCompaction -> {"none", "started", "asked", "stored"}]
    BY TurnAssumption DEF Init, Covers, Nothing, Counts, NoCompaction
  <2>2. result \in [Call -> Result]
    BY DEF Init, NoResult, Result
  <2>3. rows \in Seq(Row) /\ Len(rows) = 0
    BY DEF Init
  <2>4. summary \in 0..MaxCompaction /\ round \in 0..MaxRound /\ at \in 0..Len(rows)
    BY <2>3, TurnAssumption DEF Init
  <2>5. mem \subseteq Call /\ torn \subseteq Round /\ fin \in Finish
    BY DEF Init, Finish
  <2> QED
    BY <2>1, <2>2, <2>3, <2>4, <2>5 DEF Init, TypeOK
<1>2. Placed /\ Asked
  BY DEF Init, Placed, Asked, Streaming, Settling
<1>3. RowInv
  BY DEF Init, RowInv, Numbered, OneMessage, AnsweredOnceInPlace, ToolRows
<1> QED
  BY <1>1, <1>2, <1>3 DEF Inv

LEMMA Invariance == Spec => []Inv
<1>1. Inv /\ [Next]_vars => Inv'
  BY NextTyped, NextPlaced DEF Inv
<1> QED
  BY InitInv, <1>1, PTL DEF Spec

\* The variables of the conversation, its turn and its compaction keep their types.
THEOREM TypeCorrect == Spec => []TypeOK
<1>1. Inv => TypeOK
  BY DEF Inv
<1> QED
  BY <1>1, Invariance, PTL

\* Every tool call is answered at most once, by the row after its own, whatever
\* cancellation, failed write or death interrupts the round (agent.go: streamAndHandleEvents,
\* cancelPendingToolCalls).
THEOREM AnsweredOnce == Spec => []AnsweredOnceInPlace
<1>1. Inv => AnsweredOnceInPlace
  BY DEF Inv, RowInv
<1> QED
  BY <1>1, Invariance, PTL

-----------------------------------------------------------------------------
(* The rounds keep ToolRounds' promise. *)

Same     == Answered' = Answered /\ count'.round = count.round /\ round' \in {0, round}
Answering == /\ pc \in Streaming /\ Answered' = Answered \union {round}
             /\ count'.round = count.round /\ round' \in {0, round}
Asking   == /\ pc = "ask" /\ Answered' = Answered /\ count.round < MaxRound
            /\ count'.round = count.round + 1 /\ round' = count'.round

\* What a step does to the rounds: nothing or giving one up, answering one, or
\* asking for one.
LEMMA RoundStep == Inv /\ [Next]_vars => Same \/ Answering \/ Asking
<1> SUFFICES ASSUME Inv, [Next]_vars PROVE Same \/ Answering \/ Asking
  OBVIOUS
<1>0. /\ TypeOK /\ Placed /\ Asked /\ RowInv
      /\ count \in Counts /\ count.round \in Nat /\ mem \in SUBSET Call
  BY DEF Inv, TypeOK, Counts
<1>a. rows' = rows => Answered' = Answered
  BY DEF Answered, ToolRows
<1>b. Fault => count'.round = count.round
  BY <1>0, CountTyped
<1>c. End => round' = 0
  BY DEF End
<1>d. rows' = rows /\ count'.round = count.round /\ (round' = round \/ End) => Same
  BY <1>a, <1>c DEF Same
<1>e. ASSUME pc \in Streaming \union Settling, NEW cs \in SUBSET Call, NEW f \in Finish,
             StoreOrLose(cs, f), round' = round \/ End
      PROVE  Same
  <2>1. count'.round = count.round
    BY <1>e, <1>b DEF StoreOrLose
  <2>2. Answered' = Answered
    BY <1>0, <1>e, <1>a, <2>1, RewriteKeeps DEF StoreOrLose
  <2> QED
    BY <1>e, <2>1, <2>2, <1>c DEF Same
<1>f. ASSUME pc \in Streaming, rows' = Append(rows, Answers(round, mem)), count' = count,
             round' = round \/ End
      PROVE  Answering
  BY <1>0, <1>f, <1>c, AnswerAppendKeeps DEF Answering
<1>1. CASE UNCHANGED vars
  BY <1>1, <1>d DEF vars, store, msg, turn, past
<1>2. CASE Begin
  BY <1>0, <1>2, <1>d, CountTyped DEF Begin, vars, store, msg, turn, past
<1>3. CASE Cancel
  BY <1>3, <1>d DEF Cancel, store, msg
<1>4. CASE Load \/ Slice
  BY <1>4, <1>d DEF Load, Slice, store, msg
<1>5. CASE StoreUser
  <2>1. User(count.turn) \in Row /\ User(count.turn).role = "user"
    BY <1>0 DEF User, Row, Finish, Counts
  <2> QED
    BY <1>0, <1>5, <2>1, PlainAppendKeeps DEF StoreUser, Same, msg
<1>6. CASE NotAsked \/ NoRow
  BY <1>6, <1>b, <1>d DEF NotAsked, NoRow, store
<1>7. CASE Ask
  BY <1>0, <1>7, <1>a, CountTyped DEF Ask, Asking, store
<1>8. CASE CreateRow
  BY <1>0, <1>8, MessageAppendKeeps DEF CreateRow, Same
<1>9. ASSUME NEW cs \in SUBSET Call, NEW f \in Finish, NEW next, Event(cs, f, next)
      PROVE  Same
  <2>1. CASE rows' = Stored(cs, f) /\ UNCHANGED <<count, torn>>
    BY <1>9, <2>1, <1>e DEF Event, StoreOrLose, Streaming
  <2>2. CASE UNCHANGED rows /\ (Fault \/ UNCHANGED count)
    BY <1>9, <2>2, <1>b, <1>d DEF Event
  <2> QED
    BY <1>9, <2>1, <2>2 DEF Event
<1>10. CASE AnnounceCall
  <2>1. PICK c \in Call : Event(1..c, fin, "stream")
    BY <1>10 DEF AnnounceCall
  <2>2. 1..c \in SUBSET Call /\ fin \in Finish
    BY <1>0, TurnAssumption DEF Call, TypeOK
  <2> QED
    BY <2>1, <2>2, <1>9
<1>11. CASE Complete
  <2>1. PICK m \in 0..MaxCall, f \in {"tool_use", "end"} : Event(1..m, f, "usage")
    BY <1>11 DEF Complete
  <2>2. 1..m \in SUBSET Call /\ f \in Finish
    BY TurnAssumption DEF Call, Finish
  <2> QED
    BY <2>1, <2>2, <1>9
<1>12. CASE StreamFails
  <2>1. pc \in Streaming /\ round' = round
    BY <1>12 DEF StreamFails, Streaming
  <2>2. StoreOrLose(mem, "error") \/ UNCHANGED <<rows, count>>
    BY <1>12 DEF StreamFails
  <2> QED
    BY <1>0, <2>1, <2>2, <1>d, <1>e DEF Finish
<1>13. CASE StreamCancelled
  <2>1. pc \in Streaming /\ round' = round
    BY <1>13 DEF StreamCancelled, Streaming
  <2>2. StoreOrLose(mem, "canceled") \/ UNCHANGED <<rows, count>>
    BY <1>13 DEF StreamCancelled
  <2> QED
    BY <1>0, <2>1, <2>2, <1>d, <1>e DEF Finish
<1>14. CASE TrackUsage
  BY <1>14, <1>d DEF TrackUsage, store, msg
<1>15. CASE UsageFails
  BY <1>15, <1>b, <1>d DEF UsageFails, store
<1>16. CASE Abort
  <2>1. pc \in Streaming /\ (round' = round \/ End)
    BY <1>16 DEF Abort, Streaming, msg
  <2>2. \/ rows' = Append(rows, Answers(round, mem)) /\ count' = count
        \/ rows' = rows /\ count'.round = count.round
    BY <1>0, <1>16, <1>b DEF Abort
  <2> QED
    BY <2>1, <2>2, <1>d, <1>f
<1>17. CASE MarkCanceled \/ MarkDenied \/ Overflow
  BY <1>0, <1>17, <1>e DEF MarkCanceled, MarkDenied, Overflow, Settling, Finish
<1>18. CASE StartTools
  BY <1>18, <1>d DEF StartTools, store, msg
<1>19. CASE ToolsDone
  BY <1>19, <1>d DEF ToolsDone, store, msg
<1>20. ASSUME NEW c \in Call, RunCall(c) \/ Deny(c) PROVE Same
  BY <1>20, <1>d DEF RunCall, Deny, store
<1>21. ASSUME NEW c \in Call, CancelTools(c) PROVE Same
  BY <1>0, <1>21, <1>e DEF CancelTools, Streaming, Finish
<1>22. CASE StoreResults
  <2>1. /\ pc \in Streaming /\ rows' = Append(rows, Answers(round, mem)) /\ count' = count
        /\ round' = round \/ End
    BY <1>22 DEF StoreResults, Streaming, msg
  <2> QED
    BY <2>1, <1>f
<1>23. CASE ResultsFail
  BY <1>23, <1>b, <1>d DEF ResultsFail, store
<1>24. CASE Compact
  BY <1>0, <1>24, <1>d, CountTyped DEF Compact, store, msg, turn
<1>25. ASSUME NEW n \in 1..MaxCompaction, CompactStores(n) PROVE Same
  <2>1. Summary(n) \in Row /\ Summary(n).role = "summary"
    BY DEF Summary, Row, Finish
  <2>2. count' = count /\ round' = round
    BY <1>25 DEF CompactStores, turn, msg
  <2> QED
    BY <1>0, <1>25, <2>1, <2>2, PlainAppendKeeps DEF CompactStores, Same
<1>26. ASSUME NEW n \in 1..MaxCompaction, CompactLists(n) \/ CompactSaves(n) \/ CompactFails(n)
      PROVE  Same
  BY <1>26, <1>d DEF CompactLists, CompactSaves, CompactFails, store, msg, turn
<1>27. CASE Crash
  BY <1>27, <1>b, <1>d DEF Crash, store
<1> QED
  BY <1>1, <1>2, <1>3, <1>4, <1>5, <1>6, <1>7, <1>8, <1>10, <1>11, <1>12, <1>13, <1>14, <1>15,
     <1>16, <1>17, <1>18, <1>19, <1>20, <1>21, <1>22, <1>23, <1>24, <1>25, <1>26, <1>27
  DEF Next, TurnStep, Generate, Stream, GiveUp, Tools, Settle, Compaction

\* Every step of the conversation is a step of its rounds, or none.
LEMMA RoundRefined == Inv /\ [Next]_vars => [Rounds!Next]_Phases
<1> SUFFICES ASSUME Inv, [Next]_vars PROVE [Rounds!Next]_Phases
  OBVIOUS
<1>0. /\ count.round \in Nat /\ MaxRound \in Nat /\ round \in Nat
      /\ Numbered
      /\ \A r \in Answered : r \in 1..count.round
  <2>1. TypeOK /\ Numbered
    BY DEF Inv, RowInv
  <2> QED
    BY <2>1, TurnAssumption DEF TypeOK, Counts, Numbered, Answered, ToolRows
<1>1. CASE Same
  <2>1. CASE round' = round
    BY <1>1, <2>1 DEF Same, Phases, Phase
  <2>2. CASE round' = 0 /\ (round = 0 \/ round \in Answered \/ round > count.round)
    <3>1. \A r \in Round : Phase(r, Answered)' = Phase(r, Answered)
      BY <1>0, <1>1, <2>2 DEF Same, Phase, Round
    <3> QED
      BY <3>1 DEF Phases
  <2>3. CASE round' = 0 /\ round # 0 /\ round \notin Answered /\ round <= count.round
    <3>1. round \in Round
      <4>1. round \in 0..MaxRound
        BY DEF Inv, TypeOK
      <4> QED
        BY <4>1, <2>3, TurnAssumption DEF Round
    <3>2. Phases[round] = "open"
      BY <3>1, <2>3, <1>0 DEF Phases, Phase
    <3>3. Phases' = [Phases EXCEPT ![round] = "left"]
      <4>1. \A r \in Round : Phase(r, Answered)' = IF r = round THEN "left" ELSE Phase(r, Answered)
        BY <1>0, <1>1, <2>3, <3>1 DEF Same, Phase, Round
      <4> QED
        BY <4>1 DEF Phases
    <3> QED
      BY <3>1, <3>2, <3>3 DEF Rounds!Next, Rounds!Close, Rounds!Round, Round, Phases
  <2> QED
    BY <1>0, <1>1, <2>1, <2>2, <2>3 DEF Same
<1>2. CASE Answering
  <2>1. round \notin Answered /\ round \in Round /\ round = count.round
    BY <1>2, NotAnsweredYet DEF Inv, Placed, Answering
  <2>2. Phases[round] = "open"
    BY <2>1, <1>0 DEF Phases, Phase
  <2>3. Phases' = [Phases EXCEPT ![round] = "answered"]
    <3>1. \A r \in Round : Phase(r, Answered)' = IF r = round THEN "answered" ELSE Phase(r, Answered)
      BY <1>0, <1>2, <2>1 DEF Answering, Phase, Round
    <3> QED
      BY <3>1 DEF Phases
  <2> QED
    BY <2>1, <2>2, <2>3 DEF Rounds!Next, Rounds!Close, Rounds!Round, Round, Phases
<1>3. CASE Asking
  <2>1. round = 0 \/ round \in Answered
    BY <1>3 DEF Inv, Asked, Asking
  <2> DEFINE n == count.round + 1
  <2>2. n \in Round /\ n \notin Answered
    BY <1>0, <1>3 DEF Asking, Round
  <2>3. Phases[n] = "none"
    BY <2>2, <1>0 DEF Phases, Phase
  <2>4. \A q \in Round : q < n => Phases[q] \in {"answered", "left"}
    BY <2>1, <1>0 DEF Phases, Phase, Round
  <2>5. Phases' = [Phases EXCEPT ![n] = "open"]
    <3>1. \A r \in Round : Phase(r, Answered)' = IF r = n THEN "open" ELSE Phase(r, Answered)
      BY <1>0, <1>3, <2>1, <2>2 DEF Asking, Phase, Round
    <3> QED
      BY <3>1 DEF Phases
  <2> HIDE DEF n
  <2> QED
    BY <2>2, <2>3, <2>4, <2>5 DEF Rounds!Next, Rounds!Open, Rounds!Round, Round, Phases
<1> QED
  BY <1>1, <1>2, <1>3, RoundStep

\* The conversation implements ToolRounds: its requests are made one after the other and
\* each is closed once, with its results or without (agent.go: streamAndHandleEvents).
THEOREM RoundsKept == Spec => KeepsRounds
<1>1. Init => Rounds!Init
  BY DEF Init, Rounds!Init, Rounds!Round, Round, Phases, Phase, Answered, ToolRows
<1> QED
  BY <1>1, RoundRefined, Invariance, PTL DEF Spec, KeepsRounds, Rounds!Spec
=============================================================================
