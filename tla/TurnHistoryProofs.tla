------------------------- MODULE TurnHistoryProofs -------------------------
(* More about Turn: what is left of a round when it is over, and what a compaction covers. *)
EXTENDS TurnProofs, WellFoundedInduction, SequenceTheorems

-----------------------------------------------------------------------------
(* What is stored of a round, and what memory holds of it. *)

Message == {i \in 1..Len(rows) : rows[i].role = "assistant"}

\* A message that needs nothing more.
Done(i) == /\ rows[i].fin # "none"
           /\ rows[i].calls # {} =>
                \E j \in ToolRows : rows[j].of = rows[i].of /\ rows[j].calls = rows[i].calls

\* What memory holds of the round under way is stored, or the round was torn.  A round
\* cancelled in its stream may hold more; it is written again at its end (`mark`).
Written == rows[at].calls = mem /\ rows[at].fin # "none"
Memory ==
  /\ pc = "asked" => mem = {}
  /\ pc = "stream" => rows[at].calls = mem
  /\ pc \in {"usage", "streamed", "tools", "results"} \/ (pc = "abort" /\ failure # "cancel")
       => Written \/ round \in torn
  /\ pc \in Settling => \A j \in ToolRows : rows[j].of = round => rows[j].calls = mem
  /\ pc \in {"denied", "overflow"} => round \in Answered
  /\ pc = "mark" => mem = {} \/ round \in Answered \/ round \in torn

\* Rounds that are over.  One whose results are stored is over when the turn asks again.
Passed(r) == r # round \/ pc = "ask"
Finished  == \A i \in Message : Passed(rows[i].of) => rows[i].of \in torn \/ Done(i)

\* The results stored fit the calls stored.
Excused(r) == r \in torn \/ (r = round /\ pc = "mark")
Fit == \A i \in Message, j \in ToolRows :
  rows[j].of = rows[i].of => rows[j].calls \subseteq rows[i].calls \/ Excused(rows[i].of)

\* What the front end prints as refused has its results.
Told == \A i \in 1..Len(rows) :
  rows[i].fin = "denied" => rows[i].role = "assistant" /\ rows[i].of \in Answered

\* The calls are attempted in their order, and none after a denied one.
InOrder ==
  /\ pc \in {"asked", "stream", "usage", "streamed"} => result = NoResult
  /\ pc = "tools" => \A c \in mem :
       /\ result[c] # "denied"
       /\ result[c] = "none" => \A d \in mem : c < d => result[d] = "none"
  /\ DenialStopsTheRest

HInv == Memory /\ Finished /\ Fit /\ Told /\ InOrder

-----------------------------------------------------------------------------
(* Compactions. *)

Quiet(n)  == ~covers[n].beside
SummaryRow == {k \in 1..Len(rows) : rows[k].role = "summary"}
Latest == count.compaction

\* A compaction makes one summary.  Until a turn begins beside it, none runs, and only
\* summaries are stored after what it read.
Making ==
  /\ \A k \in SummaryRow : rows[k].of \in 1..Latest
  /\ \A n \in 1..MaxCompaction : cpc[n] # "none" =>
       /\ n <= Latest
       /\ Quiet(n) => pc = "idle"
       /\ cpc[n] # "stored" => \A k \in SummaryRow : rows[k].of # n
       /\ cpc[n] = "asked" /\ Quiet(n) =>
            \A i \in covers[n].seen + 1 .. Len(rows) : i \in SummaryRow

\* A quiet summary was made of all rows before it that are no summaries, and rounds begun
\* since come after it.
Kept ==
  \A k \in SummaryRow : Quiet(rows[k].of) =>
    /\ \A i \in covers[rows[k].of].seen + 1 .. k - 1 : i \in SummaryRow
    /\ pc \in Streaming => k < at
    /\ \A i \in 1..k - 1, j \in k + 1 .. Len(rows) : ~AnswersTo(j, i)

CInv == Making /\ Kept

-----------------------------------------------------------------------------
(* What a step can do to the rows. *)

\* Rows of a round, by number.
LEMMA RowFacts ==
  ASSUME TypeOK, RowInv
  PROVE  /\ Len(rows) \in Nat /\ Message \subseteq 1..Len(rows) /\ ToolRows \subseteq 1..Len(rows)
         /\ \A i \in Message : rows[i].of # 0
         /\ \A i, k \in Message : rows[i].of = rows[k].of => i = k
         /\ \A i \in 1..Len(rows) : rows[i] \in Row
<1>1. \A n \in 1..count.round : n # 0
  BY DEF TypeOK, Counts
<1>2. Len(rows) \in Nat /\ \A i \in 1..Len(rows) : rows[i] \in Row
  BY DEF TypeOK
<1> QED
  BY <1>1, <1>2 DEF RowInv, Numbered, OneMessage, Message, ToolRows

\* Nothing, a user's message or a summary is added.
Plain == \/ rows' = rows
         \/ \E e \in Row : /\ e.role \in {"user", "summary"} /\ e.fin # "denied"
                           /\ rows' = Append(rows, e)

\* Such a step moves no round's row.
LEMMA PlainRows ==
  ASSUME TypeOK, RowInv, Plain
  PROVE  /\ Message' = Message /\ ToolRows' = ToolRows /\ Answered' = Answered
         /\ \A i \in 1..Len(rows) : rows'[i] = rows[i]
         /\ \A i \in 1..Len(rows') : rows'[i].fin = "denied" => i \in 1..Len(rows)
<1>1. CASE rows' = rows
  BY <1>1 DEF Message, ToolRows, Answered
<1>2. ASSUME NEW e \in Row, e.role \in {"user", "summary"}, e.fin # "denied",
             rows' = Append(rows, e)
      PROVE  /\ Message' = Message /\ ToolRows' = ToolRows
             /\ \A i \in 1..Len(rows) : rows'[i] = rows[i]
             /\ \A i \in 1..Len(rows') : rows'[i].fin = "denied" => i \in 1..Len(rows)
  <2>1. /\ Len(rows') = Len(rows) + 1 /\ rows'[Len(rows) + 1] = e /\ Len(rows) \in Nat
        /\ \A i \in 1..Len(rows) : rows'[i] = rows[i]
    BY <1>2, AppendRow DEF TypeOK
  <2>2. Message' = Message /\ ToolRows' = ToolRows
    BY <1>2, <2>1 DEF Message, ToolRows
  <2> QED BY <1>2, <2>1, <2>2
<1>3. CASE \E e \in Row : e.role \in {"user", "summary"} /\ e.fin # "denied"
                          /\ rows' = Append(rows, e)
  <2>1. /\ Message' = Message /\ ToolRows' = ToolRows
        /\ \A i \in 1..Len(rows) : rows'[i] = rows[i]
        /\ \A i \in 1..Len(rows') : rows'[i].fin = "denied" => i \in 1..Len(rows)
    BY <1>2, <1>3
  <2>2. Answered' = Answered
    BY <2>1, RowFacts DEF Answered
  <2> QED BY <2>1, <2>2
<1> QED
  BY <1>1, <1>3 DEF Plain

\* The message of the round under way is written again.
LEMMA RewrittenRows ==
  ASSUME TypeOK, Placed, RowInv, pc \in Streaming \union Settling, NEW cs \in SUBSET Call,
         NEW f \in Finish, rows' = Stored(cs, f)
  PROVE  /\ Message' = Message /\ ToolRows' = ToolRows /\ Answered' = Answered
         /\ at \in Message /\ rows[at].of = round /\ rows'[at] = Assistant(round, cs, f)
         /\ Len(rows') = Len(rows)
         /\ \A i \in 1..Len(rows) : i # at => rows'[i] = rows[i]
         /\ \A j \in ToolRows : rows'[j] = rows[j]
<1>1. /\ Len(rows') = Len(rows) /\ rows'[at] = Assistant(round, cs, f)
      /\ at \in 1..Len(rows) /\ rows[at].role = "assistant" /\ rows[at].of = round
      /\ \A i \in 1..Len(rows) : i # at => rows'[i] = rows[i]
  BY StoredRow DEF Placed, TypeOK
<1>2. at \in Message /\ at \notin ToolRows
  BY <1>1 DEF Message, ToolRows
<1>3. Message' = Message /\ ToolRows' = ToolRows
  BY <1>1 DEF Message, ToolRows, Assistant
<1>4. \A j \in ToolRows : rows'[j] = rows[j]
  BY <1>1, <1>2 DEF ToolRows
<1>5. Answered' = Answered
  BY <1>3, <1>4 DEF Answered
<1> QED
  BY <1>1, <1>2, <1>3, <1>4, <1>5

\* A row of a round is added.
LEMMA AddedRow ==
  ASSUME TypeOK, RowInv, NEW e \in Row, rows' = Append(rows, e)
  PROVE  LET n == Len(rows) + 1 IN
         /\ n \notin 1..Len(rows) /\ rows'[n] = e /\ \A i \in 1..Len(rows) : rows'[i] = rows[i]
         /\ e.role = "assistant" => Message' = Message \union {n} /\ ToolRows' = ToolRows
                                    /\ Answered' = Answered
         /\ e.role = "tool" => Message' = Message /\ ToolRows' = ToolRows \union {n}
                               /\ Answered' = Answered \union {e.of}
         /\ \A i \in 1..Len(rows') : i \in 1..Len(rows) \/ i = n
<1> DEFINE n == Len(rows) + 1
<1>1. /\ n \notin 1..Len(rows) /\ rows'[n] = e /\ Len(rows') = n
      /\ 1..n = (1..Len(rows)) \union {n}
      /\ \A i \in 1..Len(rows) : rows'[i] = rows[i]
  BY AppendRow DEF TypeOK
<1> HIDE DEF n
<1>2. Message' = {i \in 1..Len(rows) : rows[i].role = "assistant"}
                   \union (IF e.role = "assistant" THEN {n} ELSE {})
  BY <1>1 DEF Message
<1>3. ToolRows' = {i \in 1..Len(rows) : rows[i].role = "tool"}
                   \union (IF e.role = "tool" THEN {n} ELSE {})
  BY <1>1 DEF ToolRows
<1>4. \A j \in ToolRows : rows'[j].of = rows[j].of
  BY <1>1 DEF ToolRows
<1>5. e.role = "assistant" => Message' = Message \union {n} /\ ToolRows' = ToolRows
  BY <1>2, <1>3 DEF Message, ToolRows
<1>6. e.role = "tool" => Message' = Message /\ ToolRows' = ToolRows \union {n}
  BY <1>2, <1>3 DEF Message, ToolRows
<1>7. e.role = "assistant" => Answered' = Answered
  BY <1>4, <1>5 DEF Answered
<1>8. e.role = "tool" => Answered' = Answered \union {e.of}
  <2> SUFFICES ASSUME e.role = "tool" PROVE Answered' = Answered \union {e.of}
    OBVIOUS
  <2>1. Answered' = {rows'[j].of : j \in ToolRows \union {n}}
    BY <1>6 DEF Answered
  <2>2. rows'[n].of = e.of
    BY <1>1
  <2> QED
    BY <1>4, <2>1, <2>2 DEF Answered
<1> QED
  BY <1>1, <1>5, <1>6, <1>7, <1>8 DEF n

-----------------------------------------------------------------------------
(* What such a step leaves of Finished, Fit and Told. *)

Past == Finished /\ Fit /\ Told

\* A step that writes no round's row.
LEMMA PlainKeepsPast ==
  ASSUME TypeOK, RowInv, Past, Plain, torn \subseteq torn',
         \A i \in Message : rows[i].of # round' \/ pc' = "ask" =>
           Passed(rows[i].of) \/ rows[i].of \in torn' \/ Done(i),
         pc = "mark" => round \in torn' \/ (round' = round /\ pc' = "mark")
  PROVE  Past'
<1>1. /\ Message' = Message /\ ToolRows' = ToolRows /\ Answered' = Answered
      /\ \A i \in 1..Len(rows) : rows'[i] = rows[i]
      /\ \A i \in 1..Len(rows') : rows'[i].fin = "denied" => i \in 1..Len(rows)
  BY PlainRows
<1>2. \A i \in Message : rows'[i] = rows[i]
  BY <1>1, RowFacts
<1>3. \A j \in ToolRows : rows'[j] = rows[j]
  BY <1>1, RowFacts
<1>4. \A i \in Message : Done(i) => Done(i)'
  BY <1>1, <1>2, <1>3 DEF Done
<1>5. Finished'
  <2>1. \A i \in Message : rows[i].of # round' \/ pc' = "ask" => rows[i].of \in torn' \/ Done(i)
    BY DEF Past, Finished
  <2> QED BY <1>1, <1>2, <1>4, <2>1 DEF Finished, Passed
<1>6. Fit'
  <2>1. \A i \in Message, j \in ToolRows : rows[j].of = rows[i].of =>
          \/ rows[j].calls \subseteq rows[i].calls \/ rows[i].of \in torn'
          \/ rows[i].of = round' /\ pc' = "mark"
    BY DEF Past, Fit, Excused
  <2> QED BY <1>1, <1>2, <1>3, <2>1 DEF Fit, Excused
<1>7. Told'
  BY <1>1 DEF Past, Told
<1> QED
  BY <1>5, <1>6, <1>7 DEF Past

\* The round goes on.
LEMMA GoesOn ==
  ASSUME TypeOK, RowInv, Past, Plain, torn \subseteq torn', round' = round,
         pc' = pc \/ (pc' # "ask" /\ pc # "mark")
  PROVE  Past'
BY PlainKeepsPast DEF Passed

\* The round is over, or there was none.
LEMMA IsOver ==
  ASSUME TypeOK, RowInv, Past, Plain, torn \subseteq torn', pc = "mark" => round \in torn',
         pc = "ask" \/ round \in torn' \/ \A i \in Message : rows[i].of = round => Done(i)
  PROVE  Past'
BY PlainKeepsPast DEF Passed

\* The message is written again: the results there are fit it, and if the round is over
\* it is done.
LEMMA RewriteKeepsPast ==
  ASSUME TypeOK, Placed, RowInv, Past, pc \in Streaming \union Settling, torn \subseteq torn',
         NEW cs \in SUBSET Call, NEW f \in Finish, rows' = Stored(cs, f),
         f = "denied" => round \in Answered,
         \A j \in ToolRows : rows[j].of = round => rows[j].calls \subseteq cs,
         \/ round' = round /\ pc' # "ask"
         \/ round \in torn'
         \/ /\ f # "none"
            /\ cs # {} => \E j \in ToolRows : rows[j].of = round /\ rows[j].calls = cs
  PROVE  Past'
<1>1. /\ Message' = Message /\ ToolRows' = ToolRows /\ Answered' = Answered
      /\ at \in Message /\ rows[at].of = round /\ rows'[at] = Assistant(round, cs, f)
      /\ Len(rows') = Len(rows)
      /\ \A i \in 1..Len(rows) : i # at => rows'[i] = rows[i]
      /\ \A j \in ToolRows : rows'[j] = rows[j]
  BY RewrittenRows
<1>2. \A i \in Message : i # at => rows'[i] = rows[i] /\ rows[i].of # round
  BY <1>1, RowFacts
<1>3. /\ rows'[at].role = "assistant" /\ rows'[at].of = round
      /\ rows'[at].calls = cs /\ rows'[at].fin = f
  BY <1>1 DEF Assistant
<1>4. \A i \in Message : i # at /\ Done(i) => Done(i)'
  BY <1>1, <1>2 DEF Done
<1> PICK a : a = at
  OBVIOUS
<1>5. round # round' \/ pc' = "ask" => round \in torn' \/ Done(a)'
  BY <1>1, <1>3 DEF Done
<1>6. Finished'
  <2>1. \A i \in Message : i # a => rows[i].of \in torn' \/ Done(i)
    BY <1>2 DEF Past, Finished, Passed
  <2>2. \A i \in Message : i # a => rows'[i].of \in torn' \/ Done(i)'
    BY <1>2, <1>4, <2>1
  <2> QED BY <1>1, <1>3, <1>5, <2>2 DEF Finished, Passed
<1>7. Fit'
  <2>1. \A i \in Message, j \in ToolRows : i # at /\ rows[j].of = rows[i].of =>
          rows[j].calls \subseteq rows[i].calls \/ rows[i].of \in torn'
    BY <1>2 DEF Past, Fit, Excused
  <2>2. \A i \in Message, j \in ToolRows : rows'[j].of = rows'[i].of =>
          rows'[j].calls \subseteq rows'[i].calls \/ rows'[i].of \in torn'
    BY <1>1, <1>2, <1>3, <2>1
  <2> QED BY <1>1, <2>2 DEF Fit, Excused
<1>8. Told'
  BY <1>1, <1>3 DEF Past, Told
<1> QED
  BY <1>6, <1>7, <1>8 DEF Past

\* A new round's message.
LEMMA NewMessageKeepsPast ==
  ASSUME TypeOK, RowInv, Asked, Past, pc = "asked", torn' = torn, round' = round, pc' = "stream",
         rows' = Append(rows, Assistant(round, {}, "none"))
  PROVE  Past'
<1> DEFINE n == Len(rows) + 1
<1>1. /\ n \notin 1..Len(rows) /\ rows'[n] = Assistant(round, {}, "none")
      /\ \A i \in 1..Len(rows) : rows'[i] = rows[i]
      /\ Message' = Message \union {n} /\ ToolRows' = ToolRows /\ Answered' = Answered
      /\ \A i \in 1..Len(rows') : i \in 1..Len(rows) \/ i = n
  <2>1. {} \in SUBSET Call /\ "none" \in Finish /\ round \in Nat
    BY DEF Finish, TypeOK
  <2>2. Assistant(round, {}, "none") \in Row /\ Assistant(round, {}, "none").role = "assistant"
    BY <2>1, RowTypes DEF Assistant
  <2> QED BY <2>2, AddedRow
<1>2. rows'[n].of = round /\ rows'[n].fin = "none"
  BY <1>1 DEF Assistant
<1>3. \A i \in Message \union ToolRows : rows[i].of # round
  BY DEF Asked, Message, ToolRows
<1> HIDE DEF n
<1>4. \A i \in Message \union ToolRows : rows'[i] = rows[i]
  BY <1>1, RowFacts
<1>5. \A i \in Message : Done(i) => Done(i)'
  BY <1>1, <1>4 DEF Done
<1>6. Finished'
  <2>1. \A i \in Message : rows[i].of \in torn \/ Done(i)
    BY <1>3 DEF Past, Finished, Passed
  <2> QED BY <1>1, <1>2, <1>4, <1>5, <2>1 DEF Finished, Passed
<1>7. Fit'
  <2>1. \A i \in Message, j \in ToolRows : rows[j].of = rows[i].of =>
          rows[j].calls \subseteq rows[i].calls \/ rows[i].of \in torn
    BY <1>3 DEF Past, Fit, Excused
  <2>2. \A i \in Message, j \in ToolRows : rows'[j].of = rows'[i].of =>
          rows'[j].calls \subseteq rows'[i].calls \/ rows'[i].of \in torn'
    BY <1>4, <2>1
  <2>3. \A j \in ToolRows : rows'[j].of # rows'[n].of
    BY <1>2, <1>3, <1>4
  <2> QED BY <1>1, <2>2, <2>3 DEF Fit, Excused
<1>8. Told'
  BY <1>1, <1>2 DEF Past, Told
<1> QED
  BY <1>6, <1>7, <1>8 DEF Past

\* The results are stored: they fit the message, or the round is excused.
LEMMA AnswerKeepsPast ==
  ASSUME TypeOK, Placed, RowInv, Past, pc \in Streaming, torn' = torn,
         rows' = Append(rows, Answers(round, mem)),
         Written \/ round \in torn \/ (round' = round /\ pc' = "mark")
  PROVE  /\ Past' /\ round \in Answered'
         /\ \A j \in ToolRows' : rows'[j].of = round => rows'[j].calls = mem
<1> DEFINE n == Len(rows) + 1
<1>1. /\ n \notin 1..Len(rows) /\ rows'[n] = Answers(round, mem)
      /\ \A i \in 1..Len(rows) : rows'[i] = rows[i]
      /\ Message' = Message /\ ToolRows' = ToolRows \union {n}
      /\ Answered' = Answered \union {round}
      /\ \A i \in 1..Len(rows') : i \in 1..Len(rows) \/ i = n
  <2>1. Answers(round, mem) \in Row
    BY RowTypes DEF TypeOK, Finish
  <2>2. Answers(round, mem).role = "tool" /\ Answers(round, mem).of = round
    BY DEF Answers
  <2> QED BY <2>1, <2>2, AddedRow
<1>2. /\ rows'[n].role = "tool" /\ rows'[n].of = round
      /\ rows'[n].calls = mem /\ rows'[n].fin = "end"
  BY <1>1 DEF Answers
<1>3. /\ at \in Message /\ rows[at].of = round
      /\ \A i \in Message : i # at => rows[i].of # round
      /\ \A j \in ToolRows : rows[j].of # round
  <2>1. at \in Message /\ rows[at].of = round
    BY DEF Placed, Message
  <2> QED BY <2>1, RowFacts, NotAnsweredYet DEF Answered
<1> HIDE DEF n
<1> PICK a : a = at
  OBVIOUS
<1>4. \A i \in Message \union ToolRows : rows'[i] = rows[i]
  BY <1>1, RowFacts
<1>5. \A i \in Message : Done(i) => Done(i)'
  BY <1>1, <1>4 DEF Done
<1>6. Written => Done(a)'
  <2>1. Written => rows'[a].fin # "none" /\ rows'[a].calls = mem /\ rows'[a].of = round
    <3>1. a \in Message /\ rows'[a] = rows[a] /\ rows[a].of = round
      BY <1>3, <1>4
    <3> QED BY <3>1 DEF Written
  <2> QED BY <1>1, <1>2, <2>1 DEF Done
<1>7. Finished'
  <2>1. \A i \in Message : i # a => rows[i].of \in torn \/ Done(i)
    BY <1>3 DEF Past, Finished, Passed
  <2>2. \A i \in Message : i # a => rows'[i].of \in torn' \/ Done(i)'
    BY <1>4, <1>5, <2>1
  <2>3. rows'[a].of = round
    BY <1>3, <1>4
  <2>4. round \in torn \/ Done(a)' \/ (round' = round /\ pc' = "mark")
    BY <1>6
  <2> QED BY <1>1, <2>2, <2>3, <2>4 DEF Finished, Passed
<1>8. Fit'
  <2>1. \A i \in Message, j \in ToolRows : rows[j].of = rows[i].of =>
          rows[j].calls \subseteq rows[i].calls \/ rows[i].of \in torn
    BY <1>3 DEF Past, Fit, Excused
  <2>2. mem \subseteq rows[at].calls \/ round \in torn \/ (round' = round /\ pc' = "mark")
    BY DEF Written
  <2>3. \A i \in Message : rows[i].of = round => i = at
    BY <1>3
  <2>4. \A i \in Message : rows'[n].of = rows[i].of =>
          \/ rows'[n].calls \subseteq rows[i].calls \/ rows[i].of \in torn
          \/ rows[i].of = round' /\ pc' = "mark"
    BY <1>2, <2>2, <2>3
  <2>5. \A i \in Message, j \in ToolRows : rows'[j].of = rows'[i].of =>
          rows'[j].calls \subseteq rows'[i].calls \/ rows'[i].of \in torn'
    BY <1>4, <2>1
  <2>6. \A i \in Message : rows'[n].of = rows'[i].of =>
          \/ rows'[n].calls \subseteq rows'[i].calls \/ rows'[i].of \in torn'
          \/ rows'[i].of = round' /\ pc' = "mark"
    BY <1>4, <2>4
  <2> QED BY <1>1, <2>5, <2>6 DEF Fit, Excused
<1>9. Told'
  BY <1>1, <1>2 DEF Past, Told
<1>10. \A j \in ToolRows' : rows'[j].of = round => rows'[j].calls = mem
  BY <1>1, <1>2, <1>3, <1>4
<1> QED
  BY <1>1, <1>7, <1>8, <1>9, <1>10 DEF Past

-----------------------------------------------------------------------------
(* Every step keeps what is known of memory and of the rounds that are over. *)

\* Nothing is asked of memory before a request and after a round.
LEMMA NoMemory == pc' \in {"idle", "load", "slice", "user", "ask"} => Memory'
BY DEF Memory, Settling

\* The places at which memory and the stored message are compared.
LEMMA SameMemory ==
  ASSUME TypeOK, Placed, RowInv, Memory, Plain, torn \subseteq torn',
         UNCHANGED <<round, at, mem>>, pc' = pc /\ failure' = failure
  PROVE  Memory'
<1>1. ToolRows' = ToolRows /\ Answered' = Answered
      /\ \A i \in 1..Len(rows) : rows'[i] = rows[i]
  BY PlainRows
<1>2. pc \in Streaming \union Settling => rows'[at] = rows[at]
  BY <1>1 DEF Placed
<1>3. \A j \in ToolRows : rows'[j] = rows[j]
  BY <1>1, RowFacts
<1> QED
  BY <1>1, <1>2, <1>3 DEF Memory, Written, Streaming, Settling

\* The rows as they are: from one comparison to the next.
LEMMA OnMemory ==
  ASSUME Memory, pc \in {"usage", "streamed", "tools", "results"},
         pc' \in {"usage", "streamed", "tools", "results", "abort"},
         UNCHANGED <<rows, round, at, mem>>, torn \subseteq torn'
  PROVE  Memory'
BY DEF Memory, Written, Settling

\* A round in the stream or in its tools has stored nothing that answers it.
LEMMA NoResults ==
  ASSUME TypeOK, Placed, RowInv, pc \in Streaming
  PROVE  \A j \in ToolRows : rows[j].of # round
BY NotAnsweredYet DEF Answered

\* The message of the round is the only one, and done if what memory holds is stored.
LEMMA OnlyMessage ==
  ASSUME TypeOK, Placed, RowInv, pc \in Streaming \union Settling
  PROVE  /\ \A i \in Message : rows[i].of = round => i = at
         /\ Written /\ mem = {} => \A i \in Message : rows[i].of = round => Done(i)
<1>1. at \in Message /\ rows[at].of = round
  BY DEF Placed, Message
<1>2. \A i \in Message : rows[i].of = round => i = at
  BY <1>1, RowFacts
<1> QED
  BY <1>2 DEF Done, Written

\* The message of the round is written again: while the round goes on nothing answers it yet.
LEMMA StoreInRound ==
  ASSUME TypeOK, Placed, Asked, RowInv, Past, pc \in Streaming, torn \subseteq torn',
         NEW cs \in SUBSET Call, NEW f \in Finish, rows' = Stored(cs, f), f # "denied",
         round' = round, pc' # "ask"
  PROVE  Past'
BY RewriteKeepsPast, NoResults

\* The last word on a round: the message is written as memory holds it.
LEMMA StoreLast ==
  ASSUME TypeOK, Placed, Asked, RowInv, Past, Memory, pc \in Settling,
         NEW f \in Finish \ {"none"}, f = "denied" => pc = "denied", StoreOrLose(mem, f), End
  PROVE  Past' /\ Memory'
<1>1. mem \in SUBSET Call /\ pc \in Streaming \union Settling
  BY DEF TypeOK
<1>2. \A j \in ToolRows : rows[j].of = round => rows[j].calls = mem
  BY DEF Memory
<1>3. mem = {} \/ round \in Answered \/ round \in torn
  BY DEF Memory, Settling
<1>4. Memory'
  BY NoMemory DEF End
<1>5. CASE rows' = Stored(mem, f) /\ UNCHANGED <<count, torn>>
  <2>1. f = "denied" => round \in Answered
    BY DEF Memory
  <2>2. \/ round \in torn'
        \/ mem # {} => \E j \in ToolRows : rows[j].of = round /\ rows[j].calls = mem
    BY <1>2, <1>3, <1>5 DEF Answered
  <2> QED BY <1>1, <1>2, <1>4, <1>5, <2>1, <2>2, RewriteKeepsPast
<1>6. CASE UNCHANGED rows /\ Fault /\ Tear
  <2>1. torn \subseteq torn' /\ round \in torn'
    BY <1>6 DEF Tear, Settling
  <2> QED BY <1>4, <1>6, <2>1, IsOver DEF Plain
<1> QED
  BY <1>5, <1>6 DEF StoreOrLose

\* The two are kept together: what memory holds is what a round that ends has stored.
LEMMA HistoryStep == Inv /\ Memory /\ Past /\ [Next]_vars => Memory' /\ Past'
<1> SUFFICES ASSUME Inv, Memory, Past, [Next]_vars PROVE Memory' /\ Past'
  OBVIOUS
<1>0. /\ TypeOK /\ Placed /\ Asked /\ RowInv
      /\ count \in Counts /\ mem \in SUBSET Call /\ fin \in Finish
  BY DEF Inv, TypeOK
<1>a. rows' = rows => Plain
  BY DEF Plain
<1>b. /\ Tear => torn \subseteq torn'
      /\ Tear /\ pc \notin {"idle", "load", "slice", "user", "ask"} => round \in torn'
      /\ UNCHANGED torn => torn \subseteq torn'
  BY DEF Tear
<1>c. pc \in {"idle", "load", "slice", "user"} => \A i \in Message : rows[i].of # round
  BY <1>0, RowFacts DEF Asked
<1>d. ASSUME Plain, torn \subseteq torn', UNCHANGED <<pc, round, at, mem, failure>>
      PROVE  Memory' /\ Past'
  BY <1>0, <1>d, SameMemory, GoesOn
<1>e. ASSUME End, rows' = rows, torn \subseteq torn',
             \/ pc \in {"idle", "load", "slice", "user", "ask", "asked"}
             \/ round \in torn'
             \/ \A i \in Message : rows[i].of = round => Done(i),
             pc = "mark" => round \in torn'
      PROVE  Memory' /\ Past'
  <2>1. pc = "asked" => \A i \in Message : rows[i].of # round
    BY <1>0 DEF Asked, Message
  <2>2. Memory'
    BY <1>e, NoMemory DEF End
  <2> QED BY <1>0, <1>a, <1>c, <1>e, <2>1, <2>2, IsOver
<1>1. CASE UNCHANGED vars
  BY <1>1, <1>a, <1>b, <1>d DEF vars, store, msg, turn, past
<1>2. CASE Begin
  <2>1. Memory'
    BY <1>2, NoMemory DEF Begin
  <2> QED BY <1>0, <1>2, <2>1, <1>a, <1>b, GoesOn DEF Begin, store, msg
<1>3. CASE Cancel
  BY <1>3, <1>a, <1>b, <1>d DEF Cancel, store, msg, past
<1>4. CASE Load \/ Slice
  <2>1. Memory'
    BY <1>4, NoMemory DEF Load, Slice
  <2> QED BY <1>0, <1>4, <2>1, <1>a, <1>b, GoesOn DEF Load, Slice, store, msg, past
<1>5. CASE StoreUser
  <2>1. User(count.turn) \in Row /\ User(count.turn).role = "user" /\ User(count.turn).fin = "end"
    BY <1>0 DEF User, Row, Finish, Counts
  <2>2. Plain
    BY <1>5, <2>1 DEF StoreUser, Plain
  <2>3. Memory'
    BY <1>5, NoMemory DEF StoreUser
  <2> QED BY <1>0, <1>b, <1>c, <1>5, <2>2, <2>3, IsOver DEF StoreUser, past
<1>6. CASE NotAsked
  BY <1>6, <1>b, <1>e DEF NotAsked, store, past
<1>7. CASE Ask
  <2>1. Past'
    BY <1>0, <1>7, <1>a, <1>b, IsOver DEF Ask, store, past
  <2>2. Memory'
    BY <1>7 DEF Ask, Memory, Settling
  <2> QED BY <2>1, <2>2
<1>8. CASE CreateRow
  <2>1. Past'
    BY <1>0, <1>8, NewMessageKeepsPast DEF CreateRow, past
  <2>2. rows'[at'] = Assistant(round, {}, "none")
    <3>1. {} \in SUBSET Call /\ "none" \in Finish /\ round \in Nat
      BY <1>0 DEF Finish, TypeOK
    <3>2. Assistant(round, {}, "none") \in Row
      BY <3>1, RowTypes
    <3> QED BY <1>0, <1>8, <3>2, AppendRow DEF CreateRow, TypeOK
  <2>3. rows'[at'].calls = mem'
    BY <1>8, <2>2 DEF CreateRow, Memory, Assistant
  <2>4. Memory'
    BY <1>8, <2>3 DEF CreateRow, Memory, Settling
  <2> QED BY <2>1, <2>4
<1>9. CASE NoRow
  BY <1>9, <1>b, <1>e DEF NoRow, store, past
<1>10. ASSUME NEW cs \in SUBSET Call, NEW f \in Finish, NEW next \in {"stream", "usage"},
              f # "denied", next = "usage" => f # "none", Event(cs, f, next)
       PROVE  Memory' /\ Past'
  <2>0. pc = "stream" /\ pc \in Streaming /\ round' = round /\ at' = at /\ mem' = cs
    BY <1>10 DEF Event, Streaming
  <2>1. CASE rows' = Stored(cs, f) /\ pc' = next /\ UNCHANGED torn
    <3>1. rows'[at] = Assistant(round, cs, f)
      BY <1>0, <1>10, <2>0, <2>1, RewrittenRows
    <3>2. rows'[at'].calls = mem' /\ rows'[at'].fin = f
      BY <2>0, <3>1 DEF Assistant
    <3>3. Memory'
      BY <1>10, <2>0, <2>1, <3>2 DEF Memory, Written, Settling
    <3> QED BY <1>0, <1>b, <1>10, <2>0, <2>1, <3>3, StoreInRound
  <2>2. CASE pc' = "abort" /\ UNCHANGED <<rows, torn>> /\ failure' = "cancel"
    <3>1. Memory'
      BY <2>2 DEF Memory, Settling
    <3> QED BY <1>0, <1>a, <1>b, <2>0, <2>2, <3>1, GoesOn
  <2>3. CASE pc' = "abort" /\ UNCHANGED rows /\ Tear
    <3>1. Memory'
      BY <1>b, <2>0, <2>3 DEF Memory, Settling
    <3> QED BY <1>0, <1>a, <1>b, <2>0, <2>3, <3>1, GoesOn
  <2> QED BY <1>10, <2>1, <2>2, <2>3 DEF Event
<1>11. CASE AnnounceCall
  <2>1. PICK c \in Call : Event(1..c, fin, "stream") /\ fin = "none"
    BY <1>11 DEF AnnounceCall
  <2>2. 1..c \in SUBSET Call
    BY TurnAssumption DEF Call
  <2> QED BY <1>0, <1>10, <2>1, <2>2
<1>12. CASE Complete
  <2>1. PICK m \in 0..MaxCall, f \in {"tool_use", "end"} : Event(1..m, f, "usage")
    BY <1>12 DEF Complete
  <2>2. 1..m \in SUBSET Call /\ f \in Finish
    BY TurnAssumption DEF Call, Finish
  <2> QED BY <1>10, <2>1, <2>2
<1>13. CASE StreamFails
  <2>0. /\ pc \in Streaming /\ pc = "stream" /\ UNCHANGED <<round, at, mem>> /\ pc' = "abort"
        /\ "error" \in Finish
    BY <1>13 DEF StreamFails, Streaming, Finish
  <2>1. CASE rows' = Stored(mem, "error") /\ UNCHANGED torn
    <3>1. rows'[at] = Assistant(round, mem, "error")
      BY <1>0, <2>0, <2>1, RewrittenRows
    <3>2. rows'[at'].calls = mem' /\ rows'[at'].fin = "error"
      BY <2>0, <3>1 DEF Assistant
    <3>3. Memory'
      BY <2>0, <3>2 DEF Memory, Written, Settling
    <3> QED BY <1>0, <1>b, <2>0, <2>1, <3>3, StoreInRound
  <2>2. CASE UNCHANGED rows /\ Tear
    <3>1. Memory'
      BY <1>b, <2>0, <2>2 DEF Memory, Settling
    <3> QED BY <1>0, <1>a, <1>b, <2>0, <2>2, <3>1, GoesOn
  <2> QED BY <1>13, <2>1, <2>2 DEF StreamFails, StoreOrLose
<1>14. CASE StreamCancelled
  <2>0. /\ pc \in Streaming /\ pc # "mark" /\ UNCHANGED <<round, at, mem>>
        /\ pc' = "abort" /\ failure' = "cancel" /\ "canceled" \in Finish
    BY <1>14 DEF StreamCancelled, Streaming, Finish
  <2>1. Memory'
    BY <2>0 DEF Memory, Settling
  <2>2. CASE rows' = Stored(mem, "canceled") /\ UNCHANGED torn
    BY <1>0, <1>b, <2>0, <2>1, <2>2, StoreInRound
  <2>3. CASE UNCHANGED rows /\ (Tear \/ UNCHANGED torn)
    <3>1. Plain /\ torn \subseteq torn' /\ round' = round /\ pc' # "ask"
      BY <1>a, <1>b, <2>0, <2>3
    <3>2. Past'
      BY <1>0, <2>0, <3>1, GoesOn
    <3> QED BY <2>1, <3>2
  <2> QED BY <1>14, <2>2, <2>3 DEF StreamCancelled, StoreOrLose
<1>15. CASE TrackUsage
  <2>1. Memory'
    BY <1>b, <1>15, OnMemory DEF TrackUsage, store, msg, past
  <2> QED BY <1>0, <1>15, <2>1, <1>a, <1>b, GoesOn DEF TrackUsage, store, msg, past
<1>16. CASE UsageFails
  <2>1. Memory'
    BY <1>b, <1>16, OnMemory DEF UsageFails, store
  <2> QED BY <1>0, <1>16, <2>1, <1>a, <1>b, GoesOn DEF UsageFails, store
<1>17. CASE Abort
  <2>0. /\ pc = "abort" /\ pc \in Streaming /\ "abort" # "mark"
        /\ failure = "cancel" => pc' = "mark" /\ UNCHANGED <<round, at, mem>>
        /\ failure # "cancel" => End /\ (Written \/ round \in torn)
    BY <1>17 DEF Abort, Streaming, Memory, msg
  <2>1. CASE rows' = Append(rows, Answers(round, mem)) /\ UNCHANGED torn
    <3>1. /\ Past' /\ round \in Answered'
          /\ \A j \in ToolRows' : rows'[j].of = round => rows'[j].calls = mem
      BY <1>0, <2>0, <2>1, AnswerKeepsPast
    <3>2. Memory'
      <4>1. CASE failure = "cancel"
        BY <2>0, <3>1, <4>1 DEF Memory
      <4>2. CASE failure # "cancel"
        BY <2>0, <4>2, NoMemory DEF End
      <4> QED BY <4>1, <4>2
    <3> QED BY <3>1, <3>2
  <2>2. CASE UNCHANGED rows /\ torn \subseteq torn' /\ (mem = {} \/ round \in torn')
    <3>1. CASE failure = "cancel"
      <4>1. \A j \in ToolRows' : rows'[j].of # round
        BY <1>0, <2>0, <2>2, NoResults DEF ToolRows
      <4>2. Memory'
        BY <2>0, <2>2, <3>1, <4>1 DEF Memory
      <4>3. Past'
        <5>1. \A i \in Message : rows[i].of # round' \/ pc' = "ask" => Passed(rows[i].of)
          BY <2>0, <3>1 DEF Passed
        <5> QED BY <1>0, <1>a, <2>0, <2>2, <5>1, PlainKeepsPast
      <4> QED BY <4>2, <4>3
    <3>2. CASE failure # "cancel"
      <4>1. round \in torn' \/ \A i \in Message : rows[i].of = round => Done(i)
        BY <1>0, <2>0, <2>2, <3>2, OnlyMessage
      <4> QED BY <2>0, <2>2, <3>2, <4>1, <1>e
    <3> QED BY <3>1, <3>2
  <2> QED BY <1>b, <1>17, <2>0, <2>1, <2>2 DEF Abort
<1>18. CASE MarkCanceled
  BY <1>0, <1>18, StoreLast DEF MarkCanceled, Settling, Finish
<1>19. CASE StartTools
  <2>0. pc = "streamed" /\ pc \in Streaming /\ UNCHANGED <<rows, torn>>
    BY <1>19 DEF StartTools, Streaming, store, past
  <2>1. CASE mem = {} /\ End
    <3>1. round \in torn \/ \A i \in Message : rows[i].of = round => Done(i)
      BY <1>0, <2>0, <2>1, OnlyMessage DEF Memory
    <3> QED BY <1>b, <1>e, <2>0, <2>1, <3>1
  <2>2. CASE pc' = "tools" /\ UNCHANGED msg
    <3>1. Memory'
      BY <1>b, <2>0, <2>2, OnMemory DEF msg
    <3> QED BY <1>0, <1>a, <1>b, <2>0, <2>2, <3>1, GoesOn DEF msg
  <2> QED BY <1>19, <2>1, <2>2 DEF StartTools
<1>20. CASE ToolsDone
  <2>1. Memory'
    BY <1>b, <1>20, OnMemory DEF ToolsDone, store, msg, past
  <2> QED BY <1>0, <1>20, <2>1, <1>a, <1>b, GoesOn DEF ToolsDone, store, msg, past
<1>21. ASSUME NEW c \in Call, RunCall(c) PROVE Memory' /\ Past'
  BY <1>21, <1>a, <1>b, <1>d DEF RunCall, store, past
<1>22. ASSUME NEW c \in Call, Deny(c) PROVE Memory' /\ Past'
  <2>1. Memory'
    BY <1>b, <1>22, OnMemory DEF Deny, store, past
  <2> QED BY <1>0, <1>22, <2>1, <1>a, <1>b, GoesOn DEF Deny, store, past
<1>23. ASSUME NEW c \in Call, CancelTools(c) PROVE Memory' /\ Past'
  <2>0. /\ pc \in Streaming /\ pc = "tools" /\ UNCHANGED <<round, at, mem>> /\ pc' = "results"
        /\ "canceled" \in Finish
    BY <1>23 DEF CancelTools, Streaming, Finish
  <2>1. CASE rows' = Stored(mem, "canceled") /\ UNCHANGED torn
    <3>1. rows'[at] = Assistant(round, mem, "canceled")
      BY <1>0, <2>0, <2>1, RewrittenRows
    <3>2. rows'[at'].calls = mem' /\ rows'[at'].fin = "canceled"
      BY <2>0, <3>1 DEF Assistant
    <3>3. Memory'
      BY <2>0, <3>2 DEF Memory, Written, Settling
    <3> QED BY <1>0, <1>b, <2>0, <2>1, <3>3, StoreInRound
  <2>2. CASE UNCHANGED rows /\ Tear
    <3>1. Memory'
      BY <1>b, <2>0, <2>2 DEF Memory, Settling
    <3> QED BY <1>0, <1>a, <1>b, <2>0, <2>2, <3>1, GoesOn
  <2> QED BY <1>23, <2>1, <2>2 DEF CancelTools, StoreOrLose
<1>24. CASE StoreResults
  <2>0. /\ pc = "results" /\ pc \in Streaming /\ rows' = Append(rows, Answers(round, mem))
        /\ UNCHANGED torn /\ (Written \/ round \in torn)
    BY <1>24 DEF StoreResults, Streaming, Memory, past
  <2>1. /\ Past' /\ round \in Answered'
        /\ \A j \in ToolRows' : rows'[j].of = round => rows'[j].calls = mem
    BY <1>0, <2>0, AnswerKeepsPast
  <2>2. CASE pc' \in {"ask", "idle"}
    BY <2>1, <2>2, NoMemory
  <2>3. CASE pc' \in {"denied", "overflow"} /\ UNCHANGED msg
    <3>1. Memory'
      BY <2>1, <2>3 DEF Memory, msg
    <3> QED BY <2>1, <3>1
  <2> QED BY <1>24, <2>2, <2>3 DEF StoreResults, End
<1>25. CASE ResultsFail
  BY <1>25, <1>b, <1>e DEF ResultsFail, store
<1>26. CASE MarkDenied
  BY <1>0, <1>26, StoreLast DEF MarkDenied, Settling, Finish
<1>27. CASE Overflow
  BY <1>0, <1>27, StoreLast DEF Overflow, Settling, Finish
<1>28. CASE Compact \/
            \E n \in 1..MaxCompaction : CompactLists(n) \/ CompactSaves(n) \/ CompactFails(n)
  BY <1>28, <1>a, <1>b, <1>d
  DEF Compact, CompactLists, CompactSaves, CompactFails, store, msg, turn, past
<1>29. ASSUME NEW n \in 1..MaxCompaction, CompactStores(n) PROVE Memory' /\ Past'
  <2>1. Summary(n) \in Row /\ Summary(n).role = "summary" /\ Summary(n).fin = "end"
    BY DEF Summary, Row, Finish
  <2>2. Plain
    BY <1>29, <2>1 DEF CompactStores, Plain
  <2> QED BY <1>29, <1>b, <1>d, <2>2 DEF CompactStores, msg, turn, past
<1>30. CASE Crash
  BY <1>30, <1>b, <1>e DEF Crash, store
<1> QED
  BY <1>1, <1>2, <1>3, <1>4, <1>5, <1>6, <1>7, <1>8, <1>9, <1>11, <1>12, <1>13, <1>14, <1>15,
     <1>16, <1>17, <1>18, <1>19, <1>20, <1>21, <1>22, <1>23, <1>24, <1>25, <1>26, <1>27, <1>28,
     <1>29, <1>30
  DEF Next, TurnStep, Generate, Stream, GiveUp, Tools, Settle, Compaction

-----------------------------------------------------------------------------
(* The order of the tool calls. *)

\* A step that leaves calls and results alone, or has none.
LEMMA SameOrder ==
  ASSUME InOrder,
         \/ result' = NoResult
         \/ UNCHANGED <<mem, result>> /\ (pc' = pc \/ pc' \notin {"asked", "stream", "tools"})
            /\ (pc' \in {"usage", "streamed"} => pc \in {"usage", "streamed"})
         \/ pc \in {"asked", "stream", "usage", "streamed"} /\ result' = result,
         mem \subseteq Call, mem' \subseteq Call
  PROVE  InOrder'
<1>1. CASE result' = NoResult
  BY <1>1 DEF InOrder, DenialStopsTheRest, NoResult
<1>2. CASE pc \in {"asked", "stream", "usage", "streamed"} /\ result' = result
  BY <1>1, <1>2 DEF InOrder
<1>3. CASE UNCHANGED <<mem, result>> /\ (pc' = pc \/ pc' \notin {"asked", "stream", "tools"})
            /\ (pc' \in {"usage", "streamed"} => pc \in {"usage", "streamed"})
  BY <1>3 DEF InOrder, DenialStopsTheRest
<1> QED
  BY <1>1, <1>2, <1>3

\* The loop stops at a call: those before it have their results, those after it have none.
LEMMA StopsInOrder ==
  ASSUME TypeOK, InOrder, pc = "tools", NEW c \in Call, IsNext(c), NEW r \in {"denied", "notRun"},
         StopAt(c, r), mem' = mem, pc' = "results"
  PROVE  InOrder'
<1>1. /\ mem \subseteq Call /\ result \in [Call -> Result] /\ c \in mem /\ result[c] = "none"
      /\ \A d \in mem : result[d] # "denied" /\ (c < d => result[d] = "none")
  BY DEF TypeOK, InOrder, IsNext, Pending
<1>2. \A d \in mem : /\ c < d => result'[d] = "notRun"
                     /\ result'[d] = "denied" => d = c
  <2>1. Call \subseteq Nat
    BY DEF Call
  <2> QED BY <1>1, <2>1 DEF StopAt, Pending
<1> QED
  BY <1>2 DEF InOrder, DenialStopsTheRest

\* Every step keeps the order.
LEMMA OrderStep == Inv /\ Inv' /\ InOrder /\ [Next]_vars => InOrder'
<1> SUFFICES ASSUME Inv, Inv', InOrder, [Next]_vars PROVE InOrder'
  OBVIOUS
<1>0. TypeOK /\ mem \subseteq Call /\ mem' \subseteq Call /\ result \in [Call -> Result]
  BY DEF Inv, TypeOK
<1>a. End => result' = NoResult
  BY DEF End
<1>1. CASE UNCHANGED vars \/ Begin \/ Cancel \/ Compaction
  BY <1>0, <1>1, SameOrder
  DEF Begin, Cancel, Compaction, Compact, CompactLists, CompactStores, CompactSaves, CompactFails,
      vars, store, msg, turn, past
<1>2. CASE Load \/ Slice \/ StoreUser
  BY <1>0, <1>2, SameOrder DEF Load, Slice, StoreUser, msg
<1>3. CASE NotAsked \/ NoRow \/ Ask \/ MarkCanceled \/ ResultsFail \/ MarkDenied \/ Overflow
           \/ Crash
  BY <1>0, <1>3, <1>a, SameOrder
  DEF NotAsked, NoRow, Ask, MarkCanceled, ResultsFail, MarkDenied, Overflow, Crash
<1>4. CASE CreateRow \/ AnnounceCall \/ Complete \/ StreamFails \/ StreamCancelled \/ TrackUsage
           \/ UsageFails
  <2>1. pc \in {"asked", "stream", "usage", "streamed"} /\ result' = result
    BY <1>4
    DEF CreateRow, AnnounceCall, Complete, Event, StreamFails, StreamCancelled, TrackUsage,
        UsageFails, msg
  <2> QED BY <1>0, <2>1, SameOrder
<1>5. CASE Abort
  BY <1>0, <1>5, <1>a, SameOrder DEF Abort, msg
<1>6. CASE StartTools
  BY <1>0, <1>6, <1>a, SameOrder DEF StartTools, msg
<1>7. CASE ToolsDone
  BY <1>0, <1>7, SameOrder DEF ToolsDone, msg
<1>8. ASSUME NEW c \in Call, RunCall(c) PROVE InOrder'
  <2>1. PICK r \in {"ran", "refused"} : result' = [result EXCEPT ![c] = r]
    BY <1>8 DEF RunCall
  <2>2. c \in mem /\ mem' = mem /\ pc = "tools" /\ pc' = "tools"
        /\ \A d \in mem : result[d] = "none" => c <= d
    BY <1>8 DEF RunCall, IsNext, Pending
  <2>3. /\ \A d \in Call : result'[d] = IF d = c THEN r ELSE result[d]
        /\ Call \subseteq Nat
    BY <1>0, <2>1 DEF Call
  <2>4. \A d \in mem : /\ result'[d] # "denied"
                       /\ result'[d] = "none" => \A e \in mem : d < e => result'[e] = "none"
    BY <1>0, <2>2, <2>3 DEF InOrder
  <2> QED BY <2>2, <2>4 DEF InOrder, DenialStopsTheRest
<1>9. ASSUME NEW c \in Call, Deny(c) PROVE InOrder'
  BY <1>0, <1>9, StopsInOrder DEF Deny
<1>10. ASSUME NEW c \in Call, CancelTools(c) PROVE InOrder'
  BY <1>0, <1>10, StopsInOrder DEF CancelTools
<1>11. CASE StoreResults
  BY <1>0, <1>11, <1>a, SameOrder DEF StoreResults, msg
<1> QED
  BY <1>1, <1>2, <1>3, <1>4, <1>5, <1>6, <1>7, <1>8, <1>9, <1>10, <1>11
  DEF Next, TurnStep, Generate, Stream, GiveUp, Tools, Settle

-----------------------------------------------------------------------------
(* Compactions. *)

\* What a turn's step does to the rows, as far as a compaction's summaries go: a row can be
\* added, as an answer only to the round under way, and a round's message comes last.
Grows ==
  /\ SummaryRow' = SummaryRow /\ \A k \in SummaryRow : rows'[k] = rows[k]
  /\ \A i \in 1..Len(rows) : rows'[i].role = rows[i].role /\ rows'[i].of = rows[i].of
  /\ \/ Len(rows') = Len(rows)
     \/ /\ Len(rows') = Len(rows) + 1
        /\ rows'[Len(rows) + 1].role = "tool" =>
             pc \in Streaming /\ rows'[Len(rows) + 1].of = round
  /\ pc' \in Streaming => (pc \in Streaming /\ at' = at) \/ at' = Len(rows) + 1

Stays == pc' \in Streaming => pc \in Streaming /\ at' = at

\* Rows left alone, or the message of the round written again.
LEMMA GrowsNot ==
  ASSUME TypeOK, Placed, RowInv, Stays,
         \/ rows' = rows
         \/ /\ pc \in Streaming \union Settling
            /\ \E cs \in SUBSET Call, f \in Finish : rows' = Stored(cs, f)
  PROVE  Grows
<1>1. CASE rows' = rows
  BY <1>1 DEF Grows, SummaryRow, Stays
<1>2. ASSUME pc \in Streaming \union Settling, NEW cs \in SUBSET Call, NEW f \in Finish,
             rows' = Stored(cs, f)
      PROVE  Grows
  <2>0. /\ at \in Message /\ rows[at].of = round /\ rows'[at] = Assistant(round, cs, f)
        /\ Len(rows') = Len(rows)
        /\ \A i \in 1..Len(rows) : i # at => rows'[i] = rows[i]
    BY <1>2, RewrittenRows
  <2>1. /\ at \in 1..Len(rows) /\ rows[at].role = "assistant" /\ rows[at].of = round
        /\ Len(rows') = Len(rows) /\ rows'[at].role = "assistant" /\ rows'[at].of = round
        /\ \A i \in 1..Len(rows) : i # at => rows'[i] = rows[i]
    BY <2>0 DEF Message, Assistant
  <2>2. \A i \in 1..Len(rows) : rows'[i].role = rows[i].role /\ rows'[i].of = rows[i].of
    BY <2>1
  <2>3. SummaryRow' = SummaryRow /\ \A k \in SummaryRow : rows'[k] = rows[k]
    BY <2>1, <2>2 DEF SummaryRow
  <2> QED BY <2>1, <2>2, <2>3 DEF Grows, Stays
<1> QED
  BY <1>1, <1>2

\* A row is added that is no summary.
LEMMA GrowsByOne ==
  ASSUME TypeOK, NEW e \in Row, e.role # "summary", rows' = Append(rows, e),
         e.role = "tool" => pc \in Streaming /\ e.of = round,
         Stays \/ at' = Len(rows) + 1
  PROVE  Grows
<1> DEFINE n == Len(rows) + 1
<1>1. /\ Len(rows') = n /\ rows'[n] = e /\ 1..n = (1..Len(rows)) \union {n}
      /\ \A i \in 1..Len(rows) : rows'[i] = rows[i]
  BY AppendRow DEF TypeOK
<1> HIDE DEF n
<1>2. SummaryRow' = SummaryRow
  BY <1>1 DEF SummaryRow
<1>3. \A k \in SummaryRow : rows'[k] = rows[k]
  BY <1>1 DEF SummaryRow
<1> QED
  BY <1>1, <1>2, <1>3 DEF Grows, Stays, n

\* The counters a turn's step does not touch.
LEMMA LatestKept ==
  ASSUME count \in Counts
  PROVE  /\ Fault => Latest' = Latest
         /\ [count EXCEPT !.turn = @ + 1].compaction = Latest
         /\ [count EXCEPT !.round = @ + 1].compaction = Latest
         /\ [count EXCEPT !.compaction = @ + 1].compaction = Latest + 1
BY DEF Fault, Counts, Latest

\* The steps of a turn.
LEMMA TurnGrows ==
  ASSUME Inv, TurnStep
  PROVE  Grows /\ pc # "idle" /\ UNCHANGED <<covers, cpc>> /\ Latest' = Latest
<1>0. /\ TypeOK /\ Placed /\ RowInv /\ count \in Counts /\ mem \in SUBSET Call /\ fin \in Finish
      /\ round \in Nat
  BY DEF Inv, TypeOK
<1> DEFINE Goal == Grows /\ pc # "idle" /\ UNCHANGED <<covers, cpc>> /\ Latest' = Latest
<1> SUFFICES Goal
  OBVIOUS
<1>a. UNCHANGED count => Latest' = Latest
  BY DEF Latest
<1>b. ASSUME pc \in Streaming \union Settling, NEW cs \in SUBSET Call, NEW f \in Finish,
             StoreOrLose(cs, f), Stays
      PROVE  Grows /\ Latest' = Latest
  BY <1>0, <1>a, <1>b, GrowsNot, LatestKept DEF StoreOrLose
<1>c. End => Stays
  BY DEF End, Stays, Streaming
<1>d. ASSUME pc \in Streaming, rows' = Append(rows, Answers(round, mem)), Stays PROVE Grows
  <2>1. Answers(round, mem) \in Row
    BY <1>0, RowTypes DEF Finish
  <2>2. Answers(round, mem).role = "tool" /\ Answers(round, mem).of = round
    BY DEF Answers
  <2> QED BY <1>0, <1>d, <2>1, <2>2, GrowsByOne
<1>1. CASE Load \/ Slice
  <2>1. Stays
    BY <1>1 DEF Load, Slice, Stays, Streaming
  <2> QED BY <1>0, <1>1, <1>a, <2>1, GrowsNot DEF Load, Slice, store, past
<1>2. CASE StoreUser
  <2>1. User(count.turn) \in Row /\ User(count.turn).role = "user"
    BY <1>0 DEF User, Row, Finish, Counts
  <2>2. Stays
    BY <1>2 DEF StoreUser, Stays, Streaming
  <2> QED BY <1>0, <1>2, <1>a, <2>1, <2>2, GrowsByOne DEF StoreUser, past
<1>3. CASE NotAsked \/ NoRow \/ ResultsFail
  <2>1. rows' = rows /\ End /\ pc # "idle" /\ UNCHANGED <<covers, cpc>>
        /\ (Fault \/ UNCHANGED count)
    BY <1>3 DEF NotAsked, NoRow, ResultsFail, store, past
  <2> QED BY <1>0, <1>a, <1>c, <2>1, GrowsNot, LatestKept
<1>4. CASE Ask
  <2>1. Stays
    BY <1>4 DEF Ask, Stays, Streaming
  <2> QED BY <1>0, <1>4, <2>1, GrowsNot, LatestKept DEF Ask, store, past, Latest
<1>5. CASE CreateRow
  <2>1. {} \in SUBSET Call /\ "none" \in Finish
    BY DEF Finish
  <2>2. Assistant(round, {}, "none") \in Row /\ Assistant(round, {}, "none").role = "assistant"
    BY <1>0, <2>1, RowTypes DEF Assistant
  <2> QED BY <1>0, <1>5, <1>a, <2>2, GrowsByOne DEF CreateRow, past
<1>6. ASSUME NEW cs \in SUBSET Call, NEW f \in Finish, NEW next, Event(cs, f, next)
      PROVE  Goal
  <2>1. pc \in Streaming /\ pc # "idle" /\ Stays /\ UNCHANGED <<covers, cpc>>
    BY <1>6 DEF Event, Stays, Streaming
  <2>2. rows' = rows \/ rows' = Stored(cs, f)
    BY <1>6 DEF Event
  <2>3. UNCHANGED count \/ Fault
    BY <1>6 DEF Event
  <2> QED BY <1>0, <1>a, <2>1, <2>2, <2>3, GrowsNot, LatestKept
<1>7. CASE AnnounceCall
  <2>1. PICK c \in Call : Event(1..c, fin, "stream")
    BY <1>7 DEF AnnounceCall
  <2>2. 1..c \in SUBSET Call
    BY TurnAssumption DEF Call
  <2> QED BY <1>0, <1>6, <2>1, <2>2
<1>8. CASE Complete
  <2>1. PICK m \in 0..MaxCall, f \in {"tool_use", "end"} : Event(1..m, f, "usage")
    BY <1>8 DEF Complete
  <2>2. 1..m \in SUBSET Call /\ f \in Finish
    BY TurnAssumption DEF Call, Finish
  <2> QED BY <1>6, <2>1, <2>2
<1>9. CASE StreamFails \/ StreamCancelled
  <2>1. /\ pc \in Streaming /\ pc # "idle" /\ Stays /\ UNCHANGED <<covers, cpc>>
        /\ {"error", "canceled"} \subseteq Finish
    BY <1>9 DEF StreamFails, StreamCancelled, Stays, Streaming, Finish
  <2>2. StoreOrLose(mem, "error") \/ StoreOrLose(mem, "canceled") \/ UNCHANGED <<rows, count>>
    BY <1>9 DEF StreamFails, StreamCancelled
  <2> QED BY <1>0, <1>a, <1>b, <2>1, <2>2, GrowsNot
<1>10. CASE TrackUsage \/ UsageFails \/ ToolsDone
  <2>1. /\ pc \in Streaming /\ pc # "idle" /\ Stays /\ UNCHANGED <<rows, covers, cpc>>
        /\ Fault \/ UNCHANGED count
    BY <1>10 DEF TrackUsage, UsageFails, ToolsDone, Stays, Streaming, store, past, msg
  <2> QED BY <1>0, <1>a, <2>1, GrowsNot, LatestKept
<1>11. CASE Abort
  <2>1. /\ pc \in Streaming /\ pc # "idle" /\ UNCHANGED <<covers, cpc>>
        /\ Fault \/ UNCHANGED count
        /\ rows' = rows \/ rows' = Append(rows, Answers(round, mem))
    BY <1>11 DEF Abort, Streaming
  <2>2. Stays
    BY <1>11, <1>c, <2>1 DEF Abort, Stays, msg
  <2> QED BY <1>0, <1>a, <1>d, <2>1, <2>2, GrowsNot, LatestKept
<1>12. CASE MarkCanceled \/ MarkDenied \/ Overflow
  <2>1. /\ pc \in Settling /\ pc # "idle" /\ End /\ UNCHANGED <<covers, cpc>>
        /\ {"error", "canceled", "denied"} \subseteq Finish
    BY <1>12 DEF MarkCanceled, MarkDenied, Overflow, Settling, Finish
  <2>2. StoreOrLose(mem, "error") \/ StoreOrLose(mem, "canceled") \/ StoreOrLose(mem, "denied")
    BY <1>12 DEF MarkCanceled, MarkDenied, Overflow
  <2> QED BY <1>0, <1>b, <1>c, <2>1, <2>2
<1>13. CASE StartTools
  <2>1. /\ pc \in Streaming /\ pc # "idle" /\ UNCHANGED <<rows, count, covers, cpc>>
    BY <1>13 DEF StartTools, Streaming, store, past
  <2>2. Stays
    BY <1>13, <1>c, <2>1 DEF StartTools, Stays, msg
  <2> QED BY <1>0, <1>a, <2>1, <2>2, GrowsNot
<1>14. ASSUME NEW c \in Call, RunCall(c) \/ Deny(c) PROVE Goal
  <2>1. /\ pc \in Streaming /\ pc # "idle" /\ Stays /\ UNCHANGED <<rows, count, covers, cpc>>
    BY <1>14 DEF RunCall, Deny, Stays, Streaming, store, past
  <2> QED BY <1>0, <1>a, <2>1, GrowsNot
<1>15. ASSUME NEW c \in Call, CancelTools(c) PROVE Goal
  <2>1. /\ pc \in Streaming /\ pc # "idle" /\ Stays /\ UNCHANGED <<covers, cpc>>
        /\ "canceled" \in Finish /\ StoreOrLose(mem, "canceled")
    BY <1>15 DEF CancelTools, Stays, Streaming, Finish
  <2> QED BY <1>0, <1>b, <2>1
<1>16. CASE StoreResults
  <2>1. /\ pc \in Streaming /\ pc # "idle" /\ UNCHANGED <<count, covers, cpc>>
        /\ rows' = Append(rows, Answers(round, mem))
    BY <1>16 DEF StoreResults, Streaming, past
  <2>2. Stays
    BY <1>16, <1>c, <2>1 DEF StoreResults, Stays, Streaming
  <2> QED BY <1>a, <1>d, <2>1, <2>2
<1> QED
  BY <1>1, <1>2, <1>3, <1>4, <1>5, <1>7, <1>8, <1>9, <1>10, <1>11, <1>12, <1>13, <1>14,
     <1>15, <1>16
  DEF TurnStep, Generate, Stream, GiveUp, Tools, Settle

\* Summaries, by number.
LEMMA SummaryFacts ==
  ASSUME TypeOK, Making
  PROVE  /\ SummaryRow \subseteq 1..Len(rows) /\ Len(rows) \in Nat
         /\ Latest \in 0..MaxCompaction
         /\ \A k \in SummaryRow : rows[k].of \in 1..MaxCompaction /\ rows[k].of <= Latest
<1>1. SummaryRow \subseteq 1..Len(rows) /\ Len(rows) \in Nat /\ Latest \in 0..MaxCompaction
  BY DEF TypeOK, SummaryRow, Counts, Latest
<1> QED
  BY <1>1, TurnAssumption DEF Making

\* A turn beside a compaction makes its summary one of those that promise nothing; the
\* summaries there are keep what they have.
LEMMA GrowsKeepsSummaries ==
  ASSUME TypeOK, Placed, RowInv, Making, Kept, Grows, pc # "idle", UNCHANGED <<covers, cpc>>,
         Latest' = Latest
  PROVE  Making' /\ Kept'
<1>1. Making'
  BY DEF Making, Grows, Quiet
<1>2. Kept'
  <2> SUFFICES ASSUME NEW k \in SummaryRow, Quiet(rows[k].of)
               PROVE  /\ \A i \in covers[rows[k].of].seen + 1 .. k - 1 : i \in SummaryRow
                      /\ pc' \in Streaming => k < at'
                      /\ \A i \in 1..k - 1, j \in k + 1 .. Len(rows') : ~AnswersTo(j, i)'
    BY DEF Kept, Grows, Quiet
  <2>1. /\ \A i \in covers[rows[k].of].seen + 1 .. k - 1 : i \in SummaryRow
        /\ pc \in Streaming => k < at
        /\ \A i \in 1..k - 1, j \in k + 1 .. Len(rows) : ~AnswersTo(j, i)
    BY DEF Kept
  <2>2. k \in 1..Len(rows) /\ Len(rows) \in Nat
    BY DEF SummaryRow, TypeOK
  <2>3. pc' \in Streaming => k < at'
    BY <2>1, <2>2 DEF Grows
  <2>4. ASSUME NEW i \in 1..k - 1, NEW j \in k + 1 .. Len(rows'), AnswersTo(j, i)' PROVE FALSE
    <3>1. i \in 1..Len(rows) /\ rows[i].role = "assistant" /\ rows[i].of = rows'[j].of
      BY <2>2, <2>4 DEF AnswersTo, Grows
    <3>2. CASE j \in 1..Len(rows)
      <4>1. AnswersTo(j, i)
        BY <2>4, <3>1, <3>2 DEF AnswersTo, Grows
      <4>2. j \in k + 1 .. Len(rows)
        BY <2>2, <3>2
      <4> QED BY <2>1, <4>1, <4>2
    <3>3. CASE j = Len(rows) + 1
      <4>1. pc \in Streaming /\ rows'[j].of = round
        BY <2>2, <2>4, <3>3 DEF AnswersTo, Grows
      <4>2. i = at
        BY <3>1, <4>1 DEF Placed, RowInv, OneMessage
      <4> QED BY <2>1, <2>2, <4>1, <4>2
    <3> QED BY <2>2, <3>2, <3>3 DEF Grows
  <2> QED BY <2>1, <2>3, <2>4
<1> QED
  BY <1>1, <1>2

\* Compactions are given up: those in the making have no summary.
LEMMA ForgetKeeps ==
  ASSUME TypeOK, Making, Kept, NEW ended, Forget(ended), UNCHANGED <<rows, at, pc>>,
         Latest' = Latest,
         \A n \in 1..MaxCompaction : cpc'[n] = "none" \/ (n \notin ended /\ cpc'[n] = cpc[n])
  PROVE  Making' /\ Kept'
<1>1. SummaryRow' = SummaryRow
  BY DEF SummaryRow
<1>2. \A n \in 1..MaxCompaction : n \notin ended => covers'[n] = covers[n]
  BY DEF Forget
<1>3. Making'
  BY <1>1, <1>2 DEF Making, Quiet
<1>4. \A k \in SummaryRow : covers'[rows[k].of] = covers[rows[k].of]
  BY SummaryFacts DEF Forget, Making
<1>5. Kept'
  BY <1>1, <1>4 DEF Kept, Quiet, AnswersTo, Streaming
<1> QED
  BY <1>3, <1>5

\* Every step keeps what is known of summaries.
LEMMA SummariesStep == Inv /\ Making /\ Kept /\ [Next]_vars => Making' /\ Kept'
<1> SUFFICES ASSUME Inv, Making, Kept, [Next]_vars PROVE Making' /\ Kept'
  OBVIOUS
<1>0. /\ TypeOK /\ Placed /\ RowInv /\ count \in Counts /\ covers \in Covers /\ Len(rows) \in Nat
      /\ Latest \in 0..MaxCompaction /\ MaxCompaction \in Nat
      /\ cpc \in [1..MaxCompaction -> {"none", "started", "asked", "stored"}]
  BY TurnAssumption DEF Inv, TypeOK, Counts, Latest
<1>1. CASE UNCHANGED vars \/ Cancel \/ \E n \in 1..MaxCompaction : CompactSaves(n)
  <2>1. /\ UNCHANGED <<rows, pc, at, count, covers>>
        /\ \A n \in 1..MaxCompaction : cpc'[n] = cpc[n] \/ cpc'[n] = "none"
    BY <1>0, <1>1 DEF Cancel, CompactSaves, vars, store, msg, turn, past
  <2> QED BY <2>1 DEF Making, Kept, SummaryRow, Quiet, Latest, AnswersTo
<1>2. CASE TurnStep
  BY <1>0, <1>2, TurnGrows, GrowsKeepsSummaries
<1>3. CASE Begin
  <2>0. UNCHANGED <<rows, at, cpc>> /\ pc' = "load" /\ Latest' = Latest
    BY <1>0, <1>3, LatestKept DEF Begin, store, msg, Latest
  <2>1. SummaryRow' = SummaryRow
    BY <2>0 DEF SummaryRow
  <2>2. \A n \in 1..MaxCompaction : /\ covers'[n].seen = covers[n].seen
                                    /\ Quiet(n)' => Quiet(n) /\ cpc[n] = "none"
    BY <1>0, <1>3 DEF Begin, Quiet, Covers
  <2>3. Making'
    BY <2>0, <2>1, <2>2 DEF Making
  <2>4. Kept'
    BY <1>0, <2>0, <2>1, <2>2, SummaryFacts DEF Kept, AnswersTo, Streaming
  <2> QED BY <2>3, <2>4
<1>4. CASE Compact
  <2>0. /\ UNCHANGED <<rows, pc, at, covers>> /\ Latest' = Latest + 1 /\ pc = "idle"
        /\ cpc' = [cpc EXCEPT ![Latest + 1] = "started"]
    BY <1>0, <1>4, LatestKept DEF Compact, store, msg, turn, past, Latest
  <2>1. SummaryRow' = SummaryRow
    BY <2>0 DEF SummaryRow
  <2>2. Making'
    <3>1. \A k \in SummaryRow : rows'[k].of \in 1..Latest + 1 /\ rows'[k].of # Latest + 1
      BY <1>0, <2>0 DEF Making
    <3>2. ASSUME NEW n \in 1..MaxCompaction, cpc'[n] # "none"
          PROVE  /\ n <= Latest + 1
                 /\ cpc'[n] # "stored" => \A k \in SummaryRow : rows[k].of # n
                 /\ cpc'[n] = "asked" /\ Quiet(n) =>
                      \A i \in covers[n].seen + 1 .. Len(rows) : i \in SummaryRow
      <4>1. CASE n = Latest + 1
        BY <1>0, <2>0, <3>1, <4>1
      <4>2. CASE n # Latest + 1
        BY <1>0, <2>0, <3>2, <4>2 DEF Making
      <4> QED BY <4>1, <4>2
    <3> QED BY <2>0, <2>1, <3>1, <3>2 DEF Making, Quiet
  <2>3. Kept'
    BY <2>0, <2>1 DEF Kept, Quiet, AnswersTo
  <2> QED BY <2>2, <2>3
<1>5. ASSUME NEW n \in 1..MaxCompaction, CompactLists(n) PROVE Making' /\ Kept'
  <2>0. /\ UNCHANGED <<rows, pc, at>> /\ cpc[n] = "started" /\ Latest' = Latest
        /\ cpc' = [cpc EXCEPT ![n] = "asked"]
        /\ covers' = [covers EXCEPT ![n].seen = Len(rows)]
    BY <1>5 DEF CompactLists, store, msg, turn, Latest
  <2>1. SummaryRow' = SummaryRow
    BY <2>0 DEF SummaryRow
  <2>2. n <= Latest /\ (Quiet(n) => pc = "idle") /\ \A k \in SummaryRow : rows[k].of # n
    BY <2>0 DEF Making
  <2>3. /\ covers'[n].seen = Len(rows) /\ covers'[n].beside = covers[n].beside
        /\ \A m \in 1..MaxCompaction : m # n => covers'[m] = covers[m] /\ cpc'[m] = cpc[m]
        /\ cpc'[n] = "asked" /\ Len(rows) + 1 .. Len(rows) = {}
    BY <1>0, <2>0 DEF Covers
  <2>4. Making'
    <3>1. \A m \in 1..MaxCompaction : Quiet(m)' <=> Quiet(m)
      BY <2>3 DEF Quiet
    <3> QED BY <2>0, <2>1, <2>2, <2>3, <3>1 DEF Making
  <2>5. Kept'
    BY <1>0, <2>0, <2>1, <2>2, <2>3, SummaryFacts DEF Kept, Quiet, AnswersTo
  <2> QED BY <2>4, <2>5
<1>6. ASSUME NEW c \in 1..MaxCompaction, CompactStores(c) PROVE Making' /\ Kept'
  <2> DEFINE n == Len(rows) + 1
  <2>0. /\ UNCHANGED <<pc, at, covers>> /\ cpc[c] = "asked" /\ Latest' = Latest
        /\ cpc' = [cpc EXCEPT ![c] = "stored"] /\ rows' = Append(rows, Summary(c))
    BY <1>6 DEF CompactStores, msg, turn, past, Latest
  <2>1. Summary(c) \in Row
    BY <1>0 DEF Summary, Row, Finish
  <2>2. /\ Len(rows') = n /\ rows'[n] = Summary(c) /\ n \notin 1..Len(rows)
        /\ 1..n = (1..Len(rows)) \union {n} /\ n - 1 = Len(rows) /\ n \in Nat
        /\ \A i \in 1..Len(rows) : rows'[i] = rows[i]
    BY <1>0, <2>0, <2>1, AppendRow DEF TypeOK
  <2>3. rows'[n].role = "summary" /\ rows'[n].of = c
    BY <2>2 DEF Summary
  <2> HIDE DEF n
  <2>4. SummaryRow' = SummaryRow \union {n} /\ \A k \in SummaryRow : rows'[k] = rows[k]
    BY <2>2, <2>3 DEF SummaryRow
  <2>5. /\ c \in 1..Latest /\ (Quiet(c) => pc = "idle")
        /\ Quiet(c) => \A i \in covers[c].seen + 1 .. Len(rows) : i \in SummaryRow
    BY <1>0, <2>0 DEF Making
  <2>6. Making'
    <3>1. \A k \in SummaryRow' : rows'[k].of \in 1..Latest
      BY <2>3, <2>4, <2>5 DEF Making
    <3>2. ASSUME NEW m \in 1..MaxCompaction, cpc'[m] # "none"
          PROVE  /\ m <= Latest
                 /\ Quiet(m) => pc = "idle"
                 /\ cpc'[m] # "stored" => \A k \in SummaryRow' : rows'[k].of # m
                 /\ cpc'[m] = "asked" /\ Quiet(m) =>
                      \A i \in covers[m].seen + 1 .. n : i \in SummaryRow'
      <4>1. CASE m = c
        BY <1>0, <2>0, <2>5, <4>1
      <4>2. CASE m # c
        <5>1. cpc[m] = cpc'[m]
          BY <1>0, <2>0, <4>2
        <5>2. /\ m <= Latest /\ (Quiet(m) => pc = "idle")
              /\ cpc[m] # "stored" => \A k \in SummaryRow : rows[k].of # m
              /\ cpc[m] = "asked" /\ Quiet(m) =>
                   \A i \in covers[m].seen + 1 .. Len(rows) : i \in SummaryRow
          BY <3>2, <5>1 DEF Making
        <5>3. covers[m].seen \in Nat
          BY <1>0 DEF Covers
        <5>4. \A i \in covers[m].seen + 1 .. n : i = n \/ i \in covers[m].seen + 1 .. Len(rows)
          BY <1>0, <2>2, <5>3
        <5> QED BY <2>3, <2>4, <4>2, <5>1, <5>2, <5>4
      <4> QED BY <4>1, <4>2
    <3> QED BY <2>0, <2>2, <3>1, <3>2 DEF Making, Quiet
  <2>7. Kept'
    <3>1. ASSUME NEW k \in SummaryRow, Quiet(rows[k].of)
          PROVE  /\ \A i \in covers[rows[k].of].seen + 1 .. k - 1 : i \in SummaryRow
                 /\ pc \in Streaming => k < at
                 /\ \A i \in 1..k - 1, j \in k + 1 .. n : ~AnswersTo(j, i)'
      <4>1. /\ \A i \in covers[rows[k].of].seen + 1 .. k - 1 : i \in SummaryRow
            /\ pc \in Streaming => k < at
            /\ \A i \in 1..k - 1, j \in k + 1 .. Len(rows) : ~AnswersTo(j, i)
        BY <3>1 DEF Kept
      <4>2. k \in 1..Len(rows)
        BY DEF SummaryRow
      <4>3. ASSUME NEW i \in 1..k - 1, NEW j \in k + 1 .. n PROVE ~AnswersTo(j, i)'
        <5>1. i \in 1..Len(rows) /\ (j = n \/ j \in k + 1 .. Len(rows))
          BY <1>0, <2>2, <4>2
        <5>2. CASE j = n
          BY <2>3, <5>2 DEF AnswersTo
        <5>3. CASE j \in k + 1 .. Len(rows)
          <6>1. j \in 1..Len(rows)
            BY <1>0, <4>2, <5>3
          <6> QED BY <2>2, <4>1, <5>1, <5>3, <6>1 DEF AnswersTo
        <5> QED BY <5>1, <5>2, <5>3
      <4> QED BY <4>1, <4>3
    <3>2. Quiet(c) => /\ \A i \in covers[c].seen + 1 .. n - 1 : i \in SummaryRow
                      /\ pc \notin Streaming
      BY <2>2, <2>5 DEF Streaming
    <3>3. n + 1 .. n = {}
      BY <2>2
    <3> QED BY <2>0, <2>2, <2>3, <2>4, <3>1, <3>2, <3>3 DEF Kept, Quiet
  <2> QED BY <2>6, <2>7
<1>7. ASSUME NEW n \in 1..MaxCompaction, CompactFails(n) PROVE Making' /\ Kept'
  <2>1. /\ Forget({n}) /\ UNCHANGED <<rows, at, pc>> /\ Latest' = Latest
        /\ cpc' = [cpc EXCEPT ![n] = "none"]
    BY <1>7 DEF CompactFails, store, msg, turn, Latest
  <2>2. \A m \in 1..MaxCompaction : cpc'[m] = "none" \/ (m \notin {n} /\ cpc'[m] = cpc[m])
    BY <1>0, <2>1
  <2> QED BY <1>0, <2>1, <2>2, ForgetKeeps
<1>8. CASE Crash
  <2>1. /\ rows' = rows /\ pc' = "idle" /\ Forget(1..MaxCompaction) /\ Latest' = Latest
        /\ \A n \in 1..MaxCompaction : cpc'[n] = "none"
    BY <1>0, <1>8, LatestKept DEF Crash, End, store, NoCompaction
  <2>2. SummaryRow' = SummaryRow
    BY <2>1 DEF SummaryRow
  <2>3. \A k \in SummaryRow : covers'[rows[k].of] = covers[rows[k].of]
    BY <1>0, <2>1, SummaryFacts DEF Forget, Making
  <2>4. Making'
    BY <2>1, <2>2 DEF Making
  <2>5. Kept'
    BY <2>1, <2>2, <2>3 DEF Kept, Quiet, AnswersTo, Streaming
  <2> QED BY <2>4, <2>5
<1> QED
  BY <1>1, <1>2, <1>3, <1>4, <1>5, <1>6, <1>7, <1>8 DEF Next, Compaction

-----------------------------------------------------------------------------
(* The theorems. *)

\* What is known of the rounds, with the invariant of TurnProofs, is inductive.
LEMMA HistoryInvariance == Spec => [](Inv /\ HInv)
<1>1. Init => Inv /\ HInv
  BY InitInv
  DEF Init, HInv, Memory, Finished, Fit, Told, InOrder, DenialStopsTheRest, Message, ToolRows,
      Settling
<1>2. Inv /\ HInv /\ [Next]_vars => Inv'
  BY NextTyped, NextPlaced DEF Inv
<1>3. Inv /\ HInv /\ [Next]_vars => HInv'
  BY <1>2, HistoryStep, OrderStep DEF HInv, Past
<1> QED
  BY <1>1, <1>2, <1>3, PTL DEF Spec

\* What answers a message comes after it.
LEMMA AnswersFollow ==
  ASSUME Inv, NEW i \in Message, NEW j \in ToolRows, rows[j].of = rows[i].of
  PROVE  j \in i + 1 .. Len(rows) /\ AnswersTo(j, i)
<1>1. TypeOK /\ OneMessage /\ j \in 1..Len(rows) /\ i \in 1..Len(rows) /\ Len(rows) \in Nat
  BY DEF Inv, RowInv, TypeOK, Message, ToolRows
<1>2. PICK k \in 1..j - 1 : AnswersTo(j, k)
  BY DEF Inv, RowInv, AnsweredOnceInPlace
<1>3. k = i
  <2>1. k \in 1..Len(rows)
    BY <1>1, <1>2
  <2>2. rows[k].role = "assistant" /\ rows[k].of = rows[i].of /\ rows[i].role = "assistant"
    BY <1>2 DEF AnswersTo, Message
  <2> QED BY <1>1, <2>1, <2>2 DEF OneMessage
<1> QED
  BY <1>1, <1>2, <1>3

\* However a round ended, its calls have their results and its message is marked, unless a
\* death or a failed write went through it (agent.go: streamAndHandleEvents and every early
\* return of it).
THEOREM RoundsAreClosed == Spec => []NoRoundLeftOpen
<1>1. Inv /\ HInv => NoRoundLeftOpen
  <2> SUFFICES ASSUME Inv, HInv, NEW i \in 1..Len(rows), rows[i].role = "assistant",
                      rows[i].of # round, rows[i].of \notin torn
               PROVE  /\ rows[i].fin # "none"
                      /\ rows[i].calls # {} =>
                           \E j \in i + 1 .. Len(rows) :
                             AnswersTo(j, i) /\ rows[j].calls = rows[i].calls
    BY DEF NoRoundLeftOpen
  <2>1. i \in Message /\ Done(i)
    BY DEF HInv, Finished, Passed, Message
  <2> QED BY <2>1, AnswersFollow DEF Done
<1> QED
  BY <1>1, HistoryInvariance, PTL

\* Results whose calls were never stored are the work of a death or a failed write, but for
\* the moment a cancelled round takes to write its message again (agent.go:
\* cancelPendingToolCalls, finishMessage).
THEOREM OrphansAreTorn == Spec => []OrphanOnlyIfTorn
<1>1. Inv /\ HInv => OrphanOnlyIfTorn
  <2>1. HInv => OrphanOnlyIfTorn
    BY DEF HInv, Fit, Excused, OrphanOnlyIfTorn, AnswersTo, Message, ToolRows
  <2> QED BY <2>1
<1> QED
  BY <1>1, HistoryInvariance, PTL

\* No call that follows a denied one in its message is attempted (agent.go: the tool loop).
THEOREM DenialStops == Spec => []DenialStopsTheRest
<1>1. Inv /\ HInv => DenialStopsTheRest
  BY DEF HInv, InOrder
<1> QED
  BY <1>1, HistoryInvariance, PTL

\* A refused turn's message is marked only when its results are stored (agent.go: the
\* results, then finishMessage).
THEOREM MarkedLast == Spec => []MarkedAfterAnswered
<1>1. Inv /\ HInv => MarkedAfterAnswered
  <2> SUFFICES ASSUME Inv, HInv, NEW i \in 1..Len(rows), rows[i].fin = "denied"
               PROVE  \E j \in i + 1 .. Len(rows) : AnswersTo(j, i)
    BY DEF MarkedAfterAnswered
  <2>1. i \in Message /\ rows[i].of \in Answered
    BY DEF HInv, Told, Message
  <2>2. PICK j \in ToolRows : rows[j].of = rows[i].of
    BY <2>1 DEF Answered
  <2> QED BY <2>1, <2>2, AnswersFollow
<1> QED
  BY <1>1, HistoryInvariance, PTL

\* So is what is known of the summaries.
LEMMA SummariesInvariance == Spec => [](Inv /\ CInv)
<1>1. Init => Inv /\ CInv
  BY InitInv DEF Init, CInv, Making, Kept, SummaryRow, NoCompaction
<1>2. Inv /\ CInv /\ [Next]_vars => Inv'
  BY NextTyped, NextPlaced DEF Inv
<1>3. Inv /\ CInv /\ [Next]_vars => CInv'
  BY SummariesStep DEF CInv
<1> QED
  BY <1>1, <1>2, <1>3, PTL DEF Spec

\* A compaction beside which no turn began has read every row before its summary, summaries
\* that others stored beside it excepted, and its summary stands inside no round, however
\* many compactions overlap (agent.go: Summarize).
THEOREM QuietKeepsAll == Spec => []QuietCompactionKeepsAll
<1>1. Inv /\ CInv => QuietCompactionKeepsAll
  BY DEF CInv, Kept, Quiet, SummaryRow, QuietCompactionKeepsAll
<1> QED
  BY <1>1, SummariesInvariance, PTL

-----------------------------------------------------------------------------
(* The history that is sent. *)

\* Every set of numbers has a least one.
LEMMA LeastNumber ==
  ASSUME NEW T \in SUBSET Nat, T # {}
  PROVE  \E n \in T : \A m \in T : n <= m
<1> DEFINE R == OpToRel(<, Nat)
<1>1. PICK n \in T : \A m \in T : ~(<<m, n>> \in R)
  BY NatLessThanWellFounded, WFMin
<1>2. \A m \in T : ~(m < n)
  BY <1>1 DEF OpToRel
<1>3. \A m \in T : m \in Nat /\ n \in Nat
  OBVIOUS
<1> QED
  BY <1>2, <1>3

\* Flattening puts the blocks one after the other: F[i] are the first i of them.
LEMMA Flattening ==
  ASSUME NEW s \in Seq(Seq(Row)), Len(s) # 0
  PROVE  \E F :
           /\ F[1] = s[1] /\ FlattenSeq(s) = F[Len(s)]
           /\ \A i \in 2..Len(s) : F[i] = F[i - 1] \o s[i]
<1> DEFINE N    == Len(s)
           Step(g, n) == [i \in 1..n |-> IF i = 1 THEN s[i] ELSE g[i - 1] \o s[i]]
           Fine(n) == \E g \in [1..n -> Seq(Row)] : g = Step(g, n)
           Bad  == {n \in 0..N : ~Fine(n)}
<1>0. N \in Nat /\ N # 0 /\ \A i \in 1..N : s[i] \in Seq(Row)
  OBVIOUS
<1>1. Fine(0)
  <2>1. <<>> \in [1..0 -> Seq(Row)] /\ <<>> = Step(<<>>, 0)
    OBVIOUS
  <2> QED BY <2>1
<1>2. ASSUME NEW n \in Nat, n < N, Fine(n)
      PROVE  Fine(n + 1)
  <2>1. PICK g \in [1..n -> Seq(Row)] : g = Step(g, n)
    BY <1>2
  <2> DEFINE h == [i \in 1..n + 1 |-> IF i \in 1..n THEN g[i]
                                      ELSE IF i = 1 THEN s[i] ELSE g[i - 1] \o s[i]]
  <2>2. n + 1 \in 1..N /\ s[n + 1] \in Seq(Row)
    BY <1>0, <1>2
  <2>3. \A i \in 1..n + 1 : h[i] \in Seq(Row)
    <3>1. \A i \in 1..n : h[i] = g[i] /\ g[i] \in Seq(Row)
      OBVIOUS
    <3>2. CASE n = 0
      BY <1>0, <2>2, <3>2
    <3>3. CASE n # 0
      <4>0. n \in 1..n /\ n + 1 \in 1..n + 1 /\ n + 1 \notin 1..n /\ n + 1 # 1 /\ n + 1 - 1 = n
        BY <3>3
      <4>1. h[n + 1] = g[n] \o s[n + 1]
        BY <4>0
      <4>2. h[n + 1] \in Seq(Row)
        BY <2>2, <3>1, <4>0, <4>1
      <4> QED BY <3>1, <4>2
    <3> QED BY <3>2, <3>3
  <2>4. h = Step(h, n + 1)
    <3>1. ASSUME NEW i \in 1..n + 1
          PROVE  h[i] = IF i = 1 THEN s[i] ELSE h[i - 1] \o s[i]
      <4>1. CASE i \in 1..n
        <5>1. h[i] = IF i = 1 THEN s[i] ELSE g[i - 1] \o s[i]
          BY <2>1, <4>1
        <5>2. i # 1 => h[i - 1] = g[i - 1]
          BY <4>1
        <5> QED BY <5>1, <5>2
      <4>2. CASE i \notin 1..n
        <5>1. i # 1 => i - 1 \in 1..n
          BY <3>1, <4>2
        <5> QED BY <4>2, <5>1
      <4> QED BY <4>1, <4>2
    <3> QED BY <3>1
  <2>5. h \in [1..n + 1 -> Seq(Row)]
    BY <2>3
  <2> QED BY <2>4, <2>5
<1>3. Fine(N)
  <2> HIDE DEF Fine
  <2> SUFFICES ASSUME ~Fine(N) PROVE FALSE
    OBVIOUS
  <2>1. Bad # {} /\ Bad \subseteq Nat
    BY <1>0
  <2>2. PICK n \in Bad : \A m \in Bad : n <= m
    BY <2>1, LeastNumber
  <2>3. n # 0 /\ n \in 0..N /\ ~Fine(n)
    BY <1>1, <2>2
  <2>4. n - 1 \in 0..N /\ n - 1 \notin Bad
    BY <1>0, <2>2, <2>3
  <2>5. Fine(n - 1) /\ n - 1 \in Nat /\ n - 1 < N /\ n - 1 + 1 = n
    BY <1>0, <2>3, <2>4
  <2> QED BY <1>2, <2>3, <2>5
<1>4. PICK g \in [1..N -> Seq(Row)] : g = Step(g, N)
  BY <1>3
<1> DEFINE F == CHOOSE f : f = Step(f, N)
<1>5. F = Step(F, N)
  BY <1>4
<1>6. FlattenSeq(s) = F[N]
  BY <1>0 DEF FlattenSeq
<1> QED
  <2> HIDE DEF F
  <2>1. \A i \in 1..N : F[i] = IF i = 1 THEN s[i] ELSE F[i - 1] \o s[i]
    BY <1>5
  <2>2. 1 \in 1..N /\ \A i \in 2..N : i \in 1..N /\ i # 1
    BY <1>0
  <2>3. F[1] = s[1] /\ \A i \in 2..N : F[i] = F[i - 1] \o s[i]
    BY <2>1, <2>2
  <2> QED BY <1>6, <2>3

\* The tool row at i answers the message at k, with nothing but answers between them, and no
\* call that these answered.
RepliesTo(s, k, i) ==
  /\ s[k].role = "assistant" /\ s[i].of = s[k].of /\ s[i].calls \subseteq s[k].calls
  /\ \A l \in k + 1 .. i - 1 : s[l].role = "tool" /\ s[l].calls \intersect s[i].calls = {}

Fits(s, i) == s[i].role = "tool" => \E k \in 1..i - 1 : RepliesTo(s, k, i)

\* Each call of the message at k is answered by one of the tool rows right after it.
Closed(s, k) == s[k].role = "assistant" =>
  \A c \in s[k].calls : \E j \in k + 1 .. Len(s) :
    c \in s[j].calls /\ \A l \in k + 1 .. j : s[l].role = "tool" /\ s[l].of = s[k].of

Sendable(s) == s \in Seq(Row) /\ \A i \in 1..Len(s) : Fits(s, i) /\ Closed(s, i)

\* Stored as a turn stores: a message's results in the row right after it.
Neat(s) == s \in Seq(Row) /\ \A j \in 1..Len(s) : s[j].role = "tool" =>
  /\ j - 1 \in 1..Len(s) /\ s[j - 1].role = "assistant"
  /\ s[j].of = s[j - 1].of /\ s[j].calls \subseteq s[j - 1].calls

\* The last row that is no answer, when it is known.
LEMMA OwnerIs ==
  ASSUME NEW s \in Seq(Row), NEW i \in 1..Len(s), NEW k \in 1..i, s[k].role # "tool",
         \A l \in k + 1 .. i : s[l].role = "tool"
  PROVE  Owner(s, i) = k /\ k # 0
<1> DEFINE before == {l \in 1..i : s[l].role # "tool"}
<1>1. k \in before /\ \A l \in before : l <= k
  OBVIOUS
<1>2. \A m \in before : (\A l \in before : l <= m) => m = k
  BY <1>1
<1>3. (CHOOSE m \in before : \A l \in before : l <= m) = k
  BY <1>1, <1>2
<1> QED
  BY <1>1, <1>3 DEF Owner

\* The history a provider takes.
LEMMA SendableIsAcceptable ==
  ASSUME NEW s, Sendable(s)
  PROVE  Acceptable(s)
<1>0. s \in Seq(Row) /\ Len(s) \in Nat
  BY DEF Sendable
<1> SUFFICES ASSUME NEW i \in 1..Len(s)
             PROVE  /\ ~LeavesOpen(s, i)
                    /\ s[i].role = "tool" =>
                         LET k == Owner(s, i)
                         IN  /\ k # 0 /\ s[k].role = "assistant" /\ s[i].of = s[k].of
                             /\ s[i].calls \subseteq
                                  s[k].calls \ UNION {s[j].calls : j \in k + 1 .. i - 1}
  BY DEF Acceptable
<1>1. PICK k \in 1..i : /\ s[k].role # "tool" /\ \A l \in k + 1 .. i : s[l].role = "tool"
                        /\ s[i].role = "tool" => k # i /\ RepliesTo(s, k, i)
  <2>1. CASE s[i].role = "tool"
    <3>1. PICK k \in 1..i - 1 : RepliesTo(s, k, i)
      BY <2>1 DEF Sendable, Fits
    <3>2. k \in 1..i /\ k # i /\ s[k].role # "tool" /\ \A l \in k + 1 .. i : s[l].role = "tool"
      BY <2>1, <3>1 DEF RepliesTo
    <3> QED BY <3>1, <3>2
  <2>2. CASE s[i].role # "tool"
    BY <2>2
  <2> QED BY <2>1, <2>2
<1>2. Owner(s, i) = k /\ k # 0
  BY <1>0, <1>1, OwnerIs
<1>3. ~LeavesOpen(s, i)
  <2> SUFFICES ASSUME s[k].role = "assistant", i = Len(s) \/ s[i + 1].role # "tool",
                      NEW c \in Missing(s, k, i)
               PROVE  FALSE
    BY <1>2 DEF LeavesOpen
  <2>1. /\ c \in s[k].calls
        /\ \A j \in k + 1 .. i : s[j].of = s[k].of => c \notin s[j].calls
    BY DEF Missing
  <2>2. k \in 1..Len(s)
    BY <1>0
  <2>3. PICK j \in k + 1 .. Len(s) :
          c \in s[j].calls /\ \A l \in k + 1 .. j : s[l].role = "tool" /\ s[l].of = s[k].of
    BY <2>1, <2>2 DEF Sendable, Closed
  <2>4. CASE j <= i
    BY <1>0, <2>1, <2>3, <2>4
  <2>5. CASE ~(j <= i)
    <3>1. i + 1 \in k + 1 .. j /\ i # Len(s)
      BY <1>0, <2>3, <2>5
    <3> QED BY <2>3, <3>1
  <2> QED BY <2>4, <2>5
<1>4. ASSUME s[i].role = "tool"
      PROVE  s[i].calls \subseteq s[k].calls \ UNION {s[j].calls : j \in k + 1 .. i - 1}
  BY <1>1, <1>4 DEF RepliesTo
<1> QED
  BY <1>1, <1>2, <1>3, <1>4 DEF RepliesTo

\* What holds of a row holds of it in a longer history.
LEMMA Longer ==
  ASSUME NEW t \in Seq(Row), NEW u \in Seq(Row), Len(t) <= Len(u),
         \A i \in 1..Len(t) : u[i] = t[i], NEW i \in 1..Len(t)
  PROVE  /\ Fits(t, i) => Fits(u, i)
         /\ Closed(t, i) => Closed(u, i)
<1>0. Len(t) \in Nat /\ Len(u) \in Nat /\ u[i] = t[i]
  OBVIOUS
<1>1. ASSUME Fits(t, i), t[i].role = "tool"
      PROVE  \E k \in 1..i - 1 : RepliesTo(u, k, i)
  <2>1. PICK k \in 1..i - 1 : RepliesTo(t, k, i)
    BY <1>1 DEF Fits
  <2>2. k \in 1..Len(t) /\ \A l \in k + 1 .. i - 1 : l \in 1..Len(t)
    BY <1>0
  <2>3. u[k] = t[k] /\ \A l \in k + 1 .. i - 1 : u[l] = t[l]
    BY <2>2
  <2> QED BY <1>0, <2>1, <2>3 DEF RepliesTo
<1>2. ASSUME Closed(t, i), t[i].role = "assistant", NEW c \in t[i].calls
      PROVE  \E j \in i + 1 .. Len(u) :
               c \in u[j].calls /\ \A l \in i + 1 .. j : u[l].role = "tool" /\ u[l].of = t[i].of
  <2>1. PICK j \in i + 1 .. Len(t) :
          c \in t[j].calls /\ \A l \in i + 1 .. j : t[l].role = "tool" /\ t[l].of = t[i].of
    BY <1>2 DEF Closed
  <2>2. j \in 1..Len(t) /\ j \in i + 1 .. Len(u) /\ \A l \in i + 1 .. j : l \in 1..Len(t)
    BY <1>0
  <2>3. u[j] = t[j] /\ \A l \in i + 1 .. j : u[l] = t[l]
    BY <2>2
  <2> QED BY <2>1, <2>2, <2>3
<1>3. Fits(t, i) => Fits(u, i)
  BY <1>0, <1>1 DEF Fits
<1>4. Closed(t, i) => Closed(u, i)
  BY <1>0, <1>2 DEF Closed
<1> QED
  BY <1>3, <1>4

\* A history whose last message may still want its answers.
Half(t) == t \in Seq(Row) /\ \A i \in 1..Len(t) : Fits(t, i) /\ (i # Len(t) => Closed(t, i))

\* A row that is no answer comes after a history that wants none.
LEMMA AddPlain ==
  ASSUME NEW t, Half(t), Len(t) # 0 => Closed(t, Len(t)), NEW e \in Row, e.role # "tool"
  PROVE  /\ Half(Append(t, e)) /\ Len(Append(t, e)) = Len(t) + 1
         /\ Append(t, e)[Len(t) + 1] = e
         /\ (e.role = "assistant" => e.calls = {}) => Sendable(Append(t, e))
<1> DEFINE u == Append(t, e)
           n == Len(t) + 1
<1>0. t \in Seq(Row) /\ Len(t) \in Nat
  BY DEF Half
<1>1. /\ u \in Seq(Row) /\ Len(u) = n /\ u[n] = e /\ n \in Nat
      /\ \A i \in 1..Len(t) : u[i] = t[i]
  BY <1>0
<1> HIDE DEF u
<1>2. \A i \in 1..Len(t) : Fits(t, i) /\ Closed(t, i)
  BY <1>0 DEF Half
<1>3. \A i \in 1..Len(t) : Fits(u, i) /\ Closed(u, i)
  BY <1>0, <1>1, <1>2, Longer
<1>4. Fits(u, n)
  BY <1>1 DEF Fits
<1>5. \A i \in 1..n : i \in 1..Len(t) \/ i = n
  BY <1>0
<1>6. Half(u)
  BY <1>1, <1>3, <1>4, <1>5 DEF Half
<1>7. (e.role = "assistant" => e.calls = {}) => Sendable(u)
  BY <1>1, <1>3, <1>4, <1>5 DEF Sendable, Closed
<1> QED
  BY <1>1, <1>6, <1>7 DEF u

\* The answers to all calls of the last message.
LEMMA AddAnswer ==
  ASSUME NEW t, Half(t), Len(t) # 0, t[Len(t)].role = "assistant",
         NEW e \in Row, e.role = "tool", e.of = t[Len(t)].of, e.calls = t[Len(t)].calls
  PROVE  Sendable(Append(t, e))
<1> DEFINE u == Append(t, e)
           m == Len(t)
           n == Len(t) + 1
<1>0. t \in Seq(Row) /\ m \in Nat /\ m # 0
  BY DEF Half
<1>1. /\ u \in Seq(Row) /\ Len(u) = n /\ u[n] = e /\ n \in Nat
      /\ \A i \in 1..m : u[i] = t[i]
  BY <1>0
<1> HIDE DEF u
<1>2. u[m] = t[m] /\ m \in 1..m /\ n = m + 1
  BY <1>0, <1>1
<1> HIDE DEF m, n
<1>3. \A i \in 1..m : Fits(u, i) /\ (i # m => Closed(u, i))
  BY <1>0, <1>1, <1>2, Longer DEF Half, m
<1>4. Fits(u, n)
  <2>1. m \in 1..n - 1 /\ \A l \in m + 1 .. n - 1 : FALSE
    BY <1>0, <1>2
  <2> QED BY <1>1, <1>2, <2>1 DEF Fits, RepliesTo, m
<1>5. Closed(u, m)
  <2>1. n \in m + 1 .. Len(u) /\ \A l \in m + 1 .. n : l = n
    BY <1>0, <1>1, <1>2
  <2> QED BY <1>1, <1>2, <2>1 DEF Closed, m
<1>6. Closed(u, n)
  BY <1>1 DEF Closed
<1>7. \A i \in 1..Len(u) : i \in 1..m \/ i = n
  BY <1>0, <1>1, <1>2
<1> QED
  BY <1>1, <1>3, <1>4, <1>5, <1>6, <1>7 DEF Sendable, u

\* Answers to some of its calls, and then to the others.
LEMMA AddTwo ==
  ASSUME NEW t, Half(t), Len(t) # 0, t[Len(t)].role = "assistant",
         NEW e \in Row, e.role = "tool", e.of = t[Len(t)].of, e.calls \subseteq t[Len(t)].calls,
         NEW f \in Row, f.role = "tool", f.of = e.of, f.calls = t[Len(t)].calls \ e.calls
  PROVE  Sendable(t \o <<e, f>>)
<1> DEFINE u == t \o <<e, f>>
           m == Len(t)
           n == Len(t) + 1
           o == Len(t) + 2
<1>0. t \in Seq(Row) /\ m \in Nat /\ m # 0
  BY DEF Half
<1>1. /\ u \in Seq(Row) /\ Len(u) = o /\ u[n] = e /\ u[o] = f /\ o \in Nat /\ n \in Nat
      /\ \A i \in 1..m : u[i] = t[i]
  BY <1>0
<1> HIDE DEF u
<1>2. u[m] = t[m] /\ m \in 1..m /\ n = m + 1 /\ o = m + 2
  BY <1>0, <1>1
<1> HIDE DEF m, n, o
<1>3. \A i \in 1..m : Fits(u, i) /\ (i # m => Closed(u, i))
  BY <1>0, <1>1, <1>2, Longer DEF Half, m
<1>4. Fits(u, n)
  <2>1. m \in 1..n - 1 /\ \A l \in m + 1 .. n - 1 : FALSE
    BY <1>0, <1>2
  <2> QED BY <1>1, <1>2, <2>1 DEF Fits, RepliesTo, m
<1>5. Fits(u, o)
  <2>1. m \in 1..o - 1 /\ \A l \in m + 1 .. o - 1 : l = n
    BY <1>0, <1>2
  <2> QED BY <1>1, <1>2, <2>1 DEF Fits, RepliesTo, m
<1>6. Closed(u, m)
  <2>1. /\ n \in m + 1 .. Len(u) /\ \A l \in m + 1 .. n : l = n
        /\ o \in m + 1 .. Len(u) /\ \A l \in m + 1 .. o : l = n \/ l = o
    BY <1>0, <1>1, <1>2
  <2>2. \A c \in u[m].calls : c \in e.calls \/ c \in f.calls
    BY <1>2 DEF m
  <2> QED BY <1>1, <1>2, <2>1, <2>2 DEF Closed, m
<1>7. Closed(u, n) /\ Closed(u, o)
  BY <1>1 DEF Closed
<1>8. \A i \in 1..Len(u) : i \in 1..m \/ i = n \/ i = o
  BY <1>0, <1>1, <1>2
<1> QED
  BY <1>1, <1>3, <1>4, <1>5, <1>6, <1>7, <1>8 DEF Sendable, u

\* Which calls of a neat history have no result.
LEMMA NeatRows ==
  ASSUME NEW s, Neat(s), NEW i \in 1..Len(s)
  PROVE  /\ s \in Seq(Row) /\ Len(s) \in Nat /\ s[i] \in Row
         /\ s[i].role # "tool" => Owner(s, i) = i /\ Missing(s, i, i) = s[i].calls
         /\ s[i].role = "tool" =>
              /\ i - 1 \in 1..Len(s) /\ s[i - 1] \in Row /\ s[i - 1].role = "assistant"
              /\ s[i].of = s[i - 1].of /\ s[i].calls \subseteq s[i - 1].calls
              /\ Owner(s, i) = i - 1 /\ Missing(s, i - 1, i) = s[i - 1].calls \ s[i].calls
              /\ ~LeavesOpen(s, i - 1) /\ (i = Len(s) \/ s[i + 1].role # "tool")
<1>1. s \in Seq(Row) /\ Len(s) \in Nat /\ s[i] \in Row
  BY DEF Neat
<1>2. ASSUME NEW k \in 1..Len(s), s[k].role # "tool"
      PROVE  Owner(s, k) = k
  <2>1. k \in 1..k /\ \A l \in k + 1 .. k : FALSE
    OBVIOUS
  <2> QED BY <1>1, <1>2, <2>1, OwnerIs
<1>3. Missing(s, i, i) = s[i].calls
  BY DEF Missing
<1>4. ASSUME s[i].role = "tool"
      PROVE  /\ i - 1 \in 1..Len(s) /\ s[i - 1] \in Row /\ s[i - 1].role = "assistant"
             /\ s[i].of = s[i - 1].of /\ s[i].calls \subseteq s[i - 1].calls
             /\ Owner(s, i) = i - 1 /\ Missing(s, i - 1, i) = s[i - 1].calls \ s[i].calls
             /\ ~LeavesOpen(s, i - 1) /\ (i = Len(s) \/ s[i + 1].role # "tool")
  <2>1. /\ i - 1 \in 1..Len(s) /\ s[i - 1].role = "assistant"
        /\ s[i].of = s[i - 1].of /\ s[i].calls \subseteq s[i - 1].calls
    BY <1>4 DEF Neat
  <2>2. s[i - 1] \in Row
    BY <1>1, <2>1
  <2>3. i - 1 \in 1..i /\ \A l \in i - 1 + 1 .. i : l = i
    BY <2>1
  <2>4. Owner(s, i) = i - 1
    BY <1>1, <1>4, <2>1, <2>3, OwnerIs
  <2>5. Missing(s, i - 1, i) = s[i - 1].calls \ s[i].calls
    <3>1. {l \in i - 1 + 1 .. i : s[l].of = s[i - 1].of} = {i}
      BY <2>1, <2>3
    <3> QED BY <3>1 DEF Missing
  <2>6. ~LeavesOpen(s, i - 1)
    <3>1. Owner(s, i - 1) = i - 1 /\ i - 1 # Len(s) /\ i - 1 + 1 = i
      BY <1>1, <1>2, <2>1
    <3> QED BY <1>4, <3>1 DEF LeavesOpen
  <2>7. i = Len(s) \/ s[i + 1].role # "tool"
    <3> SUFFICES ASSUME i # Len(s), s[i + 1].role = "tool"
                 PROVE  FALSE
      OBVIOUS
    <3>1. i + 1 \in 1..Len(s) /\ i + 1 - 1 = i
      BY <1>1
    <3>2. s[i].role = "assistant"
      BY <3>1 DEF Neat
    <3> QED BY <1>4, <3>2
  <2> QED BY <2>1, <2>2, <2>4, <2>5, <2>6, <2>7
<1> QED
  BY <1>1, <1>2, <1>3, <1>4

\* A message after which no call is left open and no answer comes has no calls.
LEMMA NothingOpen ==
  ASSUME NEW s, Neat(s), NEW i \in 1..Len(s), s[i].role = "assistant", ~LeavesOpen(s, i),
         i = Len(s) \/ s[i + 1].role # "tool"
  PROVE  s[i].calls = {}
<1>1. s[i] \in Row /\ Owner(s, i) = i /\ Missing(s, i, i) = s[i].calls /\ i # 0
  BY NeatRows
<1> QED
  BY <1>1 DEF LeavesOpen

\* Whatever deaths and failed writes left of its rounds, a neat history is made one that a
\* provider takes.
LEMMA RepairedIsSendable ==
  ASSUME NEW s, Neat(s)
  PROVE  Sendable(Repaired(s))
<1> DEFINE N == Len(s)
           Block(i) == IF LeavesOpen(s, i)
                         THEN <<s[i], Answers(s[Owner(s, i)].of, Missing(s, Owner(s, i), i))>>
                         ELSE <<s[i]>>
           b == [i \in 1..N |-> Block(i)]
<1>0. N \in Nat /\ s \in Seq(Row) /\ \A i \in 1..N : s[i] \in Row
  BY DEF Neat
<1>1. CASE N = 0
  <2>1. Len(b) = 0 /\ b = <<>>
    BY <1>1
  <2>2. Repaired(s) = <<>>
    BY <2>1 DEF Repaired, FlattenSeq
  <2> QED BY <2>2 DEF Sendable
<1>2. CASE N # 0
  <2>1. ASSUME NEW i \in 1..N
        PROVE  /\ LeavesOpen(s, i) =>
                    \E k \in {i, i - 1} :
                      /\ k \in 1..N /\ s[k].role = "assistant" /\ (k = i <=> s[i].role # "tool")
                      /\ Block(i) = <<s[i], Answers(s[k].of, Missing(s, k, i))>>
                      /\ Answers(s[k].of, Missing(s, k, i)) \in Row
               /\ ~LeavesOpen(s, i) => Block(i) = <<s[i]>>
    <3>1. ASSUME LeavesOpen(s, i)
          PROVE  \E k \in {i, i - 1} :
                   /\ k \in 1..N /\ s[k].role = "assistant" /\ (k = i <=> s[i].role # "tool")
                   /\ Block(i) = <<s[i], Answers(s[k].of, Missing(s, k, i))>>
                   /\ Answers(s[k].of, Missing(s, k, i)) \in Row
      <4>1. PICK k \in {i, i - 1} :
              k \in 1..N /\ Owner(s, i) = k /\ (k = i <=> s[i].role # "tool")
        BY <1>0, NeatRows
      <4>2. s[k].role = "assistant" /\ s[k] \in Row
        BY <1>0, <3>1, <4>1 DEF LeavesOpen
      <4>3. s[k].of \in Nat /\ Missing(s, k, i) \in SUBSET Call
        BY <4>2 DEF Missing, Row
      <4>4. Answers(s[k].of, Missing(s, k, i)) \in Row
        BY <4>3 DEF Answers, Row, Finish
      <4>5. Block(i) = <<s[i], Answers(s[k].of, Missing(s, k, i))>>
        BY <3>1, <4>1
      <4> QED BY <4>1, <4>2, <4>4, <4>5
    <3> QED BY <3>1
  <2>2. \A i \in 1..N : Block(i) \in Seq(Row)
    <3> HIDE DEF Block
    <3> SUFFICES ASSUME NEW i \in 1..N PROVE Block(i) \in Seq(Row)
      OBVIOUS
    <3>1. s[i] \in Row
      BY <1>0
    <3>2. CASE ~LeavesOpen(s, i)
      <4>1. Block(i) = <<s[i]>>
        BY <2>1, <3>2
      <4> QED BY <3>1, <4>1
    <3>3. CASE LeavesOpen(s, i)
      <4>1. PICK k \in {i, i - 1} :
              /\ Block(i) = <<s[i], Answers(s[k].of, Missing(s, k, i))>>
              /\ Answers(s[k].of, Missing(s, k, i)) \in Row
        BY <2>1, <3>3
      <4> QED BY <3>1, <4>1
    <3> QED BY <3>2, <3>3
  <2>3. b \in Seq(Seq(Row)) /\ Len(b) = N /\ \A i \in 1..N : b[i] = Block(i)
    <3> HIDE DEF Block
    <3> QED BY <1>0, <2>2
  <2>4. Repaired(s) = FlattenSeq(b)
    BY DEF Repaired
  <2> HIDE DEF b, Block
  <2>5. PICK F : /\ F[1] = b[1] /\ FlattenSeq(b) = F[Len(b)]
                 /\ \A i \in 2..Len(b) : F[i] = F[i - 1] \o b[i]
    BY <1>2, <2>3, Flattening
  \* The first i rows, repaired.
  <2> DEFINE Good(i) == /\ Half(F[i]) /\ Len(F[i]) # 0
                        /\ LeavesOpen(s, i) => Sendable(F[i])
                        /\ ~LeavesOpen(s, i) => F[i][Len(F[i])] = s[i]
  <2>6. ASSUME NEW t, Half(t), Len(t) # 0 => Closed(t, Len(t)), NEW i \in 1..N,
               s[i].role # "tool", F[i] = t \o b[i]
        PROVE  Good(i)
    <3> DEFINE u == Append(t, s[i])
    <3>1. Half(u) /\ Len(u) = Len(t) + 1 /\ u[Len(u)] = s[i]
      BY <1>0, <2>6, AddPlain
    <3>2. t \in Seq(Row) /\ Len(t) \in Nat /\ Len(u) # 0 /\ s[i] \in Row
      BY <1>0, <2>6, <3>1 DEF Half
    <3>3. CASE ~LeavesOpen(s, i)
      <4>1. b[i] = <<s[i]>> /\ t \o <<s[i]>> = u
        BY <2>1, <2>3, <2>6, <3>2, <3>3
      <4>2. F[i] = u
        BY <2>6, <4>1
      <4> QED BY <3>1, <3>2, <3>3, <4>2
    <3>4. CASE LeavesOpen(s, i)
      <4>1. /\ s[i].role = "assistant"
            /\ b[i] = <<s[i], Answers(s[i].of, Missing(s, i, i))>>
            /\ Answers(s[i].of, Missing(s, i, i)) \in Row
        BY <2>1, <2>3, <2>6, <3>4
      <4>2. Missing(s, i, i) = s[i].calls
        BY <2>6, NeatRows
      <4> DEFINE e == Answers(s[i].of, s[i].calls)
      <4>3. e \in Row /\ e.role = "tool" /\ e.of = s[i].of /\ e.calls = s[i].calls
        BY <4>1, <4>2 DEF Answers
      <4>4. b[i] = <<s[i], e>>
        BY <4>1, <4>2
      <4> HIDE DEF e
      <4>5. F[i] = Append(u, e)
        BY <2>6, <3>2, <4>3, <4>4
      <4> HIDE DEF u
      <4>6. Sendable(F[i])
        BY <3>1, <3>2, <4>1, <4>3, <4>5, AddAnswer
      <4>7. Half(F[i]) /\ Len(F[i]) # 0
        BY <3>1, <3>2, <4>3, <4>5, <4>6 DEF Half, Sendable
      <4> QED BY <3>4, <4>6, <4>7
    <3> QED BY <3>3, <3>4
  <2>7. Good(1)
    <3>1. 1 \in 1..N /\ s[1].role # "tool"
      BY <1>0, <1>2 DEF Neat
    <3>2. Half(<<>>) /\ Len(<<>>) = 0
      BY DEF Half
    <3>3. F[1] = <<>> \o b[1]
      BY <2>2, <2>3, <2>5, <3>1
    <3> HIDE DEF Good
    <3> QED BY <2>6, <3>1, <3>2, <3>3
  <2>8. ASSUME NEW i \in 1..N, i # 1, Good(i - 1)
        PROVE  Good(i)
    <3>a. i - 1 \in 1..N /\ i - 1 + 1 = i /\ i \in 2..Len(b)
      <4> HIDE DEF Good
      <4> QED BY <1>0, <2>3, <2>8
    <3>0. i - 1 \in 1..N /\ F[i] = F[i - 1] \o b[i] /\ i - 1 + 1 = i
      BY <2>5, <3>a
    <3> DEFINE t == F[i - 1]
    <3>1. t \in Seq(Row) /\ Len(t) \in Nat /\ Len(t) # 0 /\ Half(t)
      BY <2>8 DEF Half
    <3>2. CASE s[i].role # "tool"
      <4>1. Closed(t, Len(t))
        <5>1. CASE LeavesOpen(s, i - 1)
          BY <2>8, <3>1, <5>1 DEF Sendable
        <5>2. CASE ~LeavesOpen(s, i - 1)
          <6>1. s[i - 1].role = "assistant" => s[i - 1].calls = {}
            BY <3>0, <3>2, <5>2, NothingOpen
          <6> QED BY <2>8, <5>2, <6>1 DEF Closed
        <5> QED BY <5>1, <5>2
      <4> HIDE DEF Good
      <4> QED BY <2>6, <3>0, <3>1, <3>2, <4>1
    <3>3. CASE s[i].role = "tool"
      <4>1. /\ s[i] \in Row /\ s[i - 1] \in Row /\ s[i - 1].role = "assistant"
            /\ s[i].of = s[i - 1].of /\ s[i].calls \subseteq s[i - 1].calls
            /\ Owner(s, i) = i - 1 /\ Missing(s, i - 1, i) = s[i - 1].calls \ s[i].calls
            /\ ~LeavesOpen(s, i - 1) /\ (i = Len(s) \/ s[i + 1].role # "tool")
        BY <3>3, NeatRows
      <4>2. t[Len(t)] = s[i - 1]
        BY <2>8, <4>1
      <4>3. CASE ~LeavesOpen(s, i)
        <5>1. s[i].calls = s[i - 1].calls
          <6>1. Missing(s, i - 1, i) = {}
            BY <3>0, <4>1, <4>3 DEF LeavesOpen
          <6>2. s[i - 1].calls \ s[i].calls = {}
            BY <4>1, <6>1
          <6> QED BY <4>1, <6>2
        <5>a. b[i] = <<s[i]>> /\ t \o <<s[i]>> = Append(t, s[i])
          BY <2>1, <2>3, <3>1, <4>1, <4>3
        <5>2. F[i] = Append(t, s[i])
          BY <3>0, <5>a
        <5>3. Sendable(F[i])
          BY <3>1, <3>3, <4>1, <4>2, <5>1, <5>2, AddAnswer
        <5>4. Half(F[i]) /\ Len(F[i]) # 0 /\ F[i][Len(F[i])] = s[i]
          BY <3>1, <4>1, <5>2, <5>3 DEF Half, Sendable
        <5> QED BY <4>3, <5>4
      <4>4. CASE LeavesOpen(s, i)
        <5>1. /\ b[i] = <<s[i], Answers(s[i - 1].of, Missing(s, i - 1, i))>>
              /\ Answers(s[i - 1].of, Missing(s, i - 1, i)) \in Row
          BY <2>1, <2>3, <3>3, <4>4
        <5> DEFINE f == Answers(s[i - 1].of, Missing(s, i - 1, i))
        <5>2. /\ f \in Row /\ f.role = "tool" /\ f.of = s[i].of
              /\ f.calls = s[i - 1].calls \ s[i].calls
          BY <4>1, <5>1 DEF Answers
        <5>3. F[i] = t \o <<s[i], f>>
          BY <3>0, <5>1
        <5> HIDE DEF f
        <5>a. /\ s[i] \in Row /\ s[i].of = t[Len(t)].of /\ s[i].calls \subseteq t[Len(t)].calls
              /\ t[Len(t)].role = "assistant" /\ f.calls = t[Len(t)].calls \ s[i].calls
          BY <4>1, <4>2, <5>2
        <5>b. Sendable(t \o <<s[i], f>>)
          BY <3>1, <3>3, <5>2, <5>a, AddTwo
        <5>4. Sendable(F[i])
          BY <5>3, <5>b
        <5>5. Len(F[i]) # 0
          BY <3>1, <4>1, <5>2, <5>3
        <5> QED BY <4>4, <5>4, <5>5 DEF Half, Sendable
      <4> QED BY <4>3, <4>4
    <3> QED BY <3>2, <3>3
  <2>9. Good(N)
    <3> HIDE DEF Good
    <3> SUFFICES ASSUME ~Good(N) PROVE FALSE
      OBVIOUS
    <3> DEFINE Bad == {i \in 1..N : ~Good(i)}
    <3>1. Bad # {} /\ Bad \subseteq Nat
      BY <1>0, <1>2
    <3>2. PICK i \in Bad : \A m \in Bad : i <= m
      BY <3>1, LeastNumber
    <3>3. i \in 1..N /\ ~Good(i) /\ i # 1
      BY <2>7, <3>2
    <3>4. i - 1 \in 1..N /\ i - 1 \notin Bad
      BY <1>0, <3>2, <3>3
    <3> QED BY <2>8, <3>3, <3>4
  <2>10. Closed(F[N], Len(F[N]))
    <3>1. CASE LeavesOpen(s, N)
      BY <2>9, <3>1 DEF Sendable, Half
    <3>2. CASE ~LeavesOpen(s, N)
      <4>1. s[N].role = "assistant" => s[N].calls = {}
        BY <1>0, <1>2, <3>2, NothingOpen
      <4> QED BY <2>9, <3>2, <4>1 DEF Closed
    <3> QED BY <3>1, <3>2
  <2>11. Sendable(F[N])
    BY <2>9, <2>10 DEF Half, Sendable
  <2> QED BY <2>3, <2>4, <2>5, <2>11
<1> QED
  BY <1>1, <1>2

\* The rows from one on, the first of them rewritten.
LEMMA TailRows ==
  ASSUME NEW s \in Seq(Row), NEW i \in 1..Len(s), [s[i] EXCEPT !.role = "user"] \in Row
  PROVE  LET u == [SubSeq(s, i, Len(s)) EXCEPT ![1].role = "user"]
         IN  /\ u \in Seq(Row) /\ Len(u) = Len(s) - i + 1 /\ u[1] = [s[i] EXCEPT !.role = "user"]
             /\ \A m \in 2..Len(s) - i + 1 : u[m] = s[i + m - 1] /\ i + m - 1 \in 1..Len(s)
<1> DEFINE M == Len(s) - i + 1
           t == SubSeq(s, i, Len(s))
           u == [t EXCEPT ![1].role = "user"]
<1>0. Len(s) \in Nat /\ M \in Nat /\ M # 0 /\ i <= Len(s) /\ i \in Int /\ Len(s) \in Int
  OBVIOUS
<1>1. t \in Seq(Row) /\ Len(t) = M /\ \A m \in 1..M : t[m] = s[i + m - 1]
  <2>1. \A m \in i..Len(s) : s[m] \in Row
    BY <1>0
  <2> QED BY <1>0, <2>1, SubSeqProperties
<1> HIDE DEF t
<1>2. t[1] = s[i] /\ 1 \in 1..M
  <2>1. 1 \in 1..M /\ i + 1 - 1 = i
    BY <1>0
  <2> QED BY <1>1, <2>1
<1>3. u \in Seq(Row) /\ Len(u) = M /\ u[1] = [s[i] EXCEPT !.role = "user"]
  BY <1>0, <1>1, <1>2
<1>4. \A m \in 2..M : m \in 1..M /\ m # 1 /\ i + m - 1 \in 1..Len(s)
  BY <1>0
<1>5. \A m \in 2..M : u[m] = t[m]
  BY <1>0, <1>1, <1>4
<1> HIDE DEF u
<1> QED
  BY <1>1, <1>3, <1>4, <1>5 DEF u, t

\* What follows a summary is sent without what came before it.
LEMMA FromSummaryIsSendable ==
  ASSUME NEW s, Sendable(s), NEW n \in Nat
  PROVE  Sendable(FromSummary(s, n))
<1> DEFINE where == {i \in 1..Len(s) : s[i].role = "summary" /\ s[i].of = n}
<1>1. CASE n = 0 \/ where = {}
  BY <1>1 DEF FromSummary
<1>2. CASE ~(n = 0 \/ where = {})
  <2> DEFINE i == CHOOSE j \in where : TRUE
             u == [SubSeq(s, i, Len(s)) EXCEPT ![1].role = "user"]
             M == Len(s) - i + 1
  <2>1. i \in where
    BY <1>2
  <2>2. /\ s \in Seq(Row) /\ Len(s) \in Nat /\ i \in 1..Len(s) /\ s[i].role = "summary"
        /\ s[i] \in Row
    BY <2>1 DEF Sendable
  <2>3. FromSummary(s, n) = u
    BY <1>2 DEF FromSummary
  <2> HIDE DEF i
  <2>5. [s[i] EXCEPT !.role = "user"] \in Row
    BY <2>2 DEF Row
  <2>4. M \in Nat /\ M # 0
    BY <2>2
  <2>6. /\ Len(u) = M /\ u[1] = [s[i] EXCEPT !.role = "user"] /\ u \in Seq(Row)
        /\ \A m \in 2..M : u[m] = s[i + m - 1] /\ i + m - 1 \in 1..Len(s)
    BY <2>2, <2>5, TailRows
  <2> HIDE DEF u
  <2>8. u[1].role = "user"
    BY <2>2, <2>6 DEF Row
  <2>9. ASSUME NEW m \in 1..M
        PROVE  Fits(u, m) /\ Closed(u, m)
    <3>1. CASE m = 1
      BY <2>8, <3>1 DEF Fits, Closed
    <3>2. CASE m # 1
      <4> DEFINE a == i + m - 1
      <4>0. m \in 2..M /\ a - i + 1 = m /\ a > i
        BY <2>2, <2>4, <3>2
      <4>1. m \in 2..M /\ u[m] = s[a] /\ a \in 1..Len(s) /\ a - i + 1 = m /\ a > i
        BY <2>6, <4>0
      <4>2. Fits(u, m)
        <5> SUFFICES ASSUME u[m].role = "tool"
                     PROVE  \E k \in 1..m - 1 : RepliesTo(u, k, m)
          BY DEF Fits
        <5>1. PICK k \in 1..a - 1 : RepliesTo(s, k, a)
          BY <4>1 DEF Sendable, Fits
        <5>2. k > i
          BY <2>2, <4>1, <5>1 DEF RepliesTo
        <5> DEFINE q == k - i + 1
        <5>a. k \in Int /\ k <= a - 1 /\ m \in Int /\ m <= M /\ i \in Int
          BY <2>2, <2>4, <4>1
        <5>3. q \in 1..m - 1 /\ q \in 2..M /\ i + q - 1 = k
          BY <2>2, <5>2, <5>a
        <5>4. u[q] = s[k]
          BY <2>6, <5>3
        <5>5. \A l \in q + 1 .. m - 1 : l \in 2..M /\ i + l - 1 \in k + 1 .. a - 1
          BY <2>2, <2>4, <4>1, <5>3
        <5>6. \A l \in q + 1 .. m - 1 : u[l] = s[i + l - 1]
          BY <2>6, <5>5
        <5>7. RepliesTo(u, q, m)
          BY <4>1, <5>1, <5>4, <5>5, <5>6 DEF RepliesTo
        <5> QED BY <5>3, <5>7
      <4>3. Closed(u, m)
        <5> SUFFICES ASSUME u[m].role = "assistant", NEW c \in u[m].calls
                     PROVE  \E j \in m + 1 .. M :
                              /\ c \in u[j].calls
                              /\ \A l \in m + 1 .. j : u[l].role = "tool" /\ u[l].of = u[m].of
          BY <2>6 DEF Closed
        <5>1. PICK j \in a + 1 .. Len(s) :
                c \in s[j].calls /\ \A l \in a + 1 .. j : s[l].role = "tool" /\ s[l].of = s[a].of
          BY <4>1 DEF Sendable, Closed
        <5> DEFINE q == j - i + 1
        <5>a. j \in Int /\ j >= a + 1 /\ j <= Len(s) /\ m \in Int /\ m >= 1
          BY <2>2, <2>4, <4>1
        <5>2. q \in m + 1 .. M /\ q \in 2..M /\ i + q - 1 = j
          BY <2>2, <5>a
        <5>3. \A l \in m + 1 .. q : l \in 2..M /\ i + l - 1 \in a + 1 .. j
          BY <2>2, <2>4, <4>1, <5>2
        <5>4. u[q] = s[j] /\ \A l \in m + 1 .. q : u[l] = s[i + l - 1]
          BY <2>6, <5>2, <5>3
        <5> QED BY <4>1, <5>1, <5>2, <5>3, <5>4
      <4> QED BY <4>2, <4>3
    <3> QED BY <3>1, <3>2
  <2> QED BY <2>3, <2>6, <2>9 DEF Sendable
<1> QED
  BY <1>1, <1>2

\* What no repair mends: a round split by a summary, results of an earlier round that have
\* lost their calls.
OldOrphan == \E i, j \in 1..Len(rows) :
  /\ AnswersTo(j, i) /\ rows[i].of # round /\ ~(rows[j].calls \subseteq rows[i].calls)
Mended == pc \notin {"idle", "load"} => Split \/ OldOrphan \/ Sendable(history)

\* What any step writes.
Writes ==
  \/ rows' = rows
  \/ /\ pc \in Streaming \union Settling
     /\ \E cs \in SUBSET Call, f \in Finish : rows' = Stored(cs, f)
  \/ \E e \in Row : rows' = Append(rows, e)

\* A turn goes on with the history it had, or changes it in one of four ways.
Recalls ==
  \/ pc' \in {"idle", "load"}
  \/ /\ pc \notin {"idle", "load"} /\ history' = history
     /\ round' = round \/ \A i \in Message : rows[i].of # round'
  \/ pc = "load" /\ round' = round /\ history' = Repaired(rows)
  \/ /\ pc \notin {"idle", "load"} /\ round' = round
     /\ \/ \E n \in Nat : history' = FromSummary(history, n)
        \/ \E n \in Nat : history' = Append(history, User(n))
        \/ \E cs \in SUBSET Call, f \in Finish :
             history' = history \o <<Assistant(round, cs, f), Answers(round, cs)>>

\* Rows not split and not orphaned are neat.
LEMMA RowsAreNeat ==
  ASSUME TypeOK, RowInv, ~Split, ~Orphan
  PROVE  Neat(rows)
<1>0. rows \in Seq(Row) /\ Len(rows) \in Nat
  BY DEF TypeOK
<1> SUFFICES ASSUME NEW j \in 1..Len(rows), rows[j].role = "tool"
             PROVE  /\ j - 1 \in 1..Len(rows) /\ rows[j - 1].role = "assistant"
                    /\ rows[j].of = rows[j - 1].of /\ rows[j].calls \subseteq rows[j - 1].calls
  BY <1>0 DEF Neat
<1>1. PICK i \in 1..j - 1 : AnswersTo(j, i)
  BY DEF RowInv, AnsweredOnceInPlace, ToolRows
<1>2. i \in 1..Len(rows) /\ i < j
  BY <1>0
<1>3. i = j - 1
  <2> SUFFICES ASSUME i # j - 1 PROVE FALSE
    OBVIOUS
  <2>1. i + 1 \in 1..Len(rows) /\ i < i + 1 /\ i + 1 < j
    BY <1>0, <1>2
  <2> QED BY <1>1, <1>2, <2>1 DEF Split
<1>4. rows[j].calls \subseteq rows[i].calls
  BY <1>1, <1>2 DEF Orphan
<1> QED
  BY <1>1, <1>2, <1>3, <1>4 DEF AnswersTo

\* Nothing that is broken gets mended while the turn goes on.
LEMMA BrokenStays ==
  ASSUME TypeOK, Placed, RowInv, Writes, Split \/ OldOrphan,
         round' = round \/ \A i \in Message : rows[i].of # round'
  PROVE  Split' \/ OldOrphan'
<1>0. rows \in Seq(Row) /\ Len(rows) \in Nat
  BY DEF TypeOK
<1>1. /\ Len(rows') \in Nat /\ Len(rows) <= Len(rows')
      /\ \A i \in 1..Len(rows) :
           /\ rows'[i].role = rows[i].role /\ rows'[i].of = rows[i].of
           /\ rows[i].of # round \/ rows[i].role = "tool" => rows'[i].calls = rows[i].calls
  <2>1. CASE rows' = rows
    BY <1>0, <2>1
  <2>2. ASSUME pc \in Streaming \union Settling, NEW cs \in SUBSET Call, NEW f \in Finish,
               rows' = Stored(cs, f)
        PROVE  /\ Len(rows') = Len(rows)
               /\ \A i \in 1..Len(rows) :
                    /\ rows'[i].role = rows[i].role /\ rows'[i].of = rows[i].of
                    /\ rows[i].of # round \/ rows[i].role = "tool"
                         => rows'[i].calls = rows[i].calls
    <3>1. /\ at \in Message /\ rows[at].of = round /\ rows'[at] = Assistant(round, cs, f)
          /\ Len(rows') = Len(rows)
          /\ \A i \in 1..Len(rows) : i # at => rows'[i] = rows[i]
      BY <2>2, RewrittenRows
    <3> QED BY <3>1 DEF Message, Assistant
  <2>3. ASSUME NEW e \in Row, rows' = Append(rows, e)
        PROVE  Len(rows') = Len(rows) + 1 /\ \A i \in 1..Len(rows) : rows'[i] = rows[i]
    BY <1>0, <2>3, AppendRow
  <2> QED BY <1>0, <2>1, <2>2, <2>3 DEF Writes
<1>2. \A i \in 1..Len(rows) : i \in 1..Len(rows')
  BY <1>0, <1>1
<1>3. CASE Split
  <2>1. PICK i, k, j \in 1..Len(rows) : i < k /\ k < j /\ AnswersTo(j, i)
    BY <1>3 DEF Split
  <2>2. AnswersTo(j, i)'
    BY <1>1, <2>1 DEF AnswersTo
  <2> QED BY <1>2, <2>1, <2>2 DEF Split
<1>4. CASE OldOrphan
  <2>1. PICK i, j \in 1..Len(rows) :
          /\ AnswersTo(j, i) /\ rows[i].of # round /\ ~(rows[j].calls \subseteq rows[i].calls)
    BY <1>4 DEF OldOrphan
  <2>2. AnswersTo(j, i)' /\ rows'[i].of # round'
    BY <1>1, <2>1 DEF AnswersTo, Message
  <2>3. rows'[i].calls = rows[i].calls /\ rows'[j].calls = rows[j].calls
    BY <1>1, <2>1 DEF AnswersTo
  <2> QED BY <1>2, <2>1, <2>2, <2>3 DEF OldOrphan
<1> QED
  BY <1>3, <1>4

\* Whatever a turn does to its history, it stays one that a provider takes.
LEMMA MendedStays ==
  ASSUME Inv, Mended, Writes, Recalls
  PROVE  Mended'
<1>0. TypeOK /\ Placed /\ RowInv /\ Asked /\ round \in Nat
  BY DEF Inv, TypeOK
<1> SUFFICES ASSUME pc' \notin {"idle", "load"}
             PROVE  (Split \/ OldOrphan \/ Sendable(history))'
  BY DEF Mended
<1>a. round' = round \/ \A i \in Message : rows[i].of # round'
  BY DEF Recalls
<1>1. CASE Split \/ OldOrphan
  BY <1>0, <1>a, <1>1, BrokenStays
<1>2. ASSUME ~Split, ~OldOrphan
      PROVE  Sendable(history')
  <2>0. pc \notin {"idle", "load"} => Sendable(history)
    BY <1>2 DEF Mended
  <2>1. CASE history' = history /\ pc \notin {"idle", "load"}
    BY <2>0, <2>1
  <2>2. CASE pc = "load" /\ history' = Repaired(rows)
    <3>1. \A i \in Message : rows[i].of # round
      BY <1>0, <2>2, RowFacts DEF Asked
    <3>2. ~Orphan
      BY <1>2, <3>1 DEF Orphan, OldOrphan, AnswersTo, Message
    <3> QED BY <1>0, <1>2, <2>2, <3>2, RowsAreNeat, RepairedIsSendable
  <2>3. ASSUME pc \notin {"idle", "load"}, NEW n \in Nat, history' = FromSummary(history, n)
        PROVE  Sendable(history')
    BY <2>0, <2>3, FromSummaryIsSendable
  <2>4. ASSUME Sendable(history)
        PROVE  Half(history) /\ (Len(history) # 0 => Closed(history, Len(history)))
    <3>1. Len(history) \in Nat
      BY <2>4 DEF Sendable
    <3> QED BY <2>4, <3>1 DEF Sendable, Half
  <2>5. ASSUME pc \notin {"idle", "load"}, NEW n \in Nat, history' = Append(history, User(n))
        PROVE  Sendable(history')
    <3>1. User(n) \in Row /\ User(n).role = "user"
      BY DEF User, Row, Finish
    <3> QED BY <2>0, <2>4, <2>5, <3>1, AddPlain
  <2>6. ASSUME pc \notin {"idle", "load"}, NEW cs \in SUBSET Call, NEW f \in Finish,
               history' = history \o <<Assistant(round, cs, f), Answers(round, cs)>>
        PROVE  Sendable(history')
    <3> DEFINE a == Assistant(round, cs, f)
               e == Answers(round, cs)
               u == Append(history, a)
    <3>1. /\ a \in Row /\ a.role = "assistant" /\ a.of = round /\ a.calls = cs
          /\ e \in Row /\ e.role = "tool" /\ e.of = round /\ e.calls = cs
      BY <1>0, RowTypes DEF Assistant, Answers, Row, Finish
    <3>2. history \in Seq(Row) /\ Len(history) \in Nat
      BY <2>0, <2>6 DEF Sendable
    <3> HIDE DEF a, e
    <3>3. Half(u) /\ Len(u) = Len(history) + 1 /\ u[Len(history) + 1] = a
      BY <2>0, <2>4, <2>6, <3>1, AddPlain
    <3>4. history' = Append(u, e)
      <4>1. history' = history \o <<a, e>>
        BY <2>6 DEF a, e
      <4> QED BY <3>1, <3>2, <4>1
    <3> HIDE DEF u
    <3>5. Len(u) # 0 /\ u[Len(u)] = a
      BY <3>2, <3>3
    <3> QED BY <3>1, <3>3, <3>4, <3>5, AddAnswer
  <2> QED BY <2>1, <2>2, <2>3, <2>5, <2>6 DEF Recalls
<1> QED
  BY <1>1, <1>2

\* Every step writes and recalls so.
LEMMA StepRecalls ==
  ASSUME Inv, [Next]_vars
  PROVE  Writes /\ Recalls
<1>0. /\ TypeOK /\ Placed /\ RowInv /\ count \in Counts /\ mem \in SUBSET Call /\ fin \in Finish
      /\ round \in Nat /\ summary \in Nat /\ count.turn \in Nat /\ count.round \in Nat
      /\ count.compaction \in Nat
      /\ {"none", "error", "canceled", "denied"} \subseteq Finish
  BY TurnAssumption DEF Inv, TypeOK, Counts, Finish
<1>a. ASSUME End PROVE Recalls
  BY <1>a DEF End, Recalls
<1>b. ASSUME pc \notin {"idle", "load"}, UNCHANGED <<history, round>> PROVE Recalls
  BY <1>b DEF Recalls
<1>c. ASSUME pc \in Streaming \union Settling, NEW cs \in SUBSET Call, NEW f \in Finish,
             StoreOrLose(cs, f)
      PROVE  Writes
  BY <1>c DEF StoreOrLose, Writes
<1>d. ASSUME rows' = rows \/ rows' = Append(rows, Answers(round, mem))
      PROVE  Writes
  BY <1>0, <1>d, RowTypes DEF Writes, Finish
<1>e. \A q \in Streaming \union Settling : q \notin {"idle", "load"}
  BY DEF Streaming, Settling
<1>1. CASE Begin
  BY <1>1 DEF Begin, store, Recalls, Writes
<1>2. CASE Cancel \/ Compact \/
           \E n \in 1..MaxCompaction : CompactLists(n) \/ CompactSaves(n) \/ CompactFails(n)
  <2>1. UNCHANGED <<rows, pc, history, round>>
    BY <1>2 DEF Cancel, Compact, CompactLists, CompactSaves, CompactFails, store, turn, msg
  <2> QED BY <1>b, <1>d, <2>1 DEF Recalls
<1>3. ASSUME NEW n \in 1..MaxCompaction, CompactStores(n) PROVE Writes /\ Recalls
  <2>1. UNCHANGED <<pc, history, round>> /\ rows' = Append(rows, Summary(n))
    BY <1>3 DEF CompactStores, turn, msg
  <2>2. Summary(n) \in Row
    BY DEF Summary, Row, Finish
  <2> QED BY <1>b, <2>1, <2>2 DEF Recalls, Writes
<1>4. CASE Crash
  BY <1>4, <1>a, <1>d DEF Crash, store
<1>5. CASE Load
  BY <1>5, <1>d DEF Load, store, msg, Recalls
<1>6. CASE Slice
  BY <1>0, <1>6, <1>d DEF Slice, store, msg, Recalls
<1>7. CASE StoreUser
  <2>1. User(count.turn) \in Row
    BY <1>0 DEF User, Row, Finish
  <2> QED BY <1>0, <1>7, <2>1 DEF StoreUser, msg, Recalls, Writes
<1>8. CASE NotAsked \/ NoRow \/ ResultsFail
  BY <1>8, <1>a, <1>d DEF NotAsked, NoRow, ResultsFail, store
<1>9. CASE Ask
  <2>1. \A i \in Message : rows[i].of # round'
    BY <1>0, <1>9 DEF Ask, RowInv, Numbered, Message
  <2> QED BY <1>9, <1>d, <2>1 DEF Ask, store, Recalls
<1>10. CASE CreateRow
  <2>1. Assistant(round, {}, "none") \in Row
    BY <1>0, RowTypes
  <2> QED BY <1>10, <1>b, <2>1 DEF CreateRow, Writes
<1>11. ASSUME NEW cs \in SUBSET Call, NEW f \in Finish, NEW next, Event(cs, f, next)
       PROVE  Writes /\ Recalls
  <2>1. /\ pc \in Streaming /\ UNCHANGED <<history, round>>
        /\ rows' = rows \/ rows' = Stored(cs, f)
    BY <1>11 DEF Event, Streaming
  <2> QED BY <1>b, <1>e, <2>1 DEF Writes
<1>12. CASE AnnounceCall
  <2>1. PICK c \in Call : Event(1..c, fin, "stream")
    BY <1>12 DEF AnnounceCall
  <2>2. 1..c \in SUBSET Call
    BY TurnAssumption DEF Call
  <2> QED BY <1>0, <1>11, <2>1, <2>2
<1>13. CASE Complete
  <2>1. PICK m \in 0..MaxCall, f \in {"tool_use", "end"} : Event(1..m, f, "usage")
    BY <1>13 DEF Complete
  <2>2. 1..m \in SUBSET Call /\ f \in Finish
    BY TurnAssumption DEF Call, Finish
  <2> QED BY <1>11, <2>1, <2>2
<1>14. CASE StreamFails \/ StreamCancelled
  <2>1. pc \in Streaming /\ UNCHANGED <<history, round>>
    BY <1>14 DEF StreamFails, StreamCancelled, Streaming
  <2>2. StoreOrLose(mem, "error") \/ StoreOrLose(mem, "canceled") \/ UNCHANGED rows
    BY <1>14 DEF StreamFails, StreamCancelled
  <2> QED BY <1>0, <1>b, <1>c, <1>d, <1>e, <2>1, <2>2
<1>15. CASE TrackUsage \/ UsageFails \/ ToolsDone
  <2>1. pc \in Streaming /\ UNCHANGED <<rows, history, round>>
    BY <1>15 DEF TrackUsage, UsageFails, ToolsDone, Streaming, store, msg
  <2> QED BY <1>b, <1>d, <1>e, <2>1
<1>16. CASE Abort
  <2>1. pc \in Streaming /\ (rows' = rows \/ rows' = Append(rows, Answers(round, mem)))
        /\ (UNCHANGED <<history, round>> \/ End)
    BY <1>16 DEF Abort, Streaming, msg
  <2> QED BY <1>a, <1>b, <1>d, <1>e, <2>1
<1>17. CASE MarkCanceled \/ MarkDenied \/ Overflow
  <2>1. pc \in Settling /\ End
    BY <1>17 DEF MarkCanceled, MarkDenied, Overflow, Settling
  <2>2. StoreOrLose(mem, "error") \/ StoreOrLose(mem, "canceled") \/ StoreOrLose(mem, "denied")
    BY <1>17 DEF MarkCanceled, MarkDenied, Overflow
  <2> QED BY <1>0, <1>a, <1>c, <2>1, <2>2
<1>18. CASE StartTools
  <2>1. pc \in Streaming /\ UNCHANGED rows /\ (UNCHANGED <<history, round>> \/ End)
    BY <1>18 DEF StartTools, Streaming, store, msg
  <2> QED BY <1>a, <1>b, <1>d, <1>e, <2>1
<1>19. ASSUME NEW c \in Call, RunCall(c) \/ Deny(c)
       PROVE  Writes /\ Recalls
  <2>1. pc \in Streaming /\ UNCHANGED <<rows, history, round>>
    BY <1>19 DEF RunCall, Deny, Streaming, store
  <2> QED BY <1>b, <1>d, <1>e, <2>1
<1>20. ASSUME NEW c \in Call, CancelTools(c)
       PROVE  Writes /\ Recalls
  <2>1. pc \in Streaming /\ UNCHANGED <<history, round>> /\ StoreOrLose(mem, "canceled")
    BY <1>20 DEF CancelTools, Streaming
  <2> QED BY <1>0, <1>b, <1>c, <1>e, <2>1
<1>21. CASE StoreResults
  <2>1. pc \in Streaming /\ rows' = Append(rows, Answers(round, mem))
    BY <1>21 DEF StoreResults, Streaming
  <2>2. \/ UNCHANGED <<history, round>> \/ End
        \/ /\ round' = round
           /\ history' = history \o <<Assistant(round, mem, fin), Answers(round, mem)>>
    BY <1>21 DEF StoreResults, msg
  <2>3. Writes
    BY <1>d, <2>1
  <2>4. Recalls
    BY <1>0, <1>a, <1>b, <1>e, <2>1, <2>2 DEF Recalls
  <2> QED BY <2>3, <2>4
<1>22. CASE UNCHANGED vars
  BY <1>22, <1>d DEF vars, store, turn, msg, Recalls
<1> QED
  BY <1>1, <1>2, <1>3, <1>4, <1>5, <1>6, <1>7, <1>8, <1>9, <1>10, <1>12, <1>13, <1>14, <1>15,
     <1>16, <1>17, <1>18, <1>19, <1>20, <1>21, <1>22
  DEF Next, TurnStep, Generate, Stream, GiveUp, Tools, Settle, Compaction

\* Whatever deaths and failed writes left behind, a turn sends a history that a provider
\* takes, and so does a compaction: every call answered once, in place.
THEOREM SentAcceptable == Spec => []SentIsAcceptable
<1>1. Init => Inv /\ Mended
  BY InitInv DEF Init, Mended
<1>2. Inv /\ Mended /\ [Next]_vars => Inv'
  BY NextTyped, NextPlaced DEF Inv
<1>3. Inv /\ Mended /\ [Next]_vars => Mended'
  BY StepRecalls, MendedStays
<1>4. Inv /\ Mended => SentIsAcceptable
  <2> SUFFICES ASSUME Inv, Mended, ~Split, ~Orphan
               PROVE  /\ pc = "asked" => Acceptable(history)
                      /\ Acceptable(Repaired(rows))
    BY DEF SentIsAcceptable
  <2>1. ~OldOrphan
    BY DEF Orphan, OldOrphan
  <2>2. pc = "asked" => Acceptable(history)
    BY <2>1, SendableIsAcceptable DEF Mended
  <2>3. Acceptable(Repaired(rows))
    BY RowsAreNeat, RepairedIsSendable, SendableIsAcceptable DEF Inv
  <2> QED BY <2>2, <2>3
<1> QED
  BY <1>1, <1>2, <1>3, <1>4, PTL DEF Spec
=============================================================================
