---------------------------- MODULE PeersProofs ----------------------------
(* Proofs about Peers, for every set of programs and turns and every bound. *)
EXTENDS Peers, FiniteSetTheorems, WellFoundedInduction, TLAPS

-----------------------------------------------------------------------------
(* Names. *)

\* Every set of numbers has a least one.
LEMMA LeastName ==
  ASSUME NEW T \in SUBSET Nat, T # {}
  PROVE  \E n \in T : \A m \in T : n <= m
<1> DEFINE R == OpToRel(<, Nat)
<1>1. PICK n \in T : \A m \in T : ~(<<m, n>> \in R)
  BY NatLessThanWellFounded, WFMin
<1>2. \A m \in T : ~(m < n)
  BY <1>1 DEF OpToRel
<1>3. \A m \in T : m \in Nat /\ n \in Nat
  OBVIOUS
<1> QED
  BY <1>2, <1>3

\* There is one name more than there are programs, so one is always free.
LEMMA FreeNameFree ==
  ASSUME NEW p \in Program
  PROVE  FreeName(p) \in Nat /\ \A q \in Others(p) : entry[q] # FreeName(p)
<1> DEFINE Taken == {entry[q] : q \in Others(p)}
<1>1. IsFiniteSet(Others(p)) /\ Cardinality(Others(p)) <= Cardinality(Program)
      /\ Cardinality(Program) \in Nat /\ Cardinality(Others(p)) \in Nat
  <2>1. Others(p) \subseteq Program
    BY DEF Others
  <2> QED BY <2>1, FS_Subset, FS_CardinalityType, PeersAssumption DEF PeersAssumption
<1>2. IsFiniteSet(Taken) /\ Cardinality(Taken) <= Cardinality(Others(p))
      /\ Cardinality(Taken) \in Nat
  <2> DEFINE f == [q \in Others(p) |-> entry[q]]
  <2>1. f \in Surjection(Others(p), Taken)
    BY DEF Surjection
  <2> QED BY <1>1, <2>1, FS_Surjection, FS_CardinalityType
<1>3. IsFiniteSet(Name) /\ Cardinality(Name) = Cardinality(Program) + 1
  <2> DEFINE k == Cardinality(Program) + 1
  <2>1. k \in Int /\ 1 \in Int /\ ~(1 > k) /\ k - 1 + 1 = k
    BY <1>1
  <2> HIDE DEF k
  <2>2. IsFiniteSet(1..k) /\ Cardinality(1..k) = k
    BY <2>1, FS_Interval
  <2> QED BY <2>2 DEF Name, k
<1>4. ~(Name \subseteq Taken)
  <2> SUFFICES ASSUME Name \subseteq Taken
               PROVE  FALSE
    OBVIOUS
  <2>1. Cardinality(Name) <= Cardinality(Taken)
    BY <1>2, FS_Subset
  <2> QED BY <1>1, <1>2, <1>3, <2>1
<1>5. PICK n \in Name \ Taken : \A m \in Name \ Taken : n <= m
  <2>1. Name \ Taken \in SUBSET Nat /\ Name \ Taken # {}
    BY <1>4 DEF Name
  <2> QED BY <2>1, LeastName
<1>6. \A q \in Others(p) : entry[q] # n
  BY <1>5
<1>7. \A m \in 1..(n - 1) : \E q \in Others(p) : entry[q] = m
  <2> SUFFICES ASSUME NEW m \in 1..(n - 1)
               PROVE  m \in Taken
    OBVIOUS
  <2>1. m \in Name /\ ~(n <= m)
    BY <1>1, <1>5 DEF Name
  <2> QED BY <1>5, <2>1
<1>8. FreeName(p) \in Name /\ \A q \in Others(p) : entry[q] # FreeName(p)
  BY <1>5, <1>6, <1>7 DEF FreeName
<1> QED
  BY <1>8, <1>1 DEF Name

\* A step is one of the actions, or changes nothing.
LEMMA StepCases ==
  ASSUME [Next]_vars
  PROVE  \/ \E p \in Program :
              \/ Start(p) \/ ClaimReads(p) \/ ClaimWrites(p) \/ ClaimChecks(p) \/ RenameWrites(p)
              \/ Close(p) \/ CloseEnds(p) \/ Crash(p) \/ SendFails(p) \/ Accept(p) \/ Ask(p)
              \/ FindEntry(p) \/ Subscribe(p) \/ AskReturns(p) \/ Compact(p)
              \/ \E n \in Name : RenameReads(p, n)
              \/ \E b \in Program, notify \in BOOLEAN : Lookup(p, b, notify)
              \/ \E t \in Turn : \/ Run(p, t) \/ Begin(p, t) \/ Take(p, t) \/ Store(p, t)
                                 \/ StoreFails(p, t) \/ End(p, t) \/ Look(p, t) \/ Show(p, t)
         \/ \E n \in notices : TakeNotice(n) \/ RefuseNotice(n) \/ LoseNotice(n)
         \/ UNCHANGED vars
BY DEF Next, Names, Life, Sends, Works

-----------------------------------------------------------------------------
(* Types, in parts. *)

RegTypes ==
  /\ stage \in [Program -> {"off", "claiming", "up", "closing", "closed", "dead"}]
  /\ name \in [Program -> Nat] /\ entry \in [Program -> Nat]
  /\ claim \in [Program -> [step : {"none", "reading", "writing", "checking", "renaming"},
                            want : Nat, tries : 0..MaxTries]]

NamingTypes == overlap \subseteq SUBSET Program /\ unseen \subseteq SUBSET Program

WorkTypes ==
  /\ turn \in [Program -> [Turn -> {"none", "stored", "began", "took", "running", "over",
                                    "sawIdle", "sawBusy"}]]
  /\ busy \in [Program -> BOOLEAN]
  /\ \A s \in {compacting, crossed, early, outlived} : s \subseteq Program

PostTypes ==
  /\ inbox \in [Program -> Seq(Nat)] /\ \A p \in Program : Len(inbox[p]) <= MaxInbox
  /\ taken \in [Program -> [Turn -> Seq(Nat)]]
  /\ arrived \in [Program -> Nat] /\ gone \in [Program -> SUBSET Nat]

CountTypes == count \in [send : 0..MaxSend, ask : 0..MaxAsk, run : 0..MaxRun, event : 0..MaxEvent]

CallStep == {"message", "told", "asking", "found", "refused", "promised"}
CallType == [step : CallStep, to : Program, as : Nat, me : Nat, notify : BOOLEAN, ask : 0..MaxAsk]

\* A request for a notice has its number from the start.
CallTypes ==
  /\ call \in [Program -> {NoCall} \union CallType]
  /\ \A a \in Program : call[a] # NoCall =>
       /\ call[a].notify => call[a].ask \in 1..MaxAsk
       /\ call[a].step # "message" => call[a].notify

DuesTypes ==
  /\ subs \in [Program -> SUBSET [of : Program, me : Nat, ask : 1..MaxAsk]]
  /\ awaiting \in [Program -> SUBSET [of : Program, as : Nat]]
  /\ notices \subseteq [from : Program, name : Nat, to : Program, ask : 1..MaxAsk]
  /\ answered \in [1..MaxAsk -> Nat] /\ mislaid \subseteq Program \X Program

\* Every step keeps the register's types: a name is found whenever one is chosen.
LEMMA RegTypesStep ==
  ASSUME RegTypes, [Next]_vars
  PROVE  RegTypes'
<1> USE PeersAssumption DEF RegTypes, PeersAssumption, Listed, SetBusy, vars, reg, post, dues,
    idle, naming, work
<1>1. ASSUME NEW p \in Program, Start(p)
      PROVE  RegTypes'
  BY <1>1 DEF Start
<1>2. ASSUME NEW p \in Program, ClaimReads(p)
      PROVE  RegTypes'
  BY <1>2, FreeNameFree DEF ClaimReads, Reads, Listed
<1>3. ASSUME NEW p \in Program, ClaimWrites(p)
      PROVE  RegTypes'
  BY <1>3 DEF ClaimWrites, Writes
<1>4. ASSUME NEW p \in Program, ClaimChecks(p)
      PROVE  RegTypes'
  <2>1. claim[p].tries \in 0..MaxTries
    OBVIOUS
  <2>2. claim[p].tries < MaxTries => claim[p].tries + 1 \in 0..MaxTries
    BY <2>1
  <2>3. entry' \in [Program -> Nat]
    BY <1>4 DEF ClaimChecks, Checks, Listed
  <2>4. claim' \in [Program -> [step : {"none", "reading", "writing", "checking", "renaming"},
                                 want : Nat, tries : 0..MaxTries]]
    BY <1>4, <2>2 DEF ClaimChecks, Checks
  <2>5. /\ name' = name
        /\ stage' \in [Program -> {"off", "claiming", "up", "closing", "closed", "dead"}]
    BY <1>4 DEF ClaimChecks, Checks
  <2> QED BY <2>3, <2>4, <2>5
<1>5. ASSUME NEW p \in Program, RenameWrites(p)
      PROVE  RegTypes'
  BY <1>5 DEF RenameWrites, Writes
<1>6. ASSUME NEW p \in Program, Close(p)
      PROVE  RegTypes'
  BY <1>6 DEF Close, Counts
<1>7. ASSUME NEW p \in Program, CloseEnds(p)
      PROVE  RegTypes'
  BY <1>7 DEF CloseEnds, NothingLeft
<1>8. ASSUME NEW p \in Program, Crash(p)
      PROVE  RegTypes'
  BY <1>8 DEF Crash, NothingLeft, Counts
<1>9. ASSUME NEW p \in Program, SendFails(p)
      PROVE  RegTypes'
  BY <1>9 DEF SendFails, Counts
<1>10. ASSUME NEW p \in Program, Accept(p)
      PROVE  RegTypes'
  BY <1>10 DEF Accept, Arrives, Counts
<1>11. ASSUME NEW p \in Program, Ask(p)
      PROVE  RegTypes'
  BY <1>11 DEF Ask, Key
<1>12. ASSUME NEW p \in Program, FindEntry(p)
      PROVE  RegTypes'
  BY <1>12 DEF FindEntry
<1>13. ASSUME NEW p \in Program, Subscribe(p)
      PROVE  RegTypes'
  BY <1>13 DEF Subscribe, Notice
<1>14. ASSUME NEW p \in Program, AskReturns(p)
      PROVE  RegTypes'
  BY <1>14 DEF AskReturns, Key, Counts
<1>15. ASSUME NEW p \in Program, Compact(p)
      PROVE  RegTypes'
  BY <1>15 DEF Compact, Counts
<1>16. ASSUME NEW p \in Program, NEW n \in Name, RenameReads(p, n)
      PROVE  RegTypes'
  <2>1. n \in Nat
    BY FS_CardinalityType DEF Name
  <2> QED BY <1>16, <2>1 DEF RenameReads, Reads, Listed
<1>17. ASSUME NEW p \in Program, NEW b \in Program, NEW notify \in BOOLEAN, Lookup(p, b, notify)
      PROVE  RegTypes'
  BY <1>17 DEF Lookup
<1>18. ASSUME NEW p \in Program, NEW t \in Turn, Run(p, t)
      PROVE  RegTypes'
  BY <1>18 DEF Run, Goes, Counts
<1>19. ASSUME NEW p \in Program, NEW t \in Turn, Begin(p, t)
      PROVE  RegTypes'
  BY <1>19 DEF Begin, Goes, SetBusy, Notice
<1>20. ASSUME NEW p \in Program, NEW t \in Turn, Take(p, t)
      PROVE  RegTypes'
  BY <1>20 DEF Take, Goes
<1>21. ASSUME NEW p \in Program, NEW t \in Turn, Store(p, t)
      PROVE  RegTypes'
  BY <1>21 DEF Store, Goes, Seen
<1>22. ASSUME NEW p \in Program, NEW t \in Turn, StoreFails(p, t)
      PROVE  RegTypes'
  BY <1>22 DEF StoreFails, Fails, Goes, Counts, Requeues, Fits
<1>23. ASSUME NEW p \in Program, NEW t \in Turn, End(p, t)
      PROVE  RegTypes'
  BY <1>23 DEF End, Goes
<1>24. ASSUME NEW p \in Program, NEW t \in Turn, Look(p, t)
      PROVE  RegTypes'
  BY <1>24 DEF Look, Goes, Active
<1>25. ASSUME NEW p \in Program, NEW t \in Turn, Show(p, t)
      PROVE  RegTypes'
  BY <1>25 DEF Show, Goes, SetBusy, Notice, Active
<1>26. ASSUME NEW n \in notices, TakeNotice(n)
      PROVE  RegTypes'
  BY <1>26 DEF TakeNotice, Arrives, Expected
<1>27. ASSUME NEW n \in notices, RefuseNotice(n)
      PROVE  RegTypes'
  BY <1>27 DEF RefuseNotice
<1>28. ASSUME NEW n \in notices, LoseNotice(n)
      PROVE  RegTypes'
  BY <1>28 DEF LoseNotice, Counts
<1>29. CASE UNCHANGED vars
  BY <1>29
<1> QED
  BY <1>1, <1>2, <1>3, <1>4, <1>5, <1>6, <1>7, <1>8, <1>9, <1>10, <1>11, <1>12, <1>13, <1>14,
    <1>15, <1>16, <1>17, <1>18, <1>19, <1>20, <1>21, <1>22, <1>23, <1>24, <1>25, <1>26, <1>27,
    <1>28, <1>29, StepCases

\* Every step keeps the types of the history of names.
LEMMA NamingTypesStep ==
  ASSUME NamingTypes, [Next]_vars
  PROVE  NamingTypes'
<1> USE DEF NamingTypes, Apart, Others, vars, reg, post, dues, idle, naming, work
<1>1. ASSUME NEW p \in Program, Start(p)
      PROVE  NamingTypes'
  BY <1>1 DEF Start
<1>2. ASSUME NEW p \in Program, ClaimReads(p)
      PROVE  NamingTypes'
  BY <1>2 DEF ClaimReads, Reads
<1>3. ASSUME NEW p \in Program, ClaimWrites(p)
      PROVE  NamingTypes'
  BY <1>3 DEF ClaimWrites, Writes
<1>4. ASSUME NEW p \in Program, ClaimChecks(p)
      PROVE  NamingTypes'
  BY <1>4 DEF ClaimChecks, Checks
<1>5. ASSUME NEW p \in Program, RenameWrites(p)
      PROVE  NamingTypes'
  BY <1>5 DEF RenameWrites, Writes
<1>6. ASSUME NEW p \in Program, Close(p)
      PROVE  NamingTypes'
  BY <1>6 DEF Close, Counts
<1>7. ASSUME NEW p \in Program, CloseEnds(p)
      PROVE  NamingTypes'
  BY <1>7 DEF CloseEnds, NothingLeft
<1>8. ASSUME NEW p \in Program, Crash(p)
      PROVE  NamingTypes'
  BY <1>8 DEF Crash, NothingLeft, Counts
<1>9. ASSUME NEW p \in Program, SendFails(p)
      PROVE  NamingTypes'
  BY <1>9 DEF SendFails, Counts
<1>10. ASSUME NEW p \in Program, Accept(p)
      PROVE  NamingTypes'
  BY <1>10 DEF Accept, Arrives, Counts
<1>11. ASSUME NEW p \in Program, Ask(p)
      PROVE  NamingTypes'
  BY <1>11 DEF Ask, Key
<1>12. ASSUME NEW p \in Program, FindEntry(p)
      PROVE  NamingTypes'
  BY <1>12 DEF FindEntry
<1>13. ASSUME NEW p \in Program, Subscribe(p)
      PROVE  NamingTypes'
  BY <1>13 DEF Subscribe, Notice
<1>14. ASSUME NEW p \in Program, AskReturns(p)
      PROVE  NamingTypes'
  BY <1>14 DEF AskReturns, Key, Counts
<1>15. ASSUME NEW p \in Program, Compact(p)
      PROVE  NamingTypes'
  BY <1>15 DEF Compact, Counts
<1>16. ASSUME NEW p \in Program, NEW n \in Name, RenameReads(p, n)
      PROVE  NamingTypes'
  BY <1>16 DEF RenameReads, Reads, Counts
<1>17. ASSUME NEW p \in Program, NEW b \in Program, NEW notify \in BOOLEAN, Lookup(p, b, notify)
      PROVE  NamingTypes'
  BY <1>17 DEF Lookup
<1>18. ASSUME NEW p \in Program, NEW t \in Turn, Run(p, t)
      PROVE  NamingTypes'
  BY <1>18 DEF Run, Goes, Counts
<1>19. ASSUME NEW p \in Program, NEW t \in Turn, Begin(p, t)
      PROVE  NamingTypes'
  BY <1>19 DEF Begin, Goes, SetBusy, Notice
<1>20. ASSUME NEW p \in Program, NEW t \in Turn, Take(p, t)
      PROVE  NamingTypes'
  BY <1>20 DEF Take, Goes
<1>21. ASSUME NEW p \in Program, NEW t \in Turn, Store(p, t)
      PROVE  NamingTypes'
  BY <1>21 DEF Store, Goes, Seen
<1>22. ASSUME NEW p \in Program, NEW t \in Turn, StoreFails(p, t)
      PROVE  NamingTypes'
  BY <1>22 DEF StoreFails, Fails, Goes, Counts, Requeues, Fits
<1>23. ASSUME NEW p \in Program, NEW t \in Turn, End(p, t)
      PROVE  NamingTypes'
  BY <1>23 DEF End, Goes
<1>24. ASSUME NEW p \in Program, NEW t \in Turn, Look(p, t)
      PROVE  NamingTypes'
  BY <1>24 DEF Look, Goes, Active
<1>25. ASSUME NEW p \in Program, NEW t \in Turn, Show(p, t)
      PROVE  NamingTypes'
  BY <1>25 DEF Show, Goes, SetBusy, Notice, Active
<1>26. ASSUME NEW n \in notices, TakeNotice(n)
      PROVE  NamingTypes'
  BY <1>26 DEF TakeNotice, Arrives, Expected
<1>27. ASSUME NEW n \in notices, RefuseNotice(n)
      PROVE  NamingTypes'
  BY <1>27 DEF RefuseNotice
<1>28. ASSUME NEW n \in notices, LoseNotice(n)
      PROVE  NamingTypes'
  BY <1>28 DEF LoseNotice, Counts
<1>29. CASE UNCHANGED vars
  BY <1>29
<1> QED
  BY <1>1, <1>2, <1>3, <1>4, <1>5, <1>6, <1>7, <1>8, <1>9, <1>10, <1>11, <1>12, <1>13, <1>14,
    <1>15, <1>16, <1>17, <1>18, <1>19, <1>20, <1>21, <1>22, <1>23, <1>24, <1>25, <1>26, <1>27,
    <1>28, <1>29, StepCases

\* Every step keeps the types of turns, compactions and what is shown of them.
LEMMA WorkTypesStep ==
  ASSUME WorkTypes, [Next]_vars
  PROVE  WorkTypes'
<1> USE DEF WorkTypes, vars, reg, post, dues, idle, naming, work
<1>1. ASSUME NEW p \in Program, Start(p)
      PROVE  WorkTypes'
  BY <1>1 DEF Start
<1>2. ASSUME NEW p \in Program, ClaimReads(p)
      PROVE  WorkTypes'
  BY <1>2 DEF ClaimReads, Reads
<1>3. ASSUME NEW p \in Program, ClaimWrites(p)
      PROVE  WorkTypes'
  BY <1>3 DEF ClaimWrites, Writes
<1>4. ASSUME NEW p \in Program, ClaimChecks(p)
      PROVE  WorkTypes'
  BY <1>4 DEF ClaimChecks, Checks
<1>5. ASSUME NEW p \in Program, RenameWrites(p)
      PROVE  WorkTypes'
  BY <1>5 DEF RenameWrites, Writes
<1>6. ASSUME NEW p \in Program, Close(p)
      PROVE  WorkTypes'
  BY <1>6 DEF Close, Counts
<1>7. ASSUME NEW p \in Program, CloseEnds(p)
      PROVE  WorkTypes'
  BY <1>7 DEF CloseEnds, NothingLeft
<1>8. ASSUME NEW p \in Program, Crash(p)
      PROVE  WorkTypes'
  BY <1>8 DEF Crash, NothingLeft, Counts
<1>9. ASSUME NEW p \in Program, SendFails(p)
      PROVE  WorkTypes'
  BY <1>9 DEF SendFails, Counts
<1>10. ASSUME NEW p \in Program, Accept(p)
      PROVE  WorkTypes'
  BY <1>10 DEF Accept, Arrives, Counts
<1>11. ASSUME NEW p \in Program, Ask(p)
      PROVE  WorkTypes'
  BY <1>11 DEF Ask, Key
<1>12. ASSUME NEW p \in Program, FindEntry(p)
      PROVE  WorkTypes'
  BY <1>12 DEF FindEntry
<1>13. ASSUME NEW p \in Program, Subscribe(p)
      PROVE  WorkTypes'
  BY <1>13 DEF Subscribe, Notice
<1>14. ASSUME NEW p \in Program, AskReturns(p)
      PROVE  WorkTypes'
  BY <1>14 DEF AskReturns, Key, Counts
<1>15. ASSUME NEW p \in Program, Compact(p)
      PROVE  WorkTypes'
  BY <1>15 DEF Compact, Counts
<1>16. ASSUME NEW p \in Program, NEW n \in Name, RenameReads(p, n)
      PROVE  WorkTypes'
  BY <1>16 DEF RenameReads, Reads, Counts
<1>17. ASSUME NEW p \in Program, NEW b \in Program, NEW notify \in BOOLEAN, Lookup(p, b, notify)
      PROVE  WorkTypes'
  BY <1>17 DEF Lookup
<1>18. ASSUME NEW p \in Program, NEW t \in Turn, Run(p, t)
      PROVE  WorkTypes'
  BY <1>18 DEF Run, Goes, Counts
<1>19. ASSUME NEW p \in Program, NEW t \in Turn, Begin(p, t)
      PROVE  WorkTypes'
  BY <1>19 DEF Begin, Goes, SetBusy, Notice
<1>20. ASSUME NEW p \in Program, NEW t \in Turn, Take(p, t)
      PROVE  WorkTypes'
  BY <1>20 DEF Take, Goes
<1>21. ASSUME NEW p \in Program, NEW t \in Turn, Store(p, t)
      PROVE  WorkTypes'
  BY <1>21 DEF Store, Goes, Seen
<1>22. ASSUME NEW p \in Program, NEW t \in Turn, StoreFails(p, t)
      PROVE  WorkTypes'
  BY <1>22 DEF StoreFails, Fails, Goes, Counts, Requeues, Fits
<1>23. ASSUME NEW p \in Program, NEW t \in Turn, End(p, t)
      PROVE  WorkTypes'
  BY <1>23 DEF End, Goes
<1>24. ASSUME NEW p \in Program, NEW t \in Turn, Look(p, t)
      PROVE  WorkTypes'
  BY <1>24 DEF Look, Goes, Active
<1>25. ASSUME NEW p \in Program, NEW t \in Turn, Show(p, t)
      PROVE  WorkTypes'
  <2>1. busy' \in [Program -> BOOLEAN]
    BY <1>25 DEF Show, SetBusy
  <2>2. turn' \in [Program -> [Turn -> {"none", "stored", "began", "took", "running", "over",
                                       "sawIdle", "sawBusy"}]]
    <3>1. turn' = [turn EXCEPT ![p][t] = "none"]
      BY <1>25 DEF Show, Goes
    <3> QED BY <3>1
  <2> QED BY <1>25, <2>1, <2>2 DEF Show
<1>26. ASSUME NEW n \in notices, TakeNotice(n)
      PROVE  WorkTypes'
  BY <1>26 DEF TakeNotice, Arrives, Expected
<1>27. ASSUME NEW n \in notices, RefuseNotice(n)
      PROVE  WorkTypes'
  BY <1>27 DEF RefuseNotice
<1>28. ASSUME NEW n \in notices, LoseNotice(n)
      PROVE  WorkTypes'
  BY <1>28 DEF LoseNotice, Counts
<1>29. CASE UNCHANGED vars
  BY <1>29
<1> QED
  BY <1>1, <1>2, <1>3, <1>4, <1>5, <1>6, <1>7, <1>8, <1>9, <1>10, <1>11, <1>12, <1>13, <1>14,
    <1>15, <1>16, <1>17, <1>18, <1>19, <1>20, <1>21, <1>22, <1>23, <1>24, <1>25, <1>26, <1>27,
    <1>28, <1>29, StepCases

\* What arrives in an inbox with room leaves it an inbox.
LEMMA Arrival ==
  ASSUME PostTypes, NEW b \in Program, Len(inbox[b]) < MaxInbox, Arrives(b)
  PROVE  /\ inbox' \in [Program -> Seq(Nat)] /\ \A p \in Program : Len(inbox'[p]) <= MaxInbox
         /\ arrived' \in [Program -> Nat]
<1>1. Append(inbox[b], arrived[b] + 1) \in Seq(Nat)
      /\ Len(Append(inbox[b], arrived[b] + 1)) <= MaxInbox
  BY PeersAssumption DEF PostTypes, PeersAssumption
<1>2. /\ inbox' = [inbox EXCEPT ![b] = Append(inbox[b], arrived[b] + 1)]
      /\ arrived' = [arrived EXCEPT ![b] = arrived[b] + 1]
  BY DEF Arrives
<1> QED BY <1>1, <1>2 DEF PostTypes

\* Every step keeps the inboxes within their limit.
LEMMA PostTypesStep ==
  ASSUME PostTypes, CallTypes, DuesTypes, [Next]_vars
  PROVE  PostTypes'
<1> USE PeersAssumption DEF PostTypes, PeersAssumption, vars, reg, post, dues, idle, naming, work
<1>1. ASSUME NEW p \in Program, Start(p)
      PROVE  PostTypes'
  BY <1>1 DEF Start
<1>2. ASSUME NEW p \in Program, ClaimReads(p)
      PROVE  PostTypes'
  BY <1>2 DEF ClaimReads, Reads
<1>3. ASSUME NEW p \in Program, ClaimWrites(p)
      PROVE  PostTypes'
  BY <1>3 DEF ClaimWrites, Writes
<1>4. ASSUME NEW p \in Program, ClaimChecks(p)
      PROVE  PostTypes'
  BY <1>4 DEF ClaimChecks, Checks
<1>5. ASSUME NEW p \in Program, RenameWrites(p)
      PROVE  PostTypes'
  BY <1>5 DEF RenameWrites, Writes
<1>6. ASSUME NEW p \in Program, Close(p)
      PROVE  PostTypes'
  BY <1>6 DEF Close, Counts
<1>7. ASSUME NEW p \in Program, CloseEnds(p)
      PROVE  PostTypes'
  BY <1>7 DEF CloseEnds, NothingLeft
<1>8. ASSUME NEW p \in Program, Crash(p)
      PROVE  PostTypes'
  BY <1>8 DEF Crash, NothingLeft, Counts
<1>9. ASSUME NEW p \in Program, SendFails(p)
      PROVE  PostTypes'
  BY <1>9 DEF SendFails, Counts
<1>10. ASSUME NEW p \in Program, Accept(p)
      PROVE  PostTypes'
  <2>1. PICK b \in Program : Len(inbox[b]) < MaxInbox /\ Arrives(b)
    BY <1>10 DEF Accept, CallTypes, CallType, NoCall
  <2> QED BY <1>10, <2>1, Arrival DEF Accept
<1>11. ASSUME NEW p \in Program, Ask(p)
      PROVE  PostTypes'
  BY <1>11 DEF Ask, Key
<1>12. ASSUME NEW p \in Program, FindEntry(p)
      PROVE  PostTypes'
  BY <1>12 DEF FindEntry
<1>13. ASSUME NEW p \in Program, Subscribe(p)
      PROVE  PostTypes'
  BY <1>13 DEF Subscribe, Notice
<1>14. ASSUME NEW p \in Program, AskReturns(p)
      PROVE  PostTypes'
  BY <1>14 DEF AskReturns, Key, Counts
<1>15. ASSUME NEW p \in Program, Compact(p)
      PROVE  PostTypes'
  BY <1>15 DEF Compact, Counts
<1>16. ASSUME NEW p \in Program, NEW n \in Name, RenameReads(p, n)
      PROVE  PostTypes'
  BY <1>16 DEF RenameReads, Reads, Counts
<1>17. ASSUME NEW p \in Program, NEW b \in Program, NEW notify \in BOOLEAN, Lookup(p, b, notify)
      PROVE  PostTypes'
  BY <1>17 DEF Lookup
<1>18. ASSUME NEW p \in Program, NEW t \in Turn, Run(p, t)
      PROVE  PostTypes'
  BY <1>18 DEF Run, Goes, Counts
<1>19. ASSUME NEW p \in Program, NEW t \in Turn, Begin(p, t)
      PROVE  PostTypes'
  BY <1>19 DEF Begin, Goes, SetBusy, Notice
<1>20. ASSUME NEW p \in Program, NEW t \in Turn, Take(p, t)
      PROVE  PostTypes'
  <2>1. inbox' = inbox \/ inbox' = [inbox EXCEPT ![p] = <<>>]
    BY <1>20 DEF Take
  <2>2. taken' = taken \/ taken' = [taken EXCEPT ![p][t] = inbox[p]]
    BY <1>20 DEF Take
  <2>3. inbox' \in [Program -> Seq(Nat)] /\ \A q \in Program : Len(inbox'[q]) <= MaxInbox
    <3>1. <<>> \in Seq(Nat) /\ Len(<<>>) <= MaxInbox
      BY PeersAssumption DEF PeersAssumption
    <3> QED BY <2>1, <3>1
  <2>4. taken' \in [Program -> [Turn -> Seq(Nat)]]
    <3>1. inbox[p] \in Seq(Nat)
      OBVIOUS
    <3>2. [taken EXCEPT ![p][t] = inbox[p]] \in [Program -> [Turn -> Seq(Nat)]]
      BY <3>1
    <3> QED BY <2>2, <3>2
  <2> QED BY <1>20, <2>3, <2>4 DEF Take
<1>21. ASSUME NEW p \in Program, NEW t \in Turn, Store(p, t)
      PROVE  PostTypes'
  BY <1>21 DEF Store, Goes, Seen
<1>22. ASSUME NEW p \in Program, NEW t \in Turn, StoreFails(p, t)
      PROVE  PostTypes'
  <2> DEFINE all == taken[p][t] \o inbox[p]
  <2>1. all \in Seq(Nat) /\ Fits(all) \in 0..Len(all) /\ Fits(all) <= MaxInbox
    BY DEF Fits
  <2>2. taken' \in [Program -> [Turn -> Seq(Nat)]] /\ arrived' = arrived
    BY <1>22 DEF StoreFails, Fails
  <2>3. CASE Requeues(p, all, Fits(all))
    <3> HIDE DEF all
    <3>1. /\ SubSeq(all, 1, Fits(all)) \in Seq(Nat)
          /\ Len(SubSeq(all, 1, Fits(all))) <= MaxInbox
          /\ {all[i] : i \in (Fits(all) + 1)..Len(all)} \subseteq Nat
      BY <2>1
    <3> QED BY <2>2, <2>3, <3>1 DEF Requeues
  <2>4. CASE UNCHANGED <<inbox, gone>>
    BY <2>2, <2>4
  <2> QED BY <1>22, <2>3, <2>4 DEF StoreFails, Fails
<1>23. ASSUME NEW p \in Program, NEW t \in Turn, End(p, t)
      PROVE  PostTypes'
  BY <1>23 DEF End, Goes
<1>24. ASSUME NEW p \in Program, NEW t \in Turn, Look(p, t)
      PROVE  PostTypes'
  BY <1>24 DEF Look, Goes, Active
<1>25. ASSUME NEW p \in Program, NEW t \in Turn, Show(p, t)
      PROVE  PostTypes'
  BY <1>25 DEF Show, Goes, SetBusy, Notice, Active
<1>26. ASSUME NEW n \in notices, TakeNotice(n)
      PROVE  PostTypes'
  <2>1. n.to \in Program
    BY <1>26 DEF DuesTypes
  <2> QED BY <1>26, <2>1, Arrival DEF TakeNotice
<1>27. ASSUME NEW n \in notices, RefuseNotice(n)
      PROVE  PostTypes'
  BY <1>27 DEF RefuseNotice
<1>28. ASSUME NEW n \in notices, LoseNotice(n)
      PROVE  PostTypes'
  BY <1>28 DEF LoseNotice, Counts
<1>29. CASE UNCHANGED vars
  BY <1>29
<1> HIDE DEF PostTypes
<1> QED
  BY <1>1, <1>2, <1>3, <1>4, <1>5, <1>6, <1>7, <1>8, <1>9, <1>10, <1>11, <1>12, <1>13, <1>14,
    <1>15, <1>16, <1>17, <1>18, <1>19, <1>20, <1>21, <1>22, <1>23, <1>24, <1>25, <1>26, <1>27,
    <1>28, <1>29, StepCases

\* Every step keeps the counters within their bounds.
LEMMA CountTypesStep ==
  ASSUME CountTypes, [Next]_vars
  PROVE  CountTypes'
<1> USE PeersAssumption DEF CountTypes, PeersAssumption, vars, reg, post, dues, idle, naming, work
<1>1. ASSUME NEW p \in Program, Start(p)
      PROVE  CountTypes'
  BY <1>1 DEF Start
<1>2. ASSUME NEW p \in Program, ClaimReads(p)
      PROVE  CountTypes'
  BY <1>2 DEF ClaimReads, Reads
<1>3. ASSUME NEW p \in Program, ClaimWrites(p)
      PROVE  CountTypes'
  BY <1>3 DEF ClaimWrites, Writes
<1>4. ASSUME NEW p \in Program, ClaimChecks(p)
      PROVE  CountTypes'
  BY <1>4 DEF ClaimChecks, Checks
<1>5. ASSUME NEW p \in Program, RenameWrites(p)
      PROVE  CountTypes'
  BY <1>5 DEF RenameWrites, Writes
<1>6. ASSUME NEW p \in Program, Close(p)
      PROVE  CountTypes'
  BY <1>6 DEF Close, Counts
<1>7. ASSUME NEW p \in Program, CloseEnds(p)
      PROVE  CountTypes'
  BY <1>7 DEF CloseEnds, NothingLeft
<1>8. ASSUME NEW p \in Program, Crash(p)
      PROVE  CountTypes'
  BY <1>8 DEF Crash, NothingLeft, Counts
<1>9. ASSUME NEW p \in Program, SendFails(p)
      PROVE  CountTypes'
  BY <1>9 DEF SendFails, Counts
<1>10. ASSUME NEW p \in Program, Accept(p)
      PROVE  CountTypes'
  BY <1>10 DEF Accept, Arrives, Counts
<1>11. ASSUME NEW p \in Program, Ask(p)
      PROVE  CountTypes'
  BY <1>11 DEF Ask, Key
<1>12. ASSUME NEW p \in Program, FindEntry(p)
      PROVE  CountTypes'
  BY <1>12 DEF FindEntry
<1>13. ASSUME NEW p \in Program, Subscribe(p)
      PROVE  CountTypes'
  BY <1>13 DEF Subscribe, Notice
<1>14. ASSUME NEW p \in Program, AskReturns(p)
      PROVE  CountTypes'
  BY <1>14 DEF AskReturns, Key, Counts
<1>15. ASSUME NEW p \in Program, Compact(p)
      PROVE  CountTypes'
  BY <1>15 DEF Compact, Counts
<1>16. ASSUME NEW p \in Program, NEW n \in Name, RenameReads(p, n)
      PROVE  CountTypes'
  BY <1>16 DEF RenameReads, Reads, Counts
<1>17. ASSUME NEW p \in Program, NEW b \in Program, NEW notify \in BOOLEAN, Lookup(p, b, notify)
      PROVE  CountTypes'
  <2>1. count.send + 1 \in 0..MaxSend /\ (notify => count.ask + 1 \in 0..MaxAsk)
    BY <1>17 DEF Lookup
  <2> QED BY <1>17, <2>1 DEF Lookup
<1>18. ASSUME NEW p \in Program, NEW t \in Turn, Run(p, t)
      PROVE  CountTypes'
  BY <1>18 DEF Run, Goes, Counts
<1>19. ASSUME NEW p \in Program, NEW t \in Turn, Begin(p, t)
      PROVE  CountTypes'
  BY <1>19 DEF Begin, Goes, SetBusy, Notice
<1>20. ASSUME NEW p \in Program, NEW t \in Turn, Take(p, t)
      PROVE  CountTypes'
  BY <1>20 DEF Take, Goes
<1>21. ASSUME NEW p \in Program, NEW t \in Turn, Store(p, t)
      PROVE  CountTypes'
  BY <1>21 DEF Store, Goes, Seen
<1>22. ASSUME NEW p \in Program, NEW t \in Turn, StoreFails(p, t)
      PROVE  CountTypes'
  BY <1>22 DEF StoreFails, Fails, Counts
<1>23. ASSUME NEW p \in Program, NEW t \in Turn, End(p, t)
      PROVE  CountTypes'
  BY <1>23 DEF End, Goes
<1>24. ASSUME NEW p \in Program, NEW t \in Turn, Look(p, t)
      PROVE  CountTypes'
  BY <1>24 DEF Look, Goes, Active
<1>25. ASSUME NEW p \in Program, NEW t \in Turn, Show(p, t)
      PROVE  CountTypes'
  BY <1>25 DEF Show, Goes, SetBusy, Notice, Active
<1>26. ASSUME NEW n \in notices, TakeNotice(n)
      PROVE  CountTypes'
  BY <1>26 DEF TakeNotice, Arrives, Expected
<1>27. ASSUME NEW n \in notices, RefuseNotice(n)
      PROVE  CountTypes'
  BY <1>27 DEF RefuseNotice
<1>28. ASSUME NEW n \in notices, LoseNotice(n)
      PROVE  CountTypes'
  BY <1>28 DEF LoseNotice, Counts
<1>29. CASE UNCHANGED vars
  BY <1>29
<1> QED
  BY <1>1, <1>2, <1>3, <1>4, <1>5, <1>6, <1>7, <1>8, <1>9, <1>10, <1>11, <1>12, <1>13, <1>14,
    <1>15, <1>16, <1>17, <1>18, <1>19, <1>20, <1>21, <1>22, <1>23, <1>24, <1>25, <1>26, <1>27,
    <1>28, <1>29, StepCases

\* Every step keeps the shape of calls.
LEMMA CallTypesStep ==
  ASSUME RegTypes, CallTypes, CountTypes, [Next]_vars
  PROVE  CallTypes'
<1> USE DEF RegTypes, CallTypes, CallType, CallStep, CountTypes, NoCall, vars, reg, post, dues,
    idle, naming, work
<1>1. ASSUME NEW p \in Program, Start(p)
      PROVE  CallTypes'
  BY <1>1 DEF Start
<1>2. ASSUME NEW p \in Program, ClaimReads(p)
      PROVE  CallTypes'
  BY <1>2 DEF ClaimReads, Reads
<1>3. ASSUME NEW p \in Program, ClaimWrites(p)
      PROVE  CallTypes'
  BY <1>3 DEF ClaimWrites, Writes
<1>4. ASSUME NEW p \in Program, ClaimChecks(p)
      PROVE  CallTypes'
  BY <1>4 DEF ClaimChecks, Checks
<1>5. ASSUME NEW p \in Program, RenameWrites(p)
      PROVE  CallTypes'
  BY <1>5 DEF RenameWrites, Writes
<1>6. ASSUME NEW p \in Program, Close(p)
      PROVE  CallTypes'
  BY <1>6 DEF Close, Counts
<1>7. ASSUME NEW p \in Program, CloseEnds(p)
      PROVE  CallTypes'
  BY <1>7 DEF CloseEnds, NothingLeft
<1>8. ASSUME NEW p \in Program, Crash(p)
      PROVE  CallTypes'
  BY <1>8 DEF Crash, NothingLeft, Counts
<1>9. ASSUME NEW p \in Program, SendFails(p)
      PROVE  CallTypes'
  BY <1>9 DEF SendFails, Counts
<1>10. ASSUME NEW p \in Program, Accept(p)
      PROVE  CallTypes'
  <2>1. call[p] \in CallType
    BY <1>10 DEF Accept
  <2>2. CASE call' = [call EXCEPT ![p] = NoCall]
    BY <2>2
  <2>3. CASE call[p].notify /\ call' = [call EXCEPT ![p].step = "told"]
    BY <2>1, <2>3
  <2> QED BY <1>10, <2>2, <2>3 DEF Accept
<1>11. ASSUME NEW p \in Program, Ask(p)
      PROVE  CallTypes'
  BY <1>11 DEF Ask, Key
<1>12. ASSUME NEW p \in Program, FindEntry(p)
      PROVE  CallTypes'
  <2>1. call[p] \in CallType /\ call[p].step = "asking"
    BY <1>12 DEF FindEntry
  <2>2. PICK s \in {"found", "refused"} : call' = [call EXCEPT ![p].step = s]
    BY <1>12 DEF FindEntry
  <2> QED BY <2>1, <2>2
<1>13. ASSUME NEW p \in Program, Subscribe(p)
      PROVE  CallTypes'
  <2>1. call[p] \in CallType /\ call[p].step = "found"
    BY <1>13 DEF Subscribe
  <2>2. PICK s \in {"refused", "promised"} : call' = [call EXCEPT ![p].step = s]
    BY <1>13 DEF Subscribe
  <2> QED BY <2>1, <2>2
<1>14. ASSUME NEW p \in Program, AskReturns(p)
      PROVE  CallTypes'
  BY <1>14 DEF AskReturns, Key, Counts
<1>15. ASSUME NEW p \in Program, Compact(p)
      PROVE  CallTypes'
  BY <1>15 DEF Compact, Counts
<1>16. ASSUME NEW p \in Program, NEW n \in Name, RenameReads(p, n)
      PROVE  CallTypes'
  BY <1>16 DEF RenameReads, Reads, Counts
<1>17. ASSUME NEW p \in Program, NEW b \in Program, NEW notify \in BOOLEAN, Lookup(p, b, notify)
      PROVE  CallTypes'
  <2> DEFINE n == IF notify THEN count.ask + 1 ELSE 0
             c == [step |-> "message", to |-> b, as |-> entry[b], me |-> name[p],
                   notify |-> notify, ask |-> n]
  <2>1. call' = [call EXCEPT ![p] = c]
    BY <1>17, Zenon DEF Lookup
  <2>2. n \in 0..MaxAsk /\ (notify => n \in 1..MaxAsk)
    BY <1>17, PeersAssumption DEF Lookup, PeersAssumption
  <2> HIDE DEF n
  <2>3. c \in CallType
    BY <2>2
  <2>4. c.notify => c.ask \in 1..MaxAsk
    BY <2>2
  <2> HIDE DEF c
  <2>5. c.step = "message"
    BY DEF c
  <2> QED BY <2>1, <2>3, <2>4, <2>5
<1>18. ASSUME NEW p \in Program, NEW t \in Turn, Run(p, t)
      PROVE  CallTypes'
  BY <1>18 DEF Run, Goes, Counts
<1>19. ASSUME NEW p \in Program, NEW t \in Turn, Begin(p, t)
      PROVE  CallTypes'
  BY <1>19 DEF Begin, Goes, SetBusy, Notice
<1>20. ASSUME NEW p \in Program, NEW t \in Turn, Take(p, t)
      PROVE  CallTypes'
  BY <1>20 DEF Take, Goes
<1>21. ASSUME NEW p \in Program, NEW t \in Turn, Store(p, t)
      PROVE  CallTypes'
  BY <1>21 DEF Store, Goes, Seen
<1>22. ASSUME NEW p \in Program, NEW t \in Turn, StoreFails(p, t)
      PROVE  CallTypes'
  BY <1>22 DEF StoreFails, Fails, Goes, Counts, Requeues, Fits
<1>23. ASSUME NEW p \in Program, NEW t \in Turn, End(p, t)
      PROVE  CallTypes'
  BY <1>23 DEF End, Goes
<1>24. ASSUME NEW p \in Program, NEW t \in Turn, Look(p, t)
      PROVE  CallTypes'
  BY <1>24 DEF Look, Goes, Active
<1>25. ASSUME NEW p \in Program, NEW t \in Turn, Show(p, t)
      PROVE  CallTypes'
  BY <1>25 DEF Show, Goes, SetBusy, Notice, Active
<1>26. ASSUME NEW n \in notices, TakeNotice(n)
      PROVE  CallTypes'
  BY <1>26 DEF TakeNotice, Arrives, Expected
<1>27. ASSUME NEW n \in notices, RefuseNotice(n)
      PROVE  CallTypes'
  BY <1>27 DEF RefuseNotice
<1>28. ASSUME NEW n \in notices, LoseNotice(n)
      PROVE  CallTypes'
  BY <1>28 DEF LoseNotice, Counts
<1>29. CASE UNCHANGED vars
  BY <1>29
<1> QED
  BY <1>1, <1>2, <1>3, <1>4, <1>5, <1>6, <1>7, <1>8, <1>9, <1>10, <1>11, <1>12, <1>13, <1>14,
    <1>15, <1>16, <1>17, <1>18, <1>19, <1>20, <1>21, <1>22, <1>23, <1>24, <1>25, <1>26, <1>27,
    <1>28, <1>29, StepCases

\* Every step keeps the shape of what is owed, awaited and on its way.
LEMMA DuesTypesStep ==
  ASSUME RegTypes, CallTypes, DuesTypes, [Next]_vars
  PROVE  DuesTypes'
<1> USE DEF RegTypes, CallTypes, DuesTypes, CallType, CallStep, NoCall, vars, reg, post, dues,
    idle, naming, work
<1>1. ASSUME NEW p \in Program, Start(p)
      PROVE  DuesTypes'
  BY <1>1 DEF Start
<1>2. ASSUME NEW p \in Program, ClaimReads(p)
      PROVE  DuesTypes'
  BY <1>2 DEF ClaimReads, Reads
<1>3. ASSUME NEW p \in Program, ClaimWrites(p)
      PROVE  DuesTypes'
  BY <1>3 DEF ClaimWrites, Writes
<1>4. ASSUME NEW p \in Program, ClaimChecks(p)
      PROVE  DuesTypes'
  BY <1>4 DEF ClaimChecks, Checks
<1>5. ASSUME NEW p \in Program, RenameWrites(p)
      PROVE  DuesTypes'
  BY <1>5 DEF RenameWrites, Writes
<1>6. ASSUME NEW p \in Program, Close(p)
      PROVE  DuesTypes'
  BY <1>6 DEF Close, Counts
<1>7. ASSUME NEW p \in Program, CloseEnds(p)
      PROVE  DuesTypes'
  <2>1. /\ subs' = [subs EXCEPT ![p] = {}] /\ awaiting' = [awaiting EXCEPT ![p] = {}]
        /\ UNCHANGED <<notices, answered, mislaid>>
    BY <1>7 DEF CloseEnds, NothingLeft
  <2> QED BY <2>1
<1>8. ASSUME NEW p \in Program, Crash(p)
      PROVE  DuesTypes'
  <2>1. /\ subs' = [subs EXCEPT ![p] = {}] /\ awaiting' = [awaiting EXCEPT ![p] = {}]
        /\ notices' \subseteq notices /\ UNCHANGED <<answered, mislaid>>
    BY <1>8 DEF Crash, NothingLeft
  <2> QED BY <2>1
<1>9. ASSUME NEW p \in Program, SendFails(p)
      PROVE  DuesTypes'
  BY <1>9 DEF SendFails, Counts
<1>10. ASSUME NEW p \in Program, Accept(p)
      PROVE  DuesTypes'
  BY <1>10 DEF Accept, Arrives, Counts
<1>11. ASSUME NEW p \in Program, Ask(p)
      PROVE  DuesTypes'
  <2>1. Key(p) \in [of : Program, as : Nat]
    BY <1>11 DEF Ask, Key
  <2> QED BY <1>11, <2>1 DEF Ask
<1>12. ASSUME NEW p \in Program, FindEntry(p)
      PROVE  DuesTypes'
  BY <1>12 DEF FindEntry
<1>13. ASSUME NEW p \in Program, Subscribe(p)
      PROVE  DuesTypes'
  <2> DEFINE b == call[p].to
             s == [of |-> p, me |-> call[p].me, ask |-> call[p].ask]
  <2>1. b \in Program /\ s \in [of : Program, me : Nat, ask : 1..MaxAsk]
    BY <1>13 DEF Subscribe
  <2>2. Notice(b, s) \in [from : Program, name : Nat, to : Program, ask : 1..MaxAsk]
    BY <2>1 DEF Notice
  <2> HIDE DEF b, s
  <2>3. notices' \in {notices, notices \union {Notice(b, s)}}
    BY <1>13 DEF Subscribe, b, s
  <2>4. \/ subs' = subs
        \/ subs' = [subs EXCEPT ![b] = {r \in subs[b] : r.of # p \/ r.me # s.me} \union {s}]
    BY <1>13 DEF Subscribe, b, s
  <2>5. subs' \in [Program -> SUBSET [of : Program, me : Nat, ask : 1..MaxAsk]]
    <3>1. {r \in subs[b] : r.of # p \/ r.me # s.me} \union {s}
            \subseteq [of : Program, me : Nat, ask : 1..MaxAsk]
      BY <2>1
    <3>2. [subs EXCEPT ![b] = {r \in subs[b] : r.of # p \/ r.me # s.me} \union {s}]
            \in [Program -> SUBSET [of : Program, me : Nat, ask : 1..MaxAsk]]
      BY <3>1
    <3> QED BY <2>4, <3>2
  <2> QED BY <1>13, <2>2, <2>3, <2>5 DEF Subscribe
<1>14. ASSUME NEW p \in Program, AskReturns(p)
      PROVE  DuesTypes'
  <2>1. awaiting' \in {awaiting, [awaiting EXCEPT ![p] = awaiting[p] \ {Key(p)}]}
    BY <1>14 DEF AskReturns
  <2>2. [awaiting EXCEPT ![p] = awaiting[p] \ {Key(p)}]
          \in [Program -> SUBSET [of : Program, as : Nat]]
    OBVIOUS
  <2> QED BY <1>14, <2>1, <2>2 DEF AskReturns
<1>15. ASSUME NEW p \in Program, Compact(p)
      PROVE  DuesTypes'
  BY <1>15 DEF Compact, Counts
<1>16. ASSUME NEW p \in Program, NEW n \in Name, RenameReads(p, n)
      PROVE  DuesTypes'
  BY <1>16 DEF RenameReads, Reads, Counts
<1>17. ASSUME NEW p \in Program, NEW b \in Program, NEW notify \in BOOLEAN, Lookup(p, b, notify)
      PROVE  DuesTypes'
  BY <1>17 DEF Lookup
<1>18. ASSUME NEW p \in Program, NEW t \in Turn, Run(p, t)
      PROVE  DuesTypes'
  BY <1>18 DEF Run, Goes, Counts
<1>19. ASSUME NEW p \in Program, NEW t \in Turn, Begin(p, t)
      PROVE  DuesTypes'
  BY <1>19 DEF Begin, Goes, SetBusy, Notice
<1>20. ASSUME NEW p \in Program, NEW t \in Turn, Take(p, t)
      PROVE  DuesTypes'
  BY <1>20 DEF Take, Goes
<1>21. ASSUME NEW p \in Program, NEW t \in Turn, Store(p, t)
      PROVE  DuesTypes'
  BY <1>21 DEF Store, Goes, Seen
<1>22. ASSUME NEW p \in Program, NEW t \in Turn, StoreFails(p, t)
      PROVE  DuesTypes'
  BY <1>22 DEF StoreFails, Fails, Goes, Counts, Requeues, Fits
<1>23. ASSUME NEW p \in Program, NEW t \in Turn, End(p, t)
      PROVE  DuesTypes'
  BY <1>23 DEF End, Goes
<1>24. ASSUME NEW p \in Program, NEW t \in Turn, Look(p, t)
      PROVE  DuesTypes'
  BY <1>24 DEF Look, Goes, Active
<1>25. ASSUME NEW p \in Program, NEW t \in Turn, Show(p, t)
      PROVE  DuesTypes'
  <2>1. \/ subs' = subs /\ notices' = notices
        \/ /\ subs' = [subs EXCEPT ![p] = {}]
           /\ notices' = notices \union {Notice(p, s) : s \in subs[p]}
    BY <1>25 DEF Show, SetBusy
  <2>2. \A s \in subs[p] :
          Notice(p, s) \in [from : Program, name : Nat, to : Program, ask : 1..MaxAsk]
    BY DEF Notice
  <2>3. {Notice(p, s) : s \in subs[p]}
          \subseteq [from : Program, name : Nat, to : Program, ask : 1..MaxAsk]
    BY <2>2
  <2>4. [subs EXCEPT ![p] = {}] \in [Program -> SUBSET [of : Program, me : Nat, ask : 1..MaxAsk]]
    OBVIOUS
  <2> QED BY <1>25, <2>1, <2>3, <2>4 DEF Show
<1>26. ASSUME NEW n \in notices, TakeNotice(n)
      PROVE  DuesTypes'
  <2>1. n.to \in Program /\ n.ask \in 1..MaxAsk
    BY <1>26
  <2> DEFINE k == [of |-> n.from, as |-> n.name]
  <2>2. /\ awaiting' = [awaiting EXCEPT ![n.to] = awaiting[n.to] \ {k}]
        /\ answered' = [answered EXCEPT ![n.ask] = answered[n.ask] + 1]
    BY <1>26 DEF TakeNotice
  <2> HIDE DEF k
  <2>3. awaiting' \in [Program -> SUBSET [of : Program, as : Nat]]
    BY <2>1, <2>2
  <2>4. answered' \in [1..MaxAsk -> Nat]
    BY <2>1, <2>2
  <2> QED BY <1>26, <2>3, <2>4 DEF TakeNotice
<1>27. ASSUME NEW n \in notices, RefuseNotice(n)
      PROVE  DuesTypes'
  BY <1>27 DEF RefuseNotice
<1>28. ASSUME NEW n \in notices, LoseNotice(n)
      PROVE  DuesTypes'
  <2>1. <<n.from, n.to>> \in Program \X Program
    BY <1>28
  <2> QED BY <1>28, <2>1 DEF LoseNotice
<1>29. CASE UNCHANGED vars
  BY <1>29
<1> HIDE DEF DuesTypes
<1> QED
  BY <1>1, <1>2, <1>3, <1>4, <1>5, <1>6, <1>7, <1>8, <1>9, <1>10, <1>11, <1>12, <1>13, <1>14,
    <1>15, <1>16, <1>17, <1>18, <1>19, <1>20, <1>21, <1>22, <1>23, <1>24, <1>25, <1>26, <1>27,
    <1>28, <1>29, StepCases

-----------------------------------------------------------------------------
(* Names: two programs of one name chose it at the same time. *)

Present(p)  == stage[p] \in {"claiming", "up"}
Choosing(p) == claim[p].step \in {"writing", "renaming"}

\* Where a program is in its choice of a name, by its stage.
Chosen ==
  \A p \in Program :
    /\ stage[p] = "off" => entry[p] = 0 /\ claim[p].step = "none"
    /\ stage[p] = "claiming" =>
         /\ claim[p].step \in {"reading", "writing", "checking"}
         /\ claim[p].step = "checking" \/ entry[p] # 0 => entry[p] = name[p]
    /\ stage[p] = "up" => entry[p] = name[p]
    /\ stage[p] \notin {"off", "claiming"} => claim[p].step \in {"none", "renaming"}

\* A name that was free when it was read is taken meanwhile only by a program that chooses
\* at the same time.
Overlapping ==
  \A p, q \in Program : p # q /\ Choosing(p) =>
    /\ Choosing(q) => {p, q} \in overlap
    /\ Present(q) /\ entry[q] = claim[p].want /\ entry[q] # 0 => {p, q} \in overlap

\* Two of one name: the later is still to compare, or nobody will.
Clashing ==
  \A p, q \in Program :
    p < q /\ Present(p) /\ Present(q) /\ entry[p] = entry[q] /\ entry[p] # 0 =>
      {p, q} \in unseen \/ stage[q] = "claiming"

\* What a step does to the register and the names.
Prunes == entry' \in {entry, Listed} /\ UNCHANGED <<stage, name, claim, naming>>
Shows(p) == /\ stage[p] = "up" /\ entry' = [entry EXCEPT ![p] = name[p]]
            /\ UNCHANGED <<stage, name, claim, naming>>

\* The steps that change who goes by which name; every other at most prunes the register.
LEMMA RegisterCases ==
  ASSUME [Next]_vars
  PROVE  \/ \E p \in Program :
              \/ Start(p) \/ ClaimReads(p) \/ ClaimWrites(p) \/ ClaimChecks(p) \/ RenameWrites(p)
              \/ \E n \in Name : RenameReads(p, n)
              \/ Close(p) \/ CloseEnds(p) \/ Crash(p)
              \/ Shows(p)
         \/ Prunes
<1> USE DEF Prunes, Shows, reg, naming
<1>1. ASSUME NEW p \in Program, SendFails(p)
      PROVE  Prunes
  BY <1>1 DEF SendFails
<1>2. ASSUME NEW p \in Program, Accept(p)
      PROVE  Prunes
  BY <1>2 DEF Accept
<1>3. ASSUME NEW p \in Program, Ask(p)
      PROVE  Prunes
  BY <1>3 DEF Ask
<1>4. ASSUME NEW p \in Program, FindEntry(p)
      PROVE  Prunes
  BY <1>4 DEF FindEntry
<1>5. ASSUME NEW p \in Program, Subscribe(p)
      PROVE  Prunes
  BY <1>5 DEF Subscribe
<1>6. ASSUME NEW p \in Program, AskReturns(p)
      PROVE  Prunes
  BY <1>6 DEF AskReturns
<1>7. ASSUME NEW p \in Program, Compact(p)
      PROVE  Prunes
  BY <1>7 DEF Compact
<1>8. ASSUME NEW p \in Program, NEW b \in Program, NEW notify \in BOOLEAN, Lookup(p, b, notify)
      PROVE  Prunes
  BY <1>8 DEF Lookup
<1>9. ASSUME NEW p \in Program, NEW t \in Turn, Run(p, t)
      PROVE  Prunes
  BY <1>9 DEF Run
<1>10. ASSUME NEW p \in Program, NEW t \in Turn, Begin(p, t)
      PROVE  Shows(p) \/ Prunes
  BY <1>10 DEF Begin, SetBusy
<1>11. ASSUME NEW p \in Program, NEW t \in Turn, Take(p, t)
      PROVE  Prunes
  BY <1>11 DEF Take
<1>12. ASSUME NEW p \in Program, NEW t \in Turn, Store(p, t)
      PROVE  Prunes
  BY <1>12 DEF Store
<1>13. ASSUME NEW p \in Program, NEW t \in Turn, StoreFails(p, t)
      PROVE  Prunes
  BY <1>13 DEF StoreFails, Fails
<1>14. ASSUME NEW p \in Program, NEW t \in Turn, End(p, t)
      PROVE  Prunes
  BY <1>14 DEF End
<1>15. ASSUME NEW p \in Program, NEW t \in Turn, Look(p, t)
      PROVE  Prunes
  BY <1>15 DEF Look
<1>16. ASSUME NEW p \in Program, NEW t \in Turn, Show(p, t)
      PROVE  Shows(p) \/ Prunes
  BY <1>16 DEF Show, SetBusy
<1>17. ASSUME NEW n \in notices, TakeNotice(n)
      PROVE  Prunes
  BY <1>17 DEF TakeNotice
<1>18. ASSUME NEW n \in notices, RefuseNotice(n)
      PROVE  Prunes
  BY <1>18 DEF RefuseNotice
<1>19. ASSUME NEW n \in notices, LoseNotice(n)
      PROVE  Prunes
  BY <1>19 DEF LoseNotice
<1>20. CASE UNCHANGED vars
  BY <1>20 DEF vars
<1> HIDE DEF Prunes, Shows
<1> QED
  BY <1>1, <1>2, <1>3, <1>4, <1>5, <1>6, <1>7, <1>8, <1>9, <1>10, <1>11, <1>12, <1>13, <1>14,
    <1>15, <1>16, <1>17, <1>18, <1>19, <1>20, StepCases

\* Every step keeps Chosen.
LEMMA ChosenStep ==
  ASSUME RegTypes, Chosen, [Next]_vars
  PROVE  Chosen'
<1> USE DEF RegTypes, Chosen, Listed, naming
<1>1. ASSUME NEW p \in Program, Start(p)
      PROVE  Chosen'
  BY <1>1 DEF Start
<1>2. ASSUME NEW p \in Program, ClaimReads(p)
      PROVE  Chosen'
  BY <1>2 DEF ClaimReads, Reads, Apart
<1>3. ASSUME NEW p \in Program, ClaimWrites(p)
      PROVE  Chosen'
  BY <1>3 DEF ClaimWrites, Writes, Apart
<1>4. ASSUME NEW p \in Program, ClaimChecks(p)
      PROVE  Chosen'
  <2>1. /\ claim[p].step = "checking" /\ name' = name
        /\ entry' \in [Program -> Nat]
        /\ \A q \in Program : stage[q] # "dead" => entry'[q] = entry[q]
    BY <1>4 DEF ClaimChecks, Checks
  <2>2. stage[p] = "claiming" => entry[p] = name[p]
    BY <2>1
  <2>3. CASE /\ stage' = stage
             /\ claim' = [claim EXCEPT ![p].step = "reading", ![p].tries = @ + 1]
    BY <2>1, <2>2, <2>3
  <2>4. CASE /\ stage' = [stage EXCEPT ![p] = "up"]
             /\ claim' = [claim EXCEPT ![p] = [step |-> "none", want |-> 0, tries |-> 0]]
             /\ stage[p] = "claiming"
    BY <2>1, <2>2, <2>4
  <2> QED BY <1>4, <2>3, <2>4 DEF ClaimChecks, Checks
<1>5. ASSUME NEW p \in Program, NEW n \in Name, RenameReads(p, n)
      PROVE  Chosen'
  BY <1>5 DEF RenameReads, Reads, Apart
<1>6. ASSUME NEW p \in Program, RenameWrites(p)
      PROVE  Chosen'
  BY <1>6 DEF RenameWrites, Writes, Apart
<1>7. ASSUME NEW p \in Program, Close(p)
      PROVE  Chosen'
  BY <1>7 DEF Close
<1>8. ASSUME NEW p \in Program, CloseEnds(p)
      PROVE  Chosen'
  BY <1>8 DEF CloseEnds, NothingLeft
<1>9. ASSUME NEW p \in Program, Crash(p)
      PROVE  Chosen'
  BY <1>9 DEF Crash, NothingLeft
<1>10. ASSUME NEW p \in Program, Shows(p)
      PROVE  Chosen'
  BY <1>10 DEF Shows
<1>11. CASE Prunes
  BY <1>11 DEF Prunes
<1> HIDE DEF Chosen
<1> QED
  BY <1>1, <1>2, <1>3, <1>4, <1>5, <1>6, <1>7, <1>8, <1>9, <1>10, <1>11, RegisterCases

\* Every step keeps Overlapping.
LEMMA OverlappingStep ==
  ASSUME RegTypes, Chosen, Overlapping, [Next]_vars
  PROVE  Overlapping'
<1> USE DEF RegTypes, Chosen, Overlapping, Present, Choosing, Listed, naming
<1>1. ASSUME NEW p \in Program, Start(p)
      PROVE  Overlapping'
  BY <1>1 DEF Start
<1>2. ASSUME NEW p \in Program, ClaimReads(p)
      PROVE  Overlapping'
  <2>1. /\ overlap' = Apart(overlap, p)
                      \union {{p, q} : q \in {r \in Program \ {p} : Choosing(r)}}
        /\ stage' = stage /\ entry' = Listed /\ ~Choosing(p)
    BY <1>2 DEF ClaimReads, Reads
  <2>2. \A q \in Program : Present(q) => Listed[q] = entry[q]
    OBVIOUS
  <2>3. \A q \in Program \ {p} : Present(q) /\ entry[q] # 0 => entry[q] # claim'[p].want
    BY <1>2, <2>2, FreeNameFree DEF ClaimReads, Others
  <2>4. \A q \in Program \ {p} : Choosing(q) => {p, q} \in overlap'
    BY <2>1
  <2>5. \A q, r \in Program \ {p} : {q, r} \in overlap => {q, r} \in overlap'
    BY <2>1 DEF Apart
  <2>6. \A q \in Program \ {p} : claim'[q] = claim[q]
    BY <1>2 DEF ClaimReads
  <2>7. \A q \in Program \ {p} : {q, p} = {p, q}
    OBVIOUS
  <2> SUFFICES ASSUME NEW q \in Program, NEW r \in Program, q # r, Choosing(q)',
                      Choosing(r)' \/ (Present(r)' /\ entry'[r] = claim'[q].want /\ entry'[r] # 0)
               PROVE  {q, r} \in overlap'
    OBVIOUS
  <2>8. CASE q = p
    BY <2>1, <2>2, <2>3, <2>4, <2>6, <2>8 DEF Overlapping
  <2>9. CASE r = p
    BY <2>1, <2>4, <2>6, <2>7, <2>9
  <2>10. CASE q # p /\ r # p
    BY <2>1, <2>2, <2>5, <2>6, <2>10 DEF Overlapping
  <2> QED BY <2>8, <2>9, <2>10
<1>3. ASSUME NEW p \in Program, ClaimWrites(p)
      PROVE  Overlapping'
  BY <1>3 DEF ClaimWrites, Writes, Apart
<1>4. ASSUME NEW p \in Program, ClaimChecks(p)
      PROVE  Overlapping'
  <2>1. /\ overlap' = overlap /\ claim[p].step = "checking"
        /\ entry' \in [Program -> Nat]
        /\ \A q \in Program : stage[q] # "dead" => entry'[q] = entry[q]
        /\ \A q \in Program \ {p} : claim'[q] = claim[q] /\ stage'[q] = stage[q]
        /\ claim'[p].step \in {"reading", "none"} /\ stage[p] = "claiming"
    BY <1>4 DEF ClaimChecks, Checks
  <2> SUFFICES ASSUME NEW q \in Program, NEW r \in Program, q # r, Choosing(q)',
                      Choosing(r)' \/ (Present(r)' /\ entry'[r] = claim'[q].want /\ entry'[r] # 0)
               PROVE  {q, r} \in overlap'
    OBVIOUS
  <2>2. Choosing(q) /\ claim'[q] = claim[q]
    BY <2>1
  <2>3. Choosing(r) \/ (Present(r) /\ entry[r] = claim[q].want /\ entry[r] # 0)
    BY <2>1, <2>2
  <2> QED BY <2>1, <2>2, <2>3
<1>5. ASSUME NEW p \in Program, NEW n \in Name, RenameReads(p, n)
      PROVE  Overlapping'
  <2>1. /\ overlap' = Apart(overlap, p)
                      \union {{p, q} : q \in {r \in Program \ {p} : Choosing(r)}}
        /\ stage' = stage /\ entry' = Listed /\ ~Choosing(p)
    BY <1>5 DEF RenameReads, Reads
  <2>2. \A q \in Program : Present(q) => Listed[q] = entry[q]
    OBVIOUS
  <2>3. \A q \in Program \ {p} : Present(q) /\ entry[q] # 0 => entry[q] # claim'[p].want
    BY <1>5, <2>2 DEF RenameReads, Others
  <2>4. \A q \in Program \ {p} : Choosing(q) => {p, q} \in overlap'
    BY <2>1
  <2>5. \A q, r \in Program \ {p} : {q, r} \in overlap => {q, r} \in overlap'
    BY <2>1 DEF Apart
  <2>6. \A q \in Program \ {p} : claim'[q] = claim[q]
    BY <1>5 DEF RenameReads
  <2>7. \A q \in Program \ {p} : {q, p} = {p, q}
    OBVIOUS
  <2> SUFFICES ASSUME NEW q \in Program, NEW r \in Program, q # r, Choosing(q)',
                      Choosing(r)' \/ (Present(r)' /\ entry'[r] = claim'[q].want /\ entry'[r] # 0)
               PROVE  {q, r} \in overlap'
    OBVIOUS
  <2>8. CASE q = p
    BY <2>1, <2>2, <2>3, <2>4, <2>6, <2>8 DEF Overlapping
  <2>9. CASE r = p
    BY <2>1, <2>4, <2>6, <2>7, <2>9
  <2>10. CASE q # p /\ r # p
    BY <2>1, <2>2, <2>5, <2>6, <2>10 DEF Overlapping
  <2> QED BY <2>8, <2>9, <2>10
<1>6. ASSUME NEW p \in Program, RenameWrites(p)
      PROVE  Overlapping'
  BY <1>6 DEF RenameWrites, Writes, Apart
<1>7. ASSUME NEW p \in Program, Close(p)
      PROVE  Overlapping'
  BY <1>7 DEF Close
<1>8. ASSUME NEW p \in Program, CloseEnds(p)
      PROVE  Overlapping'
  BY <1>8 DEF CloseEnds, NothingLeft
<1>9. ASSUME NEW p \in Program, Crash(p)
      PROVE  Overlapping'
  BY <1>9 DEF Crash, NothingLeft
<1>10. ASSUME NEW p \in Program, Shows(p)
      PROVE  Overlapping'
  BY <1>10 DEF Shows
<1>11. CASE Prunes
  BY <1>11 DEF Prunes
<1> HIDE DEF Overlapping
<1> QED
  BY <1>1, <1>2, <1>3, <1>4, <1>5, <1>6, <1>7, <1>8, <1>9, <1>10, <1>11, RegisterCases

\* Every step keeps Clashing.
LEMMA ClashingStep ==
  ASSUME RegTypes, Chosen, Overlapping, Clashing, [Next]_vars
  PROVE  Clashing'
<1> USE DEF RegTypes, Chosen, Clashing, Present, Choosing, Listed, naming
<1>1. ASSUME NEW p \in Program, Start(p)
      PROVE  Clashing'
  BY <1>1 DEF Start
<1>2. ASSUME NEW p \in Program, ClaimReads(p)
      PROVE  Clashing'
  BY <1>2 DEF ClaimReads, Reads, Apart
<1>3. ASSUME NEW p \in Program, ClaimWrites(p)
      PROVE  Clashing'
  <2>1. /\ stage' = stage /\ entry' = [entry EXCEPT ![p] = claim[p].want] /\ Choosing(p)
        /\ unseen' = Apart(unseen, p) \union
             {s \in overlap : p \in s /\ \A q \in s : stage[q] = "claiming" => \E r \in s : r > q}
    BY <1>3 DEF ClaimWrites, Writes
  <2>2. \A q, r \in Program \ {p} : {q, r} \in unseen => {q, r} \in unseen'
    BY <2>1 DEF Apart
  <2>3. ASSUME NEW q \in Program, NEW r \in Program, q < r, p \in {q, r}, {q, r} \in overlap,
               stage[r] # "claiming"
        PROVE  {q, r} \in unseen'
    BY <2>1, <2>3
  <2>4. \A q \in Program \ {p} : Present(q) /\ entry[q] = claim[p].want /\ entry[q] # 0 =>
          {p, q} \in overlap /\ {q, p} \in overlap
    <3>1. \A q \in Program : {p, q} = {q, p}
      OBVIOUS
    <3> QED BY <2>1, <3>1 DEF Overlapping
  <2> SUFFICES ASSUME NEW q \in Program, NEW r \in Program, q < r, Present(q), Present(r),
                      entry'[q] = entry'[r], entry'[q] # 0, stage[r] # "claiming"
               PROVE  {q, r} \in unseen'
    BY <2>1
  <2>5. CASE p # q /\ p # r
    <3>1. entry[q] = entry[r] /\ entry[q] # 0
      BY <2>1, <2>5
    <3> QED BY <2>2, <2>5, <3>1
  <2>6. CASE p = q \/ p = r
    <3>1. q # r
      BY PeersAssumption DEF PeersAssumption
    <3>2. {q, r} \in overlap
      BY <2>1, <2>4, <2>6, <3>1
    <3> QED BY <2>3, <2>6, <3>2
  <2> QED BY <2>5, <2>6
<1>4. ASSUME NEW p \in Program, ClaimChecks(p)
      PROVE  Clashing'
  <2>1. /\ claim[p].step = "checking" /\ UNCHANGED <<name, overlap>>
        /\ entry' \in [Program -> Nat]
        /\ \A q \in Program : stage[q] # "dead" => entry'[q] = entry[q]
        /\ \A q \in Program \ {p} : stage'[q] = stage[q]
        /\ unseen \subseteq unseen'
    BY <1>4 DEF ClaimChecks, Checks
  <2>2. CASE stage' = stage
    BY <2>1, <2>2
  <2>3. CASE /\ stage' = [stage EXCEPT ![p] = "up"]
             /\ unseen' = unseen \union IF Clash(p) THEN {{p, q} : q \in Others(p)} ELSE {}
             /\ stage[p] = "claiming"
    <3>1. ASSUME NEW q \in Program, q < p, Present(q), entry[q] = entry[p], entry[q] # 0
          PROVE  {q, p} \in unseen'
      <4>1. q # p /\ q \in Others(p) /\ Clash(p)
        BY <2>1, <2>3, <3>1, PeersAssumption DEF Others, Clash, PeersAssumption
      <4>2. {p, q} \in unseen' /\ {p, q} = {q, p}
        BY <2>3, <4>1
      <4> QED BY <4>2
    <3> SUFFICES ASSUME NEW q \in Program, NEW r \in Program, q < r, Present(q)', Present(r)',
                        entry'[q] = entry'[r], entry'[q] # 0, stage'[r] # "claiming"
                 PROVE  {q, r} \in unseen'
      OBVIOUS
    <3>2. Present(q) /\ Present(r) /\ entry[q] = entry[r] /\ entry[q] # 0
      BY <2>1, <2>3
    <3>3. CASE r = p
      BY <3>1, <3>2, <3>3
    <3>4. CASE r # p
      BY <2>1, <3>2, <3>4
    <3> QED BY <3>3, <3>4
  <2> QED BY <1>4, <2>2, <2>3 DEF ClaimChecks, Checks
<1>5. ASSUME NEW p \in Program, NEW n \in Name, RenameReads(p, n)
      PROVE  Clashing'
  BY <1>5 DEF RenameReads, Reads, Apart
<1>6. ASSUME NEW p \in Program, RenameWrites(p)
      PROVE  Clashing'
  <2>1. /\ stage' = stage /\ entry' = [entry EXCEPT ![p] = claim[p].want] /\ Choosing(p)
        /\ unseen' = Apart(unseen, p) \union
             {s \in overlap : p \in s /\ \A q \in s : stage[q] = "claiming" => \E r \in s : r > q}
    BY <1>6 DEF RenameWrites, Writes
  <2>2. \A q, r \in Program \ {p} : {q, r} \in unseen => {q, r} \in unseen'
    BY <2>1 DEF Apart
  <2>3. ASSUME NEW q \in Program, NEW r \in Program, q < r, p \in {q, r}, {q, r} \in overlap,
               stage[r] # "claiming"
        PROVE  {q, r} \in unseen'
    BY <2>1, <2>3
  <2>4. \A q \in Program \ {p} : Present(q) /\ entry[q] = claim[p].want /\ entry[q] # 0 =>
          {p, q} \in overlap /\ {q, p} \in overlap
    <3>1. \A q \in Program : {p, q} = {q, p}
      OBVIOUS
    <3> QED BY <2>1, <3>1 DEF Overlapping
  <2> SUFFICES ASSUME NEW q \in Program, NEW r \in Program, q < r, Present(q), Present(r),
                      entry'[q] = entry'[r], entry'[q] # 0, stage[r] # "claiming"
               PROVE  {q, r} \in unseen'
    BY <2>1
  <2>5. CASE p # q /\ p # r
    <3>1. entry[q] = entry[r] /\ entry[q] # 0
      BY <2>1, <2>5
    <3> QED BY <2>2, <2>5, <3>1
  <2>6. CASE p = q \/ p = r
    <3>1. q # r
      BY PeersAssumption DEF PeersAssumption
    <3>2. {q, r} \in overlap
      BY <2>1, <2>4, <2>6, <3>1
    <3> QED BY <2>3, <2>6, <3>2
  <2> QED BY <2>5, <2>6
<1>7. ASSUME NEW p \in Program, Close(p)
      PROVE  Clashing'
  BY <1>7 DEF Close
<1>8. ASSUME NEW p \in Program, CloseEnds(p)
      PROVE  Clashing'
  BY <1>8 DEF CloseEnds, NothingLeft
<1>9. ASSUME NEW p \in Program, Crash(p)
      PROVE  Clashing'
  BY <1>9 DEF Crash, NothingLeft
<1>10. ASSUME NEW p \in Program, Shows(p)
      PROVE  Clashing'
  BY <1>10 DEF Shows
<1>11. CASE Prunes
  BY <1>11 DEF Prunes
<1> HIDE DEF Clashing
<1> QED
  BY <1>1, <1>2, <1>3, <1>4, <1>5, <1>6, <1>7, <1>8, <1>9, <1>10, <1>11, RegisterCases

-----------------------------------------------------------------------------
(* Busy and idle: what is shown of a program's turns. *)

\* A program that is not up has no turns, and shows none.
AtRest ==
  \A p \in Program : stage[p] \notin {"up", "closing"} =>
    ~busy[p] /\ \A t \in Turn : turn[p][t] = "none"

\* Who has still to look, or has seen the program idle, will show it so; a turn that began
\* beside one that saw it idle is known.
ShownOf(p) ==
  stage[p] = "up" =>
    /\ (\E t \in Turn : turn[p][t] \in {"began", "took", "running"}) => busy[p] \/ p \in early
    /\ (\E t \in Turn : turn[p][t] = "sawIdle") /\ Active(p) # {} => p \in early
    /\ p \notin outlived /\ (\E t \in Turn : turn[p][t] = "sawBusy") =>
         \E t \in Turn : t \in Active(p) \/ turn[p][t] = "over"
    /\ p \notin outlived /\ busy[p] =>
         \E t \in Turn : t \in Active(p) \/ turn[p][t] \in {"over", "sawIdle"}
Shown == \A p \in Program : ShownOf(p)

\* A step that leaves the turns and what is shown of them alone.
TurnsRest == UNCHANGED <<stage, busy, turn, early, outlived>>

\* The steps that change turns or what is shown of them.
LEMMA TurnCases ==
  ASSUME [Next]_vars
  PROVE  \/ \E p \in Program : Start(p) \/ ClaimChecks(p) \/ Close(p) \/ CloseEnds(p) \/ Crash(p)
         \/ \E p \in Program, t \in Turn :
              Run(p, t) \/ Begin(p, t) \/ Take(p, t) \/ Store(p, t) \/ StoreFails(p, t)
              \/ End(p, t) \/ Look(p, t) \/ Show(p, t)
         \/ TurnsRest
<1> USE DEF TurnsRest, reg, work
<1>1. ASSUME NEW p \in Program, ClaimReads(p)
      PROVE  TurnsRest
  BY <1>1 DEF ClaimReads
<1>2. ASSUME NEW p \in Program, ClaimWrites(p)
      PROVE  TurnsRest
  BY <1>2 DEF ClaimWrites
<1>3. ASSUME NEW p \in Program, RenameWrites(p)
      PROVE  TurnsRest
  BY <1>3 DEF RenameWrites
<1>4. ASSUME NEW p \in Program, SendFails(p)
      PROVE  TurnsRest
  BY <1>4 DEF SendFails
<1>5. ASSUME NEW p \in Program, Accept(p)
      PROVE  TurnsRest
  BY <1>5 DEF Accept
<1>6. ASSUME NEW p \in Program, Ask(p)
      PROVE  TurnsRest
  BY <1>6 DEF Ask
<1>7. ASSUME NEW p \in Program, FindEntry(p)
      PROVE  TurnsRest
  BY <1>7 DEF FindEntry
<1>8. ASSUME NEW p \in Program, Subscribe(p)
      PROVE  TurnsRest
  BY <1>8 DEF Subscribe
<1>9. ASSUME NEW p \in Program, AskReturns(p)
      PROVE  TurnsRest
  BY <1>9 DEF AskReturns
<1>10. ASSUME NEW p \in Program, Compact(p)
      PROVE  TurnsRest
  BY <1>10 DEF Compact
<1>11. ASSUME NEW p \in Program, NEW n \in Name, RenameReads(p, n)
      PROVE  TurnsRest
  BY <1>11 DEF RenameReads
<1>12. ASSUME NEW p \in Program, NEW b \in Program, NEW notify \in BOOLEAN, Lookup(p, b, notify)
      PROVE  TurnsRest
  BY <1>12 DEF Lookup
<1>13. ASSUME NEW n \in notices, TakeNotice(n)
      PROVE  TurnsRest
  BY <1>13 DEF TakeNotice
<1>14. ASSUME NEW n \in notices, RefuseNotice(n)
      PROVE  TurnsRest
  BY <1>14 DEF RefuseNotice
<1>15. ASSUME NEW n \in notices, LoseNotice(n)
      PROVE  TurnsRest
  BY <1>15 DEF LoseNotice
<1>16. CASE UNCHANGED vars
  BY <1>16 DEF vars
<1> HIDE DEF TurnsRest
<1> QED
  BY <1>1, <1>2, <1>3, <1>4, <1>5, <1>6, <1>7, <1>8, <1>9, <1>10, <1>11, <1>12, <1>13, <1>14,
    <1>15, <1>16, StepCases

\* A program whose turns and whose stage stay is shown as before.
Same(q) == /\ stage'[q] = stage[q] \/ stage'[q] # "up"
           /\ turn'[q] = turn[q] /\ busy'[q] = busy[q]
           /\ (q \in early' <=> q \in early) /\ (q \in outlived' <=> q \in outlived)

\* A program nothing was done to keeps ShownOf.
LEMMA SameShown ==
  ASSUME NEW q \in Program, ShownOf(q), Same(q)
  PROVE  ShownOf(q)'
<1>1. Active(q)' = Active(q)
  BY DEF Same, Active
<1> QED BY <1>1 DEF Same, ShownOf

\* A turn's step touches no other program.
LEMMA OneTurn ==
  ASSUME WorkTypes, RegTypes, NEW p \in Program, NEW t \in Turn,
         \/ Run(p, t) \/ Begin(p, t) \/ Take(p, t) \/ Store(p, t) \/ StoreFails(p, t)
         \/ End(p, t) \/ Look(p, t) \/ Show(p, t)
  PROVE  /\ \A q \in Program \ {p} : Same(q)
         /\ turn'[p] = [turn[p] EXCEPT ![t] = turn'[p][t]]
         /\ stage' = stage
<1> USE DEF WorkTypes, Same, Goes, reg, work
<1>1. CASE Run(p, t)
  BY <1>1 DEF Run
<1>2. CASE Begin(p, t)
  BY <1>2 DEF Begin, SetBusy
<1>3. CASE Take(p, t)
  BY <1>3 DEF Take
<1>4. CASE Store(p, t)
  BY <1>4 DEF Store
<1>5. CASE StoreFails(p, t)
  BY <1>5 DEF StoreFails, Fails
<1>6. CASE End(p, t)
  BY <1>6 DEF End
<1>7. CASE Look(p, t)
  BY <1>7 DEF Look
<1>8. CASE Show(p, t)
  BY <1>8 DEF Show, SetBusy
<1> QED
  BY <1>1, <1>2, <1>3, <1>4, <1>5, <1>6, <1>7, <1>8

\* Every step keeps AtRest.
LEMMA AtRestStep ==
  ASSUME RegTypes, Chosen, WorkTypes, AtRest, [Next]_vars
  PROVE  AtRest'
<1> USE DEF RegTypes, WorkTypes, AtRest, reg, work
<1>1. ASSUME NEW p \in Program, Start(p)
      PROVE  AtRest'
  BY <1>1 DEF Start
<1>2. ASSUME NEW p \in Program, ClaimChecks(p)
      PROVE  AtRest'
  BY <1>2 DEF ClaimChecks, Checks, Chosen
<1>3. ASSUME NEW p \in Program, Close(p)
      PROVE  AtRest'
  BY <1>3 DEF Close
<1>4. ASSUME NEW p \in Program, CloseEnds(p)
      PROVE  AtRest'
  BY <1>4 DEF CloseEnds, NothingLeft
<1>5. ASSUME NEW p \in Program, Crash(p)
      PROVE  AtRest'
  BY <1>5 DEF Crash, NothingLeft
<1>6. ASSUME NEW p \in Program, NEW t \in Turn,
             \/ Run(p, t) \/ Begin(p, t) \/ Take(p, t) \/ Store(p, t) \/ StoreFails(p, t)
             \/ End(p, t) \/ Look(p, t) \/ Show(p, t)
      PROVE  AtRest'
  <2>1. stage[p] = "up" \/ turn[p][t] # "none"
    BY <1>6 DEF Run, Begin, Take, Store, StoreFails, Fails, End, Look, Show, Goes
  <2>2. stage' = stage /\ \A q \in Program \ {p} : Same(q)
    BY <1>6, OneTurn
  <2> QED BY <2>1, <2>2 DEF Same
<1>7. CASE TurnsRest
  BY <1>7 DEF TurnsRest
<1> HIDE DEF AtRest
<1> QED
  BY <1>1, <1>2, <1>3, <1>4, <1>5, <1>6, <1>7, TurnCases

\* Every step keeps Shown, one program at a time.
LEMMA ShownStep ==
  ASSUME RegTypes, Chosen, WorkTypes, AtRest, Shown, [Next]_vars
  PROVE  Shown'
<1> USE DEF reg, work
<1>1. ASSUME NEW p \in Program, Start(p) \/ Close(p) \/ CloseEnds(p) \/ Crash(p)
      PROVE  Shown'
  <2>1. \A q \in Program : q # p => Same(q)
    BY <1>1 DEF Start, Close, CloseEnds, Crash, NothingLeft, Same, RegTypes, WorkTypes
  <2>2. stage'[p] # "up"
    BY <1>1 DEF Start, Close, CloseEnds, Crash, RegTypes
  <2>3. ShownOf(p)'
    BY <2>2 DEF ShownOf
  <2> QED BY <2>1, <2>3, SameShown DEF Shown
<1>2. ASSUME NEW p \in Program, ClaimChecks(p)
      PROVE  Shown'
  <2>1. \A q \in Program : q # p => Same(q)
    BY <1>2 DEF ClaimChecks, Checks, Same, RegTypes
  <2>2. /\ stage[p] = "claiming" /\ turn' = turn /\ busy' = busy
        /\ \A t \in Turn : turn[p][t] = "none"
        /\ ~busy[p]
    BY <1>2 DEF ClaimChecks, Checks, Chosen, RegTypes, AtRest
  <2>3. ShownOf(p)'
    BY <2>2 DEF ShownOf, Active
  <2> QED BY <2>1, <2>3, SameShown DEF Shown
<1>3. ASSUME NEW p \in Program, NEW t \in Turn, Run(p, t)
      PROVE  Shown'
  <2>1. ShownOf(p)
    BY DEF Shown
  <2>2. ShownOf(p)'
    BY <1>3, <2>1, OneTurn DEF Run, Goes, ShownOf, Active, WorkTypes
  <2> QED BY <1>3, <2>2, OneTurn, SameShown DEF Shown
<1>4. ASSUME NEW p \in Program, NEW t \in Turn, Begin(p, t)
      PROVE  Shown'
  <2>1. ShownOf(p)
    BY DEF Shown
  <2>2. ShownOf(p)'
    BY <1>4, <2>1, OneTurn DEF Begin, SetBusy, Goes, ShownOf, Active, WorkTypes
  <2> QED BY <1>4, <2>2, OneTurn, SameShown DEF Shown
<1>5. ASSUME NEW p \in Program, NEW t \in Turn, Take(p, t)
      PROVE  Shown'
  <2>1. ShownOf(p)
    BY DEF Shown
  <2>2. ShownOf(p)'
    BY <1>5, <2>1, OneTurn DEF Take, Goes, ShownOf, Active, WorkTypes
  <2> QED BY <1>5, <2>2, OneTurn, SameShown DEF Shown
<1>6. ASSUME NEW p \in Program, NEW t \in Turn, Store(p, t)
      PROVE  Shown'
  <2>1. ShownOf(p)
    BY DEF Shown
  <2>2. ShownOf(p)'
    BY <1>6, <2>1, OneTurn DEF Store, Goes, ShownOf, Active, WorkTypes
  <2> QED BY <1>6, <2>2, OneTurn, SameShown DEF Shown
<1>7. ASSUME NEW p \in Program, NEW t \in Turn, StoreFails(p, t)
      PROVE  Shown'
  <2>1. ShownOf(p)
    BY DEF Shown
  <2>2. ShownOf(p)'
    BY <1>7, <2>1, OneTurn DEF StoreFails, Fails, Goes, ShownOf, Active, WorkTypes
  <2> QED BY <1>7, <2>2, OneTurn, SameShown DEF Shown
<1>8. ASSUME NEW p \in Program, NEW t \in Turn, End(p, t)
      PROVE  Shown'
  <2>1. ShownOf(p)
    BY DEF Shown
  <2>2. ShownOf(p)'
    BY <1>8, <2>1, OneTurn DEF End, Goes, ShownOf, Active, WorkTypes
  <2> QED BY <1>8, <2>2, OneTurn, SameShown DEF Shown
<1>9. ASSUME NEW p \in Program, NEW t \in Turn, Look(p, t)
      PROVE  Shown'
  <2>1. ShownOf(p)
    BY DEF Shown
  <2>2. ShownOf(p)'
    BY <1>9, <2>1, OneTurn DEF Look, Goes, ShownOf, Active, WorkTypes
  <2> QED BY <1>9, <2>2, OneTurn, SameShown DEF Shown
<1>10. ASSUME NEW p \in Program, NEW t \in Turn, Show(p, t)
      PROVE  Shown'
  <2>1. ShownOf(p)
    BY DEF Shown
  <2>2. ShownOf(p)'
    BY <1>10, <2>1, OneTurn DEF Show, SetBusy, Goes, ShownOf, Active, WorkTypes
  <2> QED BY <1>10, <2>2, OneTurn, SameShown DEF Shown
<1>11. CASE TurnsRest
  <2>1. \A q \in Program : Same(q)
    BY <1>11 DEF TurnsRest, Same
  <2> QED BY <2>1, SameShown DEF Shown
<1> QED
  BY <1>1, <1>2, <1>3, <1>4, <1>5, <1>6, <1>7, <1>8, <1>9, <1>10, <1>11, TurnCases

-----------------------------------------------------------------------------
(* Notices: each ask is in one place at most, until it is answered. *)

Pending(a) == call[a].step \in {"message", "told", "asking", "found"} /\ call[a].ask # 0
Unanswered(k) == k <= count.ask /\ answered[k] = 0

OnePlace ==
  /\ \A a \in Program : Pending(a) => Unanswered(call[a].ask)
  /\ \A a, b \in Program : Pending(a) /\ Pending(b) /\ call[a].ask = call[b].ask => a = b
  /\ \A p \in Program : \A s \in subs[p] :
       /\ Unanswered(s.ask)
       /\ \A a \in Program : Pending(a) => call[a].ask # s.ask
       /\ \A q \in Program : \A r \in subs[q] : r.ask = s.ask => q = p /\ r = s
  /\ \A n \in notices :
       /\ Unanswered(n.ask)
       /\ \A a \in Program : Pending(a) => call[a].ask # n.ask
       /\ \A p \in Program : \A s \in subs[p] : s.ask # n.ask
       /\ \A m \in notices : m.ask = n.ask => m = n
  /\ \A k \in 1..MaxAsk : answered[k] <= 1 /\ (answered[k] # 0 => k <= count.ask)

\* A step that opens no ask, and leaves each where it was or drops it.
Fades ==
  /\ \A a \in Program : Pending(a)' => Pending(a) /\ call'[a].ask = call[a].ask
  /\ \A p \in Program : subs'[p] \subseteq subs[p]
  /\ notices' \subseteq notices /\ answered' = answered /\ count'.ask = count.ask

\* A program shown as idle sends what it owes.
Pays(p) ==
  /\ subs' = [subs EXCEPT ![p] = {}] /\ notices' = notices \union {Notice(p, s) : s \in subs[p]}
  /\ UNCHANGED <<call, answered, count>>

\* The steps that open an ask or move it on; the others let it fade.
LEMMA NoticeCases ==
  ASSUME CallTypes, DuesTypes, CountTypes, [Next]_vars
  PROVE  \/ \E p \in Program : Subscribe(p) \/ Pays(p)
         \/ \E p \in Program, b \in Program, notify \in BOOLEAN : Lookup(p, b, notify)
         \/ \E n \in notices : TakeNotice(n)
         \/ Fades
<1> USE DEF CallTypes, CallType, CallStep, NoCall, DuesTypes, CountTypes, Pending, Fades, Pays,
    dues, idle
<1>1. ASSUME NEW p \in Program, Start(p)
      PROVE  Fades
  BY <1>1 DEF Start
<1>2. ASSUME NEW p \in Program, ClaimReads(p)
      PROVE  Fades
  BY <1>2 DEF ClaimReads
<1>3. ASSUME NEW p \in Program, ClaimWrites(p)
      PROVE  Fades
  BY <1>3 DEF ClaimWrites, Writes
<1>4. ASSUME NEW p \in Program, ClaimChecks(p)
      PROVE  Fades
  BY <1>4 DEF ClaimChecks, Checks
<1>5. ASSUME NEW p \in Program, RenameWrites(p)
      PROVE  Fades
  BY <1>5 DEF RenameWrites
<1>6. ASSUME NEW p \in Program, Close(p)
      PROVE  Fades
  BY <1>6 DEF Close, Counts
<1>7. ASSUME NEW p \in Program, CloseEnds(p)
      PROVE  Fades
  BY <1>7 DEF CloseEnds, NothingLeft
<1>8. ASSUME NEW p \in Program, Crash(p)
      PROVE  Fades
  BY <1>8 DEF Crash, NothingLeft, Counts
<1>9. ASSUME NEW p \in Program, SendFails(p)
      PROVE  Fades
  BY <1>9 DEF SendFails, Counts
<1>10. ASSUME NEW p \in Program, Accept(p)
      PROVE  Fades
  <2>1. /\ call[p].step = "message" /\ UNCHANGED <<subs, notices, answered>>
        /\ \/ call' = [call EXCEPT ![p] = NoCall] \/ call' = [call EXCEPT ![p].step = "told"]
        /\ count'.ask = count.ask
    BY <1>10 DEF Accept, Counts
  <2>2. call[p] \in CallType
    BY <2>1
  <2> QED BY <2>1, <2>2
<1>11. ASSUME NEW p \in Program, Ask(p)
      PROVE  Fades
  BY <1>11 DEF Ask
<1>12. ASSUME NEW p \in Program, FindEntry(p)
      PROVE  Fades
  <2>1. PICK s \in {"found", "refused"} : call' = [call EXCEPT ![p].step = s]
    BY <1>12 DEF FindEntry
  <2>2. /\ call[p] \in CallType /\ call[p].step = "asking"
        /\ UNCHANGED <<subs, notices, answered, count>>
    BY <1>12 DEF FindEntry
  <2> QED BY <2>1, <2>2
<1>13. ASSUME NEW p \in Program, AskReturns(p)
      PROVE  Fades
  BY <1>13 DEF AskReturns, Counts
<1>14. ASSUME NEW p \in Program, Compact(p)
      PROVE  Fades
  BY <1>14 DEF Compact, Counts
<1>15. ASSUME NEW p \in Program, NEW n \in Name, RenameReads(p, n)
      PROVE  Fades
  BY <1>15 DEF RenameReads, Counts
<1>16. ASSUME NEW p \in Program, NEW t \in Turn, Run(p, t)
      PROVE  Fades
  BY <1>16 DEF Run, Counts
<1>17. ASSUME NEW p \in Program, NEW t \in Turn, Begin(p, t)
      PROVE  Fades
  BY <1>17 DEF Begin, SetBusy
<1>18. ASSUME NEW p \in Program, NEW t \in Turn, Take(p, t)
      PROVE  Fades
  BY <1>18 DEF Take
<1>19. ASSUME NEW p \in Program, NEW t \in Turn, Store(p, t)
      PROVE  Fades
  BY <1>19 DEF Store
<1>20. ASSUME NEW p \in Program, NEW t \in Turn, StoreFails(p, t)
      PROVE  Fades
  BY <1>20 DEF StoreFails, Fails, Counts
<1>21. ASSUME NEW p \in Program, NEW t \in Turn, End(p, t)
      PROVE  Fades
  BY <1>21 DEF End
<1>22. ASSUME NEW p \in Program, NEW t \in Turn, Look(p, t)
      PROVE  Fades
  BY <1>22 DEF Look
<1>23. ASSUME NEW p \in Program, NEW t \in Turn, Show(p, t)
      PROVE  Pays(p) \/ Fades
  BY <1>23 DEF Show, SetBusy
<1>24. ASSUME NEW n \in notices, RefuseNotice(n)
      PROVE  Fades
  BY <1>24 DEF RefuseNotice
<1>25. ASSUME NEW n \in notices, LoseNotice(n)
      PROVE  Fades
  BY <1>25 DEF LoseNotice, Counts
<1>26. CASE UNCHANGED vars
  BY <1>26 DEF vars
<1> HIDE DEF Fades, Pays
<1> QED
  BY <1>1, <1>2, <1>3, <1>4, <1>5, <1>6, <1>7, <1>8, <1>9, <1>10, <1>11, <1>12, <1>13, <1>14,
    <1>15, <1>16, <1>17, <1>18, <1>19, <1>20, <1>21, <1>22, <1>23, <1>24, <1>25, <1>26,
    StepCases

\* Every step keeps OnePlace.
LEMMA OnePlaceStep ==
  ASSUME CallTypes, DuesTypes, CountTypes, OnePlace, [Next]_vars
  PROVE  OnePlace'
<1> USE DEF CallTypes, CallType, CallStep, NoCall, DuesTypes, CountTypes, OnePlace, Pending,
    Unanswered, dues, idle
<1>1. ASSUME NEW p \in Program, Subscribe(p)
      PROVE  OnePlace'
  <2> DEFINE b == call[p].to
             s == [of |-> p, me |-> call[p].me, ask |-> call[p].ask]
             k == call[p].ask
  <2>1. /\ b \in Program /\ call[p] \in CallType /\ call[p].step = "found" /\ k \in 1..MaxAsk
        /\ UNCHANGED <<answered, count>>
    BY <1>1 DEF Subscribe
  <2>2. Pending(p) /\ s.ask = k
    BY <2>1
  <2>3. PICK x \in {"refused", "promised"} : call' = [call EXCEPT ![p].step = x]
    BY <1>1 DEF Subscribe
  <2>4. \A a \in Program : Pending(a)' => a # p /\ Pending(a) /\ call'[a].ask = call[a].ask
    BY <2>1, <2>3
  <2>5. /\ Unanswered(k)
        /\ \A a \in Program : Pending(a)' => call'[a].ask # k
        /\ \A q \in Program : \A r \in subs[q] : r.ask # k
        /\ \A n \in notices : n.ask # k
    BY <2>2, <2>4
  <2>6. CASE UNCHANGED <<subs, notices>>
    BY <2>1, <2>4, <2>6
  <2>7. CASE notices' = notices \union {Notice(b, s)} /\ subs' = subs
    <3>1. Notice(b, s).ask = k
      BY <2>2 DEF Notice
    <3> HIDE DEF b, s, k
    <3> QED BY <2>1, <2>4, <2>5, <2>7, <3>1
  <2>8. CASE /\ subs' = [subs EXCEPT ![b] = {r \in subs[b] : r.of # p \/ r.me # s.me} \union {s}]
             /\ notices' = notices
    <3> HIDE DEF b, s, k
    <3>1. \A q \in Program : \A r \in subs'[q] : r \in subs[q] \/ (q = b /\ r = s)
      BY <2>1, <2>8
    <3> QED BY <2>1, <2>2, <2>4, <2>5, <2>8, <3>1
  <2> QED BY <1>1, <2>6, <2>7, <2>8 DEF Subscribe
<1>2. ASSUME NEW p \in Program, Pays(p)
      PROVE  OnePlace'
  BY <1>2 DEF Pays, Notice
<1>3. ASSUME NEW p \in Program, NEW b \in Program, NEW notify \in BOOLEAN, Lookup(p, b, notify)
      PROVE  OnePlace'
  <2>1. /\ UNCHANGED <<subs, notices, answered>> /\ call[p] = NoCall
        /\ \A a \in Program \ {p} : call'[a] = call[a]
        /\ count'.ask = IF notify THEN count.ask + 1 ELSE count.ask
        /\ call'[p].ask = IF notify THEN count.ask + 1 ELSE 0
    BY <1>3 DEF Lookup
  <2>2. \A a \in Program : Pending(a)' =>
          \/ a # p /\ Pending(a) /\ call'[a].ask = call[a].ask
          \/ a = p /\ notify /\ call'[a].ask = count.ask + 1
    BY <2>1
  <2>3. count.ask \in Nat /\ answered' = answered /\ count'.ask >= count.ask
    BY <2>1, PeersAssumption DEF PeersAssumption
  <2>4. notify => count.ask + 1 \in 1..MaxAsk /\ answered[count.ask + 1] = 0
    <3>1. notify => count.ask < MaxAsk
      BY <1>3 DEF Lookup
    <3>2. notify => count.ask + 1 \in 1..MaxAsk
      BY <2>3, <3>1, PeersAssumption DEF PeersAssumption
    <3> QED BY <2>3, <3>2
  <2>5. \A k \in 1..MaxAsk : Unanswered(k) => Unanswered(k)' /\ k # count.ask + 1
    BY <2>1, <2>3
  <2>6. \A a \in Program : (Pending(a) => Unanswered(call[a].ask))'
    <3> SUFFICES ASSUME NEW a \in Program, Pending(a)'
                 PROVE  Unanswered(call[a].ask)'
      OBVIOUS
    <3>1. CASE a # p
      <4>1. call'[a].ask = call[a].ask /\ Unanswered(call[a].ask) /\ call[a].ask \in 1..MaxAsk
        BY <2>2, <3>1
      <4> QED BY <2>5, <4>1
    <3>2. CASE a = p
      BY <2>1, <2>2, <2>3, <2>4, <3>2
    <3> QED BY <3>1, <3>2
  <2>7. \A a, b2 \in Program :
          Pending(a)' /\ Pending(b2)' /\ call'[a].ask = call'[b2].ask => a = b2
    BY <2>2, <2>5
  <2>8. \A q \in Program : \A s \in subs[q] :
          Unanswered(s.ask)' /\ \A a \in Program : Pending(a)' => call'[a].ask # s.ask
    BY <2>2, <2>5
  <2>9. \A n \in notices :
          Unanswered(n.ask)' /\ \A a \in Program : Pending(a)' => call'[a].ask # n.ask
    BY <2>2, <2>5
  <2>10. \A k \in 1..MaxAsk : answered[k] <= 1 /\ (answered[k] # 0 => k <= count'.ask)
    BY <2>1, <2>3
  <2> QED BY <2>1, <2>6, <2>7, <2>8, <2>9, <2>10
<1>4. ASSUME NEW n \in notices, TakeNotice(n)
      PROVE  OnePlace'
  BY <1>4 DEF TakeNotice
<1>5. CASE Fades
  BY <1>5 DEF Fades
<1> HIDE DEF OnePlace
<1> QED
  BY <1>1, <1>2, <1>3, <1>4, <1>5, NoticeCases

-----------------------------------------------------------------------------
(* Notices: who awaits one asked a program by the name it goes by, and is owed one. *)

\* A program asks only when it is up.  The other side goes by the name it was asked under,
\* or the change is known.
Named(a, b, n) ==
  /\ stage[b] # "off"
  /\ Present(b) /\ <<b, a>> \notin mislaid => name[b] = n
NameKept ==
  \A a \in Program :
    /\ stage[a] \in {"off", "claiming"} => awaiting[a] = {} /\ call[a] = NoCall
    /\ call[a] # NoCall => Named(a, call[a].to, call[a].as)
    /\ \A k \in awaiting[a] : Named(a, k.of, k.as)

\* The three places where an answer still to come can be.
Held(a, k) == call[a].step \in {"asking", "found", "refused"} /\ Key(a) = k
Owing(a, k) == \E s \in subs[k.of] : s.of = a
Sent(a, k) == \E n \in notices : n.from = k.of /\ n.to = a /\ n.name = k.as
Owed(a, k) == Held(a, k) \/ Owing(a, k) \/ Sent(a, k)
Underway ==
  \A a \in Program : \A k \in awaiting[a] :
    stage[a] = "up" /\ Present(k.of) /\ <<k.of, a>> \notin mislaid => Owed(a, k)

\* A step that leaves what is asked and owed alone.
DuesRest == UNCHANGED <<stage, name, awaiting, call, subs, notices, mislaid>>

\* The steps that change what is asked and owed.
LEMMA DuesCases ==
  ASSUME [Next]_vars
  PROVE  \/ \E p \in Program :
              \/ Start(p) \/ ClaimWrites(p) \/ ClaimChecks(p) \/ RenameWrites(p)
              \/ Close(p) \/ CloseEnds(p) \/ Crash(p)
              \/ SendFails(p) \/ Accept(p) \/ Ask(p) \/ FindEntry(p) \/ Subscribe(p)
              \/ AskReturns(p) \/ \E b \in Program, notify \in BOOLEAN : Lookup(p, b, notify)
              \/ Pays(p) /\ UNCHANGED <<stage, name, awaiting, mislaid>>
         \/ \E n \in notices : TakeNotice(n) \/ RefuseNotice(n) \/ LoseNotice(n)
         \/ DuesRest
<1> USE DEF DuesRest, Pays, reg, dues, idle
<1>1. ASSUME NEW p \in Program, ClaimReads(p)
      PROVE  DuesRest
  BY <1>1 DEF ClaimReads
<1>2. ASSUME NEW p \in Program, NEW n \in Name, RenameReads(p, n)
      PROVE  DuesRest
  BY <1>2 DEF RenameReads
<1>3. ASSUME NEW p \in Program, Compact(p)
      PROVE  DuesRest
  BY <1>3 DEF Compact
<1>4. ASSUME NEW p \in Program, NEW t \in Turn, Run(p, t)
      PROVE  DuesRest
  BY <1>4 DEF Run
<1>5. ASSUME NEW p \in Program, NEW t \in Turn, Begin(p, t)
      PROVE  DuesRest
  BY <1>5 DEF Begin, SetBusy
<1>6. ASSUME NEW p \in Program, NEW t \in Turn, Take(p, t)
      PROVE  DuesRest
  BY <1>6 DEF Take
<1>7. ASSUME NEW p \in Program, NEW t \in Turn, Store(p, t)
      PROVE  DuesRest
  BY <1>7 DEF Store
<1>8. ASSUME NEW p \in Program, NEW t \in Turn, StoreFails(p, t)
      PROVE  DuesRest
  BY <1>8 DEF StoreFails, Fails
<1>9. ASSUME NEW p \in Program, NEW t \in Turn, End(p, t)
      PROVE  DuesRest
  BY <1>9 DEF End
<1>10. ASSUME NEW p \in Program, NEW t \in Turn, Look(p, t)
      PROVE  DuesRest
  BY <1>10 DEF Look
<1>11. ASSUME NEW p \in Program, NEW t \in Turn, Show(p, t)
      PROVE  \/ DuesRest
             \/ Pays(p) /\ UNCHANGED <<stage, name, awaiting, mislaid>>
  BY <1>11 DEF Show, SetBusy
<1>12. CASE UNCHANGED vars
  BY <1>12 DEF vars
<1> HIDE DEF DuesRest, Pays
<1> QED
  BY <1>1, <1>2, <1>3, <1>4, <1>5, <1>6, <1>7, <1>8, <1>9, <1>10, <1>11, <1>12, StepCases

\* A step that opens no call, awaits only what it asks, and tells of every name taken.
KeepsNames ==
  /\ \A q \in Program : /\ stage[q] # "off" => stage'[q] # "off"
                        /\ Present(q)' => Present(q) \/ stage[q] = "off"
  /\ \A a \in Program :
       /\ stage'[a] \in {"off", "claiming"} =>
            stage[a] \in {"off", "claiming"} /\ awaiting'[a] = awaiting[a] /\ call'[a] = call[a]
       /\ call'[a] # NoCall => /\ call[a] # NoCall
                               /\ call'[a].to = call[a].to /\ call'[a].as = call[a].as
       /\ \A k \in awaiting'[a] : k \in awaiting[a] \/ (call[a] # NoCall /\ k = Key(a))
       /\ \A q \in Program :
            /\ <<q, a>> \in mislaid => <<q, a>> \in mislaid'
            /\ \/ name'[q] = name[q]
               \/ <<q, a>> \in mislaid'
               \/ (call[a] = NoCall \/ call[a].to # q) /\ \A k \in awaiting[a] : k.of # q

\* Such a step keeps NameKept.
LEMMA NamesKept ==
  ASSUME CallTypes, DuesTypes, NameKept, KeepsNames
  PROVE  NameKept'
<1> DEFINE Still(a, q, n) == /\ stage'[q] # "off"
                             /\ stage'[q] \in {"claiming", "up"} /\ <<q, a>> \notin mislaid'
                                => name'[q] = n
<1>1. ASSUME NEW a \in Program, NEW q \in Program, NEW n, Named(a, q, n),
             \/ call[a] # NoCall /\ call[a].to = q
             \/ \E k \in awaiting[a] : k.of = q
      PROVE  Still(a, q, n)
  BY <1>1 DEF KeepsNames, Named, Present
<1>2. ASSUME NEW a \in Program, call[a] # NoCall
      PROVE  call[a].to \in Program /\ Still(a, call[a].to, call[a].as)
  <2>1. call[a].to \in Program /\ Named(a, call[a].to, call[a].as)
    BY <1>2 DEF CallTypes, CallType, NameKept
  <2> QED BY <1>1, <1>2, <2>1
<1>3. ASSUME NEW a \in Program, NEW k \in awaiting[a]
      PROVE  Still(a, k.of, k.as)
  <2>1. k.of \in Program /\ Named(a, k.of, k.as)
    BY DEF DuesTypes, NameKept
  <2> QED BY <1>1, <2>1
<1>4. ASSUME NEW a \in Program, NEW k \in awaiting'[a]
      PROVE  Still(a, k.of, k.as)
  <2>1. CASE k \in awaiting[a]
    BY <1>3, <2>1
  <2>2. CASE call[a] # NoCall /\ k.of = call[a].to /\ k.as = call[a].as
    BY <1>2, <2>2
  <2> QED BY <2>1, <2>2 DEF KeepsNames, Key
<1>5. ASSUME NEW a \in Program, call'[a] # NoCall
      PROVE  Still(a, call'[a].to, call'[a].as)
  <2>1. /\ call[a] # NoCall
        /\ call'[a].to = call[a].to /\ call'[a].as = call[a].as
    BY <1>5 DEF KeepsNames
  <2> QED BY <1>2, <2>1
<1>6. \A a \in Program :
        stage'[a] \in {"off", "claiming"} => awaiting'[a] = {} /\ call'[a] = NoCall
  BY DEF KeepsNames, NameKept
<1> QED
  BY <1>4, <1>5, <1>6 DEF NameKept, Named, Present

\* A call that goes a step on keeps everything else.
LEMMA StepOn ==
  ASSUME CallTypes, NEW p \in Program, call[p] \in CallType, NEW x \in CallStep,
         call' = [call EXCEPT ![p].step = x]
  PROVE  /\ call'[p].step = x /\ call'[p].to = call[p].to /\ call'[p].as = call[p].as
         /\ Key(p)' = Key(p)
         /\ \A q \in Program \ {p} : call'[q] = call[q]
BY DEF CallTypes, CallType, Key

\* Every step keeps NameKept.
LEMMA NameKeptStep ==
  ASSUME RegTypes, CallTypes, DuesTypes, Chosen, NameKept, [Next]_vars
  PROVE  NameKept'
<1> USE DEF RegTypes, CallTypes, CallType, CallStep, NoCall, DuesTypes, KeepsNames, Present, Key,
            reg, dues, idle
<1>1. ASSUME NEW p \in Program, ClaimWrites(p)
      PROVE  KeepsNames
  BY <1>1 DEF ClaimWrites, Writes
<1>2. ASSUME NEW p \in Program, RenameWrites(p)
      PROVE  KeepsNames
  BY <1>2 DEF RenameWrites, Writes
<1>3. ASSUME NEW p \in Program, Close(p)
      PROVE  KeepsNames
  BY <1>3 DEF Close
<1>4. ASSUME NEW p \in Program, CloseEnds(p)
      PROVE  KeepsNames
  BY <1>4 DEF CloseEnds, NothingLeft
<1>5. ASSUME NEW p \in Program, Crash(p)
      PROVE  KeepsNames
  BY <1>5 DEF Crash, NothingLeft, Alive
<1>6. ASSUME NEW p \in Program, SendFails(p)
      PROVE  KeepsNames
  BY <1>6 DEF SendFails, NameKept
<1>7. ASSUME NEW p \in Program, Accept(p)
      PROVE  KeepsNames
  <2>1. \/ call' = [call EXCEPT ![p] = NoCall]
        \/ \E x \in CallStep : call' = [call EXCEPT ![p].step = x]
    BY <1>7 DEF Accept
  <2>2. /\ UNCHANGED <<stage, name, awaiting, mislaid>>
        /\ call[p] \in CallType
    BY <1>7 DEF Accept
  <2>3. \A a \in Program : call'[a] # NoCall =>
          call[a] # NoCall /\ call'[a].to = call[a].to /\ call'[a].as = call[a].as
    <3>1. CASE call' = [call EXCEPT ![p] = NoCall]
      BY <3>1
    <3>2. ASSUME NEW x \in CallStep, call' = [call EXCEPT ![p].step = x]
          PROVE  /\ call'[p].to = call[p].to /\ call'[p].as = call[p].as
                 /\ \A q \in Program \ {p} : call'[q] = call[q]
      BY <2>2, <3>2, StepOn
    <3>3. call[p] # NoCall
      BY <2>2
    <3> HIDE DEF NoCall
    <3> QED BY <2>1, <3>1, <3>2, <3>3
  <2>4. call[p] # NoCall /\ stage[p] \notin {"off", "claiming"}
    BY <2>2 DEF NameKept
  <2>5. \A a \in Program \ {p} : call'[a] = call[a]
    BY <2>1
  <2> QED BY <2>2, <2>3, <2>4, <2>5
<1>8. ASSUME NEW p \in Program, Ask(p)
      PROVE  KeepsNames
  <2>1. \/ call' = [call EXCEPT ![p] = NoCall]
        \/ \E x \in CallStep : call' = [call EXCEPT ![p].step = x]
    BY <1>8 DEF Ask
  <2>2. /\ awaiting' = [awaiting EXCEPT ![p] = awaiting[p] \union {Key(p)}]
        /\ UNCHANGED <<stage, name, mislaid>>
        /\ call[p] \in CallType
    BY <1>8 DEF Ask
  <2>3. \A a \in Program : call'[a] # NoCall =>
          call[a] # NoCall /\ call'[a].to = call[a].to /\ call'[a].as = call[a].as
    <3>1. CASE call' = [call EXCEPT ![p] = NoCall]
      BY <3>1
    <3>2. ASSUME NEW x \in CallStep, call' = [call EXCEPT ![p].step = x]
          PROVE  /\ call'[p].to = call[p].to /\ call'[p].as = call[p].as
                 /\ \A q \in Program \ {p} : call'[q] = call[q]
      BY <2>2, <3>2, StepOn
    <3>3. call[p] # NoCall
      BY <2>2
    <3> HIDE DEF NoCall
    <3> QED BY <2>1, <3>1, <3>2, <3>3
  <2>4. call[p] # NoCall /\ stage[p] \notin {"off", "claiming"}
    BY <2>2 DEF NameKept
  <2>5. \A a \in Program \ {p} : call'[a] = call[a]
    BY <2>1
  <2> QED BY <2>2, <2>3, <2>4, <2>5
<1>9. ASSUME NEW p \in Program, FindEntry(p)
      PROVE  KeepsNames
  <2>1. \/ call' = [call EXCEPT ![p] = NoCall]
        \/ \E x \in CallStep : call' = [call EXCEPT ![p].step = x]
    BY <1>9 DEF FindEntry
  <2>2. /\ UNCHANGED <<stage, name, awaiting, mislaid>>
        /\ call[p] \in CallType
    BY <1>9 DEF FindEntry
  <2>3. \A a \in Program : call'[a] # NoCall =>
          call[a] # NoCall /\ call'[a].to = call[a].to /\ call'[a].as = call[a].as
    <3>1. CASE call' = [call EXCEPT ![p] = NoCall]
      BY <3>1
    <3>2. ASSUME NEW x \in CallStep, call' = [call EXCEPT ![p].step = x]
          PROVE  /\ call'[p].to = call[p].to /\ call'[p].as = call[p].as
                 /\ \A q \in Program \ {p} : call'[q] = call[q]
      BY <2>2, <3>2, StepOn
    <3>3. call[p] # NoCall
      BY <2>2
    <3> HIDE DEF NoCall
    <3> QED BY <2>1, <3>1, <3>2, <3>3
  <2>4. call[p] # NoCall /\ stage[p] \notin {"off", "claiming"}
    BY <2>2 DEF NameKept
  <2>5. \A a \in Program \ {p} : call'[a] = call[a]
    BY <2>1
  <2> QED BY <2>2, <2>3, <2>4, <2>5
<1>10. ASSUME NEW p \in Program, Subscribe(p)
      PROVE  KeepsNames
  <2>1. \/ call' = [call EXCEPT ![p] = NoCall]
        \/ \E x \in CallStep : call' = [call EXCEPT ![p].step = x]
    BY <1>10 DEF Subscribe
  <2>2. /\ UNCHANGED <<stage, name, awaiting, mislaid>>
        /\ call[p] \in CallType
    BY <1>10 DEF Subscribe
  <2>3. \A a \in Program : call'[a] # NoCall =>
          call[a] # NoCall /\ call'[a].to = call[a].to /\ call'[a].as = call[a].as
    <3>1. CASE call' = [call EXCEPT ![p] = NoCall]
      BY <3>1
    <3>2. ASSUME NEW x \in CallStep, call' = [call EXCEPT ![p].step = x]
          PROVE  /\ call'[p].to = call[p].to /\ call'[p].as = call[p].as
                 /\ \A q \in Program \ {p} : call'[q] = call[q]
      BY <2>2, <3>2, StepOn
    <3>3. call[p] # NoCall
      BY <2>2
    <3> HIDE DEF NoCall
    <3> QED BY <2>1, <3>1, <3>2, <3>3
  <2>4. call[p] # NoCall /\ stage[p] \notin {"off", "claiming"}
    BY <2>2 DEF NameKept
  <2>5. \A a \in Program \ {p} : call'[a] = call[a]
    BY <2>1
  <2> QED BY <2>2, <2>3, <2>4, <2>5
<1>11. ASSUME NEW p \in Program, AskReturns(p)
      PROVE  KeepsNames
  BY <1>11 DEF AskReturns, NameKept
<1>12. ASSUME NEW p \in Program, Start(p)
      PROVE  KeepsNames
  BY <1>12 DEF Start
<1>13. ASSUME NEW p \in Program, ClaimChecks(p)
      PROVE  KeepsNames
  BY <1>13 DEF ClaimChecks, Checks, Chosen
<1>14. ASSUME NEW p \in Program, Pays(p), UNCHANGED <<stage, name, awaiting, mislaid>>
      PROVE  KeepsNames
  BY <1>14 DEF Pays
<1>15. ASSUME NEW n \in notices, TakeNotice(n)
      PROVE  KeepsNames
  BY <1>15 DEF TakeNotice, Expected, Serving, NameKept
<1>16. ASSUME NEW n \in notices, RefuseNotice(n)
      PROVE  KeepsNames
  BY <1>16 DEF RefuseNotice
<1>17. ASSUME NEW n \in notices, LoseNotice(n)
      PROVE  KeepsNames
  BY <1>17 DEF LoseNotice
<1>18. CASE DuesRest
  BY <1>18 DEF DuesRest, NameKept, Named
<1>19. ASSUME NEW p \in Program, NEW b \in Program, NEW notify \in BOOLEAN,
             Lookup(p, b, notify)
      PROVE  NameKept'
  <2>1. /\ stage[p] = "up" /\ Listed[b] # 0 /\ stage[b] # "off"
        /\ UNCHANGED <<stage, name, awaiting>>
        /\ \A a \in Program \ {p} : call'[a] = call[a]
        /\ call'[p] # NoCall /\ call'[p].to = b /\ call'[p].as = entry[b]
    BY <1>19 DEF Lookup, Others, Listed, Chosen
  <2>2. \A a \in Program : \A k \in awaiting[a] :
          <<k.of, a>> \notin mislaid' => <<k.of, a>> \notin mislaid
    BY <1>19 DEF Lookup
  <2>3. \A q, a \in Program : a # p /\ <<q, a>> \notin mislaid' => <<q, a>> \notin mislaid
    BY <1>19 DEF Lookup
  <2>4. Present(b) => entry[b] = name[b]
    BY <2>1 DEF Chosen, Listed
  <2>5. ASSUME NEW a \in Program, call'[a] # NoCall
        PROVE  Named(a, call[a].to, call[a].as)'
    <3>1. CASE a = p
      BY <2>1, <2>4, <3>1 DEF Named
    <3>2. CASE a # p
      <4>1. call[a] # NoCall /\ call'[a] = call[a]
        BY <2>1, <2>5, <3>2
      <4>2. call[a].to \in Program /\ Named(a, call[a].to, call[a].as)
        BY <4>1 DEF NameKept
      <4> QED BY <2>1, <2>3, <3>2, <4>1, <4>2 DEF Named
    <3> QED BY <3>1, <3>2
  <2>6. \A a \in Program : \A k \in awaiting'[a] : Named(a, k.of, k.as)'
    BY <2>1, <2>2 DEF NameKept, Named
  <2>7. \A a \in Program :
          stage'[a] \in {"off", "claiming"} => awaiting'[a] = {} /\ call'[a] = NoCall
    BY <2>1 DEF NameKept
  <2> QED BY <2>5, <2>6, <2>7 DEF NameKept
<1> HIDE DEF KeepsNames, RegTypes, CallTypes, CallType, CallStep, NoCall, DuesTypes, Present, Key
<1> QED
  BY <1>1, <1>2, <1>3, <1>4, <1>5, <1>6, <1>7, <1>8, <1>9, <1>10, <1>11, <1>12, <1>13, <1>14,
    <1>15, <1>16, <1>17, <1>18, <1>19, NamesKept, DuesCases

\* Every step keeps Underway.
LEMMA UnderwayStep ==
  ASSUME RegTypes, CallTypes, DuesTypes, Chosen, NameKept, Underway, [Next]_vars
  PROVE  Underway'
<1> SUFFICES ASSUME NEW a \in Program, NEW k \in awaiting'[a], stage'[a] = "up",
                    stage'[k.of] \in {"claiming", "up"}, <<k.of, a>> \notin mislaid'
             PROVE  Owed(a, k)'
  BY DEF Underway, Present
<1> DEFINE Was == /\ k \in awaiting[a] /\ stage[a] = "up" /\ Present(k.of)
                  /\ <<k.of, a>> \notin mislaid
<1>a. Was => Owed(a, k) /\ k.of \in Program /\ name[k.of] = k.as
  <2>1. Was => Owed(a, k)
    BY DEF Underway
  <2>2. k \in awaiting[a] => k.of \in Program /\ Named(a, k.of, k.as)
    BY DEF NameKept, DuesTypes
  <2> QED BY <2>1, <2>2 DEF Named
<1> USE DEF Present, reg, dues, idle
<1>1. ASSUME NEW p \in Program, Start(p)
      PROVE  Owed(a, k)'
  <2>1. a # p /\ k \in awaiting[a] /\ UNCHANGED <<awaiting, mislaid, call, subs, notices>>
    BY <1>1 DEF Start, RegTypes
  <2>2. k.of # p /\ k.of \in Program
    <3>1. k.of \in Program /\ Named(a, k.of, k.as)
      BY <2>1 DEF DuesTypes, NameKept
    <3> QED BY <1>1, <3>1 DEF Start, Named
  <2>3. Was
    BY <1>1, <2>1, <2>2 DEF Start, RegTypes
  <2> QED BY <2>1, <2>3, <1>a DEF Owed, Held, Owing, Sent, Key
<1>2. ASSUME NEW p \in Program, ClaimWrites(p)
      PROVE  Owed(a, k)'
  <2>1. Was /\ UNCHANGED <<call, subs, notices>>
    BY <1>2 DEF ClaimWrites, Writes
  <2> QED BY <2>1, <1>a DEF Owed, Held, Owing, Sent, Key
<1>3. ASSUME NEW p \in Program, RenameWrites(p)
      PROVE  Owed(a, k)'
  <2>1. Was /\ UNCHANGED <<call, subs, notices>>
    BY <1>3 DEF RenameWrites, Writes
  <2> QED BY <2>1, <1>a DEF Owed, Held, Owing, Sent, Key
<1>4. ASSUME NEW p \in Program, ClaimChecks(p)
      PROVE  Owed(a, k)'
  <2>1. UNCHANGED <<awaiting, mislaid, call, subs, notices>>
    BY <1>4 DEF ClaimChecks, Checks
  <2>2. stage[p] = "claiming" /\ \A q \in Program \ {p} : stage'[q] = stage[q]
    BY <1>4 DEF ClaimChecks, Checks, Chosen, RegTypes
  <2>3. a # p /\ k.of \in Program
    BY <2>1, <2>2 DEF NameKept, DuesTypes
  <2>4. Was
    BY <2>1, <2>2, <2>3
  <2> QED BY <2>1, <2>4, <1>a DEF Owed, Held, Owing, Sent, Key
<1>5. ASSUME NEW p \in Program, Close(p)
      PROVE  Owed(a, k)'
  <2>1. Was /\ UNCHANGED <<call, subs, notices>>
    BY <1>5 DEF Close, RegTypes, DuesTypes
  <2> QED BY <2>1, <1>a DEF Owed, Held, Owing, Sent, Key
<1>6. ASSUME NEW p \in Program, CloseEnds(p)
      PROVE  Owed(a, k)'
  <2>1. a # p /\ k.of \in Program /\ k.of # p
    BY <1>6 DEF CloseEnds, NothingLeft, RegTypes, DuesTypes
  <2>2. /\ Was /\ call'[a] = call[a] /\ subs'[k.of] = subs[k.of]
        /\ \A n \in notices : n.from # p => n \in notices'
    BY <1>6, <2>1 DEF CloseEnds, NothingLeft
  <2> QED BY <2>1, <2>2, <1>a DEF Owed, Held, Owing, Sent, Key
<1>7. ASSUME NEW p \in Program, Crash(p)
      PROVE  Owed(a, k)'
  <2>1. a # p /\ k.of \in Program /\ k.of # p
    BY <1>7 DEF Crash, NothingLeft, RegTypes, DuesTypes
  <2>2. /\ Was /\ call'[a] = call[a] /\ subs'[k.of] = subs[k.of]
        /\ \A n \in notices : n.from # p => n \in notices'
    BY <1>7, <2>1 DEF Crash, NothingLeft
  <2> QED BY <2>1, <2>2, <1>a DEF Owed, Held, Owing, Sent, Key
<1>8. ASSUME NEW p \in Program, SendFails(p)
      PROVE  Owed(a, k)'
  <2>1. Was /\ UNCHANGED <<subs, notices>>
    BY <1>8 DEF SendFails
  <2>2. call[p].step = "message" /\ \A q \in Program \ {p} : call'[q] = call[q]
    BY <1>8 DEF SendFails
  <2>3. Held(a, k) => Held(a, k)'
    BY <2>2 DEF Held, Key
  <2> QED BY <2>1, <2>3, <1>a DEF Owed, Owing, Sent
<1>9. ASSUME NEW p \in Program, Accept(p)
      PROVE  Owed(a, k)'
  <2>1. Was /\ UNCHANGED <<subs, notices>>
    BY <1>9 DEF Accept
  <2>2. call[p].step = "message" /\ \A q \in Program \ {p} : call'[q] = call[q]
    BY <1>9 DEF Accept, CallTypes
  <2>3. Held(a, k) => Held(a, k)'
    BY <2>2 DEF Held, Key
  <2> QED BY <2>1, <2>3, <1>a DEF Owed, Owing, Sent
<1>10. ASSUME NEW p \in Program, Ask(p)
      PROVE  Owed(a, k)'
  <2>1. /\ awaiting' = [awaiting EXCEPT ![p] = awaiting[p] \union {Key(p)}]
        /\ call[p] \in CallType /\ call' = [call EXCEPT ![p].step = "asking"]
        /\ UNCHANGED <<stage, mislaid, subs, notices>>
    BY <1>10 DEF Ask, CallTypes, NoCall
  <2>2. /\ call'[p].step = "asking" /\ Key(p)' = Key(p)
        /\ \A q \in Program \ {p} : call'[q] = call[q]
    BY <2>1 DEF CallTypes, CallType, Key
  <2>3. CASE a = p /\ k = Key(p)
    BY <2>2, <2>3 DEF Owed, Held
  <2>4. CASE a # p \/ k # Key(p)
    <3>1. k \in awaiting[a]
      BY <2>1, <2>4 DEF DuesTypes
    <3>2. Held(a, k) => Held(a, k)'
      BY <2>2, <2>4 DEF Held, Key
    <3> QED BY <2>1, <3>1, <3>2, <1>a DEF Owed, Owing, Sent
  <2> QED BY <2>3, <2>4
<1>11. ASSUME NEW p \in Program, FindEntry(p)
      PROVE  Owed(a, k)'
  <2>1. Was /\ UNCHANGED <<subs, notices>>
    BY <1>11 DEF FindEntry
  <2>2. PICK x \in {"found", "refused"} : call' = [call EXCEPT ![p].step = x]
    BY <1>11 DEF FindEntry
  <2>3. call[p] \in CallType
    BY <1>11 DEF FindEntry, CallTypes, NoCall
  <2>4. call'[p].step = x /\ Key(p)' = Key(p) /\ \A q \in Program \ {p} : call'[q] = call[q]
    BY <2>2, <2>3 DEF CallTypes, CallType, Key
  <2>5. Held(a, k) => Held(a, k)'
    BY <2>4 DEF Held, Key
  <2> QED BY <2>1, <2>5, <1>a DEF Owed, Owing, Sent
<1>12. ASSUME NEW p \in Program, Subscribe(p)
      PROVE  Owed(a, k)'
  <2> DEFINE b == call[p].to
             s == [of |-> p, me |-> call[p].me, ask |-> call[p].ask]
  <2>1. Was /\ b \in Program /\ call[p] \in CallType /\ call[p].step = "found"
    BY <1>12 DEF Subscribe, CallTypes, CallType, NoCall
  <2>2. PICK x \in {"refused", "promised"} :
          /\ call' = [call EXCEPT ![p].step = x]
          /\ \/ x = "refused" /\ UNCHANGED <<subs, notices>>
             \/ notices' = notices \union {Notice(b, s)} /\ UNCHANGED subs
             \/ /\ subs' = [subs EXCEPT ![b] = {r \in subs[b] : r.of # p \/ r.me # s.me}
                                               \union {s}]
                /\ UNCHANGED notices
    BY <1>12 DEF Subscribe
  <2>3. call'[p].step = x /\ Key(p)' = Key(p) /\ \A q \in Program \ {p} : call'[q] = call[q]
    BY <2>1, <2>2 DEF CallTypes, CallType, Key
  <2>4. CASE x = "refused" /\ UNCHANGED <<subs, notices>>
    <3>1. Held(a, k) => Held(a, k)'
      BY <2>3, <2>4 DEF Held, Key
    <3> QED BY <2>1, <2>4, <3>1, <1>a DEF Owed, Owing, Sent
  <2>5. CASE notices' = notices \union {Notice(b, s)} /\ UNCHANGED subs
    <3>1. a # p /\ Held(a, k) => Held(a, k)'
      BY <2>3 DEF Held, Key
    <3>2. a = p /\ Held(a, k) => Sent(a, k)'
      <4>1. a = p /\ Held(a, k) => k.of = b
        BY DEF Held, Key
      <4>2. Notice(b, s).from = b /\ Notice(b, s).to = p /\ Notice(b, s).name = name[b]
        BY DEF Notice
      <4> QED BY <2>1, <2>5, <4>1, <4>2, <1>a DEF Sent
    <3> QED BY <2>1, <2>5, <3>1, <3>2, <1>a DEF Owed, Owing, Sent
  <2>6. CASE /\ subs' = [subs EXCEPT ![b] = {r \in subs[b] : r.of # p \/ r.me # s.me}
                                            \union {s}]
             /\ UNCHANGED notices
    <3> DEFINE kept == {r \in subs[b] : r.of # p \/ r.me # s.me}
    <3>a. /\ s.of = p /\ \A r \in subs[b] : r.of # p => r \in kept
          /\ subs'[b] = kept \union {s} /\ \A q \in Program \ {b} : subs'[q] = subs[q]
      BY <2>1, <2>6 DEF DuesTypes
    <3> HIDE DEF b, s, kept
    <3>1. a # p /\ Held(a, k) => Held(a, k)'
      BY <2>3 DEF Held, Key
    <3>2. a = p /\ Held(a, k) => Owing(a, k)'
      <4>1. a = p /\ Held(a, k) => k.of = b
        BY DEF Held, Key, b
      <4> QED BY <3>a, <4>1 DEF Owing
    <3>3. Owing(a, k) => Owing(a, k)'
      BY <2>1, <3>a, <1>a DEF Owing
    <3> QED BY <2>1, <2>6, <3>1, <3>2, <3>3, <1>a DEF Owed, Sent
  <2> QED BY <2>2, <2>4, <2>5, <2>6
<1>13. ASSUME NEW p \in Program, AskReturns(p)
      PROVE  Owed(a, k)'
  <2>1. /\ Was /\ UNCHANGED <<subs, notices>>
        /\ \A q \in Program \ {p} : call'[q] = call[q]
    <3>1. awaiting'[a] \subseteq awaiting[a] /\ UNCHANGED <<stage, mislaid, subs, notices>>
      BY <1>13 DEF AskReturns, DuesTypes
    <3>2. \A q \in Program \ {p} : call'[q] = call[q]
      BY <1>13 DEF AskReturns, CallTypes
    <3> QED BY <3>1, <3>2
  <2>2. call[p].step = "promised" \/ k # Key(p) \/ a # p
    BY <1>13 DEF AskReturns, DuesTypes
  <2>3. Held(a, k) => Held(a, k)'
    BY <2>1, <2>2, <1>13 DEF Held, Key, AskReturns
  <2> QED BY <2>1, <2>3, <1>a DEF Owed, Owing, Sent
<1>14. ASSUME NEW p \in Program, NEW b \in Program, NEW notify \in BOOLEAN, Lookup(p, b, notify)
      PROVE  Owed(a, k)'
  <2>1. Was /\ UNCHANGED <<subs, notices>>
    BY <1>14 DEF Lookup
  <2>2. call[p].step = "none" /\ \A q \in Program \ {p} : call'[q] = call[q]
    BY <1>14 DEF Lookup, NoCall
  <2>3. Held(a, k) => Held(a, k)'
    BY <2>2 DEF Held, Key
  <2> QED BY <2>1, <2>3, <1>a DEF Owed, Owing, Sent
<1>15. ASSUME NEW p \in Program, Pays(p), UNCHANGED <<stage, name, awaiting, mislaid>>
      PROVE  Owed(a, k)'
  <2>1. Was /\ call' = call /\ notices \subseteq notices'
    BY <1>15 DEF Pays
  <2>2. Owing(a, k) => Owing(a, k)' \/ Sent(a, k)'
    <3>1. CASE k.of # p
      BY <1>15, <3>1 DEF Pays, Owing
    <3>2. ASSUME k.of = p, NEW s \in subs[p], s.of = a
          PROVE  Sent(a, k)'
      <4>1. Notice(p, s) \in notices'
        BY <1>15 DEF Pays
      <4>2. Notice(p, s).from = p /\ Notice(p, s).to = a /\ Notice(p, s).name = name[p]
        BY <3>2 DEF Notice
      <4> QED BY <2>1, <3>2, <4>1, <4>2, <1>a DEF Sent
    <3> QED BY <3>1, <3>2 DEF Owing
  <2> QED BY <2>1, <2>2, <1>a DEF Owed, Held, Key, Sent
<1>16. ASSUME NEW n \in notices, TakeNotice(n)
      PROVE  Owed(a, k)'
  <2>1. /\ Was /\ UNCHANGED <<subs, call>> /\ notices' = notices \ {n}
        /\ a = n.to => k # [of |-> n.from, as |-> n.name]
    BY <1>16 DEF TakeNotice, DuesTypes
  <2>2. Sent(a, k) => Sent(a, k)'
    <3>1. k \in [of : Program, as : Nat]
      BY <2>1 DEF DuesTypes
    <3>2. a = n.to => ~(k.of = n.from /\ k.as = n.name)
      BY <2>1, <3>1
    <3> QED BY <2>1, <3>2 DEF Sent
  <2> QED BY <2>1, <2>2, <1>a DEF Owed, Held, Key, Owing
<1>17. ASSUME NEW n \in notices, RefuseNotice(n)
      PROVE  Owed(a, k)'
  <2>1. Was /\ UNCHANGED <<subs, call>> /\ notices' = notices \ {n} /\ ~Expected(n)
    BY <1>17 DEF RefuseNotice
  <2>2. Sent(a, k) => Sent(a, k)'
    <3>1. k \in [of : Program, as : Nat]
      BY <2>1 DEF DuesTypes
    <3>2. a = n.to => ~(k.of = n.from /\ k.as = n.name)
      BY <2>1, <3>1 DEF Expected, Serving
    <3> QED BY <2>1, <3>2 DEF Sent
  <2> QED BY <2>1, <2>2, <1>a DEF Owed, Held, Key, Owing
<1>18. ASSUME NEW n \in notices, LoseNotice(n)
      PROVE  Owed(a, k)'
  <2>1. /\ Was /\ UNCHANGED <<subs, call>> /\ notices' = notices \ {n}
        /\ <<k.of, a>> # <<n.from, n.to>>
    BY <1>18 DEF LoseNotice
  <2>2. Sent(a, k) => Sent(a, k)'
    BY <2>1 DEF Sent
  <2> QED BY <2>1, <2>2, <1>a DEF Owed, Held, Key, Owing
<1>19. CASE DuesRest
  BY <1>19, <1>a DEF DuesRest, Owed, Held, Owing, Sent, Key
<1> QED
  BY <1>1, <1>2, <1>3, <1>4, <1>5, <1>6, <1>7, <1>8, <1>9, <1>10, <1>11, <1>12, <1>13, <1>14,
    <1>15, <1>16, <1>17, <1>18, <1>19, DuesCases

-----------------------------------------------------------------------------
(* Messages: what was accepted is in one place, and in order.  Of one program, s is the  *)
(* inbox, h what each turn took, g what is gone, n how many came.                         *)

Distinct(s) == \A i, j \in DOMAIN s : s[i] = s[j] => i = j

\* Each message is in one place, once.
Kept(s, h, g, n) ==
  /\ 1..n = g \union Seen(s) \union UNION {Seen(h[t]) : t \in Turn}
  /\ g \intersect Seen(s) = {}
  /\ \A t \in Turn : g \intersect Seen(h[t]) = {} /\ Seen(s) \intersect Seen(h[t]) = {}
  /\ \A t, u \in Turn : t # u => Seen(h[t]) \intersect Seen(h[u]) = {}
  /\ Distinct(s) /\ \A t \in Turn : Distinct(h[t])

\* The one turn that holds messages took them before those in the inbox came.
Ordered(s, h) ==
  /\ Rising(s)
  /\ \A t \in Turn : /\ Rising(h[t])
                     /\ \A x \in Seen(h[t]), y \in Seen(s) : x < y
  /\ \A t, u \in Turn : h[t] # <<>> /\ h[u] # <<>> => t = u

\* A program's stages before it is being stopped.
Open(p) == stage[p] \in {"off", "claiming", "up"}

MailOf(p) ==
  /\ \A t \in Turn : taken[p][t] # <<>> => turn[p][t] = "took"
  /\ Open(p) => /\ Kept(inbox[p], taken[p], gone[p], arrived[p])
                /\ p \notin crossed => Ordered(inbox[p], taken[p])
Mail == \A p \in Program : MailOf(p)

\* The empty sequence holds nothing, and only it.
LEMMA NoneSeen ==
  /\ Seen(<<>>) = {} /\ Distinct(<<>>) /\ Rising(<<>>)
  /\ \A s \in Seq(Nat) : Seen(s) = {} => s = <<>>
<1>1. Seen(<<>>) = {} /\ Distinct(<<>>) /\ Rising(<<>>)
  BY DEF Seen, Distinct, Rising
<1>2. ASSUME NEW s \in Seq(Nat), Seen(s) = {}
      PROVE  s = <<>>
  <2>1. 1 \notin DOMAIN s
    BY <1>2 DEF Seen
  <2> QED BY <2>1
<1> QED BY <1>1, <1>2

\* What one sequence after another holds.
LEMMA Joined ==
  ASSUME NEW a \in Seq(Nat), NEW b \in Seq(Nat)
  PROVE  /\ a \o b \in Seq(Nat) /\ Seen(a \o b) = Seen(a) \union Seen(b)
         /\ Distinct(a) /\ Distinct(b) /\ Seen(a) \intersect Seen(b) = {} => Distinct(a \o b)
         /\ Rising(a) /\ Rising(b) /\ (\A x \in Seen(a), y \in Seen(b) : x < y) => Rising(a \o b)
<1> DEFINE c == a \o b
<1>1. /\ c \in Seq(Nat) /\ Len(c) = Len(a) + Len(b) /\ DOMAIN c = 1..(Len(a) + Len(b))
      /\ DOMAIN a = 1..Len(a) /\ DOMAIN b = 1..Len(b) /\ Len(a) \in Nat /\ Len(b) \in Nat
  OBVIOUS
<1>2. \A i \in 1..Len(a) : i \in DOMAIN c /\ c[i] = a[i]
  OBVIOUS
<1>3. \A i \in 1..Len(b) : i + Len(a) \in DOMAIN c /\ c[i + Len(a)] = b[i]
  OBVIOUS
<1>4. \A i \in DOMAIN c : \/ i \in DOMAIN a /\ c[i] = a[i]
                          \/ ~(i <= Len(a)) /\ i - Len(a) \in DOMAIN b /\ c[i] = b[i - Len(a)]
  OBVIOUS
<1>5. \A i \in DOMAIN a : a[i] \in Nat /\ a[i] \in Seen(a)
  BY DEF Seen
<1>6. \A i \in DOMAIN b : b[i] \in Nat /\ b[i] \in Seen(b)
  BY DEF Seen
<1> HIDE DEF c
<1>7. Seen(c) = Seen(a) \union Seen(b)
  <2>1. ASSUME NEW x \in Seen(c)
        PROVE  x \in Seen(a) \union Seen(b)
    BY <2>1, <1>4, <1>5, <1>6 DEF Seen
  <2>2. ASSUME NEW x \in Seen(a)
        PROVE  x \in Seen(c)
    BY <2>2, <1>1, <1>2 DEF Seen
  <2>3. ASSUME NEW x \in Seen(b)
        PROVE  x \in Seen(c)
    BY <2>3, <1>1, <1>3 DEF Seen
  <2> QED BY <2>1, <2>2, <2>3
<1>8. ASSUME Distinct(a), Distinct(b), Seen(a) \intersect Seen(b) = {}
      PROVE  Distinct(c)
  <2> SUFFICES ASSUME NEW i \in DOMAIN c, NEW j \in DOMAIN c, c[i] = c[j]
               PROVE  i = j
    BY DEF Distinct
  <2>1. CASE i \in DOMAIN a /\ c[i] = a[i] /\ j \in DOMAIN a /\ c[j] = a[j]
    BY <2>1, <1>8 DEF Distinct
  <2>2. CASE /\ i - Len(a) \in DOMAIN b /\ c[i] = b[i - Len(a)]
             /\ j - Len(a) \in DOMAIN b /\ c[j] = b[j - Len(a)]
    <3>1. i - Len(a) = j - Len(a)
      BY <2>2, <1>8 DEF Distinct
    <3> QED BY <3>1, <1>1
  <2>3. ~(c[i] \in Seen(a) /\ c[j] \in Seen(b)) /\ ~(c[i] \in Seen(b) /\ c[j] \in Seen(a))
    BY <1>8
  <2> QED BY <1>4, <1>5, <1>6, <2>1, <2>2, <2>3
<1>9. ASSUME Rising(a), Rising(b), \A x \in Seen(a), y \in Seen(b) : x < y
      PROVE  Rising(c)
  <2> SUFFICES ASSUME NEW i \in DOMAIN c, NEW j \in DOMAIN c, i < j
               PROVE  c[i] < c[j]
    BY DEF Rising
  <2>1. CASE i \in DOMAIN a /\ c[i] = a[i] /\ j \in DOMAIN a /\ c[j] = a[j]
    BY <2>1, <1>9 DEF Rising
  <2>2. CASE i \in DOMAIN a /\ c[i] = a[i] /\ j - Len(a) \in DOMAIN b /\ c[j] = b[j - Len(a)]
    BY <2>2, <1>5, <1>6, <1>9
  <2>3. CASE /\ i - Len(a) \in DOMAIN b /\ c[i] = b[i - Len(a)]
             /\ j - Len(a) \in DOMAIN b /\ c[j] = b[j - Len(a)]
    <3>1. i - Len(a) < j - Len(a)
      BY <1>1
    <3> QED BY <2>3, <3>1, <1>9 DEF Rising
  <2>4. CASE ~(i <= Len(a)) /\ j \in DOMAIN a
    BY <2>4, <1>1
  <2> QED BY <1>4, <2>1, <2>2, <2>3, <2>4
<1> QED
  BY <1>1, <1>7, <1>8, <1>9 DEF c

\* A sequence that is cut: what is kept and what is cut off.
LEMMA CutOff ==
  ASSUME NEW all \in Seq(Nat), NEW fits \in 0..Len(all)
  PROVE  LET s == SubSeq(all, 1, fits)
             c == {all[i] : i \in (fits + 1)..Len(all)}
         IN  /\ s \in Seq(Nat) /\ Seen(all) = Seen(s) \union c
             /\ Distinct(all) => Distinct(s) /\ Seen(s) \intersect c = {}
             /\ Rising(all) => Rising(s)
<1> DEFINE s == SubSeq(all, 1, fits)
           c == {all[i] : i \in (fits + 1)..Len(all)}
<1>1. s \in Seq(Nat) /\ DOMAIN s = 1..fits /\ \A i \in 1..fits : s[i] = all[i]
  OBVIOUS
<1>2. /\ DOMAIN all = 1..Len(all) /\ Len(all) \in Nat /\ fits \in Nat
      /\ \A i \in 1..fits : i \in DOMAIN all
      /\ \A i \in (fits + 1)..Len(all) : i \in DOMAIN all /\ i \notin 1..fits
      /\ \A i \in DOMAIN all : i \in 1..fits \/ i \in (fits + 1)..Len(all)
  OBVIOUS
<1> HIDE DEF s
<1>3. Seen(all) = Seen(s) \union c
  BY <1>1, <1>2 DEF Seen
<1>4. Distinct(all) => Distinct(s)
  BY <1>1, <1>2 DEF Distinct
<1>5. Distinct(all) => Seen(s) \intersect c = {}
  BY <1>1, <1>2 DEF Distinct, Seen
<1>6. Rising(all) => Rising(s)
  BY <1>1, <1>2 DEF Rising
<1> QED
  BY <1>1, <1>3, <1>4, <1>5, <1>6 DEF s

\* A message that arrives goes to the end of the inbox.
LEMMA KeptArrives ==
  ASSUME NEW s \in Seq(Nat), NEW h \in [Turn -> Seq(Nat)], NEW g \in SUBSET Nat, NEW n \in Nat,
         Kept(s, h, g, n)
  PROVE  /\ Kept(Append(s, n + 1), h, g, n + 1)
         /\ Ordered(s, h) => Ordered(Append(s, n + 1), h)
<1> DEFINE new == n + 1
           r == Append(s, new)
           T == UNION {Seen(h[t]) : t \in Turn}
<1>1. new \in Nat /\ new \notin 1..n /\ 1..new = (1..n) \union {new} /\ \A x \in 1..n : x < new
  OBVIOUS
<1>2. <<new>> \in Seq(Nat) /\ Seen(<<new>>) = {new} /\ Distinct(<<new>>) /\ Rising(<<new>>)
  BY <1>1 DEF Seen, Distinct, Rising
<1>3. r = s \o <<new>>
  BY <1>1
<1>4. new \notin g /\ new \notin Seen(s) /\ \A t \in Turn : new \notin Seen(h[t])
  BY <1>1 DEF Kept
<1> HIDE DEF new, r
<1>5. /\ Seen(r) = Seen(s) \union {new} /\ Distinct(r)
      /\ Rising(s) => Rising(r)
  <2>1. Seen(s) \subseteq 1..n /\ Distinct(s)
    BY DEF Kept
  <2>2. Seen(s) \intersect Seen(<<new>>) = {} /\ \A x \in Seen(s), y \in Seen(<<new>>) : x < y
    BY <1>1, <1>2, <2>1
  <2> QED BY <1>2, <1>3, <2>1, <2>2, Joined
<1>6. Kept(r, h, g, new)
  BY <1>1, <1>4, <1>5 DEF Kept
<1>7. Ordered(s, h) => Ordered(r, h)
  <2>1. \A t \in Turn : Seen(h[t]) \subseteq 1..n
    BY DEF Kept
  <2> QED BY <1>1, <1>5, <2>1 DEF Ordered
<1> QED
  BY <1>6, <1>7 DEF r, new

\* A turn that holds nothing takes the inbox.
LEMMA KeptTakes ==
  ASSUME NEW s \in Seq(Nat), NEW h \in [Turn -> Seq(Nat)], NEW g \in SUBSET Nat, NEW n \in Nat,
         Kept(s, h, g, n), NEW t \in Turn, h[t] = <<>>
  PROVE  /\ Kept(<<>>, [h EXCEPT ![t] = s], g, n)
         /\ Ordered(s, h) /\ (\A u \in Turn : h[u] = <<>>) => Ordered(<<>>, [h EXCEPT ![t] = s])
<1> DEFINE k == [h EXCEPT ![t] = s]
<1>1. k[t] = s /\ \A u \in Turn \ {t} : k[u] = h[u]
  OBVIOUS
<1>2. Seen(h[t]) = {}
  BY NoneSeen
<1> HIDE DEF k
<1>3. Seen(s) \union UNION {Seen(h[u]) : u \in Turn} = UNION {Seen(k[u]) : u \in Turn}
  <2>1. ASSUME NEW x \in Seen(s) \union UNION {Seen(h[u]) : u \in Turn}
        PROVE  \E u \in Turn : x \in Seen(k[u])
    BY <2>1, <1>1, <1>2
  <2>2. ASSUME NEW u \in Turn, NEW x \in Seen(k[u])
        PROVE  x \in Seen(s) \union UNION {Seen(h[v]) : v \in Turn}
    BY <2>2, <1>1
  <2> QED BY <2>1, <2>2
<1>4. Kept(<<>>, k, g, n)
  <2>1. 1..n = g \union Seen(<<>>) \union UNION {Seen(k[u]) : u \in Turn}
    BY <1>3, NoneSeen DEF Kept
  <2>2. \A u \in Turn : g \intersect Seen(k[u]) = {} /\ Distinct(k[u])
    BY <1>1 DEF Kept
  <2>3. \A u, v \in Turn : u # v => Seen(k[u]) \intersect Seen(k[v]) = {}
    BY <1>1 DEF Kept
  <2> QED BY <2>1, <2>2, <2>3, NoneSeen DEF Kept
<1>5. ASSUME Ordered(s, h), \A u \in Turn : h[u] = <<>>
      PROVE  Ordered(<<>>, k)
  <2>1. \A u \in Turn : u = t \/ k[u] = <<>>
    BY <1>1, <1>5
  <2>2. \A u \in Turn : Rising(k[u])
    BY <1>1, <1>5, <2>1, NoneSeen DEF Ordered
  <2> QED BY <2>1, <2>2, NoneSeen DEF Ordered
<1> QED
  BY <1>4, <1>5 DEF k

\* A turn that is stored has shown what it took.
LEMMA KeptStores ==
  ASSUME NEW s \in Seq(Nat), NEW h \in [Turn -> Seq(Nat)], NEW g \in SUBSET Nat, NEW n \in Nat,
         Kept(s, h, g, n), NEW t \in Turn
  PROVE  /\ Kept(s, [h EXCEPT ![t] = <<>>], g \union Seen(h[t]), n)
         /\ Ordered(s, h) => Ordered(s, [h EXCEPT ![t] = <<>>])
<1> DEFINE k == [h EXCEPT ![t] = <<>>]
<1>1. k[t] = <<>> /\ \A u \in Turn \ {t} : k[u] = h[u]
  OBVIOUS
<1> HIDE DEF k
<1>2. Seen(k[t]) = {} /\ Distinct(k[t]) /\ Rising(k[t])
  BY <1>1, NoneSeen
<1>3. UNION {Seen(h[u]) : u \in Turn} = Seen(h[t]) \union UNION {Seen(k[u]) : u \in Turn}
  <2>1. ASSUME NEW u \in Turn, NEW x \in Seen(h[u])
        PROVE  x \in Seen(h[t]) \union UNION {Seen(k[v]) : v \in Turn}
    BY <2>1, <1>1
  <2>2. ASSUME NEW u \in Turn, NEW x \in Seen(k[u])
        PROVE  x \in UNION {Seen(h[v]) : v \in Turn}
    BY <2>2, <1>1, <1>2
  <2> QED BY <2>1, <2>2
<1>4. Kept(s, k, g \union Seen(h[t]), n)
  <2>1. 1..n = (g \union Seen(h[t])) \union Seen(s) \union UNION {Seen(k[u]) : u \in Turn}
    BY <1>3 DEF Kept
  <2>2. (g \union Seen(h[t])) \intersect Seen(s) = {} /\ Distinct(s)
    BY DEF Kept
  <2>3. ASSUME NEW u \in Turn
        PROVE  /\ (g \union Seen(h[t])) \intersect Seen(k[u]) = {}
               /\ Seen(s) \intersect Seen(k[u]) = {} /\ Distinct(k[u])
    <3>1. CASE u = t
      BY <3>1, <1>2
    <3>2. CASE u # t
      BY <3>2, <1>1 DEF Kept
    <3> QED BY <3>1, <3>2
  <2>4. \A u, v \in Turn : u # v => Seen(k[u]) \intersect Seen(k[v]) = {}
    BY <1>1, <1>2 DEF Kept
  <2> QED BY <2>1, <2>2, <2>3, <2>4 DEF Kept
<1>5. Ordered(s, h) => Ordered(s, k)
  BY <1>1, <1>2 DEF Ordered
<1> QED
  BY <1>4, <1>5 DEF k

\* A turn that fails gives back what it took, before what came meanwhile.
LEMMA KeptRequeues ==
  ASSUME NEW s \in Seq(Nat), NEW h \in [Turn -> Seq(Nat)], NEW g \in SUBSET Nat, NEW n \in Nat,
         Kept(s, h, g, n), NEW t \in Turn, NEW fits \in 0..Len(h[t] \o s), h[t] # <<>>
  PROVE  LET all == h[t] \o s
             r == SubSeq(all, 1, fits)
             c == {all[i] : i \in (fits + 1)..Len(all)}
         IN  /\ Kept(r, [h EXCEPT ![t] = <<>>], g \union c, n)
             /\ Ordered(s, h) => Ordered(r, [h EXCEPT ![t] = <<>>])
<1> DEFINE all == h[t] \o s
           r == SubSeq(all, 1, fits)
           c == {all[i] : i \in (fits + 1)..Len(all)}
           k == [h EXCEPT ![t] = <<>>]
<1>1. k[t] = <<>> /\ \A u \in Turn \ {t} : k[u] = h[u]
  OBVIOUS
<1>2. /\ all \in Seq(Nat) /\ Seen(all) = Seen(h[t]) \union Seen(s) /\ Distinct(all)
      /\ Ordered(s, h) => Rising(all)
  <2>1. h[t] \in Seq(Nat) /\ Distinct(h[t]) /\ Distinct(s) /\ Seen(h[t]) \intersect Seen(s) = {}
    BY DEF Kept
  <2>2. Ordered(s, h) => /\ Rising(h[t]) /\ Rising(s)
                         /\ \A x \in Seen(h[t]), y \in Seen(s) : x < y
    BY DEF Ordered
  <2> QED BY <2>1, <2>2, Joined
<1>3. fits \in 0..Len(all)
  OBVIOUS
<1> HIDE DEF all
<1>4. /\ r \in Seq(Nat) /\ Seen(all) = Seen(r) \union c /\ Distinct(r)
      /\ Seen(r) \intersect c = {}
      /\ Rising(all) => Rising(r)
  BY <1>2, <1>3, CutOff
<1> HIDE DEF k, r, c
<1>5. Seen(k[t]) = {} /\ Distinct(k[t]) /\ Rising(k[t])
  BY <1>1, NoneSeen
<1>6. Kept(r, k, g \union c, n)
  <2>1. 1..n = (g \union c) \union Seen(r) \union UNION {Seen(k[u]) : u \in Turn}
    <3>1. UNION {Seen(h[u]) : u \in Turn} = Seen(h[t]) \union UNION {Seen(k[u]) : u \in Turn}
      <4>1. ASSUME NEW u \in Turn, NEW x \in Seen(h[u])
            PROVE  x \in Seen(h[t]) \union UNION {Seen(k[v]) : v \in Turn}
        BY <4>1, <1>1
      <4>2. ASSUME NEW u \in Turn, NEW x \in Seen(k[u])
            PROVE  x \in UNION {Seen(h[v]) : v \in Turn}
        BY <4>2, <1>1, <1>5
      <4> QED BY <4>1, <4>2
    <3>2. Seen(h[t]) \union Seen(s) = Seen(r) \union c
      BY <1>2, <1>4
    <3> QED BY <3>1, <3>2 DEF Kept
  <2>2. (g \union c) \intersect Seen(r) = {}
    BY <1>2, <1>4 DEF Kept
  <2>3. ASSUME NEW u \in Turn
        PROVE  /\ (g \union c) \intersect Seen(k[u]) = {}
               /\ Seen(r) \intersect Seen(k[u]) = {} /\ Distinct(k[u])
    <3>1. CASE u = t
      BY <3>1, <1>5
    <3>2. CASE u # t
      BY <3>2, <1>1, <1>2, <1>4 DEF Kept
    <3> QED BY <3>1, <3>2
  <2>4. \A u, v \in Turn : u # v => Seen(k[u]) \intersect Seen(k[v]) = {}
    BY <1>1, <1>5 DEF Kept
  <2> QED BY <1>4, <2>1, <2>2, <2>3, <2>4 DEF Kept
<1>7. ASSUME Ordered(s, h)
      PROVE  Ordered(r, k)
  <2>1. \A u \in Turn : k[u] = <<>>
    BY <1>1, <1>7 DEF Ordered
  <2>2. Rising(r)
    BY <1>2, <1>4, <1>7
  <2> QED BY <2>1, <2>2, NoneSeen DEF Ordered
<1> QED
  BY <1>6, <1>7 DEF k, r, c, all

\* Nothing has come.
LEMMA KeptNone ==
  ASSUME NEW h, \A t \in Turn : h[t] = <<>>
  PROVE  Kept(<<>>, h, {}, 0) /\ Ordered(<<>>, h)
BY NoneSeen DEF Kept, Ordered

\* A function onto a set that tells its arguments apart shows as many members.
LEMMA SameSize ==
  ASSUME NEW A, NEW B, IsFiniteSet(A), NEW f \in [A -> B],
         \A b \in B : \E a \in A : f[a] = b,
         \A a, b \in A : f[a] = f[b] => a = b
  PROVE  Cardinality(B) = Cardinality(A)
<1>1. f \in Bijection(A, B)
  BY DEF Bijection, Injection, Surjection, IsInjective
<1> QED
  BY <1>1, FS_Bijection DEF ExistsBijection

\* In one place each, the messages add up.
LEMMA Counted ==
  ASSUME NEW s \in Seq(Nat), NEW h \in [Turn -> Seq(Nat)], NEW g \in SUBSET Nat, NEW n \in Nat,
         Kept(s, h, g, n)
  PROVE  n = Cardinality(g) + Len(s)
             + Cardinality({x \in Turn \X (1..n) : x[2] \in Seen(h[x[1]])})
<1> DEFINE H == {x \in Turn \X (1..n) : x[2] \in Seen(h[x[1]])}
           T == UNION {Seen(h[t]) : t \in Turn}
           S == Seen(s)
<1>1. 1..n = (g \union S) \union T /\ g \intersect S = {} /\ (g \union S) \intersect T = {}
  BY DEF Kept
<1>2. IsFiniteSet(1..n) /\ Cardinality(1..n) = n
  <2>1. 1 \in Int /\ n \in Int /\ n - 1 + 1 = n /\ (1 > n => n = 0)
    OBVIOUS
  <2>2. CASE 1 > n
    BY <2>1, <2>2, FS_Interval
  <2>3. CASE ~(1 > n)
    BY <2>1, <2>3, FS_Interval
  <2> QED BY <2>2, <2>3
<1>3. Cardinality(S) = Len(s)
  <2> DEFINE f == [i \in 1..Len(s) |-> s[i]]
  <2>1. DOMAIN s = 1..Len(s) /\ Len(s) \in Nat
    OBVIOUS
  <2>2. /\ f \in [1..Len(s) -> S] /\ \A x \in S : \E i \in 1..Len(s) : f[i] = x
        /\ \A i, j \in 1..Len(s) : f[i] = f[j] => i = j
    BY <2>1 DEF Seen, Kept, Distinct
  <2>3. IsFiniteSet(1..Len(s)) /\ Cardinality(1..Len(s)) = Len(s)
    <3> DEFINE m == Len(s)
    <3>1. 1 \in Int /\ m \in Int /\ m - 1 + 1 = m /\ (1 > m => m = 0)
      BY <2>1
    <3> HIDE DEF m
    <3>2. CASE 1 > m
      <4>1. IsFiniteSet(1..m) /\ Cardinality(1..m) = 0
        BY <3>1, <3>2, FS_Interval
      <4> QED BY <3>1, <3>2, <4>1 DEF m
    <3>3. CASE ~(1 > m)
      <4>1. IsFiniteSet(1..m) /\ Cardinality(1..m) = m - 1 + 1
        BY <3>1, <3>3, FS_Interval
      <4> QED BY <3>1, <4>1 DEF m
    <3> QED BY <3>2, <3>3
  <2> HIDE DEF f, S
  <2> QED BY <2>2, <2>3, SameSize
<1>4. Cardinality(T) = Cardinality(H)
  <2> DEFINE f == [x \in H |-> x[2]]
  <2>1. \A x \in H : /\ x[1] \in Turn /\ x[2] \in 1..n /\ x = <<x[1], x[2]>>
                      /\ x[2] \in Seen(h[x[1]])
    OBVIOUS
  <2>2. f \in [H -> T]
    BY <2>1
  <2>3. \A y \in T : \E x \in H : f[x] = y
    <3> SUFFICES ASSUME NEW t \in Turn, NEW y \in Seen(h[t])
                 PROVE  \E x \in H : f[x] = y
      OBVIOUS
    <3>1. y \in 1..n
      BY <1>1
    <3>2. <<t, y>> \in H
      BY <3>1
    <3> QED BY <3>2
  <2>4. \A x, y \in H : f[x] = f[y] => x = y
    <3> SUFFICES ASSUME NEW x \in H, NEW y \in H, x[2] = y[2]
                 PROVE  x = y
      OBVIOUS
    <3>1. x[1] = y[1]
      BY <2>1 DEF Kept
    <3> QED BY <2>1, <3>1
  <2>5. IsFiniteSet(H)
    <3>1. IsFiniteSet(Turn \X (1..n))
      BY <1>2, FS_Product, PeersAssumption DEF PeersAssumption
    <3>2. H \subseteq Turn \X (1..n)
      OBVIOUS
    <3> HIDE DEF H
    <3> QED BY <3>1, <3>2, FS_Subset
  <2> HIDE DEF f, H, T
  <2> QED BY <2>2, <2>3, <2>4, <2>5, SameSize
<1> HIDE DEF S, T, H
<1>5. /\ IsFiniteSet(g) /\ IsFiniteSet(S) /\ IsFiniteSet(T) /\ IsFiniteSet(g \union S)
      /\ Cardinality(g) \in Nat /\ Cardinality(S) \in Nat /\ Cardinality(T) \in Nat
  <2>1. /\ g \subseteq 1..n /\ S \subseteq 1..n /\ T \subseteq 1..n
        /\ g \union S \subseteq 1..n
    BY <1>1
  <2>2. IsFiniteSet(g) /\ IsFiniteSet(S) /\ IsFiniteSet(T) /\ IsFiniteSet(g \union S)
    BY <1>2, <2>1, FS_Subset
  <2> QED BY <2>2, FS_CardinalityType
<1>6. Cardinality(g \intersect S) = 0 /\ Cardinality((g \union S) \intersect T) = 0
  <2>1. g \intersect S = {} /\ (g \union S) \intersect T = {}
    BY <1>1
  <2> QED BY <2>1, FS_EmptySet
<1>7. Cardinality(g \union S) = Cardinality(g) + Cardinality(S)
  <2>1. Cardinality(g \union S) = Cardinality(g) + Cardinality(S) - Cardinality(g \intersect S)
    BY <1>5, FS_Union
  <2> QED BY <1>5, <1>6, <2>1
<1>8. n = Cardinality(g \union S) + Cardinality(T)
  <2>1. Cardinality((g \union S) \union T)
          = Cardinality(g \union S) + Cardinality(T) - Cardinality((g \union S) \intersect T)
    BY <1>5, FS_Union
  <2>2. Cardinality(g \union S) \in Nat
    BY <1>5, <1>7
  <2>3. Cardinality((g \union S) \union T) = n
    BY <1>1, <1>2
  <2> QED BY <1>5, <1>6, <2>1, <2>2, <2>3
<1>9. n = Cardinality(g) + Len(s) + Cardinality(H)
  BY <1>3, <1>4, <1>7, <1>8
<1> QED BY <1>9 DEF H

\* A step that leaves the messages alone: no turn that took some moves on, and nobody that
\* is being stopped comes back.
MailRest ==
  /\ UNCHANGED <<inbox, taken, arrived, gone, crossed>>
  /\ \A p \in Program : /\ Open(p)' => Open(p)
                        /\ \A t \in Turn : turn[p][t] = "took" => turn'[p][t] = "took"

\* The steps that move messages.
LEMMA MailCases ==
  ASSUME RegTypes, WorkTypes, Chosen, [Next]_vars
  PROVE  \/ \E p \in Program : CloseEnds(p) \/ Crash(p) \/ Accept(p)
         \/ \E p \in Program, t \in Turn : Take(p, t) \/ Store(p, t) \/ StoreFails(p, t)
         \/ \E n \in notices : TakeNotice(n)
         \/ MailRest
<1> USE DEF RegTypes, WorkTypes, MailRest, Open, reg, post, work
<1>1. ASSUME NEW p \in Program, Start(p)
      PROVE  MailRest
  BY <1>1 DEF Start
<1>2. ASSUME NEW p \in Program, ClaimReads(p)
      PROVE  MailRest
  BY <1>2 DEF ClaimReads
<1>3. ASSUME NEW p \in Program, ClaimWrites(p)
      PROVE  MailRest
  BY <1>3 DEF ClaimWrites
<1>4. ASSUME NEW p \in Program, ClaimChecks(p)
      PROVE  MailRest
  BY <1>4 DEF ClaimChecks, Checks, Chosen
<1>5. ASSUME NEW p \in Program, RenameWrites(p)
      PROVE  MailRest
  BY <1>5 DEF RenameWrites
<1>6. ASSUME NEW p \in Program, Close(p)
      PROVE  MailRest
  BY <1>6 DEF Close
<1>7. ASSUME NEW p \in Program, SendFails(p)
      PROVE  MailRest
  BY <1>7 DEF SendFails
<1>8. ASSUME NEW p \in Program, Ask(p)
      PROVE  MailRest
  BY <1>8 DEF Ask
<1>9. ASSUME NEW p \in Program, FindEntry(p)
      PROVE  MailRest
  BY <1>9 DEF FindEntry
<1>10. ASSUME NEW p \in Program, Subscribe(p)
      PROVE  MailRest
  BY <1>10 DEF Subscribe
<1>11. ASSUME NEW p \in Program, AskReturns(p)
      PROVE  MailRest
  BY <1>11 DEF AskReturns
<1>12. ASSUME NEW p \in Program, Compact(p)
      PROVE  MailRest
  BY <1>12 DEF Compact
<1>13. ASSUME NEW p \in Program, NEW n \in Name, RenameReads(p, n)
      PROVE  MailRest
  BY <1>13 DEF RenameReads
<1>14. ASSUME NEW p \in Program, NEW b \in Program, NEW notify \in BOOLEAN, Lookup(p, b, notify)
      PROVE  MailRest
  BY <1>14 DEF Lookup
<1>15. ASSUME NEW p \in Program, NEW t \in Turn, Run(p, t)
      PROVE  MailRest
  BY <1>15 DEF Run, Goes
<1>16. ASSUME NEW p \in Program, NEW t \in Turn, Begin(p, t)
      PROVE  MailRest
  BY <1>16 DEF Begin, Goes
<1>17. ASSUME NEW p \in Program, NEW t \in Turn, End(p, t)
      PROVE  MailRest
  BY <1>17 DEF End, Goes
<1>18. ASSUME NEW p \in Program, NEW t \in Turn, Look(p, t)
      PROVE  MailRest
  BY <1>18 DEF Look, Goes
<1>19. ASSUME NEW p \in Program, NEW t \in Turn, Show(p, t)
      PROVE  MailRest
  <2>1. turn' = [turn EXCEPT ![p][t] = "none"] /\ turn[p][t] # "took"
    BY <1>19 DEF Show, Goes
  <2>2. UNCHANGED <<stage, inbox, taken, arrived, gone, crossed>>
    BY <1>19 DEF Show
  <2> QED BY <2>1, <2>2
<1>20. ASSUME NEW n \in notices, RefuseNotice(n)
      PROVE  MailRest
  BY <1>20 DEF RefuseNotice
<1>21. ASSUME NEW n \in notices, LoseNotice(n)
      PROVE  MailRest
  BY <1>21 DEF LoseNotice
<1>22. CASE UNCHANGED vars
  BY <1>22 DEF vars
<1> HIDE DEF MailRest
<1> QED
  BY <1>1, <1>2, <1>3, <1>4, <1>5, <1>6, <1>7, <1>8, <1>9, <1>10, <1>11, <1>12, <1>13, <1>14,
    <1>15, <1>16, <1>17, <1>18, <1>19, <1>20, <1>21, <1>22, StepCases

\* A program whose messages and turns stay keeps MailOf.
LEMMA SameMail ==
  ASSUME NEW q \in Program, MailOf(q), Open(q)' => Open(q),
         inbox'[q] = inbox[q], taken'[q] = taken[q], arrived'[q] = arrived[q],
         gone'[q] = gone[q], q \in crossed => q \in crossed',
         \A t \in Turn : turn[q][t] = "took" => turn'[q][t] = "took"
  PROVE  MailOf(q)'
BY DEF MailOf, Open

\* A message that arrives is in the inbox, after the others.
LEMMA MailArrives ==
  ASSUME PostTypes, Mail, NEW b \in Program, Arrives(b),
         UNCHANGED <<stage, turn, taken, gone, crossed>>
  PROVE  Mail'
<1>1. inbox'[b] = Append(inbox[b], arrived[b] + 1) /\ arrived'[b] = arrived[b] + 1
  BY DEF PostTypes, Arrives
<1>2. MailOf(b)'
  <2>1. MailOf(b) /\ inbox[b] \in Seq(Nat) /\ taken[b] \in [Turn -> Seq(Nat)]
        /\ gone[b] \in SUBSET Nat /\ arrived[b] \in Nat
    BY DEF PostTypes, Mail
  <2>2. Kept(inbox[b], taken[b], gone[b], arrived[b])
          => /\ Kept(inbox'[b], taken[b], gone[b], arrived'[b])
             /\ Ordered(inbox[b], taken[b]) => Ordered(inbox'[b], taken[b])
    BY <1>1, <2>1, KeptArrives
  <2> QED BY <2>1, <2>2 DEF MailOf, Open
<1>3. ASSUME NEW q \in Program \ {b}
      PROVE  MailOf(q)'
  BY SameMail DEF PostTypes, Arrives, Mail, Open
<1> QED
  BY <1>2, <1>3 DEF Mail

\* A program that has ended has nothing.
LEMMA MailEnds ==
  ASSUME RegTypes, WorkTypes, PostTypes, Mail, NEW p \in Program, NothingLeft(p),
         stage' = [stage EXCEPT ![p] = "closed"] \/ stage' = [stage EXCEPT ![p] = "dead"]
  PROVE  Mail'
<1>1. ~Open(p)' /\ \A t \in Turn : taken'[p][t] = <<>>
  BY DEF RegTypes, PostTypes, NothingLeft, Open
<1>2. ASSUME NEW q \in Program \ {p}
      PROVE  MailOf(q)'
  BY SameMail DEF RegTypes, WorkTypes, PostTypes, NothingLeft, Mail, Open
<1> QED
  BY <1>1, <1>2 DEF Mail, MailOf

\* A turn takes what waits, if the program is not being stopped.
LEMMA MailTakes ==
  ASSUME RegTypes, WorkTypes, PostTypes, Mail, NEW p \in Program, NEW t \in Turn, Take(p, t)
  PROVE  Mail'
<1>1. stage' = stage /\ gone' = gone /\ arrived' = arrived
  BY DEF Take, reg
<1>2. /\ turn[p][t] = "began" /\ turn'[p][t] = "took"
      /\ \A q \in Program, u \in Turn : turn[q][u] = "took" => turn'[q][u] = "took"
  BY DEF Take, Goes, WorkTypes
<1>3. taken[p][t] = <<>>
  BY <1>2 DEF Mail, MailOf
<1>4. CASE UNCHANGED <<taken, inbox, crossed>>
  BY <1>1, <1>2, <1>4, SameMail DEF Mail, Open
<1>5. CASE stage[p] = "up"
  <2>1. /\ taken' = [taken EXCEPT ![p][t] = inbox[p]] /\ inbox' = [inbox EXCEPT ![p] = <<>>]
        /\ crossed' = IF \E u \in Turn : taken[p][u] # <<>> THEN crossed \union {p} ELSE crossed
    BY <1>5 DEF Take
  <2>2. /\ taken'[p] = [taken[p] EXCEPT ![t] = inbox[p]] /\ inbox'[p] = <<>>
        /\ inbox[p] \in Seq(Nat) /\ taken[p] \in [Turn -> Seq(Nat)]
        /\ gone[p] \in SUBSET Nat /\ arrived[p] \in Nat
    BY <2>1 DEF PostTypes
  <2>3. Kept(inbox[p], taken[p], gone[p], arrived[p])
        /\ (p \notin crossed => Ordered(inbox[p], taken[p]))
    BY <1>5 DEF Mail, MailOf, Open
  <2> DEFINE k == [taken[p] EXCEPT ![t] = inbox[p]]
  <2>9. /\ Kept(<<>>, k, gone[p], arrived[p])
        /\ Ordered(inbox[p], taken[p]) /\ (\A u \in Turn : taken[p][u] = <<>>) => Ordered(<<>>, k)
    BY ONLY <1>3, <2>2, <2>3, KeptTakes
  <2>4. Kept(inbox'[p], taken'[p], gone[p], arrived[p])
    BY <2>2, <2>9
  <2>5. p \notin crossed' => Ordered(inbox'[p], taken'[p])
    <3>1. p \notin crossed' => p \notin crossed /\ \A u \in Turn : taken[p][u] = <<>>
      BY <2>1
    <3> QED BY <2>2, <2>3, <2>9, <3>1
  <2>6. \A u \in Turn : taken'[p][u] # <<>> => turn'[p][u] = "took"
    BY <1>2, <2>2 DEF Mail, MailOf
  <2>7. MailOf(p)'
    BY <1>1, <2>4, <2>5, <2>6 DEF MailOf
  <2>8. ASSUME NEW q \in Program \ {p}
        PROVE  MailOf(q)'
    <3>1. inbox'[q] = inbox[q] /\ taken'[q] = taken[q] /\ (q \in crossed => q \in crossed')
      BY <2>1 DEF PostTypes
    <3> QED BY <1>1, <1>2, <3>1, SameMail DEF Mail, Open
  <2> QED BY <2>7, <2>8 DEF Mail
<1> QED
  BY <1>4, <1>5 DEF Take

\* A turn whose messages are stored has shown them.
LEMMA MailStores ==
  ASSUME RegTypes, WorkTypes, PostTypes, Mail, NEW p \in Program, NEW t \in Turn, Store(p, t)
  PROVE  Mail'
<1>1. UNCHANGED <<stage, inbox, arrived, crossed>>
  BY DEF Store, reg
<1>2. /\ gone'[p] = gone[p] \union Seen(taken[p][t])
      /\ taken'[p] = [taken[p] EXCEPT ![t] = <<>>]
      /\ inbox[p] \in Seq(Nat) /\ taken[p] \in [Turn -> Seq(Nat)]
      /\ gone[p] \in SUBSET Nat /\ arrived[p] \in Nat
  BY DEF Store, PostTypes
<1>3. \A u \in Turn \ {t} : turn'[p][u] = turn[p][u]
  BY DEF Store, Goes, WorkTypes
<1>4. MailOf(p)'
  <2>1. \A u \in Turn : taken'[p][u] # <<>> => turn'[p][u] = "took"
    BY <1>2, <1>3 DEF Mail, MailOf
  <2>2. Kept(inbox[p], taken[p], gone[p], arrived[p])
          => /\ Kept(inbox[p], taken'[p], gone'[p], arrived[p])
             /\ Ordered(inbox[p], taken[p]) => Ordered(inbox[p], taken'[p])
    <3> DEFINE k == [taken[p] EXCEPT ![t] = <<>>]
    <3> SUFFICES ASSUME Kept(inbox[p], taken[p], gone[p], arrived[p])
                 PROVE  /\ Kept(inbox[p], k, gone[p] \union Seen(taken[p][t]), arrived[p])
                        /\ Ordered(inbox[p], taken[p]) => Ordered(inbox[p], k)
      BY <1>2
    <3> QED BY ONLY <1>2, t \in Turn, Kept(inbox[p], taken[p], gone[p], arrived[p]), KeptStores
  <2> QED BY <1>1, <2>1, <2>2 DEF Mail, MailOf, Open
<1>5. ASSUME NEW q \in Program \ {p}
      PROVE  MailOf(q)'
  <2>1. taken'[q] = taken[q] /\ gone'[q] = gone[q] /\ turn'[q] = turn[q]
    BY DEF Store, Goes, PostTypes, WorkTypes
  <2> QED BY <1>1, <2>1, SameMail DEF Mail, Open
<1> QED
  BY <1>4, <1>5 DEF Mail

\* A turn that fails gives back what it took; of a program being stopped nothing is said.
LEMMA MailFails ==
  ASSUME RegTypes, WorkTypes, PostTypes, AtRest, Mail, NEW p \in Program, NEW t \in Turn,
         StoreFails(p, t)
  PROVE  Mail'
<1> DEFINE all == taken[p][t] \o inbox[p]
           fits == Fits(all)
<1>1. UNCHANGED <<stage, arrived, crossed>>
  BY DEF StoreFails, Fails, reg
<1>2. /\ taken'[p] = [taken[p] EXCEPT ![t] = <<>>]
      /\ inbox[p] \in Seq(Nat) /\ taken[p] \in [Turn -> Seq(Nat)]
      /\ gone[p] \in SUBSET Nat /\ arrived[p] \in Nat
  BY DEF StoreFails, Fails, PostTypes
<1>3. turn[p][t] = "took" /\ \A u \in Turn \ {t} : turn'[p][u] = turn[p][u]
  BY DEF StoreFails, Fails, Goes, WorkTypes
<1>4. IF stage[p] = "up" /\ taken[p][t] # <<>> THEN Requeues(p, all, fits)
                                               ELSE UNCHANGED <<inbox, gone>>
  BY DEF StoreFails, Fails
<1>5. all \in Seq(Nat) /\ fits \in 0..Len(all)
  <2>1. taken[p][t] \in Seq(Nat)
    BY <1>2
  <2>2. all \in Seq(Nat)
    BY <1>2, <2>1
  <2> HIDE DEF all
  <2> QED BY <2>2, PeersAssumption DEF Fits, PeersAssumption
<1>6. MailOf(p)'
  <2>1. \A u \in Turn : taken'[p][u] # <<>> => turn'[p][u] = "took"
    BY <1>2, <1>3 DEF Mail, MailOf
  <2>2. CASE Open(p) /\ taken[p][t] # <<>>
    <3>1. stage[p] = "up"
      BY <1>3, <2>2 DEF Open, AtRest
    <3>2. /\ inbox'[p] = SubSeq(all, 1, fits)
          /\ gone'[p] = gone[p] \union {all[i] : i \in (fits + 1)..Len(all)}
      BY <1>4, <2>2, <3>1 DEF Requeues, PostTypes
    <3>3. Kept(inbox[p], taken[p], gone[p], arrived[p])
            => /\ Kept(inbox'[p], taken'[p], gone'[p], arrived[p])
               /\ Ordered(inbox[p], taken[p]) => Ordered(inbox'[p], taken'[p])
      <4> DEFINE k == [taken[p] EXCEPT ![t] = <<>>]
                 r == SubSeq(all, 1, fits)
                 c == {all[i] : i \in (fits + 1)..Len(all)}
      <4> SUFFICES ASSUME Kept(inbox[p], taken[p], gone[p], arrived[p])
                   PROVE  /\ Kept(r, k, gone[p] \union c, arrived[p])
                          /\ Ordered(inbox[p], taken[p]) => Ordered(r, k)
        BY <1>2, <3>2
      <4> QED
        BY ONLY <1>2, <1>5, <2>2, t \in Turn, Kept(inbox[p], taken[p], gone[p], arrived[p]),
          KeptRequeues
    <3> QED BY <1>1, <2>1, <3>3 DEF Mail, MailOf, Open
  <2>3. CASE taken[p][t] = <<>>
    <3>1. UNCHANGED <<inbox, gone>>
      BY <1>4, <2>3
    <3>2. taken'[p] = taken[p]
      BY <1>2, <2>3
    <3> QED BY <1>1, <2>1, <3>1, <3>2 DEF Mail, MailOf, Open
  <2>4. CASE ~Open(p)
    BY <1>1, <2>1, <2>4 DEF MailOf, Open
  <2> QED BY <2>2, <2>3, <2>4
<1>7. ASSUME NEW q \in Program \ {p}
      PROVE  MailOf(q)'
  <2>1. /\ taken'[q] = taken[q] /\ gone'[q] = gone[q] /\ inbox'[q] = inbox[q]
        /\ turn'[q] = turn[q]
    BY DEF StoreFails, Fails, Requeues, Goes, PostTypes, WorkTypes
  <2> QED BY <1>1, <2>1, SameMail DEF Mail, Open
<1> QED
  BY <1>6, <1>7 DEF Mail

\* Every step keeps each message in its place.
LEMMA MailStep ==
  ASSUME RegTypes, WorkTypes, PostTypes, CallTypes, DuesTypes, Chosen, AtRest, Mail,
         [Next]_vars
  PROVE  Mail'
<1>1. ASSUME NEW p \in Program, CloseEnds(p) \/ Crash(p)
      PROVE  Mail'
  BY <1>1, MailEnds DEF CloseEnds, Crash
<1>2. ASSUME NEW p \in Program, Accept(p)
      PROVE  Mail'
  <2>1. call[p].to \in Program /\ Arrives(call[p].to)
    BY <1>2 DEF Accept, CallTypes, CallType, NoCall
  <2>2. UNCHANGED <<stage, turn, taken, gone, crossed>>
    BY <1>2 DEF Accept, reg, work
  <2> QED BY <2>1, <2>2, MailArrives
<1>3. ASSUME NEW p \in Program, NEW t \in Turn, Take(p, t) \/ Store(p, t) \/ StoreFails(p, t)
      PROVE  Mail'
  BY <1>3, MailTakes, MailStores, MailFails
<1>4. CASE MailRest
  BY <1>4, SameMail DEF MailRest, Mail
<1>5. ASSUME NEW n \in notices, TakeNotice(n)
      PROVE  Mail'
  <2>1. n.to \in Program /\ UNCHANGED <<stage, turn, taken, gone, crossed>>
    BY <1>5 DEF TakeNotice, DuesTypes, reg, work
  <2>2. CASE Arrives(n.to)
    BY <2>1, <2>2, MailArrives
  <2>3. CASE UNCHANGED <<inbox, arrived>>
    BY <2>1, <2>3, SameMail DEF Mail, Open
  <2> QED BY <1>5, <2>2, <2>3 DEF TakeNotice
<1> QED
  BY <1>1, <1>2, <1>3, <1>4, <1>5, MailCases

-----------------------------------------------------------------------------
(* The invariant, and what follows from it. *)

Types == /\ RegTypes /\ NamingTypes /\ WorkTypes /\ PostTypes /\ CountTypes /\ CallTypes
         /\ DuesTypes

IInv == /\ Types /\ Chosen /\ Overlapping /\ Clashing /\ AtRest /\ Shown /\ OnePlace
        /\ NameKept /\ Underway /\ Mail

\* The first state satisfies it.
LEMMA InitInv == Init => IInv
<1> SUFFICES ASSUME Init
             PROVE  IInv
  OBVIOUS
<1>1. RegTypes /\ NamingTypes
  <2>1. [step |-> "none", want |-> 0, tries |-> 0] \in
          [step : {"none", "reading", "writing", "checking", "renaming"}, want : Nat,
           tries : 0..MaxTries]
    BY PeersAssumption DEF PeersAssumption
  <2> QED BY <2>1 DEF Init, RegTypes, NamingTypes
<1>2. WorkTypes
  BY DEF Init, WorkTypes
<1>3. PostTypes
  <2>1. <<>> \in Seq(Nat) /\ Len(<<>>) <= MaxInbox
    BY PeersAssumption DEF PeersAssumption
  <2> QED BY <2>1 DEF Init, PostTypes
<1>4. CountTypes
  <2>1. 0 \in 0..MaxSend /\ 0 \in 0..MaxAsk /\ 0 \in 0..MaxRun /\ 0 \in 0..MaxEvent
    BY PeersAssumption DEF PeersAssumption
  <2> QED BY <2>1 DEF Init, CountTypes
<1>5. CallTypes /\ DuesTypes
  BY DEF Init, CallTypes, DuesTypes
<1>6. Chosen /\ Overlapping /\ Clashing
  BY DEF Init, Chosen, Overlapping, Clashing, Present, Choosing
<1>7. AtRest /\ Shown
  BY DEF Init, AtRest, Shown, ShownOf
<1>8. OnePlace
  BY DEF Init, OnePlace, Pending, NoCall
<1>9. NameKept /\ Underway
  BY DEF Init, NameKept, Underway
<1>10. Mail
  <2>1. ASSUME NEW p \in Program
        PROVE  MailOf(p)
    <3>1. /\ inbox[p] = <<>> /\ gone[p] = {} /\ arrived[p] = 0
          /\ \A t \in Turn : taken[p][t] = <<>>
      BY DEF Init
    <3> QED BY <3>1, KeptNone DEF MailOf
  <2> QED BY <2>1 DEF Mail
<1> QED
  BY <1>1, <1>2, <1>3, <1>4, <1>5, <1>6, <1>7, <1>8, <1>9, <1>10 DEF IInv, Types

\* Every reachable state satisfies it.
THEOREM Invariance == Spec => []IInv
<1>1. IInv /\ [Next]_vars => IInv'
  <2>1. Types /\ [Next]_vars => Types'
    BY RegTypesStep, NamingTypesStep, WorkTypesStep, PostTypesStep, CountTypesStep,
      CallTypesStep, DuesTypesStep DEF Types
  <2>2. IInv /\ [Next]_vars => Chosen' /\ Overlapping' /\ Clashing'
    BY ChosenStep, OverlappingStep, ClashingStep DEF IInv, Types
  <2>3. IInv /\ [Next]_vars => AtRest' /\ Shown' /\ OnePlace'
    BY AtRestStep, ShownStep, OnePlaceStep DEF IInv, Types
  <2>4. IInv /\ [Next]_vars => NameKept' /\ Underway'
    BY NameKeptStep, UnderwayStep DEF IInv, Types
  <2>5. IInv /\ [Next]_vars => Mail'
    BY MailStep DEF IInv, Types
  <2> QED BY <2>1, <2>2, <2>3, <2>4, <2>5 DEF IInv
<1> QED
  BY <1>1, InitInv, PTL DEF Spec

\* The model's variables keep their types: no inbox overflows, and a name is always found.
THEOREM Typing == Spec => []TypeOK
<1>1. IInv => TypeOK
  BY DEF IInv, Types, TypeOK, RegTypes, NamingTypes, WorkTypes, PostTypes, CountTypes, CallTypes,
    CallType, CallStep, DuesTypes
<1> QED
  BY <1>1, Invariance, PTL

\* Programs share a name only if they chose it at the same time and nobody compares it.
THEOREM CollisionsUnseen == Spec => []NamesCollideUnseenOnly
<1>1. ASSUME IInv
      PROVE  NamesCollideUnseenOnly
  <2> SUFFICES ASSUME NEW p \in Program, NEW q \in Program, p # q,
                      stage[p] = "up", stage[q] = "up", entry[p] # 0, entry[p] = entry[q]
               PROVE  {p, q} \in unseen
    BY DEF NamesCollideUnseenOnly
  <2>1. p < q \/ q < p
    BY PeersAssumption DEF PeersAssumption
  <2>2. {p, q} \in unseen \/ {q, p} \in unseen
    BY <1>1, <2>1 DEF IInv, Clashing, Present
  <2>3. {p, q} = {q, p}
    OBVIOUS
  <2> QED BY <2>2, <2>3
<1> QED
  BY <1>1, Invariance, PTL

\* A request for a notice is answered at most once.
THEOREM AnsweredAtMostOnce == Spec => []OneNoticePerAsk
<1>1. IInv => OneNoticePerAsk
  BY DEF IInv, Types, DuesTypes, OnePlace, OneNoticePerAsk
<1> QED
  BY <1>1, Invariance, PTL

\* What a program shows of itself is true but for the two races the property names.
THEOREM ShownTruthfully == Spec => []BusyIsTrue
<1>1. IInv => BusyIsTrue
  BY DEF IInv, Shown, ShownOf, Active, BusyIsTrue
<1> QED
  BY <1>1, Invariance, PTL

\* While a program waits for a notice, it is owed one, or it is known why none comes.
THEOREM AwaitedOwed == Spec => []AwaitedIsOnItsWay
<1>1. IInv => AwaitedIsOnItsWay
  BY DEF IInv, Underway, Owed, Held, Owing, Sent, Present, AwaitedIsOnItsWay
<1> QED
  BY <1>1, Invariance, PTL
\* What a program accepted is in one place, counts once, and waits in the order it came.
THEOREM NothingLost == Spec => []AcceptedNotLost
<1>1. ASSUME IInv, NEW p \in Program, stage[p] = "up"
      PROVE  /\ 1..arrived[p] = gone[p] \union Seen(inbox[p])
                                  \union UNION {Seen(taken[p][t]) : t \in Turn}
             /\ arrived[p] = Cardinality(gone[p]) + Len(inbox[p])
                    + Cardinality({h \in Turn \X (1..arrived[p]) : h[2] \in Seen(taken[p][h[1]])})
             /\ p \notin crossed => Rising(inbox[p])
  <2>1. /\ inbox[p] \in Seq(Nat) /\ taken[p] \in [Turn -> Seq(Nat)]
        /\ gone[p] \in SUBSET Nat /\ arrived[p] \in Nat
    BY <1>1 DEF IInv, Types, PostTypes
  <2>2. /\ Kept(inbox[p], taken[p], gone[p], arrived[p])
        /\ p \notin crossed => Ordered(inbox[p], taken[p])
    BY <1>1 DEF IInv, Mail, MailOf, Open
  <2>3. arrived[p] = Cardinality(gone[p]) + Len(inbox[p])
          + Cardinality({h \in Turn \X (1..arrived[p]) : h[2] \in Seen(taken[p][h[1]])})
    BY <2>1, <2>2, Counted
  <2> QED BY <2>2, <2>3 DEF Kept, Ordered
<1>2. IInv => AcceptedNotLost
  BY <1>1 DEF AcceptedNotLost
<1> QED
  BY <1>2, Invariance, PTL
=============================================================================
