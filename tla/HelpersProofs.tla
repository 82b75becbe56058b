--------------------------- MODULE HelpersProofs ---------------------------
(***************************************************************************)
(* Proofs about Helpers, for every set of lanes, number of slots and bound. *)
(***************************************************************************)
EXTENDS Helpers, FiniteSetTheorems, TLAPS

Audits == [job : {"audit"}, lane : First]
Asleep == {"none", "started"}
Alive  == {"queued"} \union Holding

\* Who may be at work in which phase of a call.
PhaseInv ==
  /\ pc \in {"idle", "request", "tracking", "tools", "asking"} =>
       launching = {} /\ \A w \in Worker : at[w] = "none"
  /\ pc = "first" =>
       launching \subseteq Lanes(First) /\ \A w \in Worker \ Lanes(First) : at[w] = "none"
  /\ pc = "audits" =>
       /\ launching \subseteq Audits /\ \A w \in Lanes(First) : at[w] \in Over
       /\ \A w \in Lanes(Second) \union {Solo} : at[w] = "none"
  /\ pc = "second" =>
       /\ launching \subseteq Lanes(Second) /\ at[Solo] = "none"
       /\ \A w \in Worker \ Lanes(Second) : at[w] \in Over
  /\ pc \in {"rollup", "report"} => launching = {} /\ \A w \in Worker : at[w] \in Over
  /\ pc = "solo" => at[Solo] \in {"working", "parked", "refused", "reading"}
  /\ pc = "soloSave" => at[Solo] = "reading"
  /\ pc \in {"solo", "soloSave"} =>
       launching = {} /\ \A w \in Worker \ {Solo} : at[w] = "none"
  /\ \A w \in launching : at[w] = "none"

\* What a helper has, by how far its goroutine came.
StageInv ==
  \A w \in Worker :
    /\ at[w] \in Asleep => row[w] = "none" /\ out[w] = "none" /\ w \notin doomed \union killed
    /\ at[w] \in Asleep \union {"queued", "starting"} => spent[w] = 0
    /\ at[w] \in {"reading", "ended"} => out[w] # "none"
    /\ w \in killed => at[w] \in Alive
    /\ w \in early =>
         Cut(w) /\ spent[w] = 0 /\ at[w] \in {"started", "queued", "starting", "reading"}

RowInv ==
  \A w \in Worker :
    /\ row[w] = "queued" => at[w] = "queued"
    /\ row[w] = "running" => at[w] \in Holding
    /\ row[w] = "over" => at[w] = "ended"
    /\ at[w] \in Alive => (row[w] = "none" <=> w \in doomed \union killed)

Holders == {w \in Worker : at[w] \in Holding}
Waves   == {"first", "audits", "second"}
SlotInv == pc \in Waves => Cardinality(Holders) <= Slots

\* Nobody takes a place but out of the queue, and the first wave finds all places free.
SlotKept ==
  pc' \in Waves =>
    \/ AskFleet
    \/ \E w \in Worker : TakeSlot(w)
    \/ pc \in Waves /\ mode' = mode /\ Holders' \subseteq Holders

AuditInv ==
  /\ pc = "audits" => \A w \in Replied : Audit(w) \in launching \/ at[Audit(w)] # "none"
  /\ EveryReplyAudited

\* A row that is about to be saved was read.
CopyInv == pc \in {"tracking", "rollup", "soloSave"} => copy[Turn] # Nothing

-----------------------------------------------------------------------------
(* The helpers of a call. *)

\* A lane that works blind, one that reads the others, a supervisor and the agent tool's
\* helper are four kinds of helper, and there is no fifth.
LEMMA WorkerFacts ==
  /\ \A w \in Lanes(First) : w \in Worker /\ w \notin Lanes(Second) /\ w \notin Audits /\ w # Solo
  /\ \A w \in Lanes(Second) : w \in Worker /\ w \notin Lanes(First) /\ w \notin Audits /\ w # Solo
  /\ \A w \in Audits : w \in Worker /\ w # Solo
  /\ Solo \in Worker /\ Solo \notin Audits
  /\ \A w \in Worker :
       w \in Lanes(First) \/ w \in Lanes(Second) \/ w \in Audits \/ w = Solo
  /\ \A w \in Lanes(First) : Audit(w) \in Audits
  /\ \A L : Lanes(L \intersect First) \subseteq Lanes(First)
  /\ \A L : Lanes(L \intersect Second) \subseteq Lanes(Second)
  /\ Tree \notin Worker
  /\ Lanes(First \union Second) = Lanes(First) \union Lanes(Second)
<1>1. \A w \in [job : {"lane"},
  lane : First \union Second] : w.job = "lane" /\ w.lane \in First \union Second
  OBVIOUS
<1>2. \A w \in Audits : w.job = "audit"
  BY DEF Audits
<1>3. Solo.job = "solo" /\ Tree.job = "tree"
  BY DEF Solo, Tree
<1>4. Lanes(First \union Second) = Lanes(First) \union Lanes(Second)
  BY DEF Lanes
<1>5. \A w \in Lanes(First) : w.job = "lane" /\ w.lane \in First
  BY DEF Lanes
<1>6. \A w \in Lanes(Second) : w.job = "lane" /\ w.lane \in Second
  BY DEF Lanes
<1>7. Worker = Lanes(First) \union Lanes(Second) \union Audits \union {Solo}
  BY <1>4 DEF Worker, Audits
<1>8. \A L : Lanes(L \intersect First) \subseteq Lanes(First)
  BY DEF Lanes
<1>9. \A L : Lanes(L \intersect Second) \subseteq Lanes(Second)
  BY DEF Lanes
<1>10. \A w \in Lanes(First) : Audit(w) \in Audits
  BY <1>5 DEF Audit, Audits
<1>11. \A w \in Lanes(First) : w \notin Lanes(Second)
  BY <1>5, <1>6, HelpersAssumption DEF HelpersAssumption
<1> QED
  BY <1>2, <1>3, <1>4, <1>5, <1>6, <1>7, <1>8, <1>9, <1>10, <1>11

\* There are finitely many helpers.
LEMMA FiniteWorkers == IsFiniteSet(Worker)
<1>1. IsFiniteSet(First \union Second)
  BY HelpersAssumption, FS_Union DEF HelpersAssumption
<1>2. IsFiniteSet(Lanes(First \union Second))
  <2> DEFINE f == [n \in First \union Second |-> [job |-> "lane", lane |-> n]]
  <2>1. f \in Surjection(First \union Second, Lanes(First \union Second))
    BY DEF Surjection, Lanes
  <2> QED BY <1>1, <2>1, FS_Surjection
<1>3. IsFiniteSet(Audits)
  <2> DEFINE f == [n \in First |-> [job |-> "audit", lane |-> n]]
  <2>1. f \in Surjection(First, Audits)
    BY DEF Surjection, Audits
  <2> QED BY HelpersAssumption, <2>1, FS_Surjection DEF HelpersAssumption
<1>4. IsFiniteSet({Solo})
  BY FS_Singleton
<1> QED
  BY <1>2, <1>3, <1>4, FS_Union DEF Worker, Audits

\* A step is one of the actions, or changes nothing.
LEMMA StepCases ==
  ASSUME [Next]_vars
  PROVE  \/ NewTurn \/ TrackReads \/ TrackSaves \/ EndTurn \/ Escape
         \/ \E w \in Writer : WriterReads(w) \/ WriterSaves(w) \/ WriterFails(w)
         \/ CallAgent \/ \E m \in Mode, L \in SUBSET (First \union Second) : CallResearch(m, L)
         \/ AskFleet \/ StopLaunching \/ JoinFirst \/ JoinAudits \/ JoinSecond
         \/ RollUp \/ Return
         \/ AgentFails \/ AgentReads \/ AgentSaves
         \/ KillAll
         \/ \E x \in Worker \union {Tree} : Sweep(x)
         \/ \E w \in Worker :
              \/ Launch(w) \/ Register(w) \/ TakeSlot(w) \/ GiveUp(w) \/ CreateSession(w)
              \/ Spend(w) \/ Ask(w) \/ Answer(w) \/ Finish(w) \/ Settle(w)
              \/ Kill(w) \/ CancelHelper(w)
         \/ UNCHANGED vars
BY DEF Next, TurnStep, Writers, Call, Research, AgentTool, Goroutine, Person

-----------------------------------------------------------------------------
(* Each part of the invariant is kept by every step. *)

\* Types: what is saved was read, so the ledger stays a number.
LEMMA TypeStep ==
  ASSUME TypeOK, CopyInv, [Next]_vars
  PROVE  TypeOK'
<1> USE DEF TypeOK, CopyInv, vars, run, kills, paid, books, past
<1>1. CASE NewTurn
  BY <1>1, HelpersAssumption DEF NewTurn
<1>2. CASE TrackReads
  BY <1>2 DEF TrackReads, Writer
<1>3. CASE TrackSaves
  BY <1>3 DEF TrackSaves, Saves, Writer
<1>4. CASE EndTurn
  <2>1. excused' \in Int
    BY <1>4 DEF EndTurn
  <2>2. copy' \in [Writer -> Nat \union {Nothing}]
    BY <1>4 DEF EndTurn
  <2> QED BY <1>4, <2>1, <2>2 DEF EndTurn
<1>5. CASE Escape
  BY <1>5 DEF Escape
<1>6. ASSUME NEW w \in Writer, WriterReads(w) \/ WriterSaves(w) \/ WriterFails(w)
      PROVE  TypeOK'
  BY <1>6, HelpersAssumption DEF WriterReads, WriterSaves, WriterFails, Saves, Charge
<1>7. CASE CallAgent
  BY <1>7, WorkerFacts, HelpersAssumption DEF CallAgent, Charged, Holding
<1>8. ASSUME NEW m \in Mode, NEW L \in SUBSET (First \union Second), CallResearch(m, L)
      PROVE  TypeOK'
  BY <1>8, HelpersAssumption DEF CallResearch, Charged
<1>9. CASE AskFleet
  BY <1>9, WorkerFacts DEF AskFleet
<1>10. CASE StopLaunching
  BY <1>10 DEF StopLaunching
<1>11. CASE JoinFirst
  <2>1. launching' \subseteq Worker
    <3>1. \A w \in Replied : Audit(w) \in Worker
      BY WorkerFacts DEF Replied
    <3>2. Lanes(lanes \intersect Second) \subseteq Worker
      BY WorkerFacts
    <3>3. {Audit(w) : w \in Replied} \subseteq Worker
      BY <3>1
    <3>4. \/ launching' = {Audit(w) : w \in Replied}
          \/ launching' = Lanes(lanes \intersect Second)
      BY <1>11 DEF JoinFirst, AfterFirst
    <3> QED BY <3>2, <3>3, <3>4
  <2> QED BY <1>11, <2>1 DEF JoinFirst, AfterFirst
<1>12. CASE JoinAudits
  BY <1>12, WorkerFacts DEF JoinAudits
<1>13. CASE JoinSecond
  BY <1>13 DEF JoinSecond, Waited
<1>14. CASE RollUp
  BY <1>14 DEF RollUp, Saves, Writer
<1>15. CASE Return
  <2>1. sweeping' \subseteq Worker \union {Tree}
    BY <1>15 DEF Return, Dismiss
  <2>2. /\ at' \in [Worker -> Holding \union Over \union {"started", "queued"}]
        /\ row' \in [Worker -> {"none", "queued", "running", "over"}]
        /\ out' \in [Worker -> {"none", "reply", "error"}] /\ spent' \in [Worker -> Nat]
    BY <1>15 DEF Return, Dismiss, Over
  <2>3. ledger' \in Nat /\ excused' \in Int /\ copy' \in [Writer -> Nat \union {Nothing}]
    BY <1>15, WorkerFacts DEF Return
  <2> QED BY <1>15, <2>1, <2>2, <2>3 DEF Return, Dismiss, AllModes
<1>16. CASE AgentFails
  <2>1. sweeping' \subseteq Worker \union {Tree}
    BY <1>16 DEF AgentFails, Dismiss
  <2>2. /\ at' \in [Worker -> Holding \union Over \union {"started", "queued"}]
        /\ row' \in [Worker -> {"none", "queued", "running", "over"}]
        /\ out' \in [Worker -> {"none", "reply", "error"}] /\ spent' \in [Worker -> Nat]
    BY <1>16 DEF AgentFails, Dismiss, Over
  <2>3. ledger' \in Nat /\ excused' \in Int /\ copy' \in [Writer -> Nat \union {Nothing}]
    BY <1>16, WorkerFacts DEF AgentFails, Writer
  <2> QED BY <1>16, <2>1, <2>2, <2>3 DEF AgentFails, Dismiss
<1>17. CASE AgentReads
  BY <1>17 DEF AgentReads
<1>18. CASE AgentSaves
  <2>1. sweeping' \subseteq Worker \union {Tree}
    BY <1>18 DEF AgentSaves, Dismiss
  <2>2. /\ at' \in [Worker -> Holding \union Over \union {"started", "queued"}]
        /\ row' \in [Worker -> {"none", "queued", "running", "over"}]
        /\ out' \in [Worker -> {"none", "reply", "error"}] /\ spent' \in [Worker -> Nat]
    BY <1>18 DEF AgentSaves, Dismiss, Over
  <2>3. ledger' \in Nat /\ excused' \in Int /\ copy' \in [Writer -> Nat \union {Nothing}]
    BY <1>18, WorkerFacts DEF AgentSaves, Saves, Writer
  <2> QED BY <1>18, <2>1, <2>2, <2>3 DEF AgentSaves, Dismiss
<1>19. CASE KillAll
  BY <1>19, HelpersAssumption DEF KillAll, Dooms
<1>20. ASSUME NEW x \in Worker \union {Tree}, Sweep(x)
      PROVE  TypeOK'
  BY <1>20 DEF Sweep, Swept, HasSession, Holding
<1>21. ASSUME NEW w \in Worker, Launch(w)
      PROVE  TypeOK'
  BY <1>21 DEF Launch
<1>22. ASSUME NEW w \in Worker, Register(w)
      PROVE  TypeOK'
  BY <1>22 DEF Register, Moves
<1>23. ASSUME NEW w \in Worker, TakeSlot(w)
      PROVE  TypeOK'
  BY <1>23 DEF TakeSlot, Moves, SetRow, HasSlot, Holding
<1>24. ASSUME NEW w \in Worker, GiveUp(w)
      PROVE  TypeOK'
  BY <1>24 DEF GiveUp, Moves, SetRow, Leaves, Over
<1>25. ASSUME NEW w \in Worker, CreateSession(w)
      PROVE  TypeOK'
  BY <1>25 DEF CreateSession, Moves, Holding
<1>26. ASSUME NEW w \in Worker, Spend(w)
      PROVE  TypeOK'
  BY <1>26 DEF Spend
<1>27. ASSUME NEW w \in Worker, Ask(w)
      PROVE  TypeOK'
  BY <1>27, HelpersAssumption DEF Ask, Moves, Holding
<1>28. ASSUME NEW w \in Worker, Answer(w)
      PROVE  TypeOK'
  BY <1>28 DEF Answer, Moves, Holding
<1>29. ASSUME NEW w \in Worker, Finish(w)
      PROVE  TypeOK'
  BY <1>29 DEF Finish, Moves, Holding
<1>30. ASSUME NEW w \in Worker, Settle(w)
      PROVE  TypeOK'
  BY <1>30 DEF Settle, Settled, Moves, SetRow, Leaves, Over
<1>31. ASSUME NEW w \in Worker, Kill(w)
      PROVE  TypeOK'
  BY <1>31, HelpersAssumption DEF Kill, Dooms
<1>32. ASSUME NEW w \in Worker, CancelHelper(w)
      PROVE  TypeOK'
  BY <1>32 DEF CancelHelper
<1>33. CASE UNCHANGED vars
  BY <1>33
<1> QED
  BY <1>1, <1>2, <1>3, <1>4, <1>5, <1>6, <1>7, <1>8, <1>9, <1>10, <1>11, <1>12, <1>13, <1>14,
    <1>15, <1>16, <1>17, <1>18, <1>19, <1>20, <1>21, <1>22, <1>23, <1>24, <1>25, <1>26, <1>27,
      <1>28, <1>29, <1>30, <1>31, <1>32, <1>33, StepCases

\* Phases: only the helpers a phase started are at work in it.
LEMMA PhaseStep ==
  ASSUME TypeOK, PhaseInv, [Next]_vars
  PROVE  PhaseInv'
<1> USE DEF TypeOK, PhaseInv, vars, run, kills, paid, books, past
<1>1. CASE NewTurn
  BY <1>1 DEF NewTurn
<1>2. CASE TrackReads
  BY <1>2 DEF TrackReads
<1>3. CASE TrackSaves
  BY <1>3 DEF TrackSaves, Saves
<1>4. CASE EndTurn
  BY <1>4 DEF EndTurn
<1>5. CASE Escape
  BY <1>5 DEF Escape
<1>6. ASSUME NEW w \in Writer, WriterReads(w) \/ WriterSaves(w) \/ WriterFails(w)
      PROVE  PhaseInv'
  BY <1>6 DEF WriterReads, WriterSaves, WriterFails, Saves, Charge
<1>7. CASE CallAgent
  BY <1>7, WorkerFacts DEF CallAgent, Charged
<1>8. ASSUME NEW m \in Mode, NEW L \in SUBSET (First \union Second), CallResearch(m, L)
      PROVE  PhaseInv'
  BY <1>8 DEF CallResearch, Charged
<1>9. CASE AskFleet
  BY <1>9, WorkerFacts DEF AskFleet
<1>10. CASE StopLaunching
  BY <1>10 DEF StopLaunching
<1>11. CASE JoinFirst
  <2>1. /\ pc = "first" /\ launching = {} /\ UNCHANGED at
        /\ \A w \in Worker : at[w] \in Over
    BY <1>11 DEF JoinFirst, AfterFirst, Waited
  <2>2. CASE mode = "supervised"
    <3>1. pc' = "audits" /\ launching' = {Audit(w) : w \in Replied}
      BY <1>11, <2>2 DEF JoinFirst, AfterFirst
    <3>2. {Audit(w) : w \in Replied} \subseteq Audits
      BY WorkerFacts DEF Replied
    <3> QED BY <2>1, <3>1, <3>2, WorkerFacts
  <2>3. CASE mode # "supervised"
    <3>1. pc' = "second" /\ launching' = Lanes(lanes \intersect Second)
      BY <1>11, <2>3 DEF JoinFirst, AfterFirst
    <3> QED BY <2>1, <3>1, WorkerFacts
  <2> QED BY <2>2, <2>3
<1>12. CASE JoinAudits
  BY <1>12, WorkerFacts DEF JoinAudits, Waited
<1>13. CASE JoinSecond
  BY <1>13 DEF JoinSecond, Waited
<1>14. CASE RollUp
  BY <1>14 DEF RollUp, Saves
<1>15. CASE Return
  BY <1>15 DEF Return, Dismiss
<1>16. CASE AgentFails
  BY <1>16 DEF AgentFails, Dismiss
<1>17. CASE AgentReads
  BY <1>17 DEF AgentReads
<1>18. CASE AgentSaves
  BY <1>18 DEF AgentSaves, Dismiss, Saves
<1>19. CASE KillAll
  BY <1>19 DEF KillAll, Dooms
<1>20. ASSUME NEW x \in Worker \union {Tree}, Sweep(x)
      PROVE  PhaseInv'
  BY <1>20, WorkerFacts DEF Sweep, Swept, HasSession, Over
<1>21. ASSUME NEW w \in Worker, Launch(w)
      PROVE  PhaseInv'
  BY <1>21, WorkerFacts DEF Launch
<1>22. ASSUME NEW w \in Worker, Register(w)
      PROVE  PhaseInv'
  BY <1>22 DEF Register, Moves, Over
<1>23. ASSUME NEW w \in Worker, TakeSlot(w)
      PROVE  PhaseInv'
  BY <1>23 DEF TakeSlot, Moves, SetRow, HasSlot, Over
<1>24. ASSUME NEW w \in Worker, GiveUp(w)
      PROVE  PhaseInv'
  BY <1>24 DEF GiveUp, Moves, SetRow, Leaves, Over
<1>25. ASSUME NEW w \in Worker, CreateSession(w)
      PROVE  PhaseInv'
  BY <1>25, WorkerFacts DEF CreateSession, Moves, Over
<1>26. ASSUME NEW w \in Worker, Spend(w)
      PROVE  PhaseInv'
  BY <1>26 DEF Spend
<1>27. ASSUME NEW w \in Worker, Ask(w)
      PROVE  PhaseInv'
  BY <1>27 DEF Ask, Moves, Over
<1>28. ASSUME NEW w \in Worker, Answer(w)
      PROVE  PhaseInv'
  BY <1>28, WorkerFacts DEF Answer, Moves, Over
<1>29. ASSUME NEW w \in Worker, Finish(w)
      PROVE  PhaseInv'
  BY <1>29, WorkerFacts DEF Finish, Moves, Over
<1>30. ASSUME NEW w \in Worker, Settle(w)
      PROVE  PhaseInv'
  BY <1>30 DEF Settle, Settled, Moves, SetRow, Leaves, Over
<1>31. ASSUME NEW w \in Worker, Kill(w)
      PROVE  PhaseInv'
  BY <1>31 DEF Kill, Dooms
<1>32. ASSUME NEW w \in Worker, CancelHelper(w)
      PROVE  PhaseInv'
  BY <1>32 DEF CancelHelper
<1>33. CASE UNCHANGED vars
  BY <1>33
<1> QED
  BY <1>1, <1>2, <1>3, <1>4, <1>5, <1>6, <1>7, <1>8, <1>9, <1>10, <1>11, <1>12, <1>13, <1>14,
    <1>15, <1>16, <1>17, <1>18, <1>19, <1>20, <1>21, <1>22, <1>23, <1>24, <1>25, <1>26, <1>27,
      <1>28, <1>29, <1>30, <1>31, <1>32, <1>33, StepCases

\* Stages: only a helper with a session spends, only one that is there is cancelled.
LEMMA StageStep ==
  ASSUME TypeOK, PhaseInv, StageInv, [Next]_vars
  PROVE  StageInv'
<1> USE DEF TypeOK, StageInv, vars, run, kills, paid, books, past
<1>1. CASE NewTurn
  BY <1>1 DEF NewTurn, PhaseInv
<1>2. CASE TrackReads
  BY <1>2 DEF TrackReads, PhaseInv
<1>3. CASE TrackSaves
  BY <1>3 DEF TrackSaves, Saves, PhaseInv
<1>4. CASE EndTurn
  BY <1>4 DEF EndTurn, PhaseInv
<1>5. CASE Escape
  BY <1>5 DEF Escape, Asleep, Cut
<1>6. ASSUME NEW w \in Writer, WriterReads(w) \/ WriterSaves(w) \/ WriterFails(w)
      PROVE  StageInv'
  BY <1>6 DEF WriterReads, WriterSaves, WriterFails, Saves, Charge, Cut
<1>7. CASE CallAgent
  BY <1>7 DEF CallAgent, Charged, Asleep, PhaseInv
<1>8. ASSUME NEW m \in Mode, NEW L \in SUBSET (First \union Second), CallResearch(m, L)
      PROVE  StageInv'
  BY <1>8 DEF CallResearch, Charged, PhaseInv
<1>9. CASE AskFleet
  BY <1>9 DEF AskFleet, PhaseInv
<1>10. CASE StopLaunching
  BY <1>10 DEF StopLaunching, Cut
<1>11. CASE JoinFirst
  BY <1>11 DEF JoinFirst, AfterFirst, Waited, Cut
<1>12. CASE JoinAudits
  BY <1>12 DEF JoinAudits, Waited, Cut
<1>13. CASE JoinSecond
  BY <1>13 DEF JoinSecond, Waited, Cut
<1>14. CASE RollUp
  BY <1>14 DEF RollUp, Saves, Cut
<1>15. CASE Return
  BY <1>15 DEF Return, Dismiss
<1>16. CASE AgentFails
  BY <1>16 DEF AgentFails, Dismiss
<1>17. CASE AgentReads
  BY <1>17 DEF AgentReads, Cut
<1>18. CASE AgentSaves
  BY <1>18 DEF AgentSaves, Dismiss, Saves
<1>19. CASE KillAll
  BY <1>19 DEF KillAll, Dooms, Cut
<1>20. ASSUME NEW x \in Worker \union {Tree}, Sweep(x)
      PROVE  StageInv'
  BY <1>20 DEF Sweep, Swept, HasSession, Holding, Asleep, Alive, Cut
<1>21. ASSUME NEW w \in Worker, Launch(w)
      PROVE  StageInv'
  BY <1>21 DEF Launch, Asleep, Cut, PhaseInv
<1>22. ASSUME NEW w \in Worker, Register(w)
      PROVE  StageInv'
  BY <1>22 DEF Register, Moves, Asleep, Cut
<1>23. ASSUME NEW w \in Worker, TakeSlot(w)
      PROVE  StageInv'
  BY <1>23 DEF TakeSlot, Moves, SetRow, HasSlot, Holding, Asleep, Alive, Cut
<1>24. ASSUME NEW w \in Worker, GiveUp(w)
      PROVE  StageInv'
  BY <1>24 DEF GiveUp, Moves, SetRow, Leaves, Asleep, Cut
<1>25. ASSUME NEW w \in Worker, CreateSession(w)
      PROVE  StageInv'
  BY <1>25 DEF CreateSession, Moves, Holding, Asleep, Alive, Cut
<1>26. ASSUME NEW w \in Worker, Spend(w)
      PROVE  StageInv'
  BY <1>26 DEF Spend, Asleep, Cut
<1>27. ASSUME NEW w \in Worker, Ask(w)
      PROVE  StageInv'
  BY <1>27 DEF Ask, Moves, Holding, Asleep, Alive, Cut
<1>28. ASSUME NEW w \in Worker, Answer(w)
      PROVE  StageInv'
  BY <1>28 DEF Answer, Moves, Holding, Asleep, Alive, Cut
<1>29. ASSUME NEW w \in Worker, Finish(w)
      PROVE  StageInv'
  BY <1>29 DEF Finish, Moves, Holding, Asleep, Alive, Cut
<1>30. ASSUME NEW w \in Worker, Settle(w)
      PROVE  StageInv'
  BY <1>30 DEF Settle, Settled, Moves, SetRow, Leaves, Asleep, Cut
<1>31. ASSUME NEW w \in Worker, Kill(w)
      PROVE  StageInv'
  BY <1>31 DEF Kill, Dooms, Cut
<1>32. ASSUME NEW w \in Worker, CancelHelper(w)
      PROVE  StageInv'
  BY <1>32 DEF CancelHelper, Over, Asleep, Alive, Cut
<1>33. CASE UNCHANGED vars
  BY <1>33 DEF Cut
<1> QED
  BY <1>1, <1>2, <1>3, <1>4, <1>5, <1>6, <1>7, <1>8, <1>9, <1>10, <1>11, <1>12, <1>13, <1>14,
    <1>15, <1>16, <1>17, <1>18, <1>19, <1>20, <1>21, <1>22, <1>23, <1>24, <1>25, <1>26, <1>27,
      <1>28, <1>29, <1>30, <1>31, <1>32, <1>33, StepCases

\* Rows: each follows its goroutine until it is taken out.
LEMMA RowStep ==
  ASSUME TypeOK, PhaseInv, StageInv, RowInv, [Next]_vars
  PROVE  RowInv'
<1> USE DEF TypeOK, RowInv, vars, run, kills, paid, books, past
<1>1. CASE NewTurn
  BY <1>1 DEF NewTurn
<1>2. CASE TrackReads
  BY <1>2 DEF TrackReads
<1>3. CASE TrackSaves
  BY <1>3 DEF TrackSaves, Saves
<1>4. CASE EndTurn
  BY <1>4 DEF EndTurn
<1>5. CASE Escape
  BY <1>5 DEF Escape
<1>6. ASSUME NEW w \in Writer, WriterReads(w) \/ WriterSaves(w) \/ WriterFails(w)
      PROVE  RowInv'
  BY <1>6 DEF WriterReads, WriterSaves, WriterFails, Saves, Charge
<1>7. CASE CallAgent
  BY <1>7 DEF CallAgent, Charged, Holding, Asleep, StageInv, PhaseInv
<1>8. ASSUME NEW m \in Mode, NEW L \in SUBSET (First \union Second), CallResearch(m, L)
      PROVE  RowInv'
  BY <1>8 DEF CallResearch, Charged
<1>9. CASE AskFleet
  BY <1>9 DEF AskFleet
<1>10. CASE StopLaunching
  BY <1>10 DEF StopLaunching
<1>11. CASE JoinFirst
  BY <1>11 DEF JoinFirst, AfterFirst, Waited
<1>12. CASE JoinAudits
  BY <1>12 DEF JoinAudits, Waited
<1>13. CASE JoinSecond
  BY <1>13 DEF JoinSecond, Waited
<1>14. CASE RollUp
  BY <1>14 DEF RollUp, Saves
<1>15. CASE Return
  BY <1>15 DEF Return, Dismiss, Holding, Alive
<1>16. CASE AgentFails
  BY <1>16 DEF AgentFails, Dismiss, Holding, Alive
<1>17. CASE AgentReads
  BY <1>17 DEF AgentReads
<1>18. CASE AgentSaves
  BY <1>18 DEF AgentSaves, Dismiss, Saves, Holding, Alive
<1>19. CASE KillAll
  BY <1>19 DEF KillAll, Dooms
<1>20. ASSUME NEW x \in Worker \union {Tree}, Sweep(x)
      PROVE  RowInv'
  BY <1>20 DEF Sweep, Swept, HasSession, Holding, Alive
<1>21. ASSUME NEW w \in Worker, Launch(w)
      PROVE  RowInv'
  BY <1>21 DEF Launch, Holding, Alive, PhaseInv
<1>22. ASSUME NEW w \in Worker, Register(w)
      PROVE  RowInv'
  BY <1>22 DEF Register, Moves, Asleep, StageInv
<1>23. ASSUME NEW w \in Worker, TakeSlot(w)
      PROVE  RowInv'
  BY <1>23 DEF TakeSlot, Moves, SetRow, HasSlot, Holding, Alive
<1>24. ASSUME NEW w \in Worker, GiveUp(w)
      PROVE  RowInv'
  BY <1>24 DEF GiveUp, Moves, SetRow, Leaves, Holding, Alive
<1>25. ASSUME NEW w \in Worker, CreateSession(w)
      PROVE  RowInv'
  BY <1>25 DEF CreateSession, Moves, Holding, Alive
<1>26. ASSUME NEW w \in Worker, Spend(w)
      PROVE  RowInv'
  BY <1>26 DEF Spend
<1>27. ASSUME NEW w \in Worker, Ask(w)
      PROVE  RowInv'
  BY <1>27 DEF Ask, Moves, Holding, Alive
<1>28. ASSUME NEW w \in Worker, Answer(w)
      PROVE  RowInv'
  BY <1>28 DEF Answer, Moves, Holding, Alive
<1>29. ASSUME NEW w \in Worker, Finish(w)
      PROVE  RowInv'
  BY <1>29 DEF Finish, Moves, Holding, Alive
<1>30. ASSUME NEW w \in Worker, Settle(w)
      PROVE  RowInv'
  BY <1>30 DEF Settle, Settled, Moves, SetRow, Leaves, Holding, Alive
<1>31. ASSUME NEW w \in Worker, Kill(w)
      PROVE  RowInv'
  BY <1>31 DEF Kill, Dooms
<1>32. ASSUME NEW w \in Worker, CancelHelper(w)
      PROVE  RowInv'
  BY <1>32 DEF CancelHelper, Holding, Alive
<1>33. CASE UNCHANGED vars
  BY <1>33
<1> QED
  BY <1>1, <1>2, <1>3, <1>4, <1>5, <1>6, <1>7, <1>8, <1>9, <1>10, <1>11, <1>12, <1>13, <1>14,
    <1>15, <1>16, <1>17, <1>18, <1>19, <1>20, <1>21, <1>22, <1>23, <1>24, <1>25, <1>26, <1>27,
      <1>28, <1>29, <1>30, <1>31, <1>32, <1>33, StepCases

\* Places: taken out of the queue, and by nobody else.
LEMMA SlotsKept ==
  ASSUME TypeOK, PhaseInv, [Next]_vars
  PROVE  SlotKept
<1> USE DEF TypeOK, SlotKept, vars, run, kills, paid, books, past
<1>1. CASE NewTurn
  BY <1>1 DEF NewTurn, Waves
<1>2. CASE TrackReads
  BY <1>2 DEF TrackReads, Waves
<1>3. CASE TrackSaves
  BY <1>3 DEF TrackSaves, Saves, Waves
<1>4. CASE EndTurn
  BY <1>4 DEF EndTurn, Waves
<1>5. CASE Escape
  BY <1>5 DEF Escape, Holders
<1>6. ASSUME NEW w \in Writer, WriterReads(w) \/ WriterSaves(w) \/ WriterFails(w)
      PROVE  SlotKept
  BY <1>6 DEF WriterReads, WriterSaves, WriterFails, Saves, Charge, Holders
<1>7. CASE CallAgent
  BY <1>7 DEF CallAgent, Charged, Waves
<1>8. ASSUME NEW m \in Mode, NEW L \in SUBSET (First \union Second), CallResearch(m, L)
      PROVE  SlotKept
  BY <1>8 DEF CallResearch, Charged, Waves
<1>9. CASE AskFleet
  BY <1>9 DEF AskFleet
<1>10. CASE StopLaunching
  BY <1>10 DEF StopLaunching, Holders
<1>11. CASE JoinFirst
  BY <1>11 DEF JoinFirst, AfterFirst, Waited, Waves, Holders
<1>12. CASE JoinAudits
  BY <1>12 DEF JoinAudits, Waited, Waves, Holders
<1>13. CASE JoinSecond
  BY <1>13 DEF JoinSecond, Waited, Waves
<1>14. CASE RollUp
  BY <1>14 DEF RollUp, Saves, Waves
<1>15. CASE Return
  BY <1>15 DEF Return, Dismiss, Waves
<1>16. CASE AgentFails
  BY <1>16 DEF AgentFails, Dismiss, Waves
<1>17. CASE AgentReads
  BY <1>17 DEF AgentReads, Waves
<1>18. CASE AgentSaves
  BY <1>18 DEF AgentSaves, Dismiss, Saves, Waves
<1>19. CASE KillAll
  BY <1>19 DEF KillAll, Dooms, Holders
<1>20. ASSUME NEW x \in Worker \union {Tree}, Sweep(x)
      PROVE  SlotKept
  BY <1>20 DEF Sweep, Swept, HasSession, Over, Holders
<1>21. ASSUME NEW w \in Worker, Launch(w)
      PROVE  SlotKept
  BY <1>21 DEF Launch, Holding, Holders
<1>22. ASSUME NEW w \in Worker, Register(w)
      PROVE  SlotKept
  BY <1>22 DEF Register, Moves, Holding, Holders
<1>23. ASSUME NEW w \in Worker, TakeSlot(w)
      PROVE  SlotKept
  BY <1>23 DEF TakeSlot, Moves, SetRow, HasSlot
<1>24. ASSUME NEW w \in Worker, GiveUp(w)
      PROVE  SlotKept
  BY <1>24 DEF GiveUp, Moves, SetRow, Leaves, Holding, Holders
<1>25. ASSUME NEW w \in Worker, CreateSession(w)
      PROVE  SlotKept
  BY <1>25 DEF CreateSession, Moves, Over, Holders
<1>26. ASSUME NEW w \in Worker, Spend(w)
      PROVE  SlotKept
  BY <1>26 DEF Spend, Holders
<1>27. ASSUME NEW w \in Worker, Ask(w)
      PROVE  SlotKept
  BY <1>27 DEF Ask, Moves, Over, Holders
<1>28. ASSUME NEW w \in Worker, Answer(w)
      PROVE  SlotKept
  BY <1>28 DEF Answer, Moves, Over, Holders
<1>29. ASSUME NEW w \in Worker, Finish(w)
      PROVE  SlotKept
  BY <1>29 DEF Finish, Moves, Over, Holders
<1>30. ASSUME NEW w \in Worker, Settle(w)
      PROVE  SlotKept
  BY <1>30 DEF Settle, Settled, Moves, SetRow, Leaves, Over, Holders
<1>31. ASSUME NEW w \in Worker, Kill(w)
      PROVE  SlotKept
  BY <1>31 DEF Kill, Dooms, Holders
<1>32. ASSUME NEW w \in Worker, CancelHelper(w)
      PROVE  SlotKept
  BY <1>32 DEF CancelHelper, Holders
<1>33. CASE UNCHANGED vars
  BY <1>33 DEF Holders
<1> QED
  BY <1>1, <1>2, <1>3, <1>4, <1>5, <1>6, <1>7, <1>8, <1>9, <1>10, <1>11, <1>12, <1>13, <1>14,
    <1>15, <1>16, <1>17, <1>18, <1>19, <1>20, <1>21, <1>22, <1>23, <1>24, <1>25, <1>26, <1>27,
      <1>28, <1>29, <1>30, <1>31, <1>32, <1>33, StepCases

\* Audits: the supervisors are chosen from the replies, and none is left out.
LEMMA AuditStep ==
  ASSUME TypeOK, PhaseInv, StageInv, AuditInv, [Next]_vars
  PROVE  AuditInv'
<1> USE DEF TypeOK, AuditInv, EveryReplyAudited, vars, run, kills, paid, books, past
<1>1. CASE NewTurn
  BY <1>1 DEF NewTurn
<1>2. CASE TrackReads
  BY <1>2 DEF TrackReads
<1>3. CASE TrackSaves
  BY <1>3 DEF TrackSaves, Saves
<1>4. CASE EndTurn
  BY <1>4 DEF EndTurn
<1>5. CASE Escape
  BY <1>5 DEF Escape, Replied
<1>6. ASSUME NEW w \in Writer, WriterReads(w) \/ WriterSaves(w) \/ WriterFails(w)
      PROVE  AuditInv'
  BY <1>6 DEF WriterReads, WriterSaves, WriterFails, Saves, Charge, Replied
<1>7. CASE CallAgent
  BY <1>7 DEF CallAgent, Charged
<1>8. ASSUME NEW m \in Mode, NEW L \in SUBSET (First \union Second), CallResearch(m, L)
      PROVE  AuditInv'
  BY <1>8 DEF CallResearch, Charged
<1>9. CASE AskFleet
  BY <1>9 DEF AskFleet
<1>10. CASE StopLaunching
  BY <1>10 DEF StopLaunching, Replied
<1>11. CASE JoinFirst
  BY <1>11 DEF JoinFirst, AfterFirst, Waited, Replied
<1>12. CASE JoinAudits
  BY <1>12, WorkerFacts DEF JoinAudits, Waited, Over, Replied, StageInv
<1>13. CASE JoinSecond
  BY <1>13 DEF JoinSecond, Waited, Replied
<1>14. CASE RollUp
  BY <1>14 DEF RollUp, Saves, Replied
<1>15. CASE Return
  BY <1>15 DEF Return, Dismiss
<1>16. CASE AgentFails
  BY <1>16 DEF AgentFails, Dismiss
<1>17. CASE AgentReads
  BY <1>17 DEF AgentReads
<1>18. CASE AgentSaves
  BY <1>18 DEF AgentSaves, Dismiss, Saves
<1>19. CASE KillAll
  BY <1>19 DEF KillAll, Dooms, Replied
<1>20. ASSUME NEW x \in Worker \union {Tree}, Sweep(x)
      PROVE  AuditInv'
  BY <1>20, WorkerFacts DEF Sweep, Swept, HasSession, Replied
<1>21. ASSUME NEW w \in Worker, Launch(w)
      PROVE  AuditInv'
  BY <1>21 DEF Launch, Replied, PhaseInv
<1>22. ASSUME NEW w \in Worker, Register(w)
      PROVE  AuditInv'
  BY <1>22 DEF Register, Moves, Replied
<1>23. ASSUME NEW w \in Worker, TakeSlot(w)
      PROVE  AuditInv'
  BY <1>23 DEF TakeSlot, Moves, SetRow, HasSlot, Replied
<1>24. ASSUME NEW w \in Worker, GiveUp(w)
      PROVE  AuditInv'
  BY <1>24 DEF GiveUp, Moves, SetRow, Leaves, Replied
<1>25. ASSUME NEW w \in Worker, CreateSession(w)
      PROVE  AuditInv'
  BY <1>25, WorkerFacts DEF CreateSession, Moves, Replied
<1>26. ASSUME NEW w \in Worker, Spend(w)
      PROVE  AuditInv'
  BY <1>26 DEF Spend, Replied
<1>27. ASSUME NEW w \in Worker, Ask(w)
      PROVE  AuditInv'
  BY <1>27 DEF Ask, Moves, Replied
<1>28. ASSUME NEW w \in Worker, Answer(w)
      PROVE  AuditInv'
  BY <1>28, WorkerFacts DEF Answer, Moves, Replied
<1>29. ASSUME NEW w \in Worker, Finish(w)
      PROVE  AuditInv'
  BY <1>29, WorkerFacts DEF Finish, Moves, Over, Replied, PhaseInv
<1>30. ASSUME NEW w \in Worker, Settle(w)
      PROVE  AuditInv'
  BY <1>30 DEF Settle, Settled, Moves, SetRow, Leaves, Replied
<1>31. ASSUME NEW w \in Worker, Kill(w)
      PROVE  AuditInv'
  BY <1>31 DEF Kill, Dooms, Replied
<1>32. ASSUME NEW w \in Worker, CancelHelper(w)
      PROVE  AuditInv'
  BY <1>32 DEF CancelHelper, Replied
<1>33. CASE UNCHANGED vars
  BY <1>33 DEF Replied
<1> QED
  BY <1>1, <1>2, <1>3, <1>4, <1>5, <1>6, <1>7, <1>8, <1>9, <1>10, <1>11, <1>12, <1>13, <1>14,
    <1>15, <1>16, <1>17, <1>18, <1>19, <1>20, <1>21, <1>22, <1>23, <1>24, <1>25, <1>26, <1>27,
      <1>28, <1>29, <1>30, <1>31, <1>32, <1>33, StepCases

\* Questions: whatever cancels a helper has its sweep still to do.
LEMMA CancelStep ==
  ASSUME TypeOK, CancelledNotParked, [Next]_vars
  PROVE  CancelledNotParked'
<1> USE DEF TypeOK, CancelledNotParked, vars, run, kills, paid, books, past
<1>1. CASE NewTurn
  BY <1>1 DEF NewTurn
<1>2. CASE TrackReads
  BY <1>2 DEF TrackReads
<1>3. CASE TrackSaves
  BY <1>3 DEF TrackSaves, Saves
<1>4. CASE EndTurn
  BY <1>4 DEF EndTurn
<1>5. CASE Escape
  BY <1>5 DEF Escape
<1>6. ASSUME NEW w \in Writer, WriterReads(w) \/ WriterSaves(w) \/ WriterFails(w)
      PROVE  CancelledNotParked'
  BY <1>6 DEF WriterReads, WriterSaves, WriterFails, Saves, Charge
<1>7. CASE CallAgent
  BY <1>7 DEF CallAgent, Charged
<1>8. ASSUME NEW m \in Mode, NEW L \in SUBSET (First \union Second), CallResearch(m, L)
      PROVE  CancelledNotParked'
  BY <1>8 DEF CallResearch, Charged
<1>9. CASE AskFleet
  BY <1>9 DEF AskFleet
<1>10. CASE StopLaunching
  BY <1>10 DEF StopLaunching
<1>11. CASE JoinFirst
  BY <1>11 DEF JoinFirst, AfterFirst, Waited
<1>12. CASE JoinAudits
  BY <1>12 DEF JoinAudits, Waited
<1>13. CASE JoinSecond
  BY <1>13 DEF JoinSecond, Waited
<1>14. CASE RollUp
  BY <1>14 DEF RollUp, Saves
<1>15. CASE Return
  BY <1>15 DEF Return, Dismiss
<1>16. CASE AgentFails
  BY <1>16 DEF AgentFails, Dismiss
<1>17. CASE AgentReads
  BY <1>17 DEF AgentReads
<1>18. CASE AgentSaves
  BY <1>18 DEF AgentSaves, Dismiss, Saves
<1>19. CASE KillAll
  BY <1>19 DEF KillAll, Dooms
<1>20. ASSUME NEW x \in Worker \union {Tree}, Sweep(x)
      PROVE  CancelledNotParked'
  BY <1>20 DEF Sweep, Swept, HasSession
<1>21. ASSUME NEW w \in Worker, Launch(w)
      PROVE  CancelledNotParked'
  BY <1>21 DEF Launch
<1>22. ASSUME NEW w \in Worker, Register(w)
      PROVE  CancelledNotParked'
  BY <1>22 DEF Register, Moves
<1>23. ASSUME NEW w \in Worker, TakeSlot(w)
      PROVE  CancelledNotParked'
  BY <1>23 DEF TakeSlot, Moves, SetRow, HasSlot
<1>24. ASSUME NEW w \in Worker, GiveUp(w)
      PROVE  CancelledNotParked'
  BY <1>24 DEF GiveUp, Moves, SetRow, Leaves
<1>25. ASSUME NEW w \in Worker, CreateSession(w)
      PROVE  CancelledNotParked'
  BY <1>25 DEF CreateSession, Moves
<1>26. ASSUME NEW w \in Worker, Spend(w)
      PROVE  CancelledNotParked'
  BY <1>26 DEF Spend
<1>27. ASSUME NEW w \in Worker, Ask(w)
      PROVE  CancelledNotParked'
  BY <1>27 DEF Ask, Moves
<1>28. ASSUME NEW w \in Worker, Answer(w)
      PROVE  CancelledNotParked'
  BY <1>28 DEF Answer, Moves
<1>29. ASSUME NEW w \in Worker, Finish(w)
      PROVE  CancelledNotParked'
  BY <1>29 DEF Finish, Moves
<1>30. ASSUME NEW w \in Worker, Settle(w)
      PROVE  CancelledNotParked'
  BY <1>30 DEF Settle, Settled, Moves, SetRow, Leaves
<1>31. ASSUME NEW w \in Worker, Kill(w)
      PROVE  CancelledNotParked'
  BY <1>31 DEF Kill, Dooms
<1>32. ASSUME NEW w \in Worker, CancelHelper(w)
      PROVE  CancelledNotParked'
  BY <1>32 DEF CancelHelper
<1>33. CASE UNCHANGED vars
  BY <1>33
<1> QED
  BY <1>1, <1>2, <1>3, <1>4, <1>5, <1>6, <1>7, <1>8, <1>9, <1>10, <1>11, <1>12, <1>13, <1>14,
    <1>15, <1>16, <1>17, <1>18, <1>19, <1>20, <1>21, <1>22, <1>23, <1>24, <1>25, <1>26, <1>27,
      <1>28, <1>29, <1>30, <1>31, <1>32, <1>33, StepCases

\* Books: between the read and the save the copy is held.
LEMMA CopyStep ==
  ASSUME TypeOK, CopyInv, [Next]_vars
  PROVE  CopyInv'
<1> USE DEF TypeOK, CopyInv, vars, run, kills, paid, books, past
<1>1. CASE NewTurn
  BY <1>1 DEF NewTurn
<1>2. CASE TrackReads
  BY <1>2 DEF TrackReads, Writer, Nothing
<1>3. CASE TrackSaves
  BY <1>3 DEF TrackSaves, Saves
<1>4. CASE EndTurn
  BY <1>4 DEF EndTurn
<1>5. CASE Escape
  BY <1>5 DEF Escape
<1>6. ASSUME NEW w \in Writer, WriterReads(w) \/ WriterSaves(w) \/ WriterFails(w)
      PROVE  CopyInv'
  BY <1>6 DEF WriterReads, WriterSaves, WriterFails, Saves, Charge, Writer, Turn
<1>7. CASE CallAgent
  BY <1>7 DEF CallAgent, Charged
<1>8. ASSUME NEW m \in Mode, NEW L \in SUBSET (First \union Second), CallResearch(m, L)
      PROVE  CopyInv'
  BY <1>8 DEF CallResearch, Charged
<1>9. CASE AskFleet
  BY <1>9 DEF AskFleet
<1>10. CASE StopLaunching
  BY <1>10 DEF StopLaunching
<1>11. CASE JoinFirst
  BY <1>11 DEF JoinFirst, AfterFirst, Waited
<1>12. CASE JoinAudits
  BY <1>12 DEF JoinAudits, Waited
<1>13. CASE JoinSecond
  BY <1>13 DEF JoinSecond, Waited, Writer, Nothing
<1>14. CASE RollUp
  BY <1>14 DEF RollUp, Saves
<1>15. CASE Return
  BY <1>15 DEF Return, Dismiss
<1>16. CASE AgentFails
  BY <1>16 DEF AgentFails, Dismiss
<1>17. CASE AgentReads
  BY <1>17 DEF AgentReads, Writer, Nothing
<1>18. CASE AgentSaves
  BY <1>18 DEF AgentSaves, Dismiss, Saves
<1>19. CASE KillAll
  BY <1>19 DEF KillAll, Dooms
<1>20. ASSUME NEW x \in Worker \union {Tree}, Sweep(x)
      PROVE  CopyInv'
  BY <1>20 DEF Sweep, Swept, HasSession
<1>21. ASSUME NEW w \in Worker, Launch(w)
      PROVE  CopyInv'
  BY <1>21 DEF Launch
<1>22. ASSUME NEW w \in Worker, Register(w)
      PROVE  CopyInv'
  BY <1>22 DEF Register, Moves
<1>23. ASSUME NEW w \in Worker, TakeSlot(w)
      PROVE  CopyInv'
  BY <1>23 DEF TakeSlot, Moves, SetRow, HasSlot
<1>24. ASSUME NEW w \in Worker, GiveUp(w)
      PROVE  CopyInv'
  BY <1>24 DEF GiveUp, Moves, SetRow, Leaves
<1>25. ASSUME NEW w \in Worker, CreateSession(w)
      PROVE  CopyInv'
  BY <1>25 DEF CreateSession, Moves
<1>26. ASSUME NEW w \in Worker, Spend(w)
      PROVE  CopyInv'
  BY <1>26 DEF Spend
<1>27. ASSUME NEW w \in Worker, Ask(w)
      PROVE  CopyInv'
  BY <1>27 DEF Ask, Moves
<1>28. ASSUME NEW w \in Worker, Answer(w)
      PROVE  CopyInv'
  BY <1>28 DEF Answer, Moves
<1>29. ASSUME NEW w \in Worker, Finish(w)
      PROVE  CopyInv'
  BY <1>29 DEF Finish, Moves
<1>30. ASSUME NEW w \in Worker, Settle(w)
      PROVE  CopyInv'
  BY <1>30 DEF Settle, Settled, Moves, SetRow, Leaves
<1>31. ASSUME NEW w \in Worker, Kill(w)
      PROVE  CopyInv'
  BY <1>31 DEF Kill, Dooms
<1>32. ASSUME NEW w \in Worker, CancelHelper(w)
      PROVE  CopyInv'
  BY <1>32 DEF CancelHelper
<1>33. CASE UNCHANGED vars
  BY <1>33
<1> QED
  BY <1>1, <1>2, <1>3, <1>4, <1>5, <1>6, <1>7, <1>8, <1>9, <1>10, <1>11, <1>12, <1>13, <1>14,
    <1>15, <1>16, <1>17, <1>18, <1>19, <1>20, <1>21, <1>22, <1>23, <1>24, <1>25, <1>26, <1>27,
      <1>28, <1>29, <1>30, <1>31, <1>32, <1>33, StepCases

\* So there are never more at work than there are places.
LEMMA SlotStep ==
  ASSUME TypeOK, PhaseInv, SlotInv, [Next]_vars
  PROVE  SlotInv'
<1> SUFFICES ASSUME pc' \in Waves
             PROVE  (Cardinality(Holders) <= Slots)'
  BY DEF SlotInv
<1>1. IsFiniteSet(Holders)
  BY FiniteWorkers, FS_Subset DEF Holders
<1>2. Slots \in Nat \ {0}
  BY HelpersAssumption DEF Slots, HelpersAssumption
<1>3. CASE AskFleet
  <2>1. Holders' = {}
    BY <1>3 DEF AskFleet, PhaseInv, Holders, Holding
  <2>2. Slots' \in Nat \ {0}
    BY HelpersAssumption DEF Slots, HelpersAssumption
  <2> QED BY <2>1, <2>2, FS_EmptySet
<1>4. ASSUME NEW w \in Worker, TakeSlot(w)
      PROVE  (Cardinality(Holders) <= Slots)'
  <2>1. Holders' = Holders \union {w} /\ w \notin Holders
    BY <1>4 DEF TakeSlot, Moves, Holders, Holding, TypeOK
  <2>2. Cardinality(Holders) < Slots
    BY <1>4 DEF TakeSlot, HasSlot, Holders
  <2>3. Cardinality(Holders') = Cardinality(Holders) + 1 /\ Cardinality(Holders) \in Nat
    BY <1>1, <2>1, FS_AddElement, FS_CardinalityType
  <2>4. Slots' = Slots
    BY <1>4 DEF TakeSlot, run, Slots
  <2> QED BY <1>2, <2>2, <2>3, <2>4
<1>5. CASE pc \in Waves /\ mode' = mode /\ Holders' \subseteq Holders
  <2>1. Cardinality(Holders') <= Cardinality(Holders) /\ Cardinality(Holders') \in Nat
    BY <1>1, <1>5, FS_Subset, FS_CardinalityType
  <2>2. Slots' = Slots /\ Cardinality(Holders) <= Slots /\ Cardinality(Holders) \in Nat
    BY <1>1, <1>5, FS_CardinalityType DEF Slots, SlotInv
  <2> QED BY <1>2, <2>1, <2>2
<1> QED
  BY <1>3, <1>4, <1>5, SlotsKept DEF SlotKept

-----------------------------------------------------------------------------
(* The invariant, and what follows from it. *)

IInv ==
  /\ TypeOK /\ PhaseInv /\ StageInv /\ RowInv /\ SlotInv /\ AuditInv /\ CopyInv
  /\ CancelledNotParked

\* The first state satisfies it.
LEMMA InitInv == Init => IInv
<1> SUFFICES ASSUME Init
             PROVE  IInv
  OBVIOUS
<1>1. TypeOK
  <2>1. /\ at \in [Worker -> Holding \union Over \union {"started", "queued"}]
        /\ row \in [Worker -> {"none", "queued", "running", "over"}]
        /\ out \in [Worker -> {"none", "reply", "error"}] /\ spent \in [Worker -> Nat]
    BY DEF Init, Over
  <2>2. copy \in [Writer -> Nat \union {Nothing}]
    BY DEF Init
  <2>3. count \in [turn : 0..MaxTurn, call : 0..MaxCall, kill : 0..MaxKill, ask : 0..MaxAsk,
                   writer : 0..MaxWriter]
    <3>1. /\ 0 \in 0..MaxTurn /\ 0 \in 0..MaxCall /\ 0 \in 0..MaxKill /\ 0 \in 0..MaxAsk
          /\ 0 \in 0..MaxWriter
      BY HelpersAssumption DEF HelpersAssumption
    <3> QED BY <3>1 DEF Init
  <2>4. /\ pc = "idle" /\ mode \in AllModes /\ lanes = {} /\ launching = {} /\ dead \in BOOLEAN
        /\ doomed = {} /\ killed = {} /\ sweeping = {} /\ late = {} /\ early = {}
        /\ reported = 0 /\ ledger = 0 /\ total = 0 /\ excused = 0
    BY DEF Init, AllModes
  <2> QED BY <2>1, <2>2, <2>3, <2>4 DEF TypeOK
<1> QED
  BY <1>1 DEF Init, IInv, PhaseInv, StageInv, RowInv, SlotInv, Waves, AuditInv,
    EveryReplyAudited, CopyInv, CancelledNotParked, Asleep, Alive, Holding

\* Every reachable state satisfies it.
THEOREM Invariance == Spec => []IInv
<1>1. IInv /\ [Next]_vars => IInv'
  BY TypeStep, PhaseStep, StageStep, RowStep, SlotStep, AuditStep, CopyStep, CancelStep DEF IInv
<1> QED
  BY <1>1, InitInv, PTL DEF Spec

\* The model's variables keep their types: a copy is saved only if it was read.
THEOREM Typing == Spec => []TypeOK
<1>1. IInv => TypeOK
  BY DEF IInv
<1> QED
  BY <1>1, Invariance, PTL

\* A wave's results are read when all its goroutines are through.
THEOREM NobodyBehind == Spec => []NobodyWritesBehind
<1>1. IInv => NobodyWritesBehind
  BY WorkerFacts DEF IInv, TypeOK, PhaseInv, NobodyWritesBehind, Over
<1> QED
  BY <1>1, Invariance, PTL

\* Every blind reply of a supervised run is audited, or the lack of an audit noted.
THEOREM RepliesAudited == Spec => []EveryReplyAudited
<1>1. IInv => EveryReplyAudited
  BY DEF IInv, AuditInv
<1> QED
  BY <1>1, Invariance, PTL

\* A helper cancelled before it had a session costs nothing.
THEOREM EarlyCutFree == Spec => []EarlyCutSpendsNothing
<1>1. IInv => EarlyCutSpendsNothing
  BY DEF IInv, TypeOK, StageInv, EarlyCutSpendsNothing
<1> QED
  BY <1>1, Invariance, PTL

\* A cancelled helper waits for a person only over a question it asked after the sweep.
THEOREM NoneLeftWaiting == Spec => []CancelledNotParked
<1>1. IInv => CancelledNotParked
  BY DEF IInv
<1> QED
  BY <1>1, Invariance, PTL

\* The registry says what the goroutines do, and no more of them run than there are slots.
THEOREM RegistryTruthful == Spec => []RowsTruthful
<1>1. ASSUME IInv
      PROVE  RowsTruthful
  <2> DEFINE Running == {w \in Worker : row[w] = "running"}
  <2>1. pc \in Waves => Cardinality(Running) <= Slots
    <3>1. Running \subseteq Holders
      BY <1>1 DEF IInv, RowInv, Holders
    <3>2. IsFiniteSet(Holders)
      BY FiniteWorkers, FS_Subset DEF Holders
    <3>3. /\ Cardinality(Running) <= Cardinality(Holders)
          /\ Cardinality(Running) \in Nat /\ Cardinality(Holders) \in Nat
      BY <3>1, <3>2, FS_Subset, FS_CardinalityType
    <3>4. Slots \in Nat
      BY HelpersAssumption DEF Slots, HelpersAssumption
    <3> QED BY <1>1, <3>3, <3>4 DEF IInv, SlotInv
  <2>2. ~InCall => \A w \in Worker : row[w] = "none"
    BY <1>1 DEF IInv, PhaseInv, StageInv, InCall, Asleep
  <2> QED BY <1>1, <2>1, <2>2 DEF IInv, RowInv, RowsTruthful, Waves, Alive
<1> QED
  BY <1>1, Invariance, PTL

-----------------------------------------------------------------------------
(* The books.  What the helpers still owe a report of is a set with one      *)
(* member for each request, so that it can be counted.                       *)

Owed == {x \in Worker \X Nat : x[2] \in 1..spent[x[1]]}

\* Paid, not owed by a helper, and not in the row nor excused: the turn's own request
\* whose usage is read but not yet saved, a compaction's, and what the helpers of the
\* call reported before the roll-up saved it.
Pending  == IF pc = "tracking" THEN 1 ELSE 0
Carried  == IF pc = "report" THEN 0 ELSE reported
Unbooked == total - (ledger + excused + Unsaved + Pending + Carried)

\* Only a call's helpers report, and one that is not at work owes nothing.
SpentInv ==
  /\ pc \notin Waves \union {"rollup", "report"} => reported = 0
  /\ \A w \in Worker : at[w] \in Over => spent[w] = 0

BookInv == SpentInv /\ IsFiniteSet(Owed) /\ Cardinality(Owed) = Unbooked

OwesOtherwise ==
  \/ Return \/ AgentFails \/ AgentSaves
  \/ \E w \in Worker : Spend(w) \/ Settle(w)

\* Whoever stops working owes nothing any more.
LEMMA SpentStep ==
  ASSUME TypeOK, PhaseInv, StageInv, SpentInv, [Next]_vars
  PROVE  SpentInv'
<1> USE DEF TypeOK, PhaseInv, StageInv, SpentInv, Waves, vars, run, kills, paid, books, past
<1>1. CASE NewTurn
  BY <1>1 DEF NewTurn
<1>2. CASE TrackReads
  BY <1>2 DEF TrackReads
<1>3. CASE TrackSaves
  BY <1>3 DEF TrackSaves, Saves
<1>4. CASE EndTurn
  BY <1>4 DEF EndTurn
<1>5. CASE Escape
  BY <1>5 DEF Escape
<1>6. ASSUME NEW w \in Writer, WriterReads(w) \/ WriterSaves(w) \/ WriterFails(w)
      PROVE  SpentInv'
  BY <1>6 DEF WriterReads, WriterSaves, WriterFails, Saves, Charge
<1>7. CASE CallAgent
  BY <1>7 DEF CallAgent, Charged, Over
<1>8. ASSUME NEW m \in Mode, NEW L \in SUBSET (First \union Second), CallResearch(m, L)
      PROVE  SpentInv'
  BY <1>8 DEF CallResearch, Charged
<1>9. CASE AskFleet
  BY <1>9 DEF AskFleet
<1>10. CASE StopLaunching
  BY <1>10 DEF StopLaunching
<1>11. CASE JoinFirst
  BY <1>11 DEF JoinFirst, AfterFirst, Waited
<1>12. CASE JoinAudits
  BY <1>12 DEF JoinAudits, Waited
<1>13. CASE JoinSecond
  BY <1>13 DEF JoinSecond, Waited
<1>14. CASE RollUp
  BY <1>14 DEF RollUp, Saves
<1>15. CASE Return
  BY <1>15 DEF Return, Dismiss
<1>16. CASE AgentFails
  BY <1>16 DEF AgentFails, Dismiss
<1>17. CASE AgentReads
  BY <1>17 DEF AgentReads
<1>18. CASE AgentSaves
  BY <1>18 DEF AgentSaves, Dismiss, Saves
<1>19. CASE KillAll
  BY <1>19 DEF KillAll, Dooms
<1>20. ASSUME NEW x \in Worker \union {Tree}, Sweep(x)
      PROVE  SpentInv'
  BY <1>20, WorkerFacts DEF Sweep, Swept, HasSession, Over
<1>21. ASSUME NEW w \in Worker, Launch(w)
      PROVE  SpentInv'
  BY <1>21 DEF Launch, Over
<1>22. ASSUME NEW w \in Worker, Register(w)
      PROVE  SpentInv'
  BY <1>22 DEF Register, Moves, Over
<1>23. ASSUME NEW w \in Worker, TakeSlot(w)
      PROVE  SpentInv'
  BY <1>23 DEF TakeSlot, Moves, SetRow, HasSlot, Over
<1>24. ASSUME NEW w \in Worker, GiveUp(w)
      PROVE  SpentInv'
  BY <1>24 DEF GiveUp, Moves, SetRow, Leaves, Over
<1>25. ASSUME NEW w \in Worker, CreateSession(w)
      PROVE  SpentInv'
  BY <1>25 DEF CreateSession, Moves, Over
<1>26. ASSUME NEW w \in Worker, Spend(w)
      PROVE  SpentInv'
  BY <1>26 DEF Spend, Over
<1>27. ASSUME NEW w \in Worker, Ask(w)
      PROVE  SpentInv'
  BY <1>27 DEF Ask, Moves, Over
<1>28. ASSUME NEW w \in Worker, Answer(w)
      PROVE  SpentInv'
  BY <1>28 DEF Answer, Moves, Over
<1>29. ASSUME NEW w \in Worker, Finish(w)
      PROVE  SpentInv'
  BY <1>29 DEF Finish, Moves, Over
<1>30. ASSUME NEW w \in Worker, Settle(w)
      PROVE  SpentInv'
  BY <1>30 DEF Settle, Settled, Moves, SetRow, Leaves, Over
<1>31. ASSUME NEW w \in Worker, Kill(w)
      PROVE  SpentInv'
  BY <1>31 DEF Kill, Dooms
<1>32. ASSUME NEW w \in Worker, CancelHelper(w)
      PROVE  SpentInv'
  BY <1>32 DEF CancelHelper
<1>33. CASE UNCHANGED vars
  BY <1>33
<1> QED
  BY <1>1, <1>2, <1>3, <1>4, <1>5, <1>6, <1>7, <1>8, <1>9, <1>10, <1>11, <1>12, <1>13, <1>14,
    <1>15, <1>16, <1>17, <1>18, <1>19, <1>20, <1>21, <1>22, <1>23, <1>24, <1>25, <1>26, <1>27,
      <1>28, <1>29, <1>30, <1>31, <1>32, <1>33, StepCases

\* Every other step leaves what the helpers owe and what is not booked as they were: what
\* a writer overwrites is excused by as much.
LEMMA BooksBalance ==
  ASSUME TypeOK, SpentInv, CopyInv, [Next]_vars, ~OwesOtherwise
  PROVE  UNCHANGED <<spent, Unbooked>>
<1> USE DEF TypeOK, CopyInv, SpentInv, Waves, Unbooked, Pending, Carried, Unsaved, Charge,
        Nothing, Turn, vars, run, kills, paid, books, past
<1>1. CASE NewTurn
  BY <1>1 DEF NewTurn
<1>2. CASE TrackReads
  BY <1>2 DEF TrackReads, Writer
<1>3. CASE TrackSaves
  BY <1>3 DEF TrackSaves, Saves, Writer
<1>4. CASE EndTurn
  BY <1>4 DEF EndTurn, Writer
<1>5. CASE Escape
  BY <1>5 DEF Escape
<1>6. ASSUME NEW w \in Writer, WriterReads(w) \/ WriterSaves(w) \/ WriterFails(w)
      PROVE  UNCHANGED <<spent, Unbooked>>
  BY <1>6 DEF WriterReads, WriterSaves, WriterFails, Saves, Charge, Writer
<1>7. CASE CallAgent
  BY <1>7 DEF CallAgent, Charged
<1>8. ASSUME NEW m \in Mode, NEW L \in SUBSET (First \union Second), CallResearch(m, L)
      PROVE  UNCHANGED <<spent, Unbooked>>
  BY <1>8 DEF CallResearch, Charged
<1>9. CASE AskFleet
  BY <1>9 DEF AskFleet
<1>10. CASE StopLaunching
  BY <1>10 DEF StopLaunching
<1>11. CASE JoinFirst
  BY <1>11 DEF JoinFirst, AfterFirst, Waited
<1>12. CASE JoinAudits
  BY <1>12 DEF JoinAudits, Waited
<1>13. CASE JoinSecond
  BY <1>13 DEF JoinSecond, Waited, Writer
<1>14. CASE RollUp
  BY <1>14 DEF RollUp, Saves, Writer
<1>17. CASE AgentReads
  BY <1>17 DEF AgentReads, Writer
<1>19. CASE KillAll
  BY <1>19 DEF KillAll, Dooms
<1>20. ASSUME NEW x \in Worker \union {Tree}, Sweep(x)
      PROVE  UNCHANGED <<spent, Unbooked>>
  BY <1>20 DEF Sweep, Swept, HasSession
<1>21. ASSUME NEW w \in Worker, Launch(w)
      PROVE  UNCHANGED <<spent, Unbooked>>
  BY <1>21 DEF Launch
<1>22. ASSUME NEW w \in Worker, Register(w)
      PROVE  UNCHANGED <<spent, Unbooked>>
  BY <1>22 DEF Register, Moves
<1>23. ASSUME NEW w \in Worker, TakeSlot(w)
      PROVE  UNCHANGED <<spent, Unbooked>>
  BY <1>23 DEF TakeSlot, Moves, SetRow, HasSlot
<1>24. ASSUME NEW w \in Worker, GiveUp(w)
      PROVE  UNCHANGED <<spent, Unbooked>>
  BY <1>24 DEF GiveUp, Moves, SetRow, Leaves
<1>25. ASSUME NEW w \in Worker, CreateSession(w)
      PROVE  UNCHANGED <<spent, Unbooked>>
  BY <1>25 DEF CreateSession, Moves
<1>27. ASSUME NEW w \in Worker, Ask(w)
      PROVE  UNCHANGED <<spent, Unbooked>>
  BY <1>27 DEF Ask, Moves
<1>28. ASSUME NEW w \in Worker, Answer(w)
      PROVE  UNCHANGED <<spent, Unbooked>>
  BY <1>28 DEF Answer, Moves
<1>29. ASSUME NEW w \in Worker, Finish(w)
      PROVE  UNCHANGED <<spent, Unbooked>>
  BY <1>29 DEF Finish, Moves
<1>31. ASSUME NEW w \in Worker, Kill(w)
      PROVE  UNCHANGED <<spent, Unbooked>>
  BY <1>31 DEF Kill, Dooms
<1>32. ASSUME NEW w \in Worker, CancelHelper(w)
      PROVE  UNCHANGED <<spent, Unbooked>>
  BY <1>32 DEF CancelHelper
<1>33. CASE UNCHANGED vars
  BY <1>33
<1> QED
  BY <1>1, <1>2, <1>3, <1>4, <1>5, <1>6, <1>7, <1>8, <1>9, <1>10, <1>11, <1>12, <1>13, <1>14,
    <1>17, <1>19, <1>20, <1>21, <1>22, <1>23, <1>24, <1>25, <1>27, <1>28, <1>29, <1>31, <1>32,
      <1>33, StepCases DEF OwesOtherwise

\* The requests of one helper are as many as it spent.
LEMMA ColumnSize ==
  ASSUME NEW w, NEW n \in Nat
  PROVE  IsFiniteSet({w} \X (1..n)) /\ Cardinality({w} \X (1..n)) = n
<1>1. IsFiniteSet({w}) /\ Cardinality({w}) = 1
  BY FS_Singleton
<1>2. IsFiniteSet(1..n) /\ Cardinality(1..n) = n
  BY FS_Interval
<1>3. /\ IsFiniteSet({w} \X (1..n))
      /\ Cardinality({w} \X (1..n)) = Cardinality({w}) * Cardinality(1..n)
  BY <1>1, <1>2, FS_Product
<1> QED
  BY <1>1, <1>2, <1>3

\* A helper that settles takes its own requests out of what is owed, and no others.
LEMMA OwedLess ==
  ASSUME TypeOK, IsFiniteSet(Owed), NEW w \in Worker,
         spent' = [spent EXCEPT ![w] = 0]
  PROVE  IsFiniteSet(Owed') /\ Cardinality(Owed') = Cardinality(Owed) - spent[w]
<1> DEFINE mine == {w} \X (1..spent[w])
<1>1. spent[w] \in Nat
  BY DEF TypeOK
<1>2. IsFiniteSet(mine) /\ Cardinality(mine) = spent[w]
  BY <1>1, ColumnSize
<1>3. mine \subseteq Owed
  BY <1>1 DEF Owed
<1>4. Owed' = Owed \ mine
  <2>1. \A x \in Worker \X Nat : x \in Owed' <=> x \in Owed /\ x \notin mine
    <3>1. \A v \in Worker, k \in Nat :
            (k \in 1..spent'[v]) <=> (k \in 1..spent[v] /\ <<v, k>> \notin mine)
      BY <1>1 DEF TypeOK
    <3>2. \A x \in Worker \X Nat : x = <<x[1], x[2]>> /\ x[1] \in Worker /\ x[2] \in Nat
      OBVIOUS
    <3> QED BY <3>1, <3>2 DEF Owed
  <2> QED BY <2>1 DEF Owed
<1>5. Owed \intersect mine = mine
  BY <1>3
<1> HIDE DEF mine
<1> QED
  BY <1>2, <1>4, <1>5, FS_Difference

\* A helper that pays owes one request more.
LEMMA OwedMore ==
  ASSUME TypeOK, IsFiniteSet(Owed), NEW w \in Worker,
         spent' = [spent EXCEPT ![w] = @ + 1]
  PROVE  IsFiniteSet(Owed') /\ Cardinality(Owed') = Cardinality(Owed) + 1
<1> DEFINE one == <<w, spent[w] + 1>>
<1>1. spent[w] \in Nat /\ one \in Worker \X Nat
  BY DEF TypeOK
<1>2. one \notin Owed
  BY <1>1 DEF Owed
<1>3. Owed' = Owed \union {one}
  <2>1. \A x \in Worker \X Nat : x \in Owed' <=> x \in Owed \/ x = one
    <3>1. \A v \in Worker, k \in Nat :
            (k \in 1..spent'[v]) <=> (k \in 1..spent[v] \/ <<v, k>> = one)
      BY <1>1 DEF TypeOK
    <3>2. \A x \in Worker \X Nat : x = <<x[1], x[2]>> /\ x[1] \in Worker /\ x[2] \in Nat
      OBVIOUS
    <3> QED BY <3>1, <3>2 DEF Owed
  <2> QED BY <1>1, <2>1 DEF Owed
<1> HIDE DEF one
<1> QED
  BY <1>2, <1>3, FS_AddElement

\* Nobody owes anything once the helpers of a call are dismissed.
LEMMA OwedNone ==
  ASSUME \A w \in Worker : spent[w] = 0
  PROVE  Owed = {}
BY DEF Owed

\* What the helpers owe is what is paid and not booked, and every step keeps it so: a
\* report moves a helper's requests to the call, the roll-up or the agent tool saves them,
\* a cancelled helper's are excused.
LEMMA BookStep ==
  ASSUME TypeOK, PhaseInv, StageInv, CopyInv, BookInv, TypeOK', SpentInv', [Next]_vars
  PROVE  BookInv'
<1> USE DEF BookInv
<1>0. Cardinality(Owed) \in Nat
  BY FS_CardinalityType
<1>1. ASSUME NEW w \in Worker, Spend(w)
      PROVE  BookInv'
  <2>1. spent' = [spent EXCEPT ![w] = @ + 1]
    BY <1>1 DEF Spend
  <2>2. IsFiniteSet(Owed') /\ Cardinality(Owed') = Cardinality(Owed) + 1
    BY <2>1, OwedMore
  <2>3. Unbooked' = Unbooked + 1
    BY <1>1 DEF Spend, TypeOK, Unbooked, Pending, Carried, Unsaved, Charge, run, books
  <2> QED BY <2>2, <2>3
<1>2. ASSUME NEW w \in Worker, Settle(w)
      PROVE  BookInv'
  <2>1. spent' = [spent EXCEPT ![w] = 0] /\ spent[w] \in Nat
    BY <1>2 DEF Settle, Settled, TypeOK
  <2>2. IsFiniteSet(Owed') /\ Cardinality(Owed') = Cardinality(Owed) - spent[w]
    BY <2>1, OwedLess
  <2>3. pc # "report"
    BY <1>2 DEF Settle, Settled, Moves, PhaseInv, Over
  <2>4. Unbooked' = Unbooked - spent[w]
    BY <1>2, <2>1, <2>3 DEF Settle, Settled, TypeOK, Unbooked, Pending, Carried, Unsaved, Charge,
       run, books
  <2> QED BY <2>2, <2>4
<1>3. CASE Return \/ AgentFails \/ AgentSaves
  <2>1. \A w \in Worker : spent'[w] = 0
    BY <1>3 DEF Return, AgentFails, AgentSaves, Dismiss
  <2>2. Owed' = {}
    BY <2>1 DEF Owed
  <2>3. Unbooked' = 0
    <3>1. CASE Return
      <4>1. Owed = {}
        BY <3>1, OwedNone DEF Return, PhaseInv, SpentInv
      <4>2. Unbooked = 0
        BY <4>1, FS_EmptySet
      <4> QED BY <3>1, <4>2 DEF Return, Dismiss, TypeOK, Unbooked, Pending, Carried, Unsaved,
              Charge, books
    <3>2. CASE AgentFails \/ AgentSaves
      <4>1. pc \in {"solo", "soloSave"} /\ reported = 0 /\ spent[Solo] \in Nat
        BY <3>2, WorkerFacts DEF AgentFails, AgentSaves, SpentInv, Waves, TypeOK
      <4>2. Owed = {Solo} \X (1..spent[Solo])
        <5>1. \A w \in Worker \ {Solo} : spent[w] = 0
          BY <4>1 DEF PhaseInv, SpentInv, Over
        <5>2. \A x \in Worker \X Nat : x = <<x[1], x[2]>> /\ x[1] \in Worker /\ x[2] \in Nat
          OBVIOUS
        <5>3. \A x \in Owed : x[1] = Solo /\ x[2] \in 1..spent[Solo] /\ x = <<x[1], x[2]>>
          BY <5>1, <5>2 DEF Owed
        <5>4. Owed \subseteq {Solo} \X (1..spent[Solo])
          BY <5>3
        <5>5. {Solo} \X (1..spent[Solo]) \subseteq Owed
          BY <4>1, WorkerFacts DEF Owed
        <5> QED BY <5>4, <5>5
      <4>3. Unbooked = spent[Solo]
        BY <4>1, <4>2, ColumnSize
      <4>4. CASE AgentFails
        BY <4>1, <4>3, <4>4 DEF AgentFails, Dismiss, TypeOK, Unbooked, Pending, Carried, Unsaved,
           Charge, Writer, Turn
      <4>5. CASE AgentSaves
        BY <4>1, <4>3, <4>5 DEF AgentSaves, Saves, Dismiss, TypeOK, CopyInv, Unbooked, Pending,
           Carried, Unsaved, Charge, Writer, Turn, Nothing
      <4> QED BY <3>2, <4>4, <4>5
    <3> QED BY <1>3, <3>1, <3>2
  <2> QED BY <2>2, <2>3, FS_EmptySet
<1>4. CASE ~OwesOtherwise
  <2>1. UNCHANGED <<spent, Unbooked>>
    BY <1>4, BooksBalance
  <2>2. Owed' = Owed
    BY <2>1 DEF Owed
  <2> QED BY <2>1, <2>2
<1> QED
  BY <1>1, <1>2, <1>3, <1>4 DEF OwesOtherwise

\* Between tool calls the session row holds all that was paid, except what is excused.
THEOREM AllBilled == Spec => []AllSpendBilled
<1>1. Init => BookInv
  <2> SUFFICES ASSUME Init
               PROVE  BookInv
    OBVIOUS
  <2>1. Owed = {}
    BY OwedNone DEF Init
  <2>2. Unbooked = 0
    BY DEF Init, Unbooked, Pending, Carried, Unsaved, Writer
  <2>3. SpentInv
    BY DEF Init, SpentInv
  <2> QED BY <2>1, <2>2, <2>3, FS_EmptySet DEF BookInv
<1>2. IInv /\ IInv' /\ BookInv /\ [Next]_vars => BookInv'
  BY SpentStep, BookStep DEF IInv, BookInv
<1>3. IInv /\ BookInv => AllSpendBilled
  <2> SUFFICES ASSUME IInv, BookInv, ~InCall, pc # "tracking"
               PROVE  ledger + Unsaved + excused = total
    BY DEF AllSpendBilled
  <2>1. Owed = {}
    BY OwedNone DEF IInv, PhaseInv, BookInv, SpentInv, InCall, TypeOK, Over
  <2>2. Unbooked = 0 /\ reported = 0
    BY <2>1, FS_EmptySet DEF BookInv, SpentInv, InCall, Waves
  <2> QED BY <2>2 DEF IInv, TypeOK, Unbooked, Pending, Carried, Unsaved, Charge, InCall
<1> QED
  BY <1>1, <1>2, <1>3, Invariance, PTL DEF Spec
=============================================================================
