--------------------------- MODULE AgentRunProofs ---------------------------
(* Proofs about AgentRun, for every set of sessions, turns and compactions. *)
EXTENDS AgentRun, TLAPS

\* Every turn that has begun is somebody's turn.
Placed == \A t \in Turn : pc[t] # "idle" => of[t] \in Session

\* A remembered rebuild is counted before it is done.
Counted == applied <= deferred /\ (pendingRebuild => applied + 1 <= deferred)

\* What the front end made agrees with the configuration while it is saved and set.
Agreed == ui \in {"save", "set"} => uiMade.model = model

\* Until a rebuild crosses a switch: what a turn is about to set was made from the model
\* configured now, no turn is about to set anything while a switch is saved, and but for a
\* write that failed the provider is the configured one, or the one before it while a
\* switch is under way.
Uncrossed ==
  ~crossed =>
    /\ \A t \in Turn : pc[t] = "setting" => made[t].model = model /\ ui # "save"
    /\ ~unsaved /\ ui \notin {"save", "set"} => prov.model = model
    /\ ~unsaved /\ ui = "save" => prov.model = model - 1

Honest == Agreed /\ Uncrossed

\* A switch under way has room below the bound, and room to be taken back.
Room == /\ ui = "build" => model < MaxModel
        /\ ui = "commit" => uiMade.model = model + 1
        /\ ui = "save" => model > 0

\* Two compactions at work in one session have met.
Meetings ==
  \A j, k \in Compaction :
    j # k /\ cpc[j] = "running" /\ cpc[k] = "running" /\ cof[j] = cof[k] => k \in met

\* Every compaction at work is somebody's.
Lodged == \A k \in Compaction : cpc[k] # "idle" => cof[k] \in Session

ListInv == Lodged /\ Meetings /\ CompactionIsListed

IInv == TypeOK /\ Room /\ Placed /\ EntryIsTheTurn /\ Counted /\ Honest /\ ListInv

USE AgentAssumption

\* Initially the invariant holds.
LEMMA InitInv == Init => IInv
<1> SUFFICES ASSUME Init PROVE IInv
  OBVIOUS
<1>1. First \in Version
  BY DEF First, Version
<1>2. /\ 0 \in 0..MaxLoadout /\ 0 \in 0..MaxModel
      /\ [t \in Turn |-> First] \in [Turn -> Version]
      /\ [t \in Turn |-> "idle"] \in [Turn -> {"idle", "over"} \cup Holding \cup Draining]
  BY <1>1
<1>3. TypeOK
  BY <1>1, <1>2 DEF Init, TypeOK
<1>4. Room /\ Placed /\ Counted /\ Honest /\ ListInv
  <2>1. Room /\ Placed /\ Counted /\ Honest
    BY DEF Init, Room, Placed, Counted, Honest, Agreed, Uncrossed, First
  <2>2. Lodged /\ Meetings /\ CompactionIsListed
    BY DEF Init, Lodged, Meetings, CompactionIsListed
  <2> QED BY <2>1, <2>2 DEF ListInv
<1>5. EntryIsTheTurn
  BY DEF Init, EntryIsTheTurn, Holding
<1> QED
  BY <1>3, <1>4, <1>5 DEF IInv

\* Every step keeps the variables in their types.
LEMMA TypeStep == TypeOK /\ Room /\ [Next]_vars => TypeOK'
<1> SUFFICES ASSUME TypeOK, Room, [Next]_vars PROVE TypeOK'
  OBVIOUS
<1> USE DEF TypeOK, Holding, Draining
<1>1. CASE UNCHANGED vars
  BY <1>1 DEF vars, table, turns, sums, front, rebuild, slips
<1>2. ASSUME NEW t \in Turn, NEW s \in Session, Claim(t, s) PROVE TypeOK'
  BY <1>2 DEF Claim, sums, front, rebuild, slips
<1>3. ASSUME NEW t \in Turn, Start(t) \/ Finish(t) \/ Panic(t) PROVE TypeOK'
  BY <1>3 DEF Start, Finish, Panic, table, sums, front, rebuild, slips
<1>4. ASSUME NEW t \in Turn, DrainLook(t) \/ PeerLook(t) \/ PeerTell(t) PROVE TypeOK'
  BY <1>4 DEF DrainLook, PeerLook, PeerTell, table, sums, front, rebuild, slips
<1>5. Stored \in Version
  BY DEF Stored, Version
<1>6. ASSUME NEW t \in Turn, DrainSwap(t) \/ DrainMake(t) \/ DrainSet(t) PROVE TypeOK'
  <2>1. CASE DrainSwap(t)
    <3>1. applied' \in Nat
      BY <2>1 DEF DrainSwap
    <3>2. pc' \in [Turn -> {"idle", "over"} \cup Holding \cup Draining]
      <4>1. pc' = [pc EXCEPT ![t] = "making"] \/ pc' = [pc EXCEPT ![t] = "drained"]
        BY <2>1, Zenon DEF DrainSwap
      <4> QED
        BY <4>1
    <3> QED
      BY <2>1, <3>1, <3>2 DEF DrainSwap, table, sums, front, slips
  <2>2. CASE DrainMake(t)
    <3>1. pc' \in [Turn -> {"idle", "over"} \cup Holding \cup Draining]
      BY <2>2 DEF DrainMake
    <3>2. made' \in [Turn -> Version]
      BY <1>5, <2>2 DEF DrainMake
    <3>3. crossed' \in BOOLEAN
      BY <2>2 DEF DrainMake
    <3> QED
      BY <2>2, <3>1, <3>2, <3>3 DEF DrainMake, table, sums, front, rebuild
  <2>3. CASE DrainSet(t)
    BY <2>3 DEF DrainSet, table, sums, front, slips
  <2> QED
    BY <1>6, <2>1, <2>2, <2>3
<1>7. ASSUME NEW s \in Session, Cancel(s) PROVE TypeOK'
  BY <1>7 DEF Cancel, turns, sums, front, rebuild, slips
<1>8. ASSUME NEW k \in Compaction,
             \/ \E s \in Session : SummarizeLook(k, s)
             \/ SummarizeStore(k) \/ SummarizeEnd(k)
      PROVE  TypeOK'
  BY <1>8 DEF SummarizeLook, SummarizeStore, SummarizeEnd, Beside, table, turns, front, rebuild,
              slips
<1>9. CASE Toggle \/ RebuildLook \/ Defer \/ RebuildMake
  <2>1. CASE Toggle
    BY <2>1 DEF Toggle, table, turns, sums, rebuild, slips
  <2>2. CASE RebuildLook
    BY <2>2 DEF RebuildLook, table, turns, sums, rebuild, slips
  <2>3. CASE Defer
    BY <2>3 DEF Defer, table, turns, sums, slips
  <2>4. CASE RebuildMake
    BY <1>5, <2>4 DEF RebuildMake, table, turns, sums, rebuild, slips
  <2> QED
    BY <1>9, <2>1, <2>2, <2>3, <2>4
<1>10. CASE UpdateBuild
  <2>1. [Stored EXCEPT !.model = model + 1] \in Version
    BY <1>10 DEF UpdateBuild, Stored, Version, Room
  <2> QED
    BY <1>10, <2>1 DEF UpdateBuild, table, turns, sums, rebuild, slips
<1>11. CASE UpdateLook \/ UpdateSave
  BY <1>11 DEF UpdateLook, UpdateSave, table, turns, sums, rebuild, slips
<1>12. CASE UpdateCommit
  BY <1>12 DEF UpdateCommit, Version, table, turns, sums, rebuild
<1>13. CASE UpdateFail
  <2>1. model' \in 0..MaxModel /\ unsaved' \in BOOLEAN
    <3>1. CASE ui # "save" /\ UNCHANGED <<model, unsaved>>
      BY <3>1
    <3>2. CASE ui = "save" /\ model' = model - 1 /\ UNCHANGED unsaved
      BY <3>2 DEF Room
    <3>3. CASE ui = "save" /\ unsaved' = TRUE /\ UNCHANGED model
      BY <3>3
    <3> QED BY <1>13, <3>1, <3>2, <3>3 DEF UpdateFail
  <2> QED
    BY <1>13, <2>1 DEF UpdateFail, table, turns, sums, rebuild
<1>14. CASE SetProv
  BY <1>14 DEF SetProv, table, turns, sums
<1> QED
  BY <1>1, <1>2, <1>3, <1>4, <1>6, <1>7, <1>8, <1>9, <1>10, <1>11, <1>12, <1>13, <1>14
  DEF Next, WindUp, FrontEnd, Compact

-----------------------------------------------------------------------------
(* The table. *)

\* What a step that leaves the table alone does to the turns: none begins and
\* none stops holding its session.
Unmoved ==
  /\ active' = active /\ of' = of
  /\ \A t \in Turn : /\ pc'[t] = "idle" <=> pc[t] = "idle"
                     /\ pc'[t] \in Holding <=> pc[t] \in Holding

\* Every step but a claim and the end of a turn is such a step.
LEMMA OnlyClaimAndFinishMove ==
  ASSUME TypeOK, [Next]_vars
  PROVE  \/ \E t \in Turn, s \in Session : Claim(t, s)
         \/ \E t \in Turn : Finish(t)
         \/ Unmoved
<1> USE DEF TypeOK
<1>1. CASE UNCHANGED vars
  BY <1>1 DEF vars, table, turns, Unmoved
<1>2. ASSUME NEW t \in Turn, Start(t) \/ Panic(t) PROVE Unmoved
  BY <1>2 DEF Start, Panic, Unmoved, Holding, table
<1>3. ASSUME NEW t \in Turn,
             DrainLook(t) \/ DrainMake(t) \/ DrainSet(t) \/ PeerLook(t) \/ PeerTell(t)
      PROVE  Unmoved
  BY <1>3 DEF DrainLook, DrainMake, DrainSet, PeerLook, PeerTell, Unmoved, Holding, table
<1>4. ASSUME NEW t \in Turn, DrainSwap(t) PROVE Unmoved
  <2>1. pc' = [pc EXCEPT ![t] = "making"] \/ pc' = [pc EXCEPT ![t] = "drained"]
    BY <1>4, Zenon DEF DrainSwap
  <2> QED
    BY <1>4, <2>1 DEF DrainSwap, Unmoved, Holding, table
<1>5. ASSUME NEW s \in Session, Cancel(s) PROVE Unmoved
  BY <1>5 DEF Cancel, turns, Unmoved
<1>6. ASSUME NEW k \in Compaction,
             \/ \E s \in Session : SummarizeLook(k, s)
             \/ SummarizeStore(k) \/ SummarizeEnd(k)
      PROVE  Unmoved
  BY <1>6 DEF SummarizeLook, SummarizeStore, SummarizeEnd, table, turns, Unmoved
<1>7. CASE FrontEnd
  BY <1>7 DEF FrontEnd, Toggle, RebuildLook, Defer, RebuildMake, UpdateLook, UpdateBuild,
              UpdateCommit, UpdateSave, UpdateFail, SetProv, table, turns, Unmoved
<1> QED
  BY <1>1, <1>2, <1>3, <1>4, <1>5, <1>6, <1>7 DEF Next, WindUp, Compact

\* Each step keeps the table and the turns in agreement.
LEMMA EntryStep ==
  ASSUME TypeOK, Placed, EntryIsTheTurn, [Next]_vars
  PROVE  Placed' /\ EntryIsTheTurn'
<1> USE DEF TypeOK
<1>1. ASSUME NEW t \in Turn, NEW s \in Session, Claim(t, s) PROVE Placed' /\ EntryIsTheTurn'
  <2>1. /\ pc'[t] = "claimed" /\ of'[t] = s
        /\ \A u \in Turn \ {t} : pc'[u] = pc[u] /\ of'[u] = of[u]
        /\ active[s] = NoTurn /\ active'[s] = t
        /\ \A r \in Session \ {s} : active'[r] = active[r]
        /\ pc[t] = "idle"
    BY <1>1 DEF Claim
  <2> QED
    BY <2>1 DEF Placed, EntryIsTheTurn, Holding
<1>2. ASSUME NEW t \in Turn, Finish(t) PROVE Placed' /\ EntryIsTheTurn'
  <2>1. pc[t] = "working" /\ of[t] \in Session
    BY <1>2 DEF Finish, Placed
  <2>2. active[of[t]] = t
    BY <2>1 DEF EntryIsTheTurn, Holding
  <2>3. /\ pc'[t] = "removed" /\ of' = of
        /\ \A u \in Turn \ {t} : pc'[u] = pc[u]
        /\ active'[of[t]] = NoTurn
        /\ \A r \in Session \ {of[t]} : active'[r] = active[r]
    BY <1>2, <2>1, <2>2 DEF Finish, turns
  <2> QED
    BY <2>1, <2>2, <2>3 DEF Placed, EntryIsTheTurn, Holding
<1>3. CASE Unmoved
  BY <1>3 DEF Unmoved, Placed, EntryIsTheTurn
<1> QED
  BY <1>1, <1>2, <1>3, OnlyClaimAndFinishMove

\* Each step is a step of the lock, or none of it.
LEMMA LockStep ==
  ASSUME TypeOK, Placed, EntryIsTheTurn, [Next]_vars
  PROVE  [Lock!LockNext]_<<active, [t \in Turn |-> LockPhase(t)]>>
<1> USE DEF TypeOK, LockPhase
<1> DEFINE Ph == [t \in Turn |-> LockPhase(t)]
<1>1. ASSUME NEW t \in Turn, NEW s \in Session, Claim(t, s) PROVE Lock!Acquire(t, s)
  <2>1. /\ Ph[t] = "new" /\ active[s] = NoTurn
        /\ active' = [active EXCEPT ![s] = t]
    BY <1>1 DEF Claim
  <2>2. Ph' = [Ph EXCEPT ![t] = "holding"]
    BY <1>1 DEF Claim, Holding
  <2> QED
    BY <2>1, <2>2 DEF Lock!Acquire
<1>2. ASSUME NEW t \in Turn, Finish(t) PROVE \E s \in Session : Lock!Release(t, s)
  <2>1. pc[t] = "working" /\ of[t] \in Session
    BY <1>2 DEF Finish, Placed
  <2>2. active[of[t]] = t /\ Ph[t] = "holding"
    BY <2>1 DEF EntryIsTheTurn, Holding
  <2>3. active' = [active EXCEPT ![of[t]] = NoTurn]
    BY <1>2, <2>1, <2>2 DEF Finish
  <2>4. Ph' = [Ph EXCEPT ![t] = "left"]
    BY <1>2 DEF Finish, Holding
  <2> QED
    BY <2>1, <2>2, <2>3, <2>4 DEF Lock!Release
<1>3. CASE Unmoved
  <2>1. Ph' = Ph
    BY <1>3 DEF Unmoved
  <2> QED BY <1>3, <2>1 DEF Unmoved
<1> QED
  BY <1>1, <1>2, <1>3, OnlyClaimAndFinishMove DEF Lock!LockNext

-----------------------------------------------------------------------------
(* The rebuilds and the switches. *)

\* A rebuild is counted when it is remembered, and again only by the one that
\* turns the flag off.
LEMMA CountedStep == TypeOK /\ Counted /\ [Next]_vars => Counted'
<1> SUFFICES ASSUME TypeOK, Counted, [Next]_vars PROVE Counted'
  OBVIOUS
<1> USE DEF TypeOK, Counted
<1>1. CASE UNCHANGED rebuild
  BY <1>1 DEF rebuild
<1>2. ASSUME NEW t \in Turn, DrainSwap(t) PROVE Counted'
  <2>1. CASE pendingRebuild = TRUE
    BY <1>2, <2>1 DEF DrainSwap
  <2>2. CASE pendingRebuild = FALSE
    BY <1>2, <2>2 DEF DrainSwap
  <2> QED
    BY <2>1, <2>2
<1>3. ASSUME NEW t \in Turn, DrainSet(t) PROVE Counted'
  BY <1>3 DEF DrainSet
<1>4. CASE Defer
  BY <1>4 DEF Defer
<1>5. CASE SetProv
  BY <1>5 DEF SetProv
<1>6. CASE UNCHANGED vars
  BY <1>1, <1>6 DEF vars
<1>7. ASSUME NEW t \in Turn,
             \/ \E s \in Session : Claim(t, s)
             \/ Start(t) \/ Finish(t) \/ Panic(t) \/ DrainLook(t) \/ DrainMake(t)
             \/ PeerLook(t) \/ PeerTell(t)
      PROVE  Counted'
  BY <1>1, <1>7 DEF Claim, Start, Finish, Panic, DrainLook, DrainMake, PeerLook, PeerTell
<1>8. ASSUME (\E s \in Session : Cancel(s)) \/ Compact PROVE Counted'
  BY <1>1, <1>8 DEF Cancel, Compact, SummarizeLook, SummarizeStore, SummarizeEnd
<1>9. CASE \/ Toggle \/ RebuildLook \/ RebuildMake
           \/ UpdateLook \/ UpdateBuild \/ UpdateCommit \/ UpdateSave \/ UpdateFail
  BY <1>1, <1>9 DEF Toggle, RebuildLook, RebuildMake, UpdateLook, UpdateBuild, UpdateCommit,
                    UpdateSave, UpdateFail
<1> QED
  BY <1>2, <1>3, <1>4, <1>5, <1>6, <1>7, <1>8, <1>9 DEF Next, WindUp, FrontEnd

\* The model moves at the commit of a switch only, and a switch begins below
\* its bound.
LEMMA RoomStep == TypeOK /\ Room /\ [Next]_vars => Room'
<1> SUFFICES ASSUME TypeOK, Room, [Next]_vars PROVE Room'
  OBVIOUS
<1> USE DEF TypeOK, Room
<1>1. CASE UNCHANGED front
  BY <1>1 DEF front
<1>2. CASE FrontEnd
  <2>1. CASE Toggle \/ RebuildLook \/ Defer \/ RebuildMake \/ UpdateLook
    BY <2>1 DEF Toggle, RebuildLook, Defer, RebuildMake, UpdateLook
  <2>2. CASE UpdateBuild
    BY <2>2 DEF UpdateBuild, Stored
  <2>3. CASE UpdateCommit
    BY <2>3 DEF UpdateCommit
  <2>4. CASE UpdateSave \/ SetProv
    BY <2>4 DEF UpdateSave, SetProv
  <2>5. CASE UpdateFail
    BY <2>5 DEF UpdateFail
  <2> QED BY <1>2, <2>1, <2>2, <2>3, <2>4, <2>5 DEF FrontEnd
<1>3. [Next]_vars => UNCHANGED front \/ FrontEnd
  BY DEF Next, vars, WindUp, Claim, Start, Finish, Panic, DrainLook, DrainSwap, DrainMake,
         DrainSet, PeerLook, PeerTell, Cancel, Compact, SummarizeLook, SummarizeStore,
         SummarizeEnd
<1> QED
  BY <1>1, <1>2, <1>3

\* A step of a turn or a compaction that neither makes nor sets a provider.
Aside ==
  /\ UNCHANGED <<front, prov, slips, made>>
  /\ \A t \in Turn : pc'[t] = "setting" => pc[t] = "setting"

\* Only four kinds of step touch what the agent answers with.
LEMMA OnlyMakersMove ==
  ASSUME TypeOK, [Next]_vars
  PROVE  Aside \/ FrontEnd \/ \E t \in Turn : DrainMake(t) \/ DrainSet(t)
<1> USE DEF TypeOK
<1>1. CASE UNCHANGED vars
  BY <1>1 DEF vars, turns, rebuild, Aside
<1>2. ASSUME NEW t \in Turn,
             \/ \E s \in Session : Claim(t, s)
             \/ Start(t) \/ Finish(t) \/ Panic(t) \/ DrainLook(t) \/ PeerLook(t) \/ PeerTell(t)
      PROVE  Aside
  BY <1>2 DEF Claim, Start, Finish, Panic, DrainLook, PeerLook, PeerTell, Aside, rebuild
<1>3. ASSUME NEW t \in Turn, DrainSwap(t) PROVE Aside
  <2>1. pc' = [pc EXCEPT ![t] = "making"] \/ pc' = [pc EXCEPT ![t] = "drained"]
    BY <1>3, Zenon DEF DrainSwap
  <2> QED BY <1>3, <2>1 DEF DrainSwap, Aside
<1>4. ASSUME (\E s \in Session : Cancel(s)) \/ Compact PROVE Aside
  BY <1>4 DEF Cancel, Compact, SummarizeLook, SummarizeStore, SummarizeEnd, Aside, turns, rebuild
<1> QED
  BY <1>1, <1>2, <1>3, <1>4 DEF Next, WindUp

\* What is made is made from the configuration; a switch counts as crossed from its
\* commit on when a turn stands between making and setting.
LEMMA HonestStep == TypeOK /\ Room /\ Honest /\ [Next]_vars => Honest'
<1> SUFFICES ASSUME TypeOK, Room, Honest, [Next]_vars PROVE Agreed' /\ Uncrossed'
  BY DEF Honest
<1> USE DEF TypeOK, Honest, Agreed, Uncrossed
<1>1. CASE Aside
  BY <1>1 DEF Aside, front, slips
<1>2. ASSUME NEW t \in Turn, DrainMake(t) PROVE Agreed' /\ Uncrossed'
  <2>1. UNCHANGED <<loadout, model, ui, uiMade, prov, unsaved>>
    BY <1>2 DEF DrainMake, front, rebuild
  <2>2. CASE UNCHANGED <<made, crossed>> /\ pc' = [pc EXCEPT ![t] = "drained"]
    BY <2>1, <2>2
  <2>3. CASE /\ made' = [made EXCEPT ![t] = Stored] /\ pc' = [pc EXCEPT ![t] = "setting"]
             /\ crossed' = (crossed \/ ui = "save")
    <3>1. ~crossed' => ~crossed /\ ui # "save"
      BY <2>3
    <3>2. made'[t].model = model /\ \A u \in Turn \ {t} : made'[u] = made[u] /\ pc'[u] = pc[u]
      BY <2>3 DEF Stored
    <3> QED BY <2>1, <3>1, <3>2
  <2> QED BY <1>2, <2>2, <2>3 DEF DrainMake
<1>3. ASSUME NEW t \in Turn, DrainSet(t) PROVE Agreed' /\ Uncrossed'
  BY <1>3 DEF DrainSet, front, slips
<1>4. CASE Toggle \/ RebuildLook \/ UpdateLook \/ UpdateBuild
  BY <1>4 DEF Toggle, RebuildLook, UpdateLook, UpdateBuild, turns, rebuild, slips
<1>5. CASE Defer
  BY <1>5 DEF Defer, turns, slips
<1>6. CASE RebuildMake
  BY <1>6 DEF RebuildMake, Stored, turns, rebuild, slips
<1>7. CASE UpdateCommit
  <2>1. /\ ui = "commit" /\ ui' = "save" /\ model' = uiMade.model
        /\ UNCHANGED <<pc, made, uiMade, prov, unsaved>>
    BY <1>7 DEF UpdateCommit, turns, rebuild
  <2>2. ~crossed' => ~crossed /\ \A t \in Turn : pc[t] # "setting"
    BY <1>7 DEF UpdateCommit
  <2>3. model' - 1 = model
    BY <2>1 DEF Room
  <2> QED BY <2>1, <2>2, <2>3
<1>8. CASE UpdateSave
  BY <1>8 DEF UpdateSave, turns, rebuild, slips
<1>9. CASE UpdateFail
  BY <1>9 DEF UpdateFail, turns, rebuild
<1>10. CASE SetProv
  BY <1>10 DEF SetProv, turns
<1> QED
  BY <1>1, <1>2, <1>3, <1>4, <1>5, <1>6, <1>7, <1>8, <1>9, <1>10, OnlyMakersMove DEF FrontEnd

\* Only a turn's own look or swap ends its being due.
LEMMA StaysDue ==
  ASSUME TypeOK, [Next]_vars, NEW t \in Turn, Due(t), ~Due(t)'
  PROVE  DrainLook(t) \/ DrainSwap(t)
<1> USE DEF TypeOK, Due, Holding
<1>1. ASSUME NEW u \in Turn,
             \/ \E s \in Session : Claim(u, s)
             \/ Start(u) \/ Finish(u) \/ Panic(u) \/ DrainMake(u) \/ DrainSet(u)
             \/ PeerLook(u) \/ PeerTell(u)
      PROVE  FALSE
  BY <1>1 DEF Claim, Start, Finish, Panic, DrainMake, DrainSet, PeerLook, PeerTell
<1>2. ASSUME NEW u \in Turn, DrainLook(u) \/ DrainSwap(u) PROVE u = t
  BY <1>2 DEF DrainLook, DrainSwap
<1>3. CASE UNCHANGED pc
  BY <1>3
<1>4. ASSUME (\E s \in Session : Cancel(s)) \/ Compact \/ FrontEnd PROVE UNCHANGED pc
  BY <1>4 DEF Cancel, Compact, SummarizeLook, SummarizeStore, SummarizeEnd, FrontEnd, Toggle,
              RebuildLook, Defer, RebuildMake, UpdateLook, UpdateBuild, UpdateCommit, UpdateSave,
              UpdateFail, SetProv, turns
<1> QED
  BY <1>1, <1>2, <1>3, <1>4 DEF Next, WindUp, vars, turns

-----------------------------------------------------------------------------
(* The compactions. *)

\* Two compactions of one session meet when the later of them stores its entry; an entry
\* is lost to a Cancel or to one that was met.
LEMMA ListStep ==
  ASSUME TypeOK, ListInv, [Next]_vars
  PROVE  ListInv'
<1> USE DEF TypeOK, ListInv, Lodged, Meetings, CompactionIsListed
<1>1. CASE UNCHANGED <<summarizing, sums, cancelled>>
  BY <1>1 DEF sums
<1>2. ASSUME NEW s \in Session, Cancel(s) PROVE ListInv'
  BY <1>2 DEF Cancel, sums
<1>3. ASSUME NEW k \in Compaction, NEW s \in Session, SummarizeLook(k, s) PROVE ListInv'
  BY <1>3 DEF SummarizeLook, table
<1>4. ASSUME NEW k \in Compaction, SummarizeStore(k) PROVE ListInv'
  BY <1>4 DEF SummarizeStore, Beside
<1>5. ASSUME NEW k \in Compaction, SummarizeEnd(k) PROVE ListInv'
  BY <1>5 DEF SummarizeEnd
<1>6. CASE FrontEnd
  BY <1>1, <1>6 DEF FrontEnd, Toggle, RebuildLook, Defer, RebuildMake, UpdateLook, UpdateBuild,
              UpdateCommit, UpdateSave, UpdateFail, SetProv, table
<1>7. ASSUME NEW t \in Turn,
             \/ \E s \in Session : Claim(t, s)
             \/ Start(t) \/ Finish(t) \/ Panic(t) \/ WindUp(t)
      PROVE  ListInv'
  BY <1>1, <1>7 DEF Claim, Start, Finish, Panic, WindUp, DrainLook, DrainSwap, DrainMake,
                    DrainSet, PeerLook, PeerTell, table
<1>8. CASE UNCHANGED vars
  BY <1>1, <1>8 DEF vars, table
<1> QED
  BY <1>2, <1>3, <1>4, <1>5, <1>6, <1>7, <1>8 DEF Next, Compact

-----------------------------------------------------------------------------
(* The theorems. *)

\* The invariant is inductive.
LEMMA InvStep == IInv /\ [Next]_vars => IInv'
BY TypeStep, RoomStep, EntryStep, CountedStep, HonestStep, ListStep DEF IInv

LEMMA Invariant == Spec => []IInv
BY InitInv, InvStep, PTL DEF Spec

\* Every reachable state of the agent is well typed.
THEOREM TypeCorrect == Spec => []TypeOK
<1>1. IInv => TypeOK
  BY DEF IInv
<1> QED
  BY <1>1, Invariant, PTL

\* The table of active requests names a session's turn for exactly as long as
\* the turn holds it, for any number of sessions, turns and compactions.
THEOREM TableIsExact == Spec => []EntryIsTheTurn
<1>1. IInv => EntryIsTheTurn
  BY DEF IInv
<1> QED
  BY <1>1, Invariant, PTL

\* No deferred rebuild is done twice, however many turns finish together.
THEOREM RebuildsAreNotDoubled == Spec => []RebuiltOncePerRequest
<1>1. IInv => RebuiltOncePerRequest
  BY DEF IInv, Counted, RebuiltOncePerRequest
<1> QED
  BY <1>1, Invariant, PTL

\* With the front end at rest the agent answers with the configured model, however many
\* rebuilds were done, unless the last switch failed when it was written or a turn's rebuild
\* crossed it.
THEOREM SwitchesAreHonest == Spec => []ModelSwitchIsHonest
<1>1. IInv => ModelSwitchIsHonest
  BY DEF IInv, Honest, Uncrossed, ModelSwitchIsHonest
<1> QED
  BY <1>1, Invariant, PTL

\* A compaction at work is in the table unless it was cancelled or overlapped another one,
\* and nothing else is in its place.
THEOREM CompactionsAreListed == Spec => []CompactionIsListed
<1>1. IInv => CompactionIsListed
  BY DEF IInv, ListInv
<1> QED
  BY <1>1, Invariant, PTL

\* The last turn to look leaves no rebuild remembered, unless a compaction is in the table:
\* an entry that makes the agent busy is one of another turn that has still to look, since
\* every entry is its holder's.
THEOREM LastLookRebuilds == Spec => LastOutRebuilds
<1>1. ASSUME IInv, [Next]_vars, (\E t \in Turn : Due(t)) /\ ~(\E t \in Turn : Due(t))',
             pendingRebuild'
      PROVE  \E s \in Session : summarizing[s] # NoCompaction
  <2>1. TypeOK /\ EntryIsTheTurn
    BY <1>1 DEF IInv
  <2>2. PICK t \in Turn : Due(t) /\ ~Due(t)'
    BY <1>1
  <2>3. DrainLook(t) /\ pc'[t] \notin Holding \cup {"removed", "swapping"}
    <3>1. ~DrainSwap(t)
      BY <1>1 DEF DrainSwap
    <3> QED BY <1>1, <2>1, <2>2, <3>1, StaysDue DEF Due
  <2>4. pendingRebuild /\ IsBusy
    BY <1>1, <2>1, <2>3 DEF DrainLook, TypeOK, rebuild
  <2>5. \A s \in Session : active[s] = NoTurn
    <3> SUFFICES ASSUME NEW s \in Session, active[s] # NoTurn
                 PROVE  FALSE
      OBVIOUS
    <3>1. PICK u \in Turn : u = active[s]
      BY <2>1 DEF TypeOK
    <3>2. pc[u] \in Holding
      BY <2>1, <3>1 DEF EntryIsTheTurn
    <3>3. u # t /\ pc'[u] = pc[u]
      BY <2>1, <2>3, <3>2 DEF DrainLook, Holding, TypeOK
    <3> QED BY <1>1, <3>2, <3>3 DEF Due
  <2> QED BY <2>4, <2>5 DEF IsBusy
<1> QED
  BY <1>1, Invariant, PTL DEF Spec, LastOutRebuilds

\* The agent implements the lock: one turn per session, given back by the step that ends the
\* turn and by no other.
THEOREM AgentImplementsLock == Spec => LockSpec
<1>1. Init => Lock!LockInit
  BY DEF Init, LockPhase, Lock!LockInit
<1>2. IInv /\ [Next]_vars => [Lock!LockNext]_<<active, [t \in Turn |-> LockPhase(t)]>>
  BY LockStep DEF IInv
<1> QED
  BY <1>1, <1>2, Invariant, PTL DEF Spec, LockSpec, Lock!LockSpec
=============================================================================
