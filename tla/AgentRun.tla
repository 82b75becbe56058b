------------------------------ MODULE AgentRun ------------------------------
(***************************************************************************)
(* The table of active requests of one agent (internal/llm/agent/agent.go): *)
(* Run claims a session, Cancel asks its turn to stop, Summarize runs beside *)
(* the turns under a key of its own, and what may not happen in the middle   *)
(* of a turn (rebuilding the provider, switching the model, telling the      *)
(* peers that this program is idle) asks the table whether anything runs.    *)
(*                                                                         *)
(* A turn is one call of Run.  What happens inside processGeneration is one  *)
(* stage here, "working": it ends, is cancelled or panics.  The provider is  *)
(* the version of the configuration (loadout and model) it was made from.    *)
(***************************************************************************)
EXTENDS Naturals, FiniteSets

CONSTANTS Session, NoSession,
          Turn, NoTurn,              \* calls of Run
          Compaction, NoCompaction,  \* calls of Summarize
          MaxLoadout, MaxModel       \* bounds: /context toggles, model switches

ASSUME AgentAssumption ==
  /\ NoSession \notin Session /\ NoTurn \notin Turn
  /\ NoCompaction \notin Compaction /\ MaxLoadout \in Nat /\ MaxModel \in Nat

VARIABLES
  active,          \* activeRequests[sessionID]
  summarizing,     \* activeRequests[sessionID + "-summarize"]
  pc, of,          \* each turn: where it is, whose session it is
  cpc, cof,        \* each compaction likewise
  cancelled,       \* turns and compactions whose context is cancelled
  loadout, model,  \* versions of what the configuration stores
  prov,            \* the versions the agent's provider was made from
  pendingRebuild,
  made,            \* what a turn in drainPendingRebuild has made and not yet set
  ui, uiMade,      \* the front end inside RebuildProvider or Update, likewise
  peerBusy,        \* what the peers are told
  deferred, applied, \* history: rebuilds remembered, rebuilds done for them
  met,             \* history: compactions that ran beside another one of their session
  unsaved,         \* history: the last switch failed when it was written to the file
  crossed          \* history: a turn's rebuild stood between making and setting while the
                   \* model moved

table   == <<active, summarizing>>
turns   == <<pc, of, made>>
sums    == <<cpc, cof, met>>
front   == <<loadout, model, ui, uiMade>>
rebuild == <<prov, pendingRebuild, deferred, applied>>
slips   == <<unsaved, crossed>>
vars    == <<table, turns, sums, cancelled, front, rebuild, slips, peerBusy>>

Version == [loadout : 0..MaxLoadout, model : 0..MaxModel]
Stored  == [loadout |-> loadout, model |-> model]
Holding  == {"claimed", "working", "dead"}
Draining == {"removed", "swapping", "making", "setting", "drained", "sawBusy", "sawIdle"}

IsBusy == \E s \in Session : active[s] # NoTurn \/ summarizing[s] # NoCompaction

-----------------------------------------------------------------------------
(* Run. *)

\* Mutant: "is it busy? no; then store" in two steps lets a second turn in.
ClaimUnchecked(t, s) ==
  /\ pc[t] = "idle"
  /\ active' = [active EXCEPT ![s] = t]
  /\ pc' = [pc EXCEPT ![t] = "claimed"]
  /\ of' = [of EXCEPT ![t] = s]
  /\ UNCHANGED <<summarizing, made, sums, cancelled, front, rebuild, slips, peerBusy>>

\* LoadOrStore; a taken session returns ErrSessionBusy and changes nothing.
Claim(t, s) ==
  /\ pc[t] = "idle" /\ active[s] = NoTurn
  /\ active' = [active EXCEPT ![s] = t]
  /\ pc' = [pc EXCEPT ![t] = "claimed"]
  /\ of' = [of EXCEPT ![t] = s]
  /\ UNCHANGED <<summarizing, made, sums, cancelled, front, rebuild, slips, peerBusy>>

\* peerSetBusy(true), run.cancel = cancel, and the goroutine starts.
Start(t) ==
  /\ pc[t] = "claimed"
  /\ pc' = [pc EXCEPT ![t] = "working"]
  /\ peerBusy' = TRUE
  /\ UNCHANGED <<table, of, made, sums, cancelled, front, rebuild, slips>>

\* Mutant: a cancelled turn returns before it has removed its entry.
FinishUncancelled(t) ==
  /\ pc[t] = "working"
  /\ active' = [active EXCEPT ![of[t]] = IF @ = t /\ t \notin cancelled THEN NoTurn ELSE @]
  /\ pc' = [pc EXCEPT ![t] = "removed"]
  /\ UNCHANGED <<summarizing, of, made, sums, cancelled, front, rebuild, slips, peerBusy>>

\* processGeneration returns; CompareAndDelete removes the turn's own entry.
Finish(t) ==
  /\ pc[t] = "working"
  /\ active' = [active EXCEPT ![of[t]] = IF @ = t THEN NoTurn ELSE @]
  /\ pc' = [pc EXCEPT ![t] = "removed"]
  /\ UNCHANGED <<summarizing, of, made, sums, cancelled, front, rebuild, slips, peerBusy>>

\* RecoverPanic sends the error on and does nothing else.
Panic(t) ==
  /\ pc[t] = "working"
  /\ pc' = [pc EXCEPT ![t] = "dead"]
  /\ UNCHANGED <<table, of, made, sums, cancelled, front, rebuild, slips, peerBusy>>

\* drainPendingRebuild, once the turn_end hooks are done.
DrainLook(t) ==
  /\ pc[t] = "removed"
  /\ pc' = [pc EXCEPT ![t] = IF pendingRebuild /\ ~IsBusy THEN "swapping" ELSE "drained"]
  /\ UNCHANGED <<table, of, made, sums, cancelled, front, rebuild, slips, peerBusy>>

\* Mutant: two turns that finish together both rebuild.
DrainStore(t) ==
  /\ pc[t] = "swapping"
  /\ pendingRebuild' = FALSE
  /\ applied' = applied + 1
  /\ pc' = [pc EXCEPT ![t] = "making"]
  /\ UNCHANGED <<table, of, made, sums, cancelled, front, prov, deferred, slips, peerBusy>>

\* CompareAndSwap: the one that turns the flag off rebuilds.
DrainSwap(t) ==
  /\ pc[t] = "swapping"
  /\ pendingRebuild' = FALSE
  /\ applied' = IF pendingRebuild THEN applied + 1 ELSE applied
  /\ pc' = [pc EXCEPT ![t] = IF pendingRebuild THEN "making" ELSE "drained"]
  /\ UNCHANGED <<table, of, made, sums, cancelled, front, prov, deferred, slips, peerBusy>>

\* rebuildProviderNow: createAgentProvider, then setProv; a failure is logged.
DrainMake(t) ==
  /\ pc[t] = "making"
  /\ \/ /\ made' = [made EXCEPT ![t] = Stored] /\ pc' = [pc EXCEPT ![t] = "setting"]
        /\ crossed' = (crossed \/ ui = "save")
     \/ UNCHANGED <<made, crossed>> /\ pc' = [pc EXCEPT ![t] = "drained"]
  /\ UNCHANGED <<table, of, sums, cancelled, front, rebuild, unsaved, peerBusy>>

DrainSet(t) ==
  /\ pc[t] = "setting"
  /\ prov' = made[t]
  /\ pc' = [pc EXCEPT ![t] = "drained"]
  /\ UNCHANGED <<table, of, made, sums, cancelled, front, pendingRebuild, deferred, applied,
                 slips, peerBusy>>

\* peerSetBusy(a.IsBusy()): the table is read, then the peers are told.
PeerLook(t) ==
  /\ pc[t] = "drained"
  /\ pc' = [pc EXCEPT ![t] = IF IsBusy THEN "sawBusy" ELSE "sawIdle"]
  /\ UNCHANGED <<table, of, made, sums, cancelled, front, rebuild, slips, peerBusy>>

PeerTell(t) ==
  /\ pc[t] \in {"sawBusy", "sawIdle"}
  /\ peerBusy' = (pc[t] = "sawBusy")
  /\ pc' = [pc EXCEPT ![t] = "over"]
  /\ UNCHANGED <<table, of, made, sums, cancelled, front, rebuild, slips>>

-----------------------------------------------------------------------------
(* Cancel and Summarize. *)

\* Mutant: Cancel as it was, a LoadAndDelete of the turn's entry.
CancelDeleting(s) ==
  /\ active' = [active EXCEPT ![s] = NoTurn]
  /\ cancelled' = cancelled \cup {t \in Turn : t = active[s] /\ pc[t] = "working"}
                            \cup {k \in Compaction : k = summarizing[s]}
  /\ summarizing' = [summarizing EXCEPT ![s] = NoCompaction]
  /\ UNCHANGED <<turns, sums, front, rebuild, slips, peerBusy>>

\* Mutant: whatever the lookup returned is cancelled, found or not.
CancelNotFound(s) ==
  /\ cancelled' = cancelled \cup {active[s], summarizing[s]}
  /\ summarizing' = [summarizing EXCEPT ![s] = NoCompaction]
  /\ UNCHANGED <<active, turns, sums, front, rebuild, slips, peerBusy>>

\* Mutant: the compaction's entry is taken out and its cancel function is not called.
CancelForgetful(s) ==
  /\ cancelled' = cancelled \cup {t \in Turn : t = active[s] /\ pc[t] = "working"}
  /\ summarizing' = [summarizing EXCEPT ![s] = NoCompaction]
  /\ UNCHANGED <<active, turns, sums, front, rebuild, slips, peerBusy>>

\* Cancel asks the turn to stop, if Run has got as far as storing run.cancel;
\* the compaction's entry it takes out itself.
Cancel(s) ==
  /\ cancelled' = cancelled \cup {t \in Turn : t = active[s] /\ pc[t] = "working"}
                            \cup {k \in Compaction : k = summarizing[s]}
  /\ summarizing' = [summarizing EXCEPT ![s] = NoCompaction]
  /\ UNCHANGED <<active, turns, sums, front, rebuild, slips, peerBusy>>

\* Summarize looks whether a turn has the session, ...
SummarizeLook(k, s) ==
  /\ cpc[k] = "idle" /\ active[s] = NoTurn
  /\ cpc' = [cpc EXCEPT ![k] = "looked"]
  /\ cof' = [cof EXCEPT ![k] = s]
  /\ UNCHANGED <<table, turns, met, cancelled, front, rebuild, slips, peerBusy>>

Beside(k) == {j \in Compaction \ {k} : cpc[j] = "running" /\ cof[j] = cof[k]}

\* ... then stores its cancel function over whatever is there, ...
SummarizeStore(k) ==
  /\ cpc[k] = "looked"
  /\ met' = IF Beside(k) = {} THEN met ELSE met \cup {k} \cup Beside(k)
  /\ cpc' = [cpc EXCEPT ![k] = "running"]
  /\ summarizing' = [summarizing EXCEPT ![cof[k]] = k]
  /\ UNCHANGED <<active, turns, cof, cancelled, front, rebuild, slips, peerBusy>>

\* Mutant: an exit that does not take the entry out of the table.
SummarizeEndKept(k) ==
  /\ cpc[k] = "running"
  /\ cpc' = [cpc EXCEPT ![k] = "over"]
  /\ UNCHANGED <<table, turns, cof, met, cancelled, front, rebuild, slips, peerBusy>>

\* ... and its goroutine's deferred Delete removes whatever is there by then.
SummarizeEnd(k) ==
  /\ cpc[k] = "running"
  /\ cpc' = [cpc EXCEPT ![k] = "over"]
  /\ summarizing' = [summarizing EXCEPT ![cof[k]] = NoCompaction]
  /\ UNCHANGED <<active, turns, cof, met, cancelled, front, rebuild, slips, peerBusy>>

-----------------------------------------------------------------------------
(* The front end: a loadout toggle calls RebuildProvider, a model switch    *)
(* calls Update.  One front end does one of them at a time.                 *)

Toggle ==
  /\ ui = "rest" /\ loadout < MaxLoadout
  /\ loadout' = loadout + 1
  /\ ui' = "look"
  /\ UNCHANGED <<table, turns, sums, cancelled, model, uiMade, rebuild, slips, peerBusy>>

RebuildLook ==
  /\ ui = "look"
  /\ ui' = IF IsBusy THEN "defer" ELSE "make"
  /\ UNCHANGED <<table, turns, sums, cancelled, loadout, model, uiMade, rebuild, slips, peerBusy>>

Defer ==
  /\ ui = "defer"
  /\ pendingRebuild' = TRUE
  /\ deferred' = deferred + 1
  /\ ui' = "rest"
  /\ UNCHANGED <<table, turns, sums, cancelled, loadout, model, uiMade, prov, applied,
                 slips, peerBusy>>

RebuildMake ==
  /\ ui = "make"
  /\ \/ uiMade' = Stored /\ ui' = "set"
     \/ UNCHANGED uiMade /\ ui' = "rest"
  /\ UNCHANGED <<table, turns, sums, cancelled, loadout, model, rebuild, slips, peerBusy>>

\* Update: refused while anything runs.
UpdateLook ==
  /\ ui = "rest" /\ model < MaxModel /\ ~IsBusy
  /\ ui' = "build"
  /\ UNCHANGED <<table, turns, sums, cancelled, loadout, model, uiMade, rebuild, slips, peerBusy>>

\* Build first, commit second.
UpdateBuild ==
  /\ ui = "build"
  /\ uiMade' = [Stored EXCEPT !.model = model + 1]
  /\ ui' = "commit"
  /\ UNCHANGED <<table, turns, sums, cancelled, loadout, model, rebuild, slips, peerBusy>>

\* UpdateAgentModel: the configuration in memory moves, then it is validated, ...
UpdateCommit ==
  /\ ui = "commit"
  /\ model' = uiMade.model
  /\ crossed' = (crossed \/ \E t \in Turn : pc[t] = "setting")
  /\ ui' = "save"
  /\ UNCHANGED <<table, turns, sums, cancelled, loadout, uiMade, rebuild, unsaved, peerBusy>>

\* ... and written to the file.
UpdateSave ==
  /\ ui = "save" /\ ui' = "set"
  /\ UNCHANGED <<table, turns, sums, cancelled, loadout, model, uiMade, rebuild, slips, peerBusy>>

\* Mutant: the configuration was written before the provider was built.
UpdateFailCommitted ==
  /\ ui = "build" /\ ui' = "rest"
  /\ model' = model + 1
  /\ UNCHANGED <<table, turns, sums, cancelled, loadout, uiMade, rebuild, slips, peerBusy>>

\* Mutant: a choice that is refused stays in memory.
UpdateFailUnreverted ==
  /\ ui \in {"build", "commit", "save"} /\ ui' = "rest"
  /\ UNCHANGED <<table, turns, sums, cancelled, loadout, model, uiMade, rebuild, slips, peerBusy>>

\* The provider cannot be built, or the model is not known: nothing has moved.  A
\* choice that does not validate is reverted.  After a failed write it is not.
UpdateFail ==
  /\ ui \in {"build", "commit", "save"} /\ ui' = "rest"
  /\ \/ ui # "save" /\ UNCHANGED <<model, unsaved>>
     \/ ui = "save" /\ model' = model - 1 /\ UNCHANGED unsaved
     \/ ui = "save" /\ unsaved' = TRUE /\ UNCHANGED model
  /\ UNCHANGED <<table, turns, sums, cancelled, loadout, uiMade, rebuild, crossed, peerBusy>>

SetProv ==
  /\ ui = "set"
  /\ prov' = uiMade
  /\ ui' = "rest"
  /\ unsaved' = FALSE
  /\ crossed' = (crossed /\ \E t \in Turn : pc[t] = "setting")
  /\ UNCHANGED <<table, turns, sums, cancelled, loadout, model, uiMade,
                 pendingRebuild, deferred, applied, peerBusy>>

-----------------------------------------------------------------------------
First == [loadout |-> 0, model |-> 0]

Init ==
  /\ active = [s \in Session |-> NoTurn]
  /\ summarizing = [s \in Session |-> NoCompaction]
  /\ pc = [t \in Turn |-> "idle"] /\ of = [t \in Turn |-> NoSession]
  /\ cpc = [k \in Compaction |-> "idle"] /\ cof = [k \in Compaction |-> NoSession]
  /\ cancelled = {} /\ peerBusy = FALSE
  /\ loadout = 0 /\ model = 0 /\ prov = First /\ pendingRebuild = FALSE
  /\ made = [t \in Turn |-> First] /\ ui = "rest" /\ uiMade = First
  /\ deferred = 0 /\ applied = 0
  /\ met = {} /\ unsaved = FALSE /\ crossed = FALSE

\* What a turn does of its own accord once its work is done.
WindUp(t) ==
  DrainLook(t) \/ DrainSwap(t) \/ DrainMake(t) \/ DrainSet(t) \/ PeerLook(t) \/ PeerTell(t)

Compact == \E k \in Compaction :
  \/ \E s \in Session : SummarizeLook(k, s)
  \/ SummarizeStore(k) \/ SummarizeEnd(k)

FrontEnd ==
  \/ Toggle \/ RebuildLook \/ Defer \/ RebuildMake
  \/ UpdateLook \/ UpdateBuild \/ UpdateCommit \/ UpdateSave \/ UpdateFail \/ SetProv

Next ==
  \/ \E t \in Turn : \/ \E s \in Session : Claim(t, s)
                     \/ Start(t) \/ Finish(t) \/ Panic(t) \/ WindUp(t)
  \/ \E s \in Session : Cancel(s)
  \/ Compact
  \/ FrontEnd

Spec == Init /\ [][Next]_vars

-----------------------------------------------------------------------------
(* Properties. *)

TypeOK ==
  /\ active \in [Session -> Turn \cup {NoTurn}]
  /\ summarizing \in [Session -> Compaction \cup {NoCompaction}]
  /\ pc \in [Turn -> {"idle", "over"} \cup Holding \cup Draining]
  /\ of \in [Turn -> Session \cup {NoSession}]
  /\ cpc \in [Compaction -> {"idle", "looked", "running", "over"}]
  /\ cof \in [Compaction -> Session \cup {NoSession}]
  /\ cancelled \subseteq Turn \cup Compaction
  /\ loadout \in 0..MaxLoadout /\ model \in 0..MaxModel /\ prov \in Version
  /\ pendingRebuild \in BOOLEAN /\ peerBusy \in BOOLEAN
  /\ made \in [Turn -> Version] /\ uiMade \in Version
  /\ ui \in {"rest", "look", "defer", "make", "build", "commit", "save", "set"}
  /\ deferred \in Nat /\ applied \in Nat
  /\ met \subseteq Compaction /\ unsaved \in BOOLEAN /\ crossed \in BOOLEAN

\* "Cancelling ASKS the run to stop; it does not declare the session free": the
\* table names a session's turn from the claim until that turn has really
\* finished, whatever is cancelled, compacted or rebuilt meanwhile.
EntryIsTheTurn ==
  \A t \in Turn, s \in Session :
    active[s] = t <=> of[t] = s /\ pc[t] \in Holding

\* However many turns finish together and however the flag is set meanwhile, a
\* deferred rebuild is done at most once (the CompareAndSwap in
\* drainPendingRebuild).
RebuiltOncePerRequest == applied <= deferred

\* drainPendingRebuild: "a concurrent session may still be running, in which case the flag
\* stays set and the next completion picks it up".  So of the turns that have not yet looked
\* at the flag for good, the last to do so leaves no rebuild remembered, unless a compaction
\* is in the table.
Due(t) == pc[t] \in Holding \cup {"removed", "swapping"}
LastOutRebuilds ==
  [][(\E t \in Turn : Due(t)) /\ ~(\E t \in Turn : Due(t))' /\ pendingRebuild'
       => \E s \in Session : summarizing[s] # NoCompaction]_vars

\* "Build first, commit second": with the front end at rest the agent answers with the
\* model the configuration names, whatever the last switch came to and however many
\* rebuilds were done since.  It does not in two cases only: the switch failed when the
\* file was written, or a turn's rebuild crossed it.
ModelSwitchIsHonest ==
  ui = "rest" /\ prov.model # model => unsaved \/ crossed

\* A compaction at work is in the table, so that Cancel reaches it and nothing is swapped
\* under it, unless it was cancelled or another of its session overlapped it ("Summarize"
\* stores and deletes without looking); and what is in the table is at work.
CompactionIsListed ==
  \A k \in Compaction, s \in Session :
    LET atWork == cpc[k] = "running" /\ cof[k] = s
    IN  /\ summarizing[s] = k => atWork
        /\ atWork => summarizing[s] = k \/ k \in cancelled \cup met

\* The table implements a lock per session, which a turn gives back in the step that ends
\* its work (CompareAndDelete of its own entry); a turn that panicked keeps it.
LockPhase(t) == IF pc[t] = "idle" THEN "new" ELSE IF pc[t] \in Holding THEN "holding" ELSE "left"
Lock == INSTANCE TurnLock WITH holder <- active,
                               phase  <- [t \in Turn |-> LockPhase(t)]
LockSpec == Lock!LockSpec

Quiet == /\ ~IsBusy /\ ui = "rest"
         /\ \A t \in Turn : pc[t] \in {"idle", "over"}

\* RebuildProvider: "while busy the rebuild is REMEMBERED and applied when the
\* turn ends"; Run: "if nothing else is running, peers now see this session as
\* idle".  Once nothing runs, no rebuild is owed and the peers see an idle one.
QuietMeansSettled == Quiet => ~pendingRebuild /\ ~peerBusy
=============================================================================
