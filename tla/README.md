# A TLA+ development of Gorilla OpenCode

Gorilla OpenCode is a coding agent for the terminal, a fork of OpenCode written
in Go.  This directory models the parts of it where goroutines, people and timers
meet: who may approve what an agent asks to do, what may run at the same time as
what, what is left in the history of a turn that was cut short, what helper
agents cost and when they are gone, and what programs on one computer tell each
other.  The models are checked with TLC on small instances; the
properties that matter most are proved with TLAPS for every instance.

Paths below are relative to the repository's root.

## 1. The system

| part | state it keeps | operations | what is hard |
|---|---|---|---|
| Permission service, `internal/permission` | waiters (`pendingRequests`), remembered answers (`sessionPermissions`, `familyGrants`, `fleetGrants`), `autoApproveSessions`, the session tree (`childToParent`), the marks `personDenied` and `noAnswer`, `unattended`, the standing mode | `Request` (blocks a tool), `Grant`, `GrantPersistant`, `GrantFamily`, `Deny`, `Refuse`, `CancelSession`, `GrantFleet`, `RevokeFleet`, `AutoApproveSession`, `RevokeAutoApprove`, `RegisterChildSession`, `TakePersonDenial`, `TakeNoAnswer` | answers, sweeps and the ten-minute timer race for one channel; `Request` decides on a snapshot; the marks are per conversation, the questions per helper |
| Permission dialog, `internal/tui` | the one dialog and the queue behind it | events of the service, keys, `settlePermission`, `drainPermissionQueue` | an answer is a message of its own and may be handled after the screen has changed |
| Agent, `internal/llm/agent/agent.go` | `activeRequests`, the provider, `pendingRebuild` | `Run`, `Cancel`, `Summarize`, `RebuildProvider`, `Update`, `ReloadTools` | turns, compactions and the front end read and write one table in several steps; panics; deferred work |
| Turn and history, `agent.go`, `internal/message` | the messages of a session | the tool loop of `streamAndHandleEvents`, `answerOrphanedToolCalls` | every tool call needs one result whatever ends the loop; crashes between two stores |
| Session rows, `internal/session` | title, token and cost counters, the summary marker | `Get`, `Save` (the whole row) | read-modify-write by five writers |
| Helpers, `subagent_registry.go`, `subagent_guard.go`, `agent-tool.go`, `research-tool.go` | registry, spawn tally, waves, slots | register, kill, kill all, waves and supervisors, roll-up | killing against starting, asking and finishing; a wave cancelled half launched |
| Broker, `internal/pubsub` | subscribers and their buffers of 64 | `Subscribe`, `Publish`, `Shutdown` | a full buffer drops; a channel closed while a publisher holds a copy of the list |
| Peers, `internal/peers` | inbox, idle subscriptions, awaited notices, rate windows | `Send`, `SetBusy`, `handle`, `TakeForAI`, `Requeue` | two programs and a local endpoint; a notice that overtakes the reply |
| Shell, editor protocol, file history, configuration, providers, tools, LSP, database | | | see `PROJECT.json` |

How they meet: a tool calls `Request`, which publishes to the front ends through
the broker and parks the tool's goroutine on a channel; a front end answers by
calling the service; on a refusal the agent reads the two marks and decides
whether its turn carries on.  `Cancel` and the killing of a helper reach into the
service with `CancelSession`.  A research run asks one question for all its
helpers and opens a fleet grant on the answer.  The agent tells the peers
whether it is busy, and everything that must not happen in the middle of a turn
asks `IsBusy`.

What makes each part correct: the permission service approves nothing without
an authority and releases every tool; the dialog shows every question; the agent
runs one turn per session and never loses one it has to end; the history is
always one a provider accepts; the ledger never shrinks; helpers end when
they are killed and what they spent is booked; the broker and the peers deliver what
they promise.

## 2. The modules

| module | models | state and actions against the code |
|---|---|---|
| `Permission` | `permission.go`, `mode.go`, and the reading of a refusal in `agent.go:872-939` | One process per call of `Request`: `idle`, `snapped` (the lock at the top is released), `waiting` (in `pendingRequests`, in the select), `settled`, `announced` (DeletedEvent out, waiter still stored: deferred calls run last in, first out), `returned`, and how the agent read it (`carriedOn`, `unanswered`, `denied`). An answer is a second process per call: `mark` (Deny only), `send`, `store` (the remembering answers store after they send) |
| `PermissionDialog` | the terminal's dialog over `Permission` (extends it) | `events` is what the service published and the loop has not handled, `responses` the answers under way; the loop is inside one answer at a time (`handling`) |
| `AgentRun` | the table of active requests and what asks it | turns, compactions and the front end are processes; a turn winds up through the steps of `drainPendingRebuild` and `peerSetBusy(a.IsBusy())`; a model switch builds the provider, moves the configuration in memory (`commit`), writes it (`save`) and sets the provider, and may fail at each (`Update`, `config.UpdateAgentModel`) |
| `TurnLock` | abstract: a session is in one turn at a time, and the turn gives it back by a step of its own | `AgentRun` implements it (`LockSpec`) with `active` as the holder and each turn's own phase, from `pc`: an entry that anybody else takes out of the table is no step of the lock |
| `Turn` | one conversation's stored messages: `processGeneration`, `streamAndHandleEvents`, `processEvent`, `cancelPendingToolCalls`, `answerOrphanedToolCalls`, `Summarize` | `rows` is what `List` returns; `mem` and `fin` are the assistant message in memory, which is stored with each event; `pc` follows the code from the load of the history to the last mark; `cpc` is where each compaction beside it is, and several may overlap. A failed write and the death of the program are possible at every write |
| `ToolRounds` | abstract: requests are made one after another, each closed once | `Turn` implements it (`KeepsRounds`) |
| `Helpers` | one conversation with its helpers and its session row: `research-tool.go`, `agent-tool.go`, `subagent_registry.go`, and the writers of the row in `agent.go` | a helper is a goroutine (`at`): started, queued, starting (has a slot, no session yet), working, parked on a question, refused, reading (`spendOf`), ended; `row` is its entry in the registry; a kill is three steps (rows out, cancel, sweep); each writer of the session row holds a `copy` between read and save |
| `Peers` | `internal/peers` and `llm/agent/peers.go`, with the turns and compactions that show the program as busy | a program claims a name in three steps per attempt (list, write, list); `Send` is a call that steps through message, subscription and reply; a notice is a message of its own; a turn takes the inbox and may give it back |
| `MCPermission`, `MCPermissionDialog`, `MCAgentRun`, `MCTurn`, `MCHelpers`, `MCPeers` | instances for TLC | sets of model values, the requests, symmetry |
| `PermissionProofs`, `PermissionAuthority`, `PermissionDialogProofs`, `AgentRunProofs`, `TurnProofs`, `TurnHistoryProofs`, `HelpersProofs`, `PeersProofs` | theorems | |

The argument of a request is abstracted to what the rules compare: tool, key
(the exact action and `GrantKey`), place (normalised path), the families its key
is in, the class "Allow for session" would remember, and four flags.
`MustAskAnyway` is the whole of `mustAskAnyway` on those flags.

Two facts of the callers are guards of `Permission`.  An agent runs its tool calls
one after another, and a conversation whose helpers work is inside the tool call
that waits for them (`MayAsk`, `ParentInToolCall`).  A helper's session is
registered before its first request, and helpers have no helpers, so the session
tree is two levels deep.  Without these the marks would be shared in ways the
program cannot produce.

History variables (`pressed`, `denials`, `fleetOpened`, `stale` there; `deferred`,
`applied`, `met`, `unsaved`, `crossed` in `AgentRun`; `torn`, `covers` in `Turn`;
`total`, `excused`, `late`, `early` in `Helpers`; `arrived`, `gone`, `crossed`,
`overlap`, `unseen`, `answered`, `mislaid`, `early`, `outlived` in `Peers`) record what
people and the program did; no action reads them but for the bounds on presses, on
Denies and on what is paid, and the number a message has.

In `Turn` a round is one request to the model with its message and its results; a
call is its number in the message.  The order of rows is the order of insertion
(the database sorts by creation time, and one goroutine writes a turn's rows).
Reads fail only because the context is cancelled; writes fail for that, or for the
database's own reasons (`Fault`).  What a tool does, and whether the stuck detector
stops a turn, are free choices.  `TrackUsage` is one step there: it writes the
session row, never the messages.

In `Helpers` a request to a model costs one, so the cost column is a count.  A run's
roles are chosen when it is called; those that read the others' findings work in the
second wave.  What the row may lack of all that was paid is kept in `excused`, and it
grows in four places only: a save that overwrites what was saved since its read, a
request whose turn was cancelled before its usage was saved, a helper whose own
context was dead when its row was read, and a helper of the agent tool that failed.
A save of the ledger that fails for the database's own reasons (`research-tool.go:1786`
logs it) is not modelled: it would be a fifth.
The title's request is booked nowhere in the code, so it costs nothing here.

In `Peers` a program is the number of its start, its process number and its key.
Names are numbers too: 1 is the folder's.  `List` removes the entries of dead
processes, so every reading of the register writes it.  A request that fails, or
whose reply is lost, and a rate limit that refuses, are one kind of event.

Merged on purpose: the reading of the standing mode with the lock beside it, the
`Range` of a sweep or of `IsBusy` (one step here; `sync.Map` gives no snapshot),
and the two lookups of `Cancel`.  Of two answers to one question, the second is loaded
when the first has been sent (the bound is one answer under way per question; both may
be given before the waiter is deleted).  `run.cancel` is written by `Run` and read by
`Cancel` without synchronisation: a `Cancel` before `Start` finds it unset.

## 3. What the runs show

Passing runs:

| run | instance | shows |
|---|---|---|
| `permission_authority` | two conversations, two calls, a sudo command and an edit outside the roots under accept-edits, session and drained answers, auto-approve on and off, attended or not | `AuthorityForEveryYes`: what a person allowed in one conversation approves no carve-out in the other |
| `permission_modes` | one conversation, two calls, a forced push and a sudo command of the same family, ask, plan and auto, session and family answers, attended or not | `IrreversibleNeedsThePerson` under every combination of stance and remembered answer (`AuthorityForEveryYes` is proved for them all) |
| `permission_marks` | a conversation with two helpers that each ask, up to two Denies for each question, sweeps, timers, a fleet grant, under fairness | `ContinuationsArePaidFor`, `DenyIsHeardOrTaken`, `FirstAnswerStands`, `EveryQuestionSettles`, `TypeOK` |
| `permission_dialog` | two helpers, two questions, up to two keys on each, families that cover queued questions | `OneDialogAtATime`, `NoDeadDialog`, `LostOnlyToAStaleAnswer` |
| `agent_run` | two turns, two sessions, two compactions, one toggle, one model switch that may fail at each of its steps, panics and cancels at any time | `EntryIsTheTurn`, `RebuiltOncePerRequest`, `LastOutRebuilds`, `ModelSwitchIsHonest`, `CompactionIsListed`, `LockSpec`, `TypeOK` |
| `turn` | two turns, two rounds of up to two calls, two compactions that may overlap them and each other, a cancel of each turn at any step, one failed write or death at any write | `AnsweredOnceInPlace`, `NoRoundLeftOpen`, `SentIsAcceptable`, `OrphanOnlyIfTorn`, `QuietCompactionKeepsAll`, `DenialStopsTheRest`, `MarkedAfterAnswered`, `KeepsRounds`, `TypeOK` |
| `helpers` | a turn with one call of the research tool (sequential or supervised; two blind lanes and one that reads) or of the agent tool, two requests paid, one kill, one question, a title or a compaction beside it, under fairness | `AllSpendBilled`, `NobodyWritesBehind`, `EveryReplyAudited`, `EarlyCutSpendsNothing`, `CancelledNotParked`, `RowsTruthful`, `CancelEnds`, `TypeOK` |
| `peers` | two programs; one sends three messages and asks for two notices, the other runs two turns; one rename, fault, compaction, close or death | `NamesCollideUnseenOnly`, `AcceptedNotLost`, `OneNoticePerAsk`, `AwaitedIsOnItsWay`, `BusyIsTrue`, `TypeOK` |

Several of these properties are exact: they name the circumstances in which the program
breaks its word and claim that it does so in no other.  `SentIsAcceptable` excepts a
round that a compaction split and a result whose calls were never stored;
`OrphanOnlyIfTorn` says when the second happens and `QuietCompactionKeepsAll` when the
first cannot; a summary stored beside a compaction is the only row that one may leave
unread.  `ModelSwitchIsHonest` excepts a switch that failed when it was written and a
turn's rebuild that crossed one, `CompactionIsListed` a compaction that was cancelled or
overlapped another of its session.  `AllSpendBilled` excepts `excused`,
`NamesCollideUnseenOnly` the pairs nobody compares, `AwaitedIsOnItsWay` a rename or a
lost notice, `BusyIsTrue` the two races of looking and telling.  Each exception is a
finding in `PROJECT.json`.

Runs that show a disagreement between the program and what it says of itself:

| run | what the code does |
|---|---|
| `permission_dialog_lost` | `PermissionResponseMsg` is handled without looking whether the answered question is the one on screen: a key pressed on a question that settles meanwhile closes or replaces the next one, which then waits ten minutes unseen (`tui.go:1122-1144`, against "QUEUE, do not overwrite") |
| `permission_denial` | the timer settles a question; a front end that had loaded its waiter sets `personDenied` after the turn has read the refusal, and the next question of the tree, which times out, takes the mark and lets the turn carry on (`permission.go:608`, against `docs/PERMISSIONS.md:118`) |
| `permission_cancel` | `CancelSession` of one helper refuses its siblings' questions (`permission.go:842`, against the comment at 837) |
| `agent_quiet` | a rebuild deferred while only a compaction runs stays remembered when nothing runs any more, since neither a compaction's end nor its cancel drains: it waits for the end of a later turn (`agent.go:1286`, against 252) |

`LostOnlyToAStaleAnswer` is the other side of the first of these: the stale answer
is the only way a question is lost.  So is `LastOutRebuilds` of `agent_quiet`: a turn
that ends last leaves a rebuild remembered only beside a compaction.

### Bounds

Two calls are enough for the races of one question with another: every property
here relates at most two calls, and a third helper adds only more of the
same siblings.  `MaxPress` (different answers to one question, each of which may be
repeated) and `MaxKeys` (keys on one dialog) are 1 or 2: two is the first number at
which answers compete.  `MaxDenials` (times Deny is given to one question) is two in
`permission_marks`, where the marks are counted, and one elsewhere.  In `agent_run` two
turns may hold two sessions or compete for one, and so may two compactions; one toggle
and one switch each meet them at every step.

In `turn` two compactions are the least that overlap, and `MaxEffort` bounds what one
history holds together (turns, rounds, compactions twice, accidents: seven), so that two
compactions meet one turn with a round and an accident, or two turns with a round, and
one compaction meets everything else.  The second turn loads what the first one left,
and a second call is what a denial stops; a second death would find only what one death
can leave, since the program writes nothing when it starts.  In `helpers`, `MaxBusy`
bounds the lanes of a run and the other writers together (two lanes, or one lane with a
title or a compaction): a writer conflicts with the row, not with a number of helpers.
Two lanes with one slot (sequential) are the least that queue.  In `peers` the attempts
of `claimName` are two and the inbox holds two: enough for a clash after the last
attempt and for a give-back that does not fit.  One event is allowed per behaviour; two
were explored to nine million states without a violation.  The theorems below have no
bounds.

`CHECK_DEADLOCK FALSE` everywhere: a program whose calls are all used up and at
rest has nothing left to do.

### Fairness

`Permission`: weak fairness of each call's own steps (`Receive`, `Timeout`,
`Announce`, `Forget`).  The Go scheduler runs a ready goroutine, the timer fires.
Nobody is assumed to answer.  `Helpers`: weak fairness of what the turn does next
inside a call or once cancelled, and of the helpers together: the scheduler does not
stop while one of them can register, take a slot, give up, create its session, have its
question answered (the service's timer does that after ten minutes), end after it was
cancelled, or report.  No model is required to answer, so a helper nobody cancels may
work for ever; `CancelEnds` holds all the same.  People, front ends and compactions are
never required to act.  `AgentRun`, `Turn` and
`Peers` state safety only: what a cancelled turn needs to end is in `Helpers`.

## 4. What is proved

From the named assumptions of the modules (`PermissionAssumption`: helpers and
conversations are disjoint, the modes, buttons and requests are of their kinds;
`AgentAssumption`: the null values are not members; `TurnAssumption`: the bounds are
naturals; `HelpersAssumption`: the lanes of the two waves are finite disjoint sets of
numbers, there is at least one slot, the bounds are naturals; `PeersAssumption`: programs
are finitely many positive numbers, the inbox holds one message and a name is tried once
at least) and nothing else:

* `PermissionProofs!TypeCorrect`.  The type invariant is not inductive alone: a
  call that has begun has a real request filed under a conversation, and an
  answer under way or an approval belongs to a call that has begun.  That is
  `Begun`.
* `PermissionProofs!TheFirstAnswerStands`, from the type invariant, one step per
  action: only `Receive` empties a channel, `Send` waits for room and a sweep
  skips a full one.
* `PermissionProofs!DeniesAreHeard`.  A Deny on its way, in the channel or
  received and not yet read has its root's mark set, or the mark was read by
  another call of the tree that carried on (`DenialInv`).  The mark comes before
  the send, and a reader that takes it carries on; that is all it rests on.
* `PermissionProofs!DeniesPayOnce`, by counting.  In one tree, what has carried on, the
  mark and the Denies given but not yet marked are together no more than the times Deny
  was given, one question counting as often as it was denied (`PaidFor`); a step moves
  one from one of these sets to the next or leaves them.  Cardinalities add only for
  finite sets, and the calls may be infinitely many, so the sets are shown finite beside
  it (`Counted`): so far only so many steps were made.
* `PermissionAuthority!EveryYesHasAuthority` and `IrreversibleIsAskedFor`.  The
  invariant `AInv` ties each layer to the one below: every stored grant was given
  by a person on a request it repeats (`Given`); what a snapshot found, and what
  the dialog answers as covered, was given (`Justified`); so what is approved on
  it was given.  Answers are never taken back from history, so what was standing
  when a snapshot was taken still is when it is used.
* `PermissionDialogProofs`: `OneDialogAtATime`, `NoDeadDialog` and
  `LostOnlyToAStaleAnswer` from one invariant, `DInv`.  `Log` says that a question is
  announced once and its end after it; `Flow` where a question is: nowhere before it is
  published, then among the events, then on the screen, until its end is on the way.  So
  a question that arrives is not there already, and one whose end arrives waits for
  nothing.  `Loop` speaks of the time inside an answer: as long as none was stale, the
  question being handled and the one on the screen are answered, which is why the screen
  may shift.  The service's own steps are grouped by what they can do to a question
  (`Quiet`) and preserve all of it at once.
* `AgentRunProofs`: `TypeCorrect`, `TableIsExact`, `RebuildsAreNotDoubled`,
  `SwitchesAreHonest`, `CompactionsAreListed` and the refinement `AgentImplementsLock`:
  every step of `AgentRun` is a step of `TurnLock` or leaves the holders and the phases
  alone, so an entry is given back in the step that ends its turn.  `LastLookRebuilds` is
  an action property: only its own look or its swap ends a turn's being due (`StaysDue`), a
  swap leaves the flag off, and an entry that stops the look is, by `EntryIsTheTurn`, one
  of a turn that has still to look itself.
* `TurnProofs`: `TypeCorrect` and `AnsweredOnce` from one invariant.  `Placed` says
  where the message of the round under way is and that only summaries stand after it
  while it is written; `Asked` that a round has no row before its message is made, and
  that a turn asks again only after its answer; `Numbered` and `OneMessage` that rounds
  and messages are the same thing.  Together with `AnsweredOnceInPlace` they are
  inductive: an answer is appended only where `Placed` says the message is the last.
  `RoundsKept` is the refinement of `ToolRounds`: a step leaves every phase alone,
  opens the next round or closes the open one (`RoundStep`).
* `TurnHistoryProofs`: what the turn leaves behind, from that invariant and two more.
  `HInv` relates memory to the store: at each place of the turn `Memory` says whether the
  message in memory is the one stored, and what of its results is; so whichever way a
  round ends, what it leaves is complete (`Finished`), its results fit its calls (`Fit`)
  and a mark follows the results (`Told`), or a death or a failed write tore it.
  `InOrder` keeps the calls after the one that is running untouched.  `CInv` follows
  every compaction: as long as no turn begins beside it, none runs and only summaries are
  stored after what it read (`Making`); what is stored later belongs to later rounds
  (`Kept`).
  `SentAcceptable` is about what is sent, `Repaired(rows)`: the rows with a reply invented
  for each call that has none.  Stored rows are neat while nothing was split or orphaned
  (`Neat`: each row of results stands right after its calls), a call once open is answered
  by the repair and nothing else is (`RepairedIsSendable`, row by row from
  `SendableIsAcceptable`), a cut at the summary keeps it (`FromSummaryIsSendable`), and
  what a turn sends is a repaired history followed by the rounds it closed itself.  The
  community fold that joins the rows is a recursive function whose existence is proved
  first (`Flattening`), by the least number at which it would fail: the library's
  induction cannot be used.
* `HelpersProofs`: the type invariant, `NobodyWritesBehind`, `EveryReplyAudited`,
  `EarlyCutSpendsNothing`, `CancelledNotParked` and `RowsTruthful` from one invariant.
  `PhaseInv` says which waves have not started, may be at work or are over at each place
  the turn can be, and that what has still to be launched belongs to the present one: so
  a wave that is read is over.  `StageInv` and `RowInv` tie a helper's row, result and
  spending to where its goroutine is.  `SlotInv` counts: no more helpers hold a slot than
  there are.  The count is a cardinality, so it has an argument of its own: but for one
  step (`TakeSlot`, whose guard leaves room) the holders only become fewer, and a wave
  begins with none.  `AuditInv` follows a reply of the first wave from its helper's end
  to its supervisor's.  `CancelledNotParked` is inductive beside the types: rows go
  first, then the cancel, then the sweep, and only what is asked after the sweep is left.
* `HelpersProofs!AllBilled`.  The books balance in every state, also inside a call: what
  was spent is what the row holds, what is excused, what a compaction, the turn or the
  call has yet to save, and what helpers have yet to report (`BookInv`).  What helpers
  owe is a set with one member for each request of each helper, so that the sum over the
  helpers is a cardinality, and a step adds one member or removes one helper's column
  (`OwedMore`, `OwedLess`).  Between calls nobody owes anything (`PhaseInv`), and the
  property is what remains.
* `PeersProofs`: the type invariant and five properties.  That a name is always free
  (`FreeNameFree`) is the pigeonhole principle: one name more than programs, and a set of
  numbers has a least.  `NamesCollideUnseenOnly` rests on `Chosen` (entry and name agree
  once a program is up), `Overlapping` (whoever holds the name a program is about to
  take chose it at the same time) and `Clashing` (of two with one name the later is still
  to compare, or nobody will).  `BusyIsTrue` rests on `Shown`: as long as the program is
  shown as busy, and nothing outlived the turns, some turn has still to look or has
  looked and is about to show it.  `OneNoticePerAsk` rests on `OnePlace`: each ask is in
  the call, in one subscription or in one notice, in one of them only, and in none once it
  was answered.  `AwaitedIsOnItsWay` rests on `NameKept` (a program called or awaited still
  bears the name it was called by, unless `mislaid` tells of the change, so a notice it
  makes is the one awaited) and is inductive with it (`Underway`): each step hands what
  is owed from the call to the subscription, from there to the notice, or takes it.
  `AcceptedNotLost` rests on `Mail`: until a program is being stopped its messages lie in
  pairwise disjoint places without repetition (`Kept`), only a turn that took and has not
  stored holds any, and until two turns held some at once, the one that does took them
  before all that wait (`Ordered`).  One lemma for each way a message moves
  (`KeptArrives`, `KeptTakes`, `KeptStores`, `KeptRequeues`) shows both kept, for the cut at
  the limit too; `Counted` turns the disjoint places into the sum the property states.

Every safety invariant and every action property the passing runs check is proved; so are
both refinements.  Only model-checked are the liveness properties `EveryQuestionSettles`
and `CancelEnds`: liveness under fairness, and with it ENABLED, is outside the proof
system used here.

## 5. Not modelled, and the plan

`PROJECT.json` lists every component with its status and every hazard with the
property that covers it, or the reason why none does yet.  What is left, in order:

1. `Broker`: bounded lossy delivery, unsubscription and shutdown; then
   `PermissionDialog` over it, which takes delivery to be in order and without loss.
2. A second answer to one question blocking a front end (`permission.go:594`).
3. The persistent shell's command queue, the retries of file versions, and the turn
   stream of the editor protocol.

Left out of the modules that are there: hooks, credential masking, the eliding of old
results and the deletion of messages (`Turn`); the leash, the dossier allowance and
the display of live spending (`Helpers`, which also leaves the fleet grant to
`Permission`); failed writes of the register, reused process numbers, and the notice
shown to people (`Peers`).

Out of scope: parsing and rendering, provider protocols, the three operating
systems' process semantics under the shell, language servers, generated
database code, and the large tables of settings, models and text that most of the
repository's lines are.
