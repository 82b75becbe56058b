------------------------------- MODULE Peers -------------------------------
(***************************************************************************)
(* Programs on one computer that send each other short messages            *)
(* (internal/peers: registry.go, session.go, server.go; the agent's side is *)
(* llm/agent/peers.go): how a program takes a name in the register, how a   *)
(* message gets from a call into an inbox and into a turn, and how a        *)
(* program that asked is told once that another one is idle.                *)
(*                                                                         *)
(* A request is one connection: the other side handles it under its own     *)
(* lock, and the reply comes back or is lost.  A program is the number of   *)
(* its start.  A name is a number, 1 for the folder's own, 2 for "-2", and  *)
(* as many as are ever told apart.                                          *)
(***************************************************************************)
EXTENDS Integers, Sequences, FiniteSets

CONSTANTS Program,             \* 1..n, in the order of their start
          Turn,                \* the goroutines of a program's turns
          MaxInbox, MaxTries,  \* maxInbox, the attempts of claimName
          Sender, Worker,      \* bounds: who sends; who has turns;
          MaxSend, MaxAsk,     \* sends; those that also ask for a notice;
          MaxRun, MaxEvent     \* turns; renames, faults, compactions and closes together

ASSUME PeersAssumption ==
  /\ Program \subseteq Nat \ {0} /\ IsFiniteSet(Program) /\ IsFiniteSet(Turn)
  /\ Sender \subseteq Program /\ Worker \subseteq Program
  /\ MaxInbox \in Nat \ {0} /\ MaxTries \in Nat \ {0}
  /\ MaxSend \in Nat /\ MaxAsk \in Nat /\ MaxRun \in Nat /\ MaxEvent \in Nat

VARIABLES
  stage,      \* a program's life; "closing": the closed mark is set
  name,       \* the name a program goes by
  claim,      \* where it is in claimName or Rename, and the name it is about to take
  entry,      \* the register: the name in a program's file, 0 when there is none
  busy,       \* what it last told its peers (and wrote beside the name)
  inbox,      \* what waits for the AI, numbered as it arrived
  subs,       \* whom it owes an idle notice
  awaiting,   \* from whom it expects one
  call,       \* its Send
  notices,    \* idle notices on their way
  turn, taken,     \* each turn's goroutine; what it took from the inbox
  compacting,      \* programs whose agent is summarising
  arrived, gone,   \* history: how many came; those an AI saw, or that did not fit
  crossed,         \* history: programs two of whose turns held messages at once
  overlap, unseen, \* history: programs that chose a name at the same time; those of
                   \* them nobody will compare
  answered,        \* history: notices taken for each ask
  mislaid,         \* history: a notice was lost, or its sender took another name while
                   \* it was asked or awaited
  early, outlived, \* history: a turn began while another's end was being shown; a
                   \* compaction, or another's "busy" not yet shown, outlived the turns
  count            \* the bounded counters

reg     == <<stage, name, claim, entry>>
post    == <<inbox, arrived, gone, crossed>>
dues    == <<subs, awaiting, notices, answered>>
idle    == <<dues, mislaid>>
naming  == <<overlap, unseen>>
work    == <<turn, taken, compacting, early, outlived>>
vars    == <<reg, busy, post, idle, naming, call, work, count>>

Name   == 1..(Cardinality(Program) + 1)
NoCall == [step |-> "none"]
Alive(p)   == stage[p] \in {"claiming", "up", "closing"}
Serving(p) == stage[p] \in {"claiming", "up"}
Counts(c, max) == count[c] < max /\ count' = [count EXCEPT ![c] = @ + 1]

\* List: the entries of dead processes are removed on the way.
Listed == [q \in Program |-> IF stage[q] = "dead" THEN 0 ELSE entry[q]]
Others(p) == {q \in Program \ {p} : Listed[q] # 0}

-----------------------------------------------------------------------------
(* Names. *)

Start(p) ==
  /\ stage[p] = "off" /\ \A q \in Program : q < p => stage[q] # "off"
  /\ stage' = [stage EXCEPT ![p] = "claiming"]
  /\ claim' = [claim EXCEPT ![p] = [step |-> "reading", want |-> 0, tries |-> 1]]
  /\ UNCHANGED <<name, entry, busy, post, idle, naming, call, work, count>>

\* uniqueName: the first that no other entry has.
FreeName(p) ==
  CHOOSE n \in Name : /\ \A q \in Others(p) : entry[q] # n
                      /\ \A m \in 1..(n - 1) : \E q \in Others(p) : entry[q] = m

Apart(pairs, p) == {s \in pairs : p \notin s}

Reads(p) ==
  /\ entry' = Listed
  /\ overlap' = Apart(overlap, p) \union
                {{p, q} : q \in {r \in Program \ {p} : claim[r].step \in {"writing", "renaming"}}}

\* Of two programs that chose at the same time only the later one compares, and only
\* while it starts.
Writes(p) ==
  /\ name' = [name EXCEPT ![p] = claim[p].want]
  /\ entry' = [entry EXCEPT ![p] = claim[p].want]
  /\ unseen' = Apart(unseen, p) \union
               {s \in overlap : p \in s /\ \A q \in s : stage[q] = "claiming" =>
                                                          \E r \in s : r > q}
  /\ mislaid' = mislaid \union {<<p, a>> : a \in {b \in Program :
       \/ \E k \in awaiting[b] : k.of = p
       \/ call[b] # NoCall /\ call[b].to = p}}

ClaimReads(p) ==
  /\ claim[p].step = "reading"
  /\ Reads(p)
  /\ claim' = [claim EXCEPT ![p].step = "writing", ![p].want = FreeName(p)]
  /\ UNCHANGED <<stage, name, busy, post, idle, unseen, call, work, count>>

ClaimWrites(p) ==
  /\ claim[p].step = "writing"
  /\ Writes(p)
  /\ claim' = [claim EXCEPT ![p].step = "checking"]
  /\ UNCHANGED <<stage, busy, post, dues, overlap, call, work, count>>

\* After the last attempt the name is kept, clash or not.
Clash(p) == \E q \in Others(p) : q < p /\ entry[q] = name[p]

Checks(p, clash) ==
  /\ claim[p].step = "checking"
  /\ entry' = Listed
  /\ IF clash /\ claim[p].tries < MaxTries
       THEN /\ claim' = [claim EXCEPT ![p].step = "reading", ![p].tries = @ + 1]
            /\ UNCHANGED <<stage, unseen>>
       ELSE /\ claim' = [claim EXCEPT ![p] = [step |-> "none", want |-> 0, tries |-> 0]]
            /\ stage' = [stage EXCEPT ![p] = "up"]
            /\ unseen' = unseen \union IF clash THEN {{p, q} : q \in Others(p)} ELSE {}
  /\ UNCHANGED <<name, busy, post, idle, overlap, call, work, count>>

\* Mutant: the earlier of the two yields.
EarlierYields(p) == Checks(p, \E q \in Others(p) : q > p /\ entry[q] = name[p])

ClaimChecks(p) == Checks(p, Clash(p))

\* Rename reads the register and takes the name if nobody has it; it never looks again,
\* and does not look at the closed mark.
RenameReads(p, n) ==
  /\ stage[p] = "up" /\ claim[p].step = "none" /\ n # name[p]
  /\ \A q \in Others(p) : entry[q] # n
  /\ Counts("event", MaxEvent)
  /\ Reads(p)
  /\ claim' = [claim EXCEPT ![p] = [step |-> "renaming", want |-> n, tries |-> 0]]
  /\ UNCHANGED <<stage, name, busy, post, idle, unseen, call, work>>

RenameWrites(p) ==
  /\ claim[p].step = "renaming"
  /\ Writes(p)
  /\ claim' = [claim EXCEPT ![p] = [step |-> "none", want |-> 0, tries |-> 0]]
  /\ UNCHANGED <<stage, busy, post, dues, overlap, call, work, count>>

-----------------------------------------------------------------------------
(* The end of a program. *)

NothingLeft(p) ==
  /\ call' = [call EXCEPT ![p] = NoCall]
  /\ claim' = [claim EXCEPT ![p] = [step |-> "none", want |-> 0, tries |-> 0]]
  /\ turn' = [turn EXCEPT ![p] = [t \in Turn |-> "none"]]
  /\ taken' = [taken EXCEPT ![p] = [t \in Turn |-> <<>>]]
  /\ inbox' = [inbox EXCEPT ![p] = <<>>] /\ arrived' = [arrived EXCEPT ![p] = 0]
  /\ gone' = [gone EXCEPT ![p] = {}] /\ crossed' = crossed \ {p}
  /\ subs' = [subs EXCEPT ![p] = {}] /\ awaiting' = [awaiting EXCEPT ![p] = {}]
  /\ busy' = [busy EXCEPT ![p] = FALSE] /\ compacting' = compacting \ {p}
  /\ early' = early \ {p} /\ outlived' = outlived \ {p}

\* Close: nothing more is accepted, and the entry goes first.
Close(p) ==
  /\ stage[p] = "up" /\ Counts("event", MaxEvent)
  /\ stage' = [stage EXCEPT ![p] = "closing"] /\ entry' = [entry EXCEPT ![p] = 0]
  /\ UNCHANGED <<name, claim, busy, post, idle, naming, call, work>>

\* It waits for its own notices and removes the entry again.
CloseEnds(p) ==
  /\ stage[p] = "closing" /\ \A n \in notices : n.from # p
  /\ stage' = [stage EXCEPT ![p] = "closed"] /\ entry' = [entry EXCEPT ![p] = 0]
  /\ NothingLeft(p)
  /\ UNCHANGED <<name, naming, notices, answered, mislaid, count>>

Crash(p) ==
  /\ Alive(p) /\ Counts("event", MaxEvent)
  /\ stage' = [stage EXCEPT ![p] = "dead"]
  /\ notices' = {n \in notices : n.from # p}
  /\ NothingLeft(p)
  /\ UNCHANGED <<name, entry, naming, answered, mislaid>>

-----------------------------------------------------------------------------
(* A message, and a request for a notice.  The handler is one step under its *)
(* program's lock; only a request for a notice lets go of it to read the    *)
(* register.                                                                *)

\* Lookup and Identity.  Of several entries with the name, the first is taken.
Lookup(a, b, notify) ==
  /\ a \in Sender /\ stage[a] = "up" /\ call[a] = NoCall
  /\ count.send < MaxSend /\ (notify => count.ask < MaxAsk)
  /\ count' = [count EXCEPT !.send = @ + 1, !.ask = IF notify THEN @ + 1 ELSE @]
  /\ b \in Others(a) /\ entry[b] # name[a]
  /\ \A c \in Others(a) : entry[c] = entry[b] => b <= c
  /\ entry' = Listed
  /\ mislaid' = IF \E k \in awaiting[a] : k.of = b THEN mislaid ELSE mislaid \ {<<b, a>>}
  /\ call' = [call EXCEPT ![a] = [step |-> "message", to |-> b, as |-> entry[b], me |-> name[a],
                                  notify |-> notify, ask |-> IF notify THEN count.ask + 1 ELSE 0]]
  /\ UNCHANGED <<stage, name, claim, busy, post, dues, naming, work>>

SendFails(a) ==
  /\ call[a].step = "message"
  /\ \/ UNCHANGED count /\ (~Serving(call[a].to) \/ Len(inbox[call[a].to]) >= MaxInbox)
     \/ Counts("event", MaxEvent)
  /\ call' = [call EXCEPT ![a] = NoCall]
  /\ UNCHANGED <<reg, busy, post, idle, naming, work>>

Arrives(b) ==
  /\ inbox' = [inbox EXCEPT ![b] = Append(@, arrived[b] + 1)]
  /\ arrived' = [arrived EXCEPT ![b] = @ + 1]

\* The reply of an accepted message may be lost; then nothing more is asked.
Accept(a) ==
  LET b == call[a].to IN
  /\ call[a].step = "message" /\ Serving(b) /\ Len(inbox[b]) < MaxInbox
  /\ Arrives(b)
  /\ \/ call[a].notify /\ call' = [call EXCEPT ![a].step = "told"] /\ UNCHANGED count
     \/ ~call[a].notify /\ call' = [call EXCEPT ![a] = NoCall] /\ UNCHANGED count
     \/ call[a].notify /\ call' = [call EXCEPT ![a] = NoCall] /\ Counts("event", MaxEvent)
  /\ UNCHANGED <<reg, busy, gone, crossed, idle, naming, work>>

Key(a) == [of |-> call[a].to, as |-> call[a].as]

\* Recorded before asking.
Ask(a) ==
  /\ call[a].step = "told"
  /\ awaiting' = [awaiting EXCEPT ![a] = @ \union {Key(a)}]
  /\ call' = [call EXCEPT ![a].step = "asking"]
  /\ UNCHANGED <<reg, busy, post, subs, notices, answered, mislaid, naming, work, count>>

\* The asker must still be in the register under the name it gave.
FindEntry(a) ==
  /\ call[a].step = "asking"
  /\ IF Serving(call[a].to)
       THEN /\ entry' = Listed
            /\ call' = [call EXCEPT ![a].step =
                          IF entry[a] = call[a].me THEN "found" ELSE "refused"]
       ELSE /\ UNCHANGED entry
            /\ call' = [call EXCEPT ![a].step = "refused"]
  /\ UNCHANGED <<stage, name, claim, busy, post, idle, naming, work, count>>

\* `ask` is history: what the notice is for.
Notice(b, s) == [from |-> b, name |-> name[b], to |-> s.of, ask |-> s.ask]

Subscribe(a) ==
  LET b == call[a].to
      s == [of |-> a, me |-> call[a].me, ask |-> call[a].ask]
  IN
  /\ call[a].step = "found"
  /\ \/ /\ ~Serving(b)
        /\ call' = [call EXCEPT ![a].step = "refused"] /\ UNCHANGED <<subs, notices>>
     \/ /\ Serving(b) /\ ~busy[b]
        /\ notices' = notices \union {Notice(b, s)}
        /\ call' = [call EXCEPT ![a].step = "promised"] /\ UNCHANGED subs
     \/ /\ Serving(b) /\ busy[b]
        /\ subs' = [subs EXCEPT ![b] = {r \in @ : r.of # a \/ r.me # s.me} \union {s}]
        /\ call' = [call EXCEPT ![a].step = "promised"] /\ UNCHANGED notices
  /\ UNCHANGED <<reg, busy, post, awaiting, answered, mislaid, naming, work, count>>

\* Mutant: recorded once the other side has promised.
AwaitThePromised(a) ==
  /\ \/ /\ call[a].step = "promised"
        /\ awaiting' = [awaiting EXCEPT ![a] = @ \union {Key(a)}]
     \/ call[a].step = "refused" /\ awaiting' = [awaiting EXCEPT ![a] = @ \ {Key(a)}]
  /\ call' = [call EXCEPT ![a] = NoCall]
  /\ UNCHANGED <<reg, busy, post, subs, notices, answered, mislaid, naming, work, count>>

\* A request that failed, or whose reply was lost, is not awaited, whatever was
\* awaited before it.
AskReturns(a) ==
  /\ \/ call[a].step = "promised" /\ UNCHANGED <<awaiting, count>>
     \/ /\ call[a].step = "refused" /\ UNCHANGED count
        /\ awaiting' = [awaiting EXCEPT ![a] = @ \ {Key(a)}]
     \/ /\ call[a].step = "promised" /\ Counts("event", MaxEvent)
        /\ awaiting' = [awaiting EXCEPT ![a] = @ \ {Key(a)}]
  /\ call' = [call EXCEPT ![a] = NoCall]
  /\ UNCHANGED <<reg, busy, post, subs, notices, answered, mislaid, naming, work>>

-----------------------------------------------------------------------------
(* An idle notice arrives: taken if it is awaited, and put in the inbox if   *)
(* there is room.                                                           *)

Expected(n) == Serving(n.to) /\ [of |-> n.from, as |-> n.name] \in awaiting[n.to]

TakeNotice(n) ==
  /\ n \in notices /\ Expected(n)
  /\ notices' = notices \ {n}
  /\ awaiting' = [awaiting EXCEPT ![n.to] = @ \ {[of |-> n.from, as |-> n.name]}]
  /\ IF Len(inbox[n.to]) < MaxInbox THEN Arrives(n.to) ELSE UNCHANGED <<inbox, arrived>>
  /\ answered' = [answered EXCEPT ![n.ask] = @ + 1]
  /\ UNCHANGED <<reg, busy, gone, crossed, subs, mislaid, naming, call, work, count>>

RefuseNotice(n) ==
  /\ n \in notices /\ ~Expected(n)
  /\ notices' = notices \ {n}
  /\ UNCHANGED <<reg, busy, post, subs, awaiting, answered, mislaid, naming, call, work, count>>

\* The connection fails, or the sender has sent too much this minute.
LoseNotice(n) ==
  /\ n \in notices /\ Counts("event", MaxEvent)
  /\ notices' = notices \ {n} /\ mislaid' = mislaid \union {<<n.from, n.to>>}
  /\ UNCHANGED <<reg, busy, post, subs, awaiting, answered, naming, call, work>>

-----------------------------------------------------------------------------
(* Turns. *)

Active(p) == {t \in Turn : turn[p][t] \in {"stored", "began", "took", "running"}}
Goes(p, t, from, to) == turn[p][t] = from /\ turn' = [turn EXCEPT ![p][t] = to]

\* Mutant: the subscriptions are kept.
SetBusyKeeps(p, b) ==
  /\ busy' = [busy EXCEPT ![p] = b] /\ entry' = [entry EXCEPT ![p] = name[p]]
  /\ IF b THEN UNCHANGED notices
          ELSE notices' = notices \union {Notice(p, s) : s \in subs[p]}
  /\ UNCHANGED subs

\* Becoming idle sends each notice owed and forgets it.
SetBusy(p, b) ==
  IF stage[p] # "up" \/ busy[p] = b THEN UNCHANGED <<busy, entry, subs, notices>>
  ELSE /\ busy' = [busy EXCEPT ![p] = b] /\ entry' = [entry EXCEPT ![p] = name[p]]
       /\ IF b THEN UNCHANGED <<subs, notices>>
               ELSE /\ notices' = notices \union {Notice(p, s) : s \in subs[p]}
                    /\ subs' = [subs EXCEPT ![p] = {}]

Run(p, t) ==
  /\ p \in Worker /\ stage[p] = "up" /\ Goes(p, t, "none", "stored") /\ Counts("run", MaxRun)
  /\ early' = IF \E u \in Turn : turn[p][u] = "sawIdle" THEN early \union {p} ELSE early
  /\ UNCHANGED <<reg, busy, post, idle, naming, call, taken, compacting, outlived>>

Begin(p, t) ==
  /\ Goes(p, t, "stored", "began") /\ SetBusy(p, TRUE)
  /\ outlived' = outlived \ {p}
  /\ UNCHANGED <<stage, name, claim, post, awaiting, answered, mislaid, naming, call, taken,
                 compacting, early, count>>

\* takePeerMessages: nothing once the program is being stopped.
Take(p, t) ==
  /\ Goes(p, t, "began", "took")
  /\ IF stage[p] = "up"
       THEN /\ taken' = [taken EXCEPT ![p][t] = inbox[p]]
            /\ inbox' = [inbox EXCEPT ![p] = <<>>]
            /\ crossed' = IF \E u \in Turn : taken[p][u] # <<>>
                          THEN crossed \union {p} ELSE crossed
       ELSE UNCHANGED <<taken, inbox, crossed>>
  /\ UNCHANGED <<reg, busy, arrived, gone, idle, naming, call, compacting, early, outlived,
                 count>>

Seen(s) == {s[i] : i \in DOMAIN s}

Store(p, t) ==
  /\ Goes(p, t, "took", "running")
  /\ gone' = [gone EXCEPT ![p] = @ \union Seen(taken[p][t])]
  /\ taken' = [taken EXCEPT ![p][t] = <<>>]
  /\ UNCHANGED <<reg, busy, inbox, arrived, crossed, idle, naming, call, compacting, early,
                 outlived, count>>

Fits(all) == IF Len(all) < MaxInbox THEN Len(all) ELSE MaxInbox

Requeues(p, all, fits) ==
  /\ inbox' = [inbox EXCEPT ![p] = SubSeq(all, 1, fits)]
  /\ gone' = [gone EXCEPT ![p] = @ \union {all[i] : i \in (fits + 1)..Len(all)}]

Fails(p, t, all, fits) ==
  /\ Goes(p, t, "took", "over") /\ Counts("event", MaxEvent)
  /\ IF stage[p] = "up" /\ taken[p][t] # <<>> THEN Requeues(p, all, fits)
                                              ELSE UNCHANGED <<inbox, gone>>
  /\ taken' = [taken EXCEPT ![p][t] = <<>>]
  /\ UNCHANGED <<reg, busy, arrived, crossed, idle, naming, call, compacting, early, outlived>>

\* Mutant: what came meanwhile is overwritten.
RequeueOver(p, t) == Fails(p, t, taken[p][t], Len(taken[p][t]))

\* Mutant: nothing is cut.
RequeueUncut(p, t) ==
  Fails(p, t, taken[p][t] \o inbox[p], Len(taken[p][t] \o inbox[p]))

\* The user message could not be stored: Requeue, at the front, cut at the limit.
StoreFails(p, t) == Fails(p, t, taken[p][t] \o inbox[p], Fits(taken[p][t] \o inbox[p]))

\* The turn is over, or never came to taking anything.
End(p, t) ==
  /\ Goes(p, t, "running", "over") \/ Goes(p, t, "began", "over")
  /\ UNCHANGED <<reg, busy, post, idle, naming, call, taken, compacting, early, outlived, count>>

\* Mutant: a compaction is all that counts.
LooksAway(p, t) ==
  /\ \/ Goes(p, t, "over", "sawBusy") /\ p \in compacting
     \/ Goes(p, t, "over", "sawIdle") /\ p \notin compacting
  /\ UNCHANGED <<reg, busy, post, idle, naming, call, taken, compacting, early, outlived, count>>

\* IsBusy is asked first and shown afterwards; a compaction counts as busy.
Look(p, t) ==
  /\ \/ Goes(p, t, "over", "sawBusy") /\ (Active(p) # {} \/ p \in compacting)
     \/ Goes(p, t, "over", "sawIdle") /\ Active(p) = {} /\ p \notin compacting
  /\ outlived' = IF p \in compacting \/ \E u \in Turn : turn[p][u] = "sawBusy"
                   THEN outlived \union {p} ELSE outlived
  /\ UNCHANGED <<reg, busy, post, idle, naming, call, taken, compacting, early, count>>

Show(p, t) ==
  /\ \/ Goes(p, t, "sawBusy", "none") /\ SetBusy(p, TRUE)
     \/ Goes(p, t, "sawIdle", "none") /\ SetBusy(p, FALSE)
  /\ early' = IF Active(p) = {} THEN early \ {p} ELSE early
  /\ UNCHANGED <<stage, name, claim, post, awaiting, answered, mislaid, naming, call, taken,
                 compacting, outlived, count>>

\* Summarize keeps an entry of its own among the active requests; its end shows nothing.
Compact(p) ==
  /\ \/ p \in Worker /\ stage[p] = "up" /\ p \notin compacting
        /\ Counts("event", MaxEvent) /\ compacting' = compacting \union {p}
     \/ p \in compacting /\ compacting' = compacting \ {p} /\ UNCHANGED count
  /\ UNCHANGED <<reg, busy, post, idle, naming, call, turn, taken, early, outlived>>

-----------------------------------------------------------------------------
Init ==
  /\ stage = [p \in Program |-> "off"] /\ name = [p \in Program |-> 0]
  /\ claim = [p \in Program |-> [step |-> "none", want |-> 0, tries |-> 0]]
  /\ entry = [p \in Program |-> 0] /\ busy = [p \in Program |-> FALSE]
  /\ inbox = [p \in Program |-> <<>>] /\ subs = [p \in Program |-> {}]
  /\ awaiting = [p \in Program |-> {}] /\ call = [p \in Program |-> NoCall] /\ notices = {}
  /\ turn = [p \in Program |-> [t \in Turn |-> "none"]]
  /\ taken = [p \in Program |-> [t \in Turn |-> <<>>]]
  /\ compacting = {} /\ arrived = [p \in Program |-> 0] /\ gone = [p \in Program |-> {}]
  /\ crossed = {} /\ overlap = {} /\ unseen = {} /\ answered = [n \in 1..MaxAsk |-> 0]
  /\ mislaid = {} /\ early = {} /\ outlived = {}
  /\ count = [send |-> 0, ask |-> 0, run |-> 0, event |-> 0]

Names(p)  == \/ Start(p) \/ ClaimReads(p) \/ ClaimWrites(p) \/ ClaimChecks(p)
             \/ RenameWrites(p) \/ \E n \in Name : RenameReads(p, n)
Life(p)   == Close(p) \/ CloseEnds(p) \/ Crash(p)
Sends(a)  == \/ SendFails(a) \/ Accept(a) \/ Ask(a) \/ FindEntry(a) \/ Subscribe(a)
             \/ AskReturns(a) \/ \E b \in Program, notify \in BOOLEAN : Lookup(a, b, notify)
Works(p)  == \/ Compact(p)
             \/ \E t \in Turn : \/ Run(p, t) \/ Begin(p, t) \/ Take(p, t) \/ Store(p, t)
                                \/ StoreFails(p, t) \/ End(p, t) \/ Look(p, t) \/ Show(p, t)

Next == \/ \E p \in Program : Names(p) \/ Life(p) \/ Sends(p) \/ Works(p)
        \/ \E n \in notices : TakeNotice(n) \/ RefuseNotice(n) \/ LoseNotice(n)

Spec == Init /\ [][Next]_vars

-----------------------------------------------------------------------------
(* Properties. *)

TypeOK ==
  /\ stage \in [Program -> {"off", "claiming", "up", "closing", "closed", "dead"}]
  /\ name \in [Program -> Nat] /\ entry \in [Program -> Nat] /\ busy \in [Program -> BOOLEAN]
  /\ claim \in [Program -> [step : {"none", "reading", "writing", "checking", "renaming"},
                            want : Nat, tries : 0..MaxTries]]
  /\ inbox \in [Program -> Seq(Nat)] /\ \A p \in Program : Len(inbox[p]) <= MaxInbox
  /\ subs \in [Program -> SUBSET [of : Program, me : Nat, ask : 1..MaxAsk]]
  /\ awaiting \in [Program -> SUBSET [of : Program, as : Nat]]
  /\ call \in [Program -> {NoCall} \union
       [step : {"message", "told", "asking", "found", "refused", "promised"}, to : Program,
        as : Nat, me : Nat, notify : BOOLEAN, ask : 0..MaxAsk]]
  /\ notices \subseteq [from : Program, name : Nat, to : Program, ask : 1..MaxAsk]
  /\ turn \in [Program -> [Turn -> {"none", "stored", "began", "took", "running", "over",
                                    "sawIdle", "sawBusy"}]]
  /\ taken \in [Program -> [Turn -> Seq(Nat)]]
  /\ \A s \in {compacting, crossed, early, outlived} : s \subseteq Program
  /\ arrived \in [Program -> Nat] /\ gone \in [Program -> SUBSET Nat]
  /\ overlap \subseteq SUBSET Program /\ unseen \subseteq SUBSET Program
  /\ answered \in [1..MaxAsk -> Nat] /\ mislaid \subseteq Program \X Program
  /\ count \in [send : 0..MaxSend, ask : 0..MaxAsk, run : 0..MaxRun, event : 0..MaxEvent]

\* Two running programs bear one name only if they chose it at the same time and the
\* later of them had compared before, never compares (Rename), or has no attempt left.
NamesCollideUnseenOnly ==
  \A p, q \in Program :
    p # q /\ stage[p] = "up" /\ stage[q] = "up" /\ entry[p] # 0 /\ entry[p] = entry[q]
    => {p, q} \in unseen

\* A message that a running program accepted waits in the inbox, is in the hands of a
\* turn, was shown to an AI, or was cut off when a failed turn gave back more than the
\* inbox holds; never in two of these places, and in the order of arrival unless two
\* turns held messages.
Rising(s) == \A i, j \in DOMAIN s : i < j => s[i] < s[j]
AcceptedNotLost ==
  \A p \in Program : stage[p] = "up" =>
    /\ 1..arrived[p] = gone[p] \union Seen(inbox[p]) \union UNION {Seen(taken[p][t]) : t \in Turn}
    /\ arrived[p] = Cardinality(gone[p]) + Len(inbox[p])
                    + Cardinality({h \in Turn \X (1..arrived[p]) :
                                     h[2] \in Seen(taken[p][h[1]])})
    /\ p \notin crossed => Rising(inbox[p])

\* No request for a notice is answered by two, whatever was asked again, renamed or sent
\* twice.
OneNoticePerAsk == \A n \in DOMAIN answered : answered[n] <= 1

\* While a program waits for a notice, the other side owes it one or has sent it, unless
\* that one is gone, took another name meanwhile, or the notice was lost.
AwaitedIsOnItsWay ==
  \A a \in Program : \A k \in awaiting[a] :
    stage[a] = "up" /\ stage[k.of] = "up" /\ <<k.of, a>> \notin mislaid
    => \/ call[a].step \in {"asking", "found", "refused"} /\ Key(a) = k
       \/ \E s \in subs[k.of] : s.of = a
       \/ \E n \in notices : n.from = k.of /\ n.to = a /\ n.name = k.as

\* A program in a turn is shown as busy, unless the turn began between another's look
\* and its word; one with no turn left is shown as idle, unless a compaction was running
\* when the last one ended, or an earlier one had yet to say the "busy" it saw.
BusyIsTrue ==
  \A p \in Program : stage[p] = "up" =>
    /\ (\E t \in Turn : turn[p][t] \in {"began", "took", "running"}) => busy[p] \/ p \in early
    /\ (\A t \in Turn : turn[p][t] = "none") => ~busy[p] \/ p \in outlived
=============================================================================
