----------------------------- MODULE Permission -----------------------------
(***************************************************************************)
(* The permission service of internal/permission: tools block in Request   *)
(* until a standing mode, a remembered answer, a person, a sweep or the     *)
(* ten-minute timer settles the question, and the agent then reads who      *)
(* refused.  One process per call of Request; the people and front ends     *)
(* that answer, the sweeps of killed runs and the mode switches interleave  *)
(* with it as they do across the goroutines of the program.                 *)
(*                                                                         *)
(* The data is abstracted to what the rules compare.  An element of Opts    *)
(* stands for the arguments of one Request: its tool, the exact action and  *)
(* GrantKey ("key"), its normalised path ("place"), the families the        *)
(* tool's FamilyMatcher puts the key in (under that action: bash, the only  *)
(* tool with families, has one), the SessionClass and the flags.            *)
(***************************************************************************)
EXTENDS Naturals, FiniteSets

CONSTANTS
  Call,          \* the calls of Request, each with its own uuid
  Conversation,  \* sessions a person looks at
  Helper,        \* sessions of helper agents
  Unlinked,      \* no entry in childToParent
  Tool, EditTools, FleetTools,
  Key, Place, Family, NoFamily,
  Within,        \* <<p, d>>: pathWithin(p, d)
  Opts,          \* the requests tools make
  Modes,         \* the standing modes people switch between
  Button,        \* the answers people and front ends give
  Attendance,    \* what the entry points of the instance set unattended to
  MaxPress,      \* bound: different answers given to one question
  MaxDenials     \* bound: times Deny is given to one question

Session == Conversation \cup Helper

AllModes   == {"ask", "accept-edits", "plan", "auto"}
AllButtons == {"allow", "session", "family", "covered", "deny", "refuse"}

ASSUME PermissionAssumption ==
  /\ Conversation \cap Helper = {}
  /\ Unlinked \notin Conversation
  /\ NoFamily \notin Family
  /\ Modes \subseteq AllModes /\ Button \subseteq AllButtons
  /\ Attendance \subseteq BOOLEAN /\ MaxDenials \in Nat
  /\ Opts \subseteq [tool : Tool, key : Key, place : Place,
                     families : SUBSET Family, class : Family \cup {NoFamily},
                     egress : BOOLEAN, irreversible : BOOLEAN,
                     hardStop : BOOLEAN, outside : BOOLEAN]

VARIABLES
  mode, unattended, autoApproveSessions,          \* standing stances
  childToParent,                                  \* the session tree
  sessionPermissions, familyGrants, fleetGrants,  \* remembered answers
  personDenied, noAnswer,                         \* marks for the agent, per root
  pc, req, got,                                   \* each call of Request
  ch, answer,                                     \* its channel, the answer under way
  pressed, denials, fleetOpened                   \* history: what people answered

stances == <<mode, unattended, autoApproveSessions>>
grants  == <<sessionPermissions, familyGrants, fleetGrants, fleetOpened>>
marks   == <<personDenied, noAnswer>>
calls   == <<pc, req, got>>
answers == <<ch, answer, pressed, denials>>
vars    == <<stances, childToParent, grants, marks, calls, answers>>

NoRequest == [none |-> TRUE]
Request   == [session : Session, opts : Opts, root : Session,
              auto : BOOLEAN, covered : BOOLEAN, fleet : BOOLEAN]
Idle      == <<"none", "none">>
Waiting   == {"waiting", "settled", "announced"}   \* in pendingRequests
Ends      == {"carriedOn", "unanswered", "denied"} \* how the agent read a refusal

-----------------------------------------------------------------------------
(* Lookups. *)

\* rootSession.  Helpers are given neither the agent nor the research tool, so
\* the tree is two levels deep and the walk ends after one step.
Root(s) == IF s \in Helper /\ childToParent[s] # Unlinked THEN childToParent[s] ELSE s

MustAskAnyway(o) == o.irreversible \/ o.hardStop \/ (~o.egress /\ o.outside)

SameRequest(o, p) == o.tool = p.tool /\ o.key = p.key /\ o.place = p.place

\* sessionGrantCovers: the exact request, or any file change in the same root.
SessionGrantCovers(g, o) ==
  \/ SameRequest(g, o)
  \/ /\ {g.tool, o.tool} \subseteq EditTools
     /\ g.place = o.place
     /\ ~g.irreversible

\* Mutant: a remembered answer is not tied to its conversation.
CoveredByAnySession(root, o) ==
  \E g \in sessionPermissions : SessionGrantCovers(g.opts, o)

CoveredBySession(root, o) ==
  \E g \in sessionPermissions : g.session = root /\ SessionGrantCovers(g.opts, o)

\* Mutant: a family also covers the command that cannot be undone.
CoveredByFamilyAnyway(root, o) ==
  /\ ~o.egress
  /\ \E g \in familyGrants : /\ g.session = root /\ g.tool = o.tool
                             /\ <<o.place, g.place>> \in Within
                             /\ g.family \in o.families

CoveredByFamily(root, o) ==
  /\ ~o.irreversible /\ ~o.egress
  /\ \E g \in familyGrants : /\ g.session = root /\ g.tool = o.tool
                             /\ <<o.place, g.place>> \in Within
                             /\ g.family \in o.families

IsCovered(c) ==
  \/ <<Root(req[c].root), req[c].opts.tool>> \in fleetGrants
  \/ CoveredBySession(Root(req[c].root), req[c].opts)
  \/ CoveredByFamily(Root(req[c].root), req[c].opts)

\* pendingRequests holds c from Store to the deferred Delete.
Pending(c) == pc[c] \in Waiting

Yes(c) == got[c] \in {"approved", "allow"}

Published(c) == pc[c] \in Waiting \cup {"returned"} \cup Ends /\ got[c] \notin {"approved", "refused"}

-----------------------------------------------------------------------------
(* Request, up to the question. *)

Outstanding(c) == pc[c] \in {"snapped"} \cup Waiting \/ (pc[c] = "returned" /\ ~Yes(c))

\* An agent runs its tool calls one after the other, and a conversation is
\* inside the tool call that waits for its helpers while they work.
MayAsk(s) ==
  \A d \in Call : Outstanding(d) /\ req[d].root = Root(s) =>
    {s, req[d].session} \subseteq Helper /\ req[d].session # s

\* The one RLock at the top of Request, and the reading of the mode beside it.
Ask(c, s, o) ==
  /\ pc[c] = "idle" /\ MayAsk(s)
  /\ s \in Helper => childToParent[s] # Unlinked
  /\ pc' = [pc EXCEPT ![c] = "snapped"]
  /\ req' = [req EXCEPT ![c] =
       [session |-> s, opts |-> o, root |-> Root(s),
        auto    |-> mode = "auto" \/ Root(s) \in autoApproveSessions \/ s \in autoApproveSessions,
        covered |-> CoveredBySession(Root(s), o),
        fleet   |-> <<Root(s), o.tool>> \in fleetGrants]]
  /\ UNCHANGED <<stances, childToParent, grants, marks, got, answers>>

\* Mutant: nobody watching means every carve-out is waved through.
RefusesInPlanOnly(c) == mode = "plan" /\ ~req[c].opts.egress

\* modeDecision's refusal, and the carve-out nobody is there to answer.
RefusesOutright(c) ==
  \/ mode = "plan" /\ ~req[c].opts.egress
  \/ req[c].auto /\ unattended /\ req[c].opts.irreversible

ApprovesUnasked(c) ==
  LET o == req[c].opts IN
  \/ mode = "accept-edits" /\ o.tool \in EditTools /\ ~MustAskAnyway(o)
  \/ req[c].auto /\ (~MustAskAnyway(o) \/ unattended)
  \/ req[c].covered
  \/ CoveredByFamily(req[c].root, o)
  \/ req[c].fleet

RefuseOutright(c) ==
  /\ pc[c] = "snapped" /\ RefusesOutright(c)
  /\ pc' = [pc EXCEPT ![c] = "returned"]
  /\ got' = [got EXCEPT ![c] = "refused"]
  /\ UNCHANGED <<stances, childToParent, grants, marks, req, answers>>

ApproveUnasked(c) ==
  /\ pc[c] = "snapped" /\ ~RefusesOutright(c) /\ ApprovesUnasked(c)
  /\ pc' = [pc EXCEPT ![c] = "returned"]
  /\ got' = [got EXCEPT ![c] = "approved"]
  /\ UNCHANGED <<stances, childToParent, grants, marks, req, answers>>

\* pendingRequests.Store and Publish(CreatedEvent).
Publish(c) ==
  /\ pc[c] = "snapped" /\ ~RefusesOutright(c) /\ ~ApprovesUnasked(c)
  /\ pc' = [pc EXCEPT ![c] = "waiting"]
  /\ UNCHANGED <<stances, childToParent, grants, marks, req, got, answers>>

-----------------------------------------------------------------------------
(* Request, from the select to its return.  Both cases of the select may be *)
(* ready; Go then picks either.                                             *)

Receive(c) ==
  /\ pc[c] = "waiting" /\ ch[c] # "empty"
  /\ got' = [got EXCEPT ![c] = ch[c]]
  /\ ch' = [ch EXCEPT ![c] = "empty"]
  /\ pc' = [pc EXCEPT ![c] = "settled"]
  /\ UNCHANGED <<stances, childToParent, grants, marks, req, answer, pressed, denials>>

\* Mutant: the bare channel receive Request had before it had a timer.
TimeoutNever(c) ==
  /\ pc[c] = "waiting" /\ ch[c] # "empty" /\ pc' = [pc EXCEPT ![c] = "waiting"]
  /\ UNCHANGED <<stances, childToParent, grants, marks, req, got, answers>>

Timeout(c) ==
  /\ pc[c] = "waiting"
  /\ got' = [got EXCEPT ![c] = "timeout"]
  /\ noAnswer' = noAnswer \cup {req[c].root}
  /\ pc' = [pc EXCEPT ![c] = "settled"]
  /\ UNCHANGED <<stances, childToParent, grants, personDenied, req, answers>>

\* The deferred calls run last in, first out: DeletedEvent, then the Delete.
Announce(c) ==
  /\ pc[c] = "settled"
  /\ pc' = [pc EXCEPT ![c] = "announced"]
  /\ UNCHANGED <<stances, childToParent, grants, marks, req, got, answers>>

Forget(c) ==
  /\ pc[c] = "announced"
  /\ pc' = [pc EXCEPT ![c] = "returned"]
  /\ UNCHANGED <<stances, childToParent, grants, marks, req, got, answers>>

\* Mutant: the mark is looked at and not taken.
AgentReadsKeepingMark(c) ==
  /\ pc[c] = "returned" /\ ~Yes(c)
  /\ pc' = [pc EXCEPT ![c] = IF Root(req[c].session) \in personDenied THEN "carriedOn" ELSE "denied"]
  /\ UNCHANGED <<stances, childToParent, grants, marks, req, got, answers>>

\* The agent on ErrorPermissionDenied: TakePersonDenial, then TakeNoAnswer.
\* Each mark belongs to the root of the tree and is cleared by its reader.
AgentReads(c) ==
  LET root == Root(req[c].session) IN
  /\ pc[c] = "returned" /\ ~Yes(c)
  /\ \/ /\ root \in personDenied
        /\ personDenied' = personDenied \ {root}
        /\ pc' = [pc EXCEPT ![c] = "carriedOn"]
        /\ UNCHANGED noAnswer
     \/ /\ root \notin personDenied
        /\ noAnswer' = noAnswer \ {root}
        /\ pc' = [pc EXCEPT ![c] = IF root \in noAnswer THEN "unanswered" ELSE "denied"]
        /\ UNCHANGED personDenied
  /\ UNCHANGED <<stances, childToParent, grants, req, got, answers>>

-----------------------------------------------------------------------------
(* Answers.  A front end loads the pending entry, for a Deny marks it, and   *)
(* sends on the channel of capacity one; the two "remember" answers store    *)
(* what they grant after the send.  Of two answers to one question the        *)
(* second is loaded when the first has been sent.                            *)

\* Nothing stops a second answer to one question, the same or another: only the
\* bounds do.  drainPermissionQueue answers only what IsCovered says is settled.
MayAnswer(c, b) ==
  /\ Published(c)
  /\ <<c, b>> \in pressed \/ Cardinality({x \in Button : <<c, x>> \in pressed}) < MaxPress
  /\ b = "deny" => denials[c] < MaxDenials
  /\ b = "covered" => IsCovered(c)

Answer(c, b) ==
  /\ answer[c] = Idle
  /\ pressed' = pressed \cup {<<c, b>>}
  /\ denials' = [denials EXCEPT ![c] = IF b = "deny" THEN @ + 1 ELSE @]
  /\ answer' = [answer EXCEPT ![c] =
       IF Pending(c) THEN <<b, IF b = "deny" THEN "mark" ELSE "send">>
       ELSE IF b \in {"session", "family"} THEN <<b, "store">> ELSE Idle]
  /\ UNCHANGED <<stances, childToParent, grants, marks, calls, ch>>

\* Mutant: the mark is filed under the session that asked, not under its root.
MarkDenialOfAsker(c) ==
  /\ answer[c] = <<"deny", "mark">>
  /\ personDenied' = personDenied \cup {req[c].session}
  /\ answer' = [answer EXCEPT ![c] = <<"deny", "send">>]
  /\ UNCHANGED <<stances, childToParent, grants, noAnswer, calls, ch, pressed, denials>>

MarkDenial(c) ==
  /\ answer[c] = <<"deny", "mark">>
  /\ personDenied' = personDenied \cup {req[c].root}
  /\ answer' = [answer EXCEPT ![c] = <<"deny", "send">>]
  /\ UNCHANGED <<stances, childToParent, grants, noAnswer, calls, ch, pressed, denials>>

Word(b) == IF b \in {"deny", "refuse"} THEN b ELSE "allow"

\* Mutant: the answer does not wait for room in the channel.
SendOver(c, b) ==
  /\ answer[c] = <<b, "send">>
  /\ ch' = [ch EXCEPT ![c] = Word(b)]
  /\ answer' = [answer EXCEPT ![c] = IF b \in {"session", "family"} THEN <<b, "store">> ELSE Idle]
  /\ UNCHANGED <<stances, childToParent, grants, marks, calls, pressed, denials>>

Send(c, b) ==
  /\ answer[c] = <<b, "send">> /\ ch[c] = "empty"
  /\ ch' = [ch EXCEPT ![c] = Word(b)]
  /\ answer' = [answer EXCEPT ![c] = IF b \in {"session", "family"} THEN <<b, "store">> ELSE Idle]
  /\ UNCHANGED <<stances, childToParent, grants, marks, calls, pressed, denials>>

FamilyGrant(c, f) ==
  [session |-> req[c].root, tool |-> req[c].opts.tool,
   place |-> req[c].opts.place, family |-> f]

StoreSession(c) ==
  LET o == req[c].opts IN
  /\ answer[c] = <<"session", "store">>
  /\ sessionPermissions' = sessionPermissions \cup {[session |-> req[c].root, opts |-> o]}
  /\ familyGrants' = familyGrants \cup
       {FamilyGrant(c, f) : f \in {x \in o.families : x = o.class /\ ~o.irreversible}}
  /\ answer' = [answer EXCEPT ![c] = Idle]
  /\ UNCHANGED <<stances, childToParent, fleetGrants, fleetOpened, marks, calls,
                 ch, pressed, denials>>

\* GrantFamily stores nothing for a family its own request is not in.
StoreFamily(c) ==
  /\ answer[c] = <<"family", "store">>
  /\ \/ \E f \in req[c].opts.families : familyGrants' = familyGrants \cup {FamilyGrant(c, f)}
     \/ UNCHANGED familyGrants
  /\ answer' = [answer EXCEPT ![c] = Idle]
  /\ UNCHANGED <<stances, childToParent, sessionPermissions, fleetGrants, fleetOpened,
                 marks, calls, ch, pressed, denials>>

\* A helper lives inside a tool call of its conversation.
ParentInToolCall(h) ==
  \A d \in Call : Outstanding(d) => req[d].session # childToParent[h]

\* CancelSession: a non-blocking "no" to every question of the tree.  A helper
\* is cancelled only while it runs.
CancelSession(s) ==
  /\ s \in Helper => childToParent[s] # Unlinked /\ ParentInToolCall(s)
  /\ ch' = [c \in Call |-> IF /\ Pending(c) /\ ch[c] = "empty"
                              /\ req[c].root = Root(s)
                           THEN "cancel" ELSE ch[c]]
  /\ UNCHANGED <<stances, childToParent, grants, marks, calls, answer, pressed, denials>>

-----------------------------------------------------------------------------
(* Stances, the session tree and fleet grants. *)

SetMode(m) ==
  /\ mode' = m
  /\ UNCHANGED <<unattended, autoApproveSessions, childToParent, grants, marks, calls, answers>>

AutoApproveSession(s) ==
  /\ autoApproveSessions' = autoApproveSessions \cup {s}
  /\ UNCHANGED <<mode, unattended, childToParent, grants, marks, calls, answers>>

RevokeAutoApprove(s) ==
  /\ autoApproveSessions' = autoApproveSessions \ {s, Root(s)}
  /\ UNCHANGED <<mode, unattended, childToParent, grants, marks, calls, answers>>

\* A helper's session is registered when it is made, before its first request.
RegisterChildSession(h, p) ==
  /\ childToParent[h] = Unlinked
  /\ \A d \in Call : Outstanding(d) => req[d].session # p
  /\ childToParent' = [childToParent EXCEPT ![h] = p]
  /\ UNCHANGED <<stances, grants, marks, calls, answers>>

\* Mutant: the fleet question stands for every tool of the run.
GrantFleetAllTools(s) ==
  /\ FleetTools # {}
  /\ fleetGrants' = fleetGrants \cup ({Root(s)} \X Tool)
  /\ fleetOpened' = fleetOpened \cup {Root(s)}
  /\ UNCHANGED <<stances, childToParent, sessionPermissions, familyGrants, marks, calls, answers>>

GrantFleet(s) ==
  /\ FleetTools # {}
  /\ fleetGrants' = fleetGrants \cup ({Root(s)} \X FleetTools)
  /\ fleetOpened' = fleetOpened \cup {Root(s)}
  /\ UNCHANGED <<stances, childToParent, sessionPermissions, familyGrants, marks, calls, answers>>

RevokeFleet(s) ==
  /\ fleetGrants' = {g \in fleetGrants : g[1] # Root(s)}
  /\ UNCHANGED <<stances, childToParent, sessionPermissions, familyGrants, fleetOpened,
                 marks, calls, answers>>

-----------------------------------------------------------------------------
Init ==
  /\ mode \in Modes /\ unattended \in Attendance /\ autoApproveSessions = {}
  /\ childToParent = [h \in Helper |-> Unlinked]
  /\ sessionPermissions = {} /\ familyGrants = {} /\ fleetGrants = {}
  /\ personDenied = {} /\ noAnswer = {}
  /\ pc = [c \in Call |-> "idle"]
  /\ req = [c \in Call |-> NoRequest]
  /\ got = [c \in Call |-> "none"]
  /\ ch = [c \in Call |-> "empty"]
  /\ answer = [c \in Call |-> Idle]
  /\ pressed = {} /\ denials = [c \in Call |-> 0] /\ fleetOpened = {}

Settle(c) == Receive(c) \/ Timeout(c) \/ Announce(c) \/ Forget(c)

Next ==
  \/ \E c \in Call :
       \/ \E s \in Session, o \in Opts : Ask(c, s, o)
       \/ RefuseOutright(c) \/ ApproveUnasked(c) \/ Publish(c)
       \/ Receive(c) \/ Timeout(c) \/ Announce(c) \/ Forget(c) \/ AgentReads(c)
       \/ MarkDenial(c) \/ StoreSession(c) \/ StoreFamily(c)
       \/ \E b \in Button : (MayAnswer(c, b) /\ Answer(c, b)) \/ Send(c, b)
  \/ \E s \in Session : CancelSession(s) \/ RevokeAutoApprove(s)
  \/ \E s \in Conversation : AutoApproveSession(s) \/ GrantFleet(s) \/ RevokeFleet(s)
  \/ \E m \in Modes : SetMode(m)
  \/ \E h \in Helper, p \in Conversation : RegisterChildSession(h, p)

Spec == Init /\ [][Next]_vars

\* The scheduler runs a call of Request that can move; its timer fires.
Fairness == \A c \in Call : WF_vars(Settle(c))
FairSpec == Spec /\ Fairness

-----------------------------------------------------------------------------
(* Properties. *)

TypeOK ==
  /\ mode \in Modes /\ unattended \in BOOLEAN /\ autoApproveSessions \subseteq Session
  /\ childToParent \in [Helper -> Conversation \cup {Unlinked}]
  /\ sessionPermissions \subseteq [session : Session, opts : Opts]
  /\ familyGrants \subseteq [session : Session, tool : Tool, place : Place, family : Family]
  /\ fleetGrants \subseteq Session \X FleetTools
  /\ personDenied \subseteq Session /\ noAnswer \subseteq Session
  /\ pc \in [Call -> {"idle", "snapped", "returned"} \cup Waiting \cup Ends]
  /\ req \in [Call -> Request \cup {NoRequest}]
  /\ got \in [Call -> {"none", "approved", "refused", "allow", "deny", "refuse", "cancel", "timeout"}]
  /\ ch \in [Call -> {"empty", "allow", "deny", "refuse", "cancel"}]
  /\ answer \in [Call -> {Idle, <<"deny", "mark">>} \cup (Button \X {"send"})
                         \cup ({"session", "family"} \X {"store"})]
  /\ pressed \subseteq Call \X Button /\ denials \in [Call -> 0..MaxDenials]
  /\ fleetOpened \subseteq Session

Allowed(c) == \E b \in {"allow", "session", "family"} : <<c, b>> \in pressed

SameTree(c, d) == req[c].root = req[d].root

\* What the person who gave "Allow for session" or "Allow family" on d saw:
\* the same request, every file change in that root, or a family of commands.
RememberedExact(d, c) ==
  /\ <<d, "session">> \in pressed /\ SameTree(d, c)
  /\ req[d].opts.tool = req[c].opts.tool
  /\ req[d].opts.key = req[c].opts.key /\ req[d].opts.place = req[c].opts.place

RememberedPlace(d, c) ==
  /\ <<d, "session">> \in pressed /\ SameTree(d, c)
  /\ {req[d].opts.tool, req[c].opts.tool} \subseteq EditTools
  /\ req[d].opts.place = req[c].opts.place /\ ~req[d].opts.irreversible

RememberedFamily(d, c) ==
  /\ \/ <<d, "family">> \in pressed
     \/ <<d, "session">> \in pressed /\ ~req[d].opts.irreversible
  /\ SameTree(d, c) /\ req[d].opts.tool = req[c].opts.tool
  /\ <<req[c].opts.place, req[d].opts.place>> \in Within
  /\ req[d].opts.families \cap req[c].opts.families # {}
  /\ ~req[c].opts.irreversible /\ ~req[c].opts.egress

\* A request inside a carve-out comes back approved only on a person's answer:
\* to this question, or to one in the same tree whose remembered scope covers
\* it, or to the fleet question of a research run.  An unattended program may
\* wave it through, but never when it is irreversible.  (mustAskAnyway, the
\* snapshot in Request, GrantPersistant, GrantFamily, IsCovered.)
AuthorityForEveryYes ==
  \A c \in Call : Yes(c) /\ MustAskAnyway(req[c].opts) =>
    \/ Allowed(c)
    \/ \E d \in Call : RememberedExact(d, c) \/ RememberedPlace(d, c) \/ RememberedFamily(d, c)
    \/ req[c].root \in fleetOpened /\ req[c].opts.tool \in FleetTools
    \/ unattended /\ ~req[c].opts.irreversible

\* An irreversible shell command is approved only when a person allowed this
\* very question, or the identical command in the same conversation "for the
\* session": no mode, family, place, fleet or unattended run stands in.
IrreversibleNeedsThePerson ==
  \A c \in Call :
    /\ Yes(c) /\ req[c].opts.irreversible
    /\ req[c].opts.tool \notin EditTools \cup FleetTools
    => Allowed(c) \/ \E d \in Call : RememberedExact(d, c)

\* The Denies given in the tree of r, each time it was given counted: <<call, nth>>.
Denied(r) ==
  {h \in Call \X (1..MaxDenials) : h[2] <= denials[h[1]] /\ req[h[1]].root = r}

\* Each turn that carries on past a refusal is paid for by a Deny given in that
\* tree, and each giving pays for one: the mark is set by Deny alone and read once.
\* A question denied twice may pay twice, when the second Deny loaded the waiter
\* before it was deleted and sets the mark after the first was taken.
ContinuationsArePaidFor ==
  \A r \in Session :
    Cardinality({c \in Call : pc[c] = "carriedOn" /\ req[c].root = r})
      + (IF r \in personDenied THEN 1 ELSE 0)
    <= Cardinality(Denied(r))

\* A Deny that reached its tool ends the turn only if another call of the tree
\* took the mark: the mark is set before the waiter wakes.
DenyIsHeardOrTaken ==
  \A c \in Call : got[c] = "deny" /\ pc[c] \in {"unanswered", "denied"} =>
    \E d \in Call \ {c} : pc[d] = "carriedOn" /\ SameTree(c, d)

\* While the call waits, the first answer in its channel is the one it hears,
\* unless the timer wins the select: no later answer and no sweep replaces it.
FirstAnswerStands ==
  [][\A c \in Call : pc[c] = "waiting" /\ ch[c] # "empty" =>
       \/ pc'[c] = "waiting" /\ ch'[c] = ch[c]
       \/ pc'[c] = "settled" /\ got'[c] \in {ch[c], "timeout"}]_vars

\* A question nobody answers releases its tool: every published question is
\* settled and its call returns.
EveryQuestionSettles ==
  \A c \in Call : pc[c] = "waiting" ~> pc[c] \notin Waiting

\* docs/PERMISSIONS.md: only the person's own Deny continues the turn; a timeout,
\* a closed stdin or an editor that went away still ends it.
OnlyADenyContinues ==
  \A c \in Call : pc[c] = "carriedOn" => <<c, "deny">> \in pressed

\* The comment on CancelSession: it denies the requests of this session and of
\* the helpers beneath it, and of no other session.
CancelReachesOnlyItsOwn ==
  [][\A s \in Session : CancelSession(s) =>
       \A c \in Call : ch'[c] # ch[c] =>
         \/ req[c].session = s
         \/ req[c].session \in Helper /\ childToParent[req[c].session] = s]_vars
=============================================================================
