-------------------------- MODULE PermissionProofs --------------------------
(* Proofs about Permission, for every set of calls, sessions and requests. *)
EXTENDS Permission, FiniteSetTheorems, TLAPS

-----------------------------------------------------------------------------
(* Type correctness. *)

\* A call that has begun has its request, and is rooted in a conversation the
\* tree still leads to; an answer under way is an answer to such a call.
Begun ==
  \A c \in Call :
    /\ pc[c] # "idle" => /\ req[c] \in Request
                         /\ Root(req[c].session) = req[c].root
                         /\ req[c].root \in Conversation
                         /\ req[c].session \in Helper => childToParent[req[c].session] # Unlinked
    /\ answer[c] # Idle => pc[c] # "idle" /\ <<c, answer[c][1]>> \in pressed
    /\ \A b \in Button : <<c, b>> \in pressed => pc[c] # "idle"
    /\ denials[c] # 0 => pc[c] # "idle"

\* The root of a session is a session, and a conversation once it is linked.
LEMMA RootInSession ==
  ASSUME childToParent \in [Helper -> Conversation \cup {Unlinked}], NEW s \in Session
  PROVE  /\ Root(s) \in Session
         /\ (s \in Helper => childToParent[s] # Unlinked) => Root(s) \in Conversation
BY DEF Root, Session

\* The initial states are well typed.
LEMMA InitTyped == Init => TypeOK /\ Begun
BY PermissionAssumption
DEF Init, TypeOK, Begun, Session, Waiting, Ends, Idle

\* What Begun says of one call, and that no answer under way is Idle.
LEMMA BegunCall ==
  ASSUME Begun, NEW c \in Call, pc[c] # "idle" \/ answer[c] # Idle
  PROVE  /\ pc[c] # "idle" /\ req[c] \in Request
         /\ req[c].root \in Session /\ req[c].opts \in Opts
         /\ req[c].root \in Conversation
         /\ Root(req[c].session) = req[c].root
         /\ answer[c] # Idle => <<c, answer[c][1]>> \in pressed
BY DEF Begun, Request

LEMMA NotIdle ==
  /\ <<"deny", "mark">> # Idle /\ <<"deny", "send">> # Idle
  /\ <<"session", "store">> # Idle /\ <<"family", "store">> # Idle
  /\ \A b \in Button : <<b, "send">> # Idle
BY DEF Idle

\* Every action keeps the variables in their types.
LEMMA NextTyped == TypeOK /\ Begun /\ [Next]_vars => TypeOK'
<1> SUFFICES ASSUME TypeOK, Begun, [Next]_vars PROVE TypeOK'
  OBVIOUS
<1> USE PermissionAssumption DEF TypeOK, Waiting, Ends
<1>1. CASE UNCHANGED vars
  BY <1>1 DEF vars, stances, grants, marks, calls, answers
<1>2. ASSUME NEW c \in Call, NEW s \in Session, NEW o \in Opts, Ask(c, s, o) PROVE TypeOK'
  <2>1. Root(s) \in Session
    BY RootInSession
  <2>2. [session |-> s, opts |-> o, root |-> Root(s),
         auto    |-> mode = "auto" \/ Root(s) \in autoApproveSessions \/ s \in autoApproveSessions,
         covered |-> CoveredBySession(Root(s), o),
         fleet   |-> <<Root(s), o.tool>> \in fleetGrants] \in Request
    BY <2>1 DEF Request, CoveredBySession
  <2> QED
    BY <1>2, <2>2 DEF Ask, stances, grants, marks, answers
<1>3. ASSUME NEW c \in Call,
             RefuseOutright(c) \/ ApproveUnasked(c) \/ Publish(c) \/ Announce(c) \/ Forget(c)
      PROVE  TypeOK'
  BY <1>3 DEF RefuseOutright, ApproveUnasked, Publish, Announce, Forget,
              stances, grants, marks, answers
<1>4. ASSUME NEW c \in Call, Receive(c) PROVE TypeOK'
  BY <1>4 DEF Receive, stances, grants, marks
<1>5. ASSUME NEW c \in Call, Timeout(c) PROVE TypeOK'
  <2>1. req[c].root \in Session
    BY <1>5, BegunCall DEF Timeout
  <2> QED
    BY <1>5, <2>1 DEF Timeout, stances, grants, answers
<1>6. ASSUME NEW c \in Call, AgentReads(c) PROVE TypeOK'
  BY <1>6 DEF AgentReads, stances, grants, answers
<1>7. ASSUME NEW c \in Call, NEW b \in Button, MayAnswer(c, b), Answer(c, b) PROVE TypeOK'
  <2>1. denials' \in [Call -> 0..MaxDenials]
    <3>1. (IF b = "deny" THEN denials[c] + 1 ELSE denials[c]) \in 0..MaxDenials
      BY <1>7 DEF MayAnswer
    <3> QED BY <1>7, <3>1 DEF Answer
  <2> QED
    BY <1>7, <2>1 DEF Answer, Idle, stances, grants, marks, calls
<1>8. ASSUME NEW c \in Call, MarkDenial(c) PROVE TypeOK'
  <2>1. req[c].root \in Session
    BY <1>8, BegunCall, NotIdle DEF MarkDenial
  <2>2. "deny" \in Button
    <3>1. <<c, answer[c][1]>> \in pressed
      BY <1>8, BegunCall, NotIdle DEF MarkDenial
    <3> QED
      BY <1>8, <3>1 DEF MarkDenial
  <2> QED
    BY <1>8, <2>1, <2>2 DEF MarkDenial, stances, grants, calls
<1>9. ASSUME NEW c \in Call, NEW b \in Button, Send(c, b) PROVE TypeOK'
  BY <1>9 DEF Send, Word, Idle, stances, grants, marks, calls
<1>10. ASSUME NEW c \in Call, NEW f \in Family, req[c] \in Request
       PROVE  FamilyGrant(c, f) \in [session : Session, tool : Tool, place : Place, family : Family]
  BY <1>10 DEF FamilyGrant, Request
<1>11. ASSUME NEW c \in Call, StoreSession(c) PROVE TypeOK'
  <2>1. req[c] \in Request
    BY <1>11, BegunCall, NotIdle DEF StoreSession
  <2>2. req[c].opts.families \subseteq Family
    BY <2>1 DEF Request
  <2>3. sessionPermissions' \subseteq [session : Session, opts : Opts]
    BY <1>11, <2>1 DEF StoreSession, Request
  <2>4. familyGrants' \subseteq [session : Session, tool : Tool, place : Place, family : Family]
    BY <1>11, <2>1, <2>2, <1>10 DEF StoreSession
  <2> QED
    BY <1>11, <2>3, <2>4 DEF StoreSession, stances, marks, calls
<1>12. ASSUME NEW c \in Call, StoreFamily(c) PROVE TypeOK'
  <2>1. req[c] \in Request
    BY <1>12, BegunCall, NotIdle DEF StoreFamily
  <2>2. req[c].opts.families \subseteq Family
    BY <2>1 DEF Request
  <2>3. familyGrants' \subseteq [session : Session, tool : Tool, place : Place, family : Family]
    BY <1>12, <2>1, <2>2, <1>10 DEF StoreFamily
  <2> QED
    BY <1>12, <2>3 DEF StoreFamily, stances, marks, calls
<1>13. ASSUME NEW s \in Session, CancelSession(s) PROVE TypeOK'
  BY <1>13 DEF CancelSession, stances, grants, marks, calls
<1>14. ASSUME NEW s \in Session, AutoApproveSession(s) \/ RevokeAutoApprove(s) PROVE TypeOK'
  BY <1>14 DEF AutoApproveSession, RevokeAutoApprove, grants, marks, calls, answers
<1>17. ASSUME NEW s \in Session, GrantFleet(s) \/ RevokeFleet(s) PROVE TypeOK'
  <2>1. Root(s) \in Session
    BY RootInSession
  <2>2. fleetGrants' \subseteq Session \X FleetTools /\ fleetOpened' \subseteq Session
    BY <1>17, <2>1 DEF GrantFleet, RevokeFleet
  <2> QED
    BY <1>17, <2>2 DEF GrantFleet, RevokeFleet, stances, marks, calls, answers
<1>15. ASSUME NEW m \in Modes, SetMode(m) PROVE TypeOK'
  BY <1>15 DEF SetMode, grants, marks, calls, answers
<1>16. ASSUME NEW h \in Helper, NEW p \in Conversation, RegisterChildSession(h, p) PROVE TypeOK'
  BY <1>16 DEF RegisterChildSession, stances, grants, marks, calls, answers
<1> QED
  BY <1>1, <1>2, <1>3, <1>4, <1>5, <1>6, <1>7, <1>8, <1>9, <1>11, <1>12, <1>13, <1>14, <1>15, <1>16, <1>17
  DEF Next, Session

-----------------------------------------------------------------------------
(* What no step takes back. *)

\* A call keeps its request, an answer once given stays given, a fleet once
\* opened stays recorded, and unattended is set once.
LEMMA Frame ==
  ASSUME TypeOK, Begun, Next
  PROVE  /\ pressed \subseteq pressed' /\ fleetOpened \subseteq fleetOpened'
         /\ unattended' = unattended
         /\ \A c \in Call : pc[c] # "idle" => pc'[c] # "idle" /\ req'[c] = req[c]
<1> DEFINE Kept == /\ pressed \subseteq pressed' /\ fleetOpened \subseteq fleetOpened'
                   /\ unattended' = unattended
                   /\ \A c \in Call : pc[c] # "idle" => pc'[c] # "idle" /\ req'[c] = req[c]
<1>1. ASSUME NEW c \in Call, NEW s \in Session, NEW o \in Opts, Ask(c, s, o)
      PROVE  Kept
  BY <1>1 DEF TypeOK, Ask, stances, grants, marks, answers
<1>2. ASSUME NEW c \in Call,
             \/ RefuseOutright(c) \/ ApproveUnasked(c) \/ Publish(c)
             \/ Receive(c) \/ Timeout(c) \/ Announce(c) \/ Forget(c)
             \/ AgentReads(c)
      PROVE  Kept
  BY <1>2 DEF TypeOK, RefuseOutright, ApproveUnasked, Publish, Receive, Timeout, Announce, Forget,
              AgentReads, stances, grants, marks, answers
<1>3. ASSUME NEW c \in Call,
             MarkDenial(c) \/ StoreSession(c) \/ StoreFamily(c)
      PROVE  Kept
  BY <1>3 DEF TypeOK, MarkDenial, StoreSession, StoreFamily, stances, grants, marks, calls
<1>4. ASSUME NEW s \in Session,
             \/ CancelSession(s) \/ AutoApproveSession(s) \/ RevokeAutoApprove(s)
             \/ GrantFleet(s) \/ RevokeFleet(s)
      PROVE  Kept
  BY <1>4 DEF TypeOK, CancelSession, AutoApproveSession, RevokeAutoApprove, GrantFleet, RevokeFleet,
              stances, grants, marks, calls, answers
<1>5. ASSUME NEW c \in Call, NEW b \in Button, Answer(c, b) \/ Send(c, b) PROVE Kept
  BY <1>5 DEF TypeOK, Answer, Send, stances, grants, marks, calls
<1>6. ASSUME NEW m \in Modes, SetMode(m) PROVE Kept
  BY <1>6 DEF TypeOK, SetMode, grants, marks, calls, answers
<1>7. ASSUME NEW h \in Helper, NEW p \in Conversation, RegisterChildSession(h, p) PROVE Kept
  BY <1>7 DEF TypeOK, RegisterChildSession, stances, grants, marks, calls, answers
<1> HIDE DEF Kept
<1>8. Kept
  BY <1>1, <1>2, <1>3, <1>4, <1>5, <1>6, <1>7 DEF Next, Session
<1> QED
  BY <1>8 DEF Kept

-----------------------------------------------------------------------------
(* Begun is inductive: the tree above a call that has begun is not moved.  *)

LEMMA BegunStep == TypeOK /\ Begun /\ [Next]_vars => Begun'
<1> SUFFICES ASSUME TypeOK, Begun, [Next]_vars PROVE Begun'
  OBVIOUS
<1> USE PermissionAssumption
<1>1. CASE UNCHANGED vars
  BY <1>1 DEF vars, stances, grants, marks, calls, answers, Begun, Root
<1>2. ASSUME NEW c \in Call, NEW s \in Session, NEW o \in Opts, Ask(c, s, o) PROVE Begun'
  <2>1. /\ Root(s) \in Session
        /\ s \in Helper => childToParent[s] # Unlinked
        /\ Root(s) \in Conversation
    BY <1>2, RootInSession DEF Ask, TypeOK
  <2>2. /\ req'[c] \in Request /\ req'[c].session = s /\ req'[c].root = Root(s)
    BY <1>2, <2>1 DEF Ask, TypeOK, Request, CoveredBySession
  <2>3. /\ childToParent' = childToParent /\ answer' = answer /\ pressed' = pressed /\ denials' = denials
        /\ \A d \in Call \ {c} : req'[d] = req[d] /\ pc'[d] = pc[d]
        /\ pc[c] = "idle" /\ pc'[c] # "idle"
    BY <1>2 DEF Ask, TypeOK, answers
  <2> QED
    BY <2>1, <2>2, <2>3 DEF Begun, Root
<1>3. ASSUME /\ req' = req /\ childToParent' = childToParent
             /\ answer' = answer /\ pressed' = pressed /\ denials' = denials
             /\ \A d \in Call : pc[d] # "idle" <=> pc'[d] # "idle"
      PROVE  Begun'
  BY <1>3 DEF Begun, Root
<1>4. ASSUME NEW c \in Call,
             \/ RefuseOutright(c) \/ ApproveUnasked(c) \/ Publish(c)
             \/ Receive(c) \/ Timeout(c) \/ Announce(c) \/ Forget(c)
             \/ AgentReads(c)
      PROVE  Begun'
  BY <1>3, <1>4 DEF RefuseOutright, ApproveUnasked, Publish, Receive, Timeout, Announce,
                    Forget, AgentReads, answers, TypeOK
<1>5. ASSUME NEW c \in Call, pc[c] # "idle", req' = req, childToParent' = childToParent, pc' = pc,
             pressed \subseteq pressed',
             \A b \in Button, d \in Call : <<d, b>> \in pressed' => <<d, b>> \in pressed \/ d = c,
             \A d \in Call \ {c} : answer'[d] = answer[d],
             answer'[c] # Idle => <<c, answer'[c][1]>> \in pressed',
             \A d \in Call \ {c} : denials'[d] = denials[d]
      PROVE  Begun'
  BY <1>5 DEF Begun, Root
<1>6. ASSUME NEW c \in Call, NEW b \in Button, MayAnswer(c, b), Answer(c, b) PROVE Begun'
  <2>1. pc[c] # "idle"
    BY <1>6 DEF MayAnswer, Published, Waiting, Ends
  <2>2. answer'[c] # Idle => answer'[c][1] = b
    BY <1>6 DEF Answer, TypeOK
  <2> QED
    BY <1>5, <1>6, <2>1, <2>2 DEF Answer, calls, TypeOK
<1>7. ASSUME NEW c \in Call, MarkDenial(c) PROVE Begun'
  <2>1. pc[c] # "idle" /\ <<c, answer[c][1]>> \in pressed
    BY <1>7, BegunCall, NotIdle DEF MarkDenial
  <2>2. answer[c][1] = "deny" /\ answer'[c][1] = "deny"
    BY <1>7 DEF MarkDenial, TypeOK
  <2> QED
    BY <1>5, <1>7, <2>1, <2>2 DEF MarkDenial, calls, TypeOK
<1>8. ASSUME NEW c \in Call, NEW b \in Button, Send(c, b) PROVE Begun'
  <2>1. pc[c] # "idle" /\ <<c, answer[c][1]>> \in pressed
    BY <1>8, BegunCall, NotIdle DEF Send
  <2>2. answer[c][1] = b /\ (answer'[c] # Idle => answer'[c][1] = b)
    BY <1>8 DEF Send, TypeOK
  <2> QED
    BY <1>5, <1>8, <2>1, <2>2 DEF Send, calls, TypeOK
<1>9. ASSUME NEW c \in Call, StoreSession(c) \/ StoreFamily(c) PROVE Begun'
  <2>1. pc[c] # "idle"
    BY <1>9, BegunCall, NotIdle DEF StoreSession, StoreFamily
  <2> QED
    BY <1>5, <1>9, <2>1 DEF StoreSession, StoreFamily, calls, TypeOK
<1>10. ASSUME NEW s \in Session,
              \/ CancelSession(s) \/ AutoApproveSession(s) \/ RevokeAutoApprove(s)
              \/ GrantFleet(s) \/ RevokeFleet(s)
       PROVE  Begun'
  BY <1>3, <1>10 DEF CancelSession, AutoApproveSession, RevokeAutoApprove, GrantFleet,
                     RevokeFleet, calls, answers
<1>11. ASSUME NEW m \in Modes, SetMode(m) PROVE Begun'
  BY <1>3, <1>11 DEF SetMode, calls, answers
<1>12. ASSUME NEW h \in Helper, NEW p \in Conversation, RegisterChildSession(h, p) PROVE Begun'
  <2>1. /\ pc' = pc /\ req' = req /\ answer' = answer /\ pressed' = pressed
        /\ denials' = denials
        /\ childToParent[h] = Unlinked
        /\ \A s \in Helper : childToParent[s] # Unlinked => childToParent'[s] = childToParent[s]
    BY <1>12 DEF RegisterChildSession, calls, answers, TypeOK
  <2>2. \A s : (s \in Helper => childToParent[s] # Unlinked) => Root(s)' = Root(s)
    BY <2>1 DEF Root
  <2> QED
    BY <2>1, <2>2 DEF Begun, Root
<1> QED
  BY <1>1, <1>2, <1>4, <1>6, <1>7, <1>8, <1>9, <1>10, <1>11, <1>12 DEF Next, Session

\* THEOREM: every reachable state of the permission service is well typed.
THEOREM TypeCorrect == Spec => []TypeOK
<1>1. Init => TypeOK /\ Begun
  BY InitTyped
<1>2. (TypeOK /\ Begun) /\ [Next]_vars => (TypeOK /\ Begun)'
  BY NextTyped, BegunStep
<1> QED
  BY <1>1, <1>2, PTL DEF Spec

-----------------------------------------------------------------------------
(* Answers and their channels. *)

\* What FirstAnswerStands says of one step and one call.
Stands(c) ==
  pc[c] = "waiting" /\ ch[c] # "empty" =>
    \/ pc'[c] = "waiting" /\ ch'[c] = ch[c]
    \/ pc'[c] = "settled" /\ got'[c] \in {ch[c], "timeout"}

\* No step replaces an answer that is in the channel: an answer waits for room
\* and a sweep passes it over.
LEMMA StandsStep ==
  ASSUME TypeOK, [Next]_vars, NEW c \in Call
  PROVE  Stands(c)
<1> SUFFICES ASSUME pc[c] = "waiting", ch[c] # "empty"
             PROVE  \/ pc'[c] = "waiting" /\ ch'[c] = ch[c]
                    \/ pc'[c] = "settled" /\ got'[c] \in {ch[c], "timeout"}
  BY DEF Stands
<1> USE DEF TypeOK
<1>1. CASE pc' = pc /\ ch' = ch
  BY <1>1
<1>2. ASSUME NEW d \in Call,
             \/ \E s \in Session, o \in Opts : Ask(d, s, o)
             \/ RefuseOutright(d) \/ ApproveUnasked(d) \/ Publish(d)
             \/ Announce(d) \/ Forget(d) \/ AgentReads(d)
      PROVE  pc'[c] = "waiting" /\ ch'[c] = ch[c]
  BY <1>2 DEF Ask, RefuseOutright, ApproveUnasked, Publish, Announce, Forget, AgentReads, answers
<1>3. ASSUME NEW d \in Call, Receive(d) \/ Timeout(d)
      PROVE  \/ pc'[c] = "waiting" /\ ch'[c] = ch[c]
             \/ pc'[c] = "settled" /\ got'[c] \in {ch[c], "timeout"}
  BY <1>3 DEF Receive, Timeout, answers
<1>4. ASSUME NEW d \in Call, NEW b \in Button, Send(d, b) PROVE pc' = pc /\ ch'[c] = ch[c]
  BY <1>4 DEF Send, calls
<1>5. ASSUME NEW s \in Session, CancelSession(s) PROVE pc' = pc /\ ch'[c] = ch[c]
  BY <1>5 DEF CancelSession, calls
<1>6. ASSUME NEW d \in Call,
             \/ MarkDenial(d) \/ StoreSession(d) \/ StoreFamily(d)
             \/ \E b \in Button : Answer(d, b)
      PROVE  pc' = pc /\ ch' = ch
  BY <1>6 DEF MarkDenial, StoreSession, StoreFamily, Answer, calls
<1>7. ASSUME NEW s \in Session,
             AutoApproveSession(s) \/ RevokeAutoApprove(s) \/ GrantFleet(s) \/ RevokeFleet(s)
      PROVE  pc' = pc /\ ch' = ch
  BY <1>7 DEF AutoApproveSession, RevokeAutoApprove, GrantFleet, RevokeFleet, calls, answers
<1>8. ASSUME NEW m \in Modes, SetMode(m) PROVE pc' = pc /\ ch' = ch
  BY <1>8 DEF SetMode, calls, answers
<1>9. ASSUME NEW h \in Helper, NEW p \in Conversation, RegisterChildSession(h, p)
      PROVE  pc' = pc /\ ch' = ch
  BY <1>9 DEF RegisterChildSession, calls, answers
<1>10. CASE UNCHANGED vars
  BY <1>10 DEF vars, calls, answers
<1> QED
  BY <1>1, <1>2, <1>3, <1>4, <1>5, <1>6, <1>7, <1>8, <1>9, <1>10 DEF Next, Session

\* THEOREM: however many people, front ends and sweeps answer one question, the
\* first answer in its channel is the one its call hears, or its timer wins.
THEOREM TheFirstAnswerStands == Spec => FirstAnswerStands
<1>1. TypeOK /\ [Next]_vars => [\A c \in Call : pc[c] = "waiting" /\ ch[c] # "empty" =>
         \/ pc'[c] = "waiting" /\ ch'[c] = ch[c]
         \/ pc'[c] = "settled" /\ got'[c] \in {ch[c], "timeout"}]_vars
  BY StandsStep DEF Stands
<1> QED
  BY <1>1, TypeCorrect, PTL DEF Spec, FirstAnswerStands

-----------------------------------------------------------------------------
(* Denials. *)

\* A Deny that is past its mark, in the channel or with its call.
DenyUnderWay(c) == answer[c] = <<"deny", "send">> \/ ch[c] = "deny" \/ got[c] = "deny"

Taken(c) == \E d \in Call : pc[d] = "carriedOn" /\ SameTree(c, d)

Ended(c) == got[c] = "deny" /\ pc[c] \in {"unanswered", "denied"}

\* Until its agent has read it, a Deny under way has its mark or a call of its
\* tree has carried on with it.
Heard(c) ==
  /\ ch[c] # "empty" \/ got[c] # "none" => pc[c] # "idle"
  /\ DenyUnderWay(c) => Taken(c) \/ (req[c].root \in personDenied /\ ~Ended(c))

DenialInv == \A c \in Call : Heard(c)

\* A call that carried on stays so, and keeps its tree.
LEMMA CarriedOnStays ==
  ASSUME TypeOK, Begun, Next, NEW c \in Call, pc[c] # "idle", Taken(c)
  PROVE  Taken(c)'
<1>1. PICK d \in Call : pc[d] = "carriedOn" /\ SameTree(c, d)
  BY DEF Taken
<1>2. req'[c] = req[c] /\ req'[d] = req[d]
  BY <1>1, Frame
<1> SUFFICES pc'[d] = "carriedOn"
  BY <1>1, <1>2 DEF Taken, SameTree
<1> USE DEF TypeOK
<1>3. ASSUME NEW e \in Call,
             \/ \E s \in Session, o \in Opts : Ask(e, s, o)
             \/ RefuseOutright(e) \/ ApproveUnasked(e) \/ Publish(e) \/ Receive(e) \/ Timeout(e)
             \/ Announce(e) \/ Forget(e) \/ AgentReads(e)
      PROVE  pc'[d] = "carriedOn"
  BY <1>1, <1>3 DEF Ask, RefuseOutright, ApproveUnasked, Publish, Receive, Timeout, Announce,
                    Forget, AgentReads
<1>4. ASSUME NEW e \in Call,
             \/ MarkDenial(e) \/ StoreSession(e) \/ StoreFamily(e)
             \/ \E b \in Button : Answer(e, b) \/ Send(e, b)
      PROVE  pc'[d] = "carriedOn"
  BY <1>1, <1>4 DEF MarkDenial, StoreSession, StoreFamily, Answer, Send, calls
<1>5. ASSUME NEW s \in Session,
             \/ CancelSession(s) \/ AutoApproveSession(s) \/ RevokeAutoApprove(s)
             \/ GrantFleet(s) \/ RevokeFleet(s)
      PROVE  pc'[d] = "carriedOn"
  BY <1>1, <1>5 DEF CancelSession, AutoApproveSession, RevokeAutoApprove, GrantFleet, RevokeFleet, calls
<1>6. ASSUME NEW m \in Modes, SetMode(m) PROVE pc'[d] = "carriedOn"
  BY <1>1, <1>6 DEF SetMode, calls
<1>7. ASSUME NEW h \in Helper, NEW p \in Conversation, RegisterChildSession(h, p)
      PROVE  pc'[d] = "carriedOn"
  BY <1>1, <1>7 DEF RegisterChildSession, calls
<1> QED
  BY <1>3, <1>4, <1>5, <1>6, <1>7 DEF Next, Session

\* What keeps Heard(c): a Deny under way after the step was so before it, with
\* its mark still there and its agent not past it.
LEMMA StillHeard ==
  ASSUME TypeOK, Begun, Next, NEW c \in Call, Heard(c),
         ch'[c] # "empty" \/ got'[c] # "none" => pc'[c] # "idle",
         pc[c] # "idle" /\ DenyUnderWay(c)' => DenyUnderWay(c),
         pc[c] = "idle" => ~DenyUnderWay(c)',
         personDenied \subseteq personDenied',
         Ended(c)' => Ended(c)
  PROVE  Heard(c)'
<1>1. pc[c] # "idle" => req'[c] = req[c]
  BY Frame
<1>2. pc[c] # "idle" /\ Taken(c) => Taken(c)'
  BY CarriedOnStays
<1> QED
  BY <1>1, <1>2 DEF Heard

\* The agent's reading takes the mark of one tree, and the call it is read for
\* carries on; a call that finds no mark was heard by another.
LEMMA HeardAfterReading ==
  ASSUME TypeOK, Begun, Next, NEW c \in Call, Heard(c), NEW d \in Call, AgentReads(d)
  PROVE  Heard(c)'
<1> USE DEF TypeOK
<1>1. /\ pc[d] = "returned" /\ Root(req[d].session) = req[d].root
      /\ ch' = ch /\ got' = got /\ answer' = answer /\ req' = req
      /\ pc'[d] # "idle" /\ \A e \in Call \ {d} : pc'[e] = pc[e]
  BY BegunCall DEF AgentReads, answers
<1>2. DenyUnderWay(c)' = DenyUnderWay(c)
  BY <1>1 DEF DenyUnderWay
<1>3. pc[c] # "idle" /\ Taken(c) => Taken(c)'
  BY CarriedOnStays
<1>4. ch'[c] # "empty" \/ got'[c] # "none" => pc'[c] # "idle"
  BY <1>1 DEF Heard
<1>5. CASE ~DenyUnderWay(c)
  BY <1>2, <1>4, <1>5 DEF Heard
<1>6. CASE DenyUnderWay(c) /\ req[d].root \in personDenied /\ req[c].root = req[d].root
  <2>1. pc'[d] = "carriedOn"
    BY <1>1, <1>6 DEF AgentReads
  <2>2. Taken(c)'
    BY <1>1, <1>6, <2>1 DEF Taken, SameTree
  <2> QED
    BY <1>4, <2>2 DEF Heard
<1>7. CASE /\ DenyUnderWay(c) /\ pc[c] # "idle"
           /\ ~(req[d].root \in personDenied /\ req[c].root = req[d].root)
  <2>1. req[c].root \in personDenied => req[c].root \in personDenied'
    BY <1>1, <1>7 DEF AgentReads
  <2>2. req[c].root \in personDenied /\ ~Ended(c) => ~Ended(c)'
    BY <1>1, <1>7 DEF Ended
  <2> QED
    BY <1>1, <1>3, <1>4, <1>7, <2>1, <2>2 DEF Heard
<1>8. DenyUnderWay(c) => pc[c] # "idle"
  BY BegunCall, NotIdle DEF Heard, DenyUnderWay
<1> QED
  BY <1>5, <1>6, <1>7, <1>8

\* Each step keeps every Deny heard.
LEMMA DenialStep ==
  ASSUME TypeOK, Begun, Next, DenialInv, NEW c \in Call
  PROVE  Heard(c)'
<1> USE DEF TypeOK
<1>1. Heard(c)
  BY DEF DenialInv
<1>2. pc[c] = "idle" => ~DenyUnderWay(c)
  BY <1>1, BegunCall, NotIdle DEF Heard, DenyUnderWay
<1>3. ASSUME pc' = pc, got' = got, ch' = ch, answer' = answer, personDenied' = personDenied
      PROVE  Heard(c)'
  BY <1>1, <1>2, <1>3, StillHeard DEF DenyUnderWay, Ended, Heard
<1>4. ASSUME NEW d \in Call,
             \/ \E s \in Session, o \in Opts : Ask(d, s, o)
             \/ RefuseOutright(d) \/ ApproveUnasked(d) \/ Publish(d)
             \/ Announce(d) \/ Forget(d)
      PROVE  Heard(c)'
  <2>1. /\ ch' = ch /\ answer' = answer /\ personDenied' = personDenied
        /\ got'[c] = got[c] \/ got'[c] \in {"approved", "refused"}
        /\ pc'[c] = pc[c] \/ pc'[c] \in {"snapped", "waiting", "returned", "announced"}
        /\ got'[c] # got[c] => pc'[c] # "idle"
    BY <1>4 DEF Ask, RefuseOutright, ApproveUnasked, Publish, Announce, Forget, answers, marks
  <2> QED
    BY <1>1, <1>2, <2>1, StillHeard DEF DenyUnderWay, Ended, Heard
<1>5. ASSUME NEW d \in Call, Receive(d) \/ Timeout(d) PROVE Heard(c)'
  <2>1. /\ answer' = answer /\ personDenied' = personDenied
        /\ got'[c] = got[c] \/ got'[c] = ch[c] \/ got'[c] = "timeout"
        /\ ch'[c] = ch[c] \/ ch'[c] = "empty"
        /\ \/ pc'[c] = pc[c] /\ got'[c] = got[c]
           \/ pc'[c] = "settled" /\ pc[c] = "waiting"
    <3>1. CASE Receive(d)
      BY <3>1 DEF Receive, marks
    <3>2. CASE Timeout(d)
      BY <3>2 DEF Timeout, answers
    <3> QED
      BY <1>5, <3>1, <3>2
  <2> QED
    BY <1>1, <1>2, <2>1, StillHeard DEF DenyUnderWay, Ended, Heard
<1>6. ASSUME NEW d \in Call, AgentReads(d) PROVE Heard(c)'
  BY <1>1, <1>6, HeardAfterReading
<1>7. ASSUME NEW d \in Call, NEW b \in Button, MayAnswer(d, b), Answer(d, b) PROVE Heard(c)'
  <2>1. /\ pc' = pc /\ got' = got /\ ch' = ch /\ personDenied' = personDenied
        /\ answer'[c] = <<"deny", "send">> => answer[c] = <<"deny", "send">>
    BY <1>7 DEF Answer, Idle, calls, marks
  <2> QED
    BY <1>1, <1>2, <2>1, StillHeard DEF DenyUnderWay, Ended, Heard
<1>8. ASSUME NEW d \in Call, NEW b \in Button, Send(d, b) PROVE Heard(c)'
  <2>1. /\ pc' = pc /\ got' = got /\ personDenied' = personDenied
        /\ ch'[c] = "deny" => ch[c] = "deny" \/ answer[c] = <<"deny", "send">>
        /\ ch'[c] # ch[c] => answer[c] # Idle
        /\ answer'[c] = <<"deny", "send">> => answer[c] = <<"deny", "send">>
    BY <1>8, NotIdle DEF Send, Word, Idle, calls, marks
  <2>2. ch'[c] # ch[c] => pc[c] # "idle"
    BY <2>1, BegunCall
  <2> QED
    BY <1>1, <1>2, <2>1, <2>2, StillHeard DEF DenyUnderWay, Ended, Heard
<1>9. ASSUME NEW d \in Call, StoreSession(d) \/ StoreFamily(d) PROVE Heard(c)'
  <2>1. /\ pc' = pc /\ got' = got /\ ch' = ch /\ personDenied' = personDenied
        /\ answer'[c] = <<"deny", "send">> => answer[c] = <<"deny", "send">>
    BY <1>9 DEF StoreSession, StoreFamily, Idle, calls, marks
  <2> QED
    BY <1>1, <1>2, <2>1, StillHeard DEF DenyUnderWay, Ended, Heard
<1>10. ASSUME NEW d \in Call, MarkDenial(d) PROVE Heard(c)'
  <2>1. /\ pc' = pc /\ got' = got /\ ch' = ch /\ req' = req
        /\ personDenied' = personDenied \cup {req[d].root}
        /\ \A e \in Call \ {d} : answer'[e] = answer[e]
        /\ answer[d] = <<"deny", "mark">>
    BY <1>10 DEF MarkDenial, calls
  <2>2. CASE c # d
    BY <1>1, <1>2, <2>1, <2>2, StillHeard DEF DenyUnderWay, Ended, Heard
  <2>3. CASE c = d
    <3>1. pc[c] # "idle" /\ (Ended(c)' <=> Ended(c))
      BY <2>1, <2>3, BegunCall, NotIdle DEF Ended
    <3>2. Ended(c) => Taken(c)
      BY <1>1 DEF Heard, Ended, DenyUnderWay
    <3>3. Taken(c) => Taken(c)'
      BY <3>1, CarriedOnStays
    <3> QED
      BY <1>1, <2>1, <2>3, <3>1, <3>2, <3>3 DEF Heard
  <2> QED
    BY <2>2, <2>3
<1>11. ASSUME NEW s \in Session, CancelSession(s) PROVE Heard(c)'
  <2>1. /\ pc' = pc /\ got' = got /\ answer' = answer /\ personDenied' = personDenied
        /\ ch' = [e \in Call |-> IF /\ Pending(e) /\ ch[e] = "empty"
                                    /\ req[e].root = Root(s)
                                 THEN "cancel" ELSE ch[e]]
    BY <1>11 DEF CancelSession, calls, marks
  <2>2. ch'[c] = ch[c] \/ (ch'[c] = "cancel" /\ Pending(c))
    BY <2>1
  <2>3. Pending(c) => pc[c] # "idle"
    BY DEF Pending, Waiting
  <2> QED
    BY <1>1, <1>2, <2>1, <2>2, <2>3, StillHeard DEF DenyUnderWay, Ended, Heard
<1>12. ASSUME NEW s \in Session,
              AutoApproveSession(s) \/ RevokeAutoApprove(s) \/ GrantFleet(s) \/ RevokeFleet(s)
       PROVE  Heard(c)'
  BY <1>3, <1>12 DEF AutoApproveSession, RevokeAutoApprove, GrantFleet, RevokeFleet,
                     calls, answers, marks
<1>13. ASSUME NEW m \in Modes, SetMode(m) PROVE Heard(c)'
  BY <1>3, <1>13 DEF SetMode, calls, answers, marks
<1>14. ASSUME NEW h \in Helper, NEW p \in Conversation, RegisterChildSession(h, p) PROVE Heard(c)'
  BY <1>3, <1>14 DEF RegisterChildSession, calls, answers, marks
<1> QED
  BY <1>4, <1>5, <1>6, <1>7, <1>8, <1>9, <1>10, <1>11, <1>12, <1>13, <1>14 DEF Next, Session

\* THEOREM: a Deny that reached its tool ends the turn only if another call of
\* the tree carried on with its mark.
THEOREM DeniesAreHeard == Spec => []DenyIsHeardOrTaken
<1>1. Init => TypeOK /\ Begun /\ DenialInv
  <2>1. Init => DenialInv
    BY DEF Init, DenialInv, Heard, DenyUnderWay, Idle
  <2> QED
    BY <2>1, InitTyped
<1>2. (TypeOK /\ Begun /\ DenialInv) /\ [Next]_vars => (TypeOK /\ Begun /\ DenialInv)'
  <2>1. TypeOK /\ Begun /\ DenialInv /\ Next => DenialInv'
    BY DenialStep DEF DenialInv
  <2>2. DenialInv /\ UNCHANGED vars => DenialInv'
    BY DEF DenialInv, Heard, DenyUnderWay, Taken, Ended, SameTree, vars, marks, calls, answers
  <2> QED
    BY <2>1, <2>2, NextTyped, BegunStep
<1>3. DenialInv => DenyIsHeardOrTaken
  BY DEF DenialInv, Heard, DenyUnderWay, Taken, Ended, DenyIsHeardOrTaken
<1> QED
  BY <1>1, <1>2, <1>3, PTL DEF Spec
-----------------------------------------------------------------------------
(* Each continuation is paid for by a Deny.                                 *)

\* What was paid in the tree of r, and what was bought with it or still can be: the
\* calls that carried on, the mark, and the denials that have still to set it.
Carried(r) == {c \in Call : pc[c] = "carriedOn" /\ req[c].root = r}
Marking(r) == {c \in Call : answer[c] = <<"deny", "mark">> /\ req[c].root = r}
Mark(r)    == IF r \in personDenied THEN 1 ELSE 0

\* Finite, however many calls there are: so far only so many were made.
Counted(r) == IsFiniteSet(Carried(r)) /\ IsFiniteSet(Marking(r)) /\ IsFiniteSet(Denied(r))
PaidFor(r) == Cardinality(Carried(r)) + Mark(r) + Cardinality(Marking(r))
                <= Cardinality(Denied(r))
PaidInv    == \A r \in Session : Counted(r) /\ PaidFor(r)

\* A step that moves none of the three sets of a tree and not its mark.
LEMMA StillPaid ==
  ASSUME NEW r, Counted(r) /\ PaidFor(r), Carried(r)' = Carried(r), Marking(r)' = Marking(r),
         Denied(r)' = Denied(r), Mark(r)' = Mark(r)
  PROVE  (Counted(r) /\ PaidFor(r))'
BY DEF Counted, PaidFor

\* What the three sets need to know of a step.
LEMMA SameSets ==
  ASSUME Begun, NEW r,
         \A c \in Call : pc[c] # "idle" => req'[c] = req[c],
         \A c \in Call : pc'[c] = "carriedOn" <=> pc[c] = "carriedOn",
         \A c \in Call : answer'[c] = <<"deny", "mark">> <=> answer[c] = <<"deny", "mark">>,
         denials' = denials, denials \in [Call -> Nat]
  PROVE  /\ Carried(r)' = Carried(r) /\ Marking(r)' = Marking(r) /\ Denied(r)' = Denied(r)
<1>1. \A c \in Call : \/ pc[c] = "carriedOn" \/ answer[c] = <<"deny", "mark">>
                      \/ denials[c] # 0
                      => req'[c] = req[c]
  BY NotIdle DEF Begun
<1>2. Carried(r)' = Carried(r)
  BY <1>1 DEF Carried
<1>3. Marking(r)' = Marking(r)
  BY <1>1 DEF Marking
<1>4. Denied(r)' = Denied(r)
  <2>1. ASSUME NEW h \in Call \X (1..MaxDenials), h[2] <= denials[h[1]]
        PROVE  req'[h[1]] = req[h[1]]
    <3>1. h[1] \in Call /\ denials[h[1]] # 0
      BY <2>1
    <3> QED BY <1>1, <3>1
  <2> QED BY <2>1 DEF Denied
<1> QED
  BY <1>2, <1>3, <1>4

\* A Deny, however often it is given to a question, adds to what was paid at least
\* what it can buy.
LEMMA DenyPays ==
  ASSUME TypeOK, Begun, NEW r \in Session, Counted(r) /\ PaidFor(r), NEW c \in Call,
         MayAnswer(c, "deny"), Answer(c, "deny"), "deny" \in Button
  PROVE  (Counted(r) /\ PaidFor(r))'
<1> USE PermissionAssumption DEF TypeOK
<1>1. /\ UNCHANGED <<pc, req, personDenied>> /\ denials[c] < MaxDenials
      /\ denials' = [denials EXCEPT ![c] = @ + 1] /\ answer[c] = Idle
      /\ \A d \in Call \ {c} : answer'[d] = answer[d]
  BY DEF MayAnswer, Answer, calls, marks
<1>2. Carried(r)' = Carried(r) /\ Mark(r)' = Mark(r)
  BY <1>1 DEF Carried, Mark
<1> DEFINE nth == <<c, denials[c] + 1>>
<1>5. /\ nth \in Call \X (1..MaxDenials)
      /\ \A h \in Call \X (1..MaxDenials) :
           h[2] <= denials'[h[1]] <=> h[2] <= denials[h[1]] \/ h = nth
  BY <1>1
<1> HIDE DEF nth
<1>3. CASE req[c].root # r
  <2>1. Denied(r)' = Denied(r)
    <3>1. req[nth[1]].root # r
      BY <1>3 DEF nth
    <3> QED BY <1>1, <1>5, <3>1 DEF Denied
  <2>2. Marking(r)' = Marking(r)
    BY <1>1, <1>3 DEF Marking
  <2> QED BY <1>2, <2>1, <2>2, StillPaid
<1>4. CASE req[c].root = r
  <2>1. Denied(r)' = Denied(r) \cup {nth} /\ nth \notin Denied(r)
    <3>1. req[nth[1]].root = r /\ ~(nth[2] <= denials[nth[1]])
      BY <1>4 DEF nth
    <3> QED BY <1>1, <1>5, <3>1 DEF Denied
  <2>2. c \notin Marking(r) /\ (Marking(r)' = Marking(r) \/ Marking(r)' = Marking(r) \cup {c})
    <3>1. c \notin Marking(r)
      BY <1>1, NotIdle DEF Marking
    <3>2. \A d \in Call \ {c} : d \in Marking(r)' <=> d \in Marking(r)
      BY <1>1 DEF Marking
    <3>3. Marking(r) \subseteq Call /\ Marking(r)' \subseteq Call
      BY DEF Marking
    <3> HIDE DEF TypeOK
    <3>4. ASSUME c \in Marking(r)' PROVE Marking(r)' = Marking(r) \cup {c}
      <4>1. ASSUME NEW d PROVE d \in Marking(r)' <=> d \in Marking(r) \cup {c}
        BY <3>2, <3>3, <3>4
      <4> QED BY <4>1
    <3>5. ASSUME c \notin Marking(r)' PROVE Marking(r)' = Marking(r)
      <4>1. ASSUME NEW d PROVE d \in Marking(r)' <=> d \in Marking(r)
        BY <3>1, <3>2, <3>3, <3>5
      <4> QED BY <4>1
    <3> QED BY <3>1, <3>4, <3>5
  <2>3. /\ IsFiniteSet(Denied(r)') /\ Cardinality(Denied(r)') = Cardinality(Denied(r)) + 1
        /\ Cardinality(Denied(r)) \in Nat
    BY <2>1, FS_AddElement, FS_CardinalityType DEF Counted
  <2>4. /\ IsFiniteSet(Marking(r)')
        /\ Cardinality(Marking(r)') \in Nat /\ Cardinality(Marking(r)) \in Nat
        /\ Cardinality(Marking(r)') <= Cardinality(Marking(r)) + 1
    <3>1. IsFiniteSet(Marking(r)) /\ Cardinality(Marking(r)) \in Nat
      BY FS_CardinalityType DEF Counted
    <3>2. /\ IsFiniteSet(Marking(r) \cup {c})
          /\ Cardinality(Marking(r) \cup {c}) = Cardinality(Marking(r)) + 1
      BY <2>2, <3>1, FS_AddElement
    <3>3. CASE Marking(r)' = Marking(r)
      BY <3>1, <3>3
    <3>4. CASE Marking(r)' = Marking(r) \cup {c}
      BY <3>1, <3>2, <3>4
    <3> QED BY <2>2, <3>3, <3>4
  <2>5. Cardinality(Carried(r)) \in Nat /\ Mark(r) \in Nat
    BY FS_CardinalityType DEF Counted, Mark
  <2> QED BY <1>2, <2>3, <2>4, <2>5 DEF Counted, PaidFor
<1> QED
  BY <1>3, <1>4

\* A denial on its way becomes the mark of its tree; a mark set twice is one mark.
LEMMA MarkPays ==
  ASSUME TypeOK, Begun, NEW r \in Session, Counted(r) /\ PaidFor(r), NEW c \in Call,
         MarkDenial(c)
  PROVE  (Counted(r) /\ PaidFor(r))'
<1> USE DEF TypeOK
<1>1. /\ UNCHANGED <<pc, req, denials>> /\ answer[c] = <<"deny", "mark">>
      /\ personDenied' = personDenied \cup {req[c].root}
      /\ answer' = [answer EXCEPT ![c] = <<"deny", "send">>]
  BY DEF MarkDenial, calls
<1>2. Carried(r)' = Carried(r) /\ Denied(r)' = Denied(r)
  BY <1>1 DEF Carried, Denied
<1>3. <<"deny", "send">> # <<"deny", "mark">>
  OBVIOUS
<1>4. CASE req[c].root # r
  <2>1. Marking(r)' = Marking(r) /\ Mark(r)' = Mark(r)
    BY <1>1, <1>3, <1>4 DEF Marking, Mark
  <2> QED BY <1>2, <2>1, StillPaid
<1>5. CASE req[c].root = r
  <2>1. Marking(r)' = Marking(r) \ {c} /\ c \in Marking(r)
    BY <1>1, <1>3, <1>5 DEF Marking
  <2>2. /\ IsFiniteSet(Marking(r)') /\ Cardinality(Marking(r)') = Cardinality(Marking(r)) - 1
        /\ Cardinality(Marking(r)) \in Nat
    BY <2>1, FS_RemoveElement, FS_CardinalityType DEF Counted
  <2>3. /\ Cardinality(Carried(r)) \in Nat /\ Cardinality(Denied(r)) \in Nat
        /\ Mark(r) \in 0..1 /\ Mark(r)' \in 0..1
    BY FS_CardinalityType DEF Counted, Mark
  <2> QED BY <1>2, <2>2, <2>3 DEF Counted, PaidFor
<1> QED
  BY <1>4, <1>5

\* A reader takes the mark, and one reader only.
LEMMA ReadingPays ==
  ASSUME TypeOK, Begun, NEW r \in Session, Counted(r) /\ PaidFor(r), NEW c \in Call,
         AgentReads(c)
  PROVE  (Counted(r) /\ PaidFor(r))'
<1> USE DEF TypeOK
<1>1. /\ UNCHANGED <<req, answer, denials>> /\ pc[c] = "returned"
      /\ Root(req[c].session) = req[c].root
      /\ \A d \in Call \ {c} : pc'[d] = pc[d]
  BY BegunCall DEF AgentReads, answers
<1>2. Marking(r)' = Marking(r) /\ Denied(r)' = Denied(r)
  BY <1>1 DEF Marking, Denied
<1>3. CASE req[c].root = r /\ r \in personDenied
  <2>1. pc'[c] = "carriedOn" /\ r \notin personDenied'
    BY <1>1, <1>3 DEF AgentReads
  <2>2. Carried(r)' = Carried(r) \cup {c} /\ c \notin Carried(r)
    BY <1>1, <1>3, <2>1 DEF Carried
  <2>3. /\ IsFiniteSet(Carried(r)') /\ Cardinality(Carried(r)') = Cardinality(Carried(r)) + 1
        /\ Cardinality(Carried(r)) \in Nat
    BY <2>2, FS_AddElement, FS_CardinalityType DEF Counted
  <2>4. Mark(r) = 1 /\ Mark(r)' = 0
    BY <1>3, <2>1 DEF Mark
  <2>5. Cardinality(Marking(r)) \in Nat /\ Cardinality(Denied(r)) \in Nat
    BY FS_CardinalityType DEF Counted
  <2> QED BY <1>2, <2>3, <2>4, <2>5 DEF Counted, PaidFor
<1>4. CASE ~(req[c].root = r /\ r \in personDenied)
  <2>1. Mark(r)' = Mark(r)
    BY <1>1, <1>4 DEF AgentReads, Mark
  <2>2. req[c].root = r => pc'[c] # "carriedOn"
    BY <1>1, <1>4 DEF AgentReads
  <2>3. Carried(r)' = Carried(r)
    BY <1>1, <2>2 DEF Carried
  <2> QED BY <1>2, <2>1, <2>3, StillPaid
<1> QED
  BY <1>3, <1>4

\* Every step keeps the account of every tree.
LEMMA PaidStep ==
  ASSUME TypeOK, Begun, Next, PaidInv, NEW r \in Session
  PROVE  (Counted(r) /\ PaidFor(r))'
<1> USE DEF TypeOK
<1>1. Counted(r) /\ PaidFor(r)
  BY DEF PaidInv
<1>2. \A c \in Call : pc[c] # "idle" => req'[c] = req[c]
  BY Frame
<1>3. ASSUME \A c \in Call : pc'[c] = "carriedOn" <=> pc[c] = "carriedOn",
             \A c \in Call : answer'[c] = <<"deny", "mark">> <=> answer[c] = <<"deny", "mark">>,
             denials' = denials, personDenied' = personDenied
      PROVE  (Counted(r) /\ PaidFor(r))'
  <2>1. denials \in [Call -> Nat]
    BY PermissionAssumption
  <2> QED BY <1>1, <1>2, <1>3, <2>1, SameSets, StillPaid DEF Mark
<1>4. ASSUME NEW d \in Call,
             \/ \E s \in Session, o \in Opts : Ask(d, s, o)
             \/ RefuseOutright(d) \/ ApproveUnasked(d) \/ Publish(d)
             \/ Receive(d) \/ Timeout(d) \/ Announce(d) \/ Forget(d)
      PROVE  (Counted(r) /\ PaidFor(r))'
  <2>1. /\ UNCHANGED <<answer, denials, personDenied>>
        /\ \A c \in Call : pc'[c] = "carriedOn" <=> pc[c] = "carriedOn"
    BY <1>4 DEF Ask, RefuseOutright, ApproveUnasked, Publish, Receive, Timeout, Announce, Forget,
                answers, marks
  <2> QED BY <1>3, <2>1
<1>5. ASSUME NEW d \in Call, AgentReads(d) PROVE (Counted(r) /\ PaidFor(r))'
  BY <1>1, <1>5, ReadingPays
<1>6. ASSUME NEW d \in Call, MarkDenial(d) PROVE (Counted(r) /\ PaidFor(r))'
  BY <1>1, <1>6, MarkPays
<1>7. ASSUME NEW d \in Call, NEW b \in Button, MayAnswer(d, b), Answer(d, b)
      PROVE  (Counted(r) /\ PaidFor(r))'
  <2>1. CASE b = "deny"
    BY <1>1, <1>7, <2>1, DenyPays
  <2>2. CASE b # "deny"
    <3>1. /\ UNCHANGED <<pc, personDenied, denials>> /\ answer[d] = Idle
          /\ answer'[d] # <<"deny", "mark">>
          /\ \A c \in Call \ {d} : answer'[c] = answer[c]
      BY <1>7, <2>2, NotIdle DEF Answer, calls, marks
    <3> QED BY <1>3, <2>2, <3>1, NotIdle
  <2> QED BY <2>1, <2>2
<1>8. ASSUME NEW d \in Call, \/ StoreSession(d) \/ StoreFamily(d)
                             \/ \E b \in Button : Send(d, b)
      PROVE  (Counted(r) /\ PaidFor(r))'
  <2>1. /\ UNCHANGED <<pc, denials, personDenied>>
        /\ answer[d] # <<"deny", "mark">> /\ answer'[d] # <<"deny", "mark">>
        /\ \A c \in Call \ {d} : answer'[c] = answer[c]
    BY <1>8, NotIdle DEF StoreSession, StoreFamily, Send, calls, marks
  <2> QED BY <1>3, <2>1
<1>9. ASSUME NEW s \in Session,
             \/ CancelSession(s) \/ AutoApproveSession(s) \/ RevokeAutoApprove(s)
             \/ GrantFleet(s) \/ RevokeFleet(s)
      PROVE  (Counted(r) /\ PaidFor(r))'
  BY <1>3, <1>9 DEF CancelSession, AutoApproveSession, RevokeAutoApprove, GrantFleet,
                    RevokeFleet, calls, answers, marks
<1>10. ASSUME NEW m \in Modes, SetMode(m) PROVE (Counted(r) /\ PaidFor(r))'
  BY <1>3, <1>10 DEF SetMode, calls, answers, marks
<1>11. ASSUME NEW h \in Helper, NEW p \in Conversation, RegisterChildSession(h, p)
       PROVE  (Counted(r) /\ PaidFor(r))'
  BY <1>3, <1>11 DEF RegisterChildSession, calls, answers, marks
<1> QED
  BY <1>4, <1>5, <1>6, <1>7, <1>8, <1>9, <1>10, <1>11 DEF Next, Session

\* THEOREM: no turn carries on past a refusal that no person's Deny in its tree paid
\* for: at most as many continuations as times Deny was given, each giving read once,
\* however often one question is denied.
THEOREM DeniesPayOnce == Spec => []ContinuationsArePaidFor
<1>1. Init => TypeOK /\ Begun /\ PaidInv
  <2>1. ASSUME Init, NEW r \in Session PROVE Counted(r) /\ PaidFor(r)
    <3>1. Carried(r) = {} /\ Marking(r) = {} /\ Denied(r) = {} /\ Mark(r) = 0
      BY <2>1 DEF Init, Carried, Marking, Denied, Mark, Idle
    <3> QED BY <3>1, FS_EmptySet DEF Counted, PaidFor
  <2> QED
    BY <2>1, InitTyped DEF PaidInv
<1>2. (TypeOK /\ Begun /\ PaidInv) /\ [Next]_vars => (TypeOK /\ Begun /\ PaidInv)'
  <2>1. TypeOK /\ Begun /\ PaidInv /\ Next => PaidInv'
    BY PaidStep DEF PaidInv
  <2>2. PaidInv /\ UNCHANGED vars => PaidInv'
    BY DEF PaidInv, Counted, PaidFor, Carried, Marking, Denied, Mark, vars, marks, calls, answers
  <2> QED
    BY <2>1, <2>2, NextTyped, BegunStep
<1>3. PaidInv => ContinuationsArePaidFor
  <2> SUFFICES ASSUME PaidInv, NEW r \in Session
               PROVE  Cardinality(Carried(r)) + Mark(r) <= Cardinality(Denied(r))
    BY DEF ContinuationsArePaidFor, Carried, Denied, Mark
  <2>1. Counted(r) /\ PaidFor(r)
    BY DEF PaidInv
  <2>2. /\ Cardinality(Carried(r)) \in Nat /\ Cardinality(Marking(r)) \in Nat
        /\ Cardinality(Denied(r)) \in Nat /\ Mark(r) \in Nat
    BY <2>1, FS_CardinalityType DEF Counted, Mark
  <2> QED BY <2>1, <2>2 DEF PaidFor
<1> QED
  BY <1>1, <1>2, <1>3, PTL DEF Spec
=============================================================================
