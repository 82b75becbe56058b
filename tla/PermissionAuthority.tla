------------------------- MODULE PermissionAuthority -------------------------
(* Where every approval of Permission comes from: proofs of the two          *)
(* authority properties, for every set of calls, sessions and requests.      *)
EXTENDS PermissionProofs

-----------------------------------------------------------------------------
(* The invariant. *)

RememberedHere(c) == \E d \in Call : RememberedExact(d, c) \/ RememberedPlace(d, c)
RememberedKind(c) == \E d \in Call : RememberedFamily(d, c)
FleetOpen(c)      == req[c].root \in fleetOpened /\ req[c].opts.tool \in FleetTools

\* A person's remembered answer, or the fleet question, covers the request.
Standing(c) == RememberedHere(c) \/ RememberedKind(c) \/ FleetOpen(c)

SaidYes(c) == \E b \in {"allow", "session", "family", "covered"} : <<c, b>> \in pressed

\* Each remembered answer was given by a person, to a request it repeats.
GivenForSession(g) ==
  \E d \in Call : <<d, "session">> \in pressed /\ req[d].root = g.session /\ req[d].opts = g.opts

GivenForFamily(g) ==
  \E d \in Call :
    /\ \/ <<d, "family">> \in pressed
       \/ <<d, "session">> \in pressed /\ ~req[d].opts.irreversible
    /\ req[d].root = g.session /\ req[d].opts.tool = g.tool /\ req[d].opts.place = g.place
    /\ g.family \in req[d].opts.families

Given ==
  /\ \A g \in sessionPermissions : GivenForSession(g)
  /\ \A g \in familyGrants : GivenForFamily(g)
  /\ \A g \in fleetGrants : g[1] \in fleetOpened

\* The snapshot of a call was true of answers already given, a question answered
\* as covered was covered, a yes in the channel was said, and a call approved
\* unasked inside a carve-out stood on one of these or had nobody to ask.
Justified(c) ==
  /\ pc[c] # "idle" => /\ req[c].covered => RememberedHere(c)
                       /\ req[c].fleet => FleetOpen(c)
  /\ <<c, "covered">> \in pressed => Standing(c)
  /\ ch[c] = "allow" \/ got[c] = "allow" => SaidYes(c)
  /\ got[c] = "approved" /\ MustAskAnyway(req[c].opts) =>
       Standing(c) \/ (unattended /\ ~req[c].opts.irreversible)

AllJustified == \A c \in Call : Justified(c)

AInv == TypeOK /\ Begun /\ DenialInv /\ Given /\ AllJustified

-----------------------------------------------------------------------------
(* What stays. *)

\* A person's answer was given to a call that has begun.
LEMMA PressedBegun ==
  ASSUME TypeOK, Begun, NEW d \in Call, NEW b, <<d, b>> \in pressed
  PROVE  pc[d] # "idle"
BY DEF TypeOK, Begun

\* Standing answers stand.
LEMMA StandingStays ==
  ASSUME TypeOK, Begun, Next, NEW c \in Call, pc[c] # "idle"
  PROVE  /\ RememberedHere(c) => RememberedHere(c)'
         /\ RememberedKind(c) => RememberedKind(c)'
         /\ FleetOpen(c) => FleetOpen(c)'
         /\ Standing(c) => Standing(c)'
<1>1. /\ pressed \subseteq pressed' /\ fleetOpened \subseteq fleetOpened'
      /\ req'[c] = req[c]
      /\ \A d \in Call : \A b : <<d, b>> \in pressed => req'[d] = req[d]
  BY Frame, PressedBegun
<1>2. RememberedHere(c) => RememberedHere(c)'
  <2> SUFFICES ASSUME NEW d \in Call, RememberedExact(d, c) \/ RememberedPlace(d, c)
               PROVE  RememberedExact(d, c)' \/ RememberedPlace(d, c)'
    BY DEF RememberedHere
  <2> QED
    BY <1>1 DEF RememberedExact, RememberedPlace, SameTree
<1>3. RememberedKind(c) => RememberedKind(c)'
  <2> SUFFICES ASSUME NEW d \in Call, RememberedFamily(d, c) PROVE RememberedFamily(d, c)'
    BY DEF RememberedKind
  <2> QED
    BY <1>1 DEF RememberedFamily, SameTree
<1>4. FleetOpen(c) => FleetOpen(c)'
  BY <1>1 DEF FleetOpen
<1> QED
  BY <1>2, <1>3, <1>4 DEF Standing

\* The answers behind the grants stay given.
LEMMA GivenStays ==
  ASSUME TypeOK, Begun, Next, Given
  PROVE  /\ \A g \in sessionPermissions : GivenForSession(g)'
         /\ \A g \in familyGrants : GivenForFamily(g)'
         /\ \A g \in fleetGrants : g[1] \in fleetOpened'
<1>1. /\ pressed \subseteq pressed' /\ fleetOpened \subseteq fleetOpened'
      /\ \A d \in Call : \A b : <<d, b>> \in pressed => req'[d] = req[d]
  BY Frame, PressedBegun
<1>2. ASSUME NEW g \in sessionPermissions PROVE GivenForSession(g)'
  <2>1. PICK d \in Call : <<d, "session">> \in pressed /\ req[d].root = g.session /\ req[d].opts = g.opts
    BY DEF Given, GivenForSession
  <2> QED
    BY <1>1, <2>1 DEF GivenForSession
<1>3. ASSUME NEW g \in familyGrants PROVE GivenForFamily(g)'
  <2>1. PICK d \in Call :
          /\ \/ <<d, "family">> \in pressed
             \/ <<d, "session">> \in pressed /\ ~req[d].opts.irreversible
          /\ req[d].root = g.session /\ req[d].opts.tool = g.tool /\ req[d].opts.place = g.place
          /\ g.family \in req[d].opts.families
    BY DEF Given, GivenForFamily
  <2> QED
    BY <1>1, <2>1 DEF GivenForFamily
<1> QED
  BY <1>1, <1>2, <1>3 DEF Given

-----------------------------------------------------------------------------
(* Grants come from answers. *)

\* A store writes what its own answer was given for.
LEMMA StoresWhatWasGiven ==
  ASSUME TypeOK, Begun, Next, NEW c \in Call, StoreSession(c) \/ StoreFamily(c)
  PROVE  /\ \A g \in sessionPermissions' : g \in sessionPermissions \/ GivenForSession(g)'
         /\ \A g \in familyGrants' : g \in familyGrants \/ GivenForFamily(g)'
         /\ fleetGrants' = fleetGrants
<1>1. /\ answer[c] # Idle
      /\ StoreSession(c) => answer[c][1] = "session"
      /\ StoreFamily(c) => answer[c][1] = "family"
  BY NotIdle DEF StoreSession, StoreFamily
<1>2. <<c, answer[c][1]>> \in pressed
  BY <1>1, BegunCall
<1>3. pressed' = pressed /\ req' = req
  BY DEF StoreSession, StoreFamily, calls
<1>4. CASE StoreSession(c)
  <2>1. <<c, "session">> \in pressed
    BY <1>1, <1>2, <1>4
  <2>2. \A g \in sessionPermissions' : g \in sessionPermissions \/ GivenForSession(g)'
    <3> SUFFICES ASSUME NEW g \in sessionPermissions', g \notin sessionPermissions
                 PROVE  GivenForSession(g)'
      OBVIOUS
    <3>1. g.session = req[c].root /\ g.opts = req[c].opts
      BY <1>4 DEF StoreSession
    <3> QED
      BY <1>3, <2>1, <3>1 DEF GivenForSession
  <2>3. \A g \in familyGrants' : g \in familyGrants \/ GivenForFamily(g)'
    <3> SUFFICES ASSUME NEW g \in familyGrants', g \notin familyGrants PROVE GivenForFamily(g)'
      OBVIOUS
    <3>1. PICK f \in req[c].opts.families : ~req[c].opts.irreversible /\ g = FamilyGrant(c, f)
      BY <1>4 DEF StoreSession
    <3>2. g.session = req[c].root /\ g.tool = req[c].opts.tool
          /\ g.place = req[c].opts.place /\ g.family = f
      BY <3>1 DEF FamilyGrant
    <3> QED
      BY <1>3, <2>1, <3>1, <3>2 DEF GivenForFamily
  <2> QED
    BY <1>4, <2>2, <2>3 DEF StoreSession
<1>5. CASE StoreFamily(c)
  <2>1. <<c, "family">> \in pressed
    BY <1>1, <1>2, <1>5
  <2>2. \A g \in familyGrants' : g \in familyGrants \/ GivenForFamily(g)'
    <3> SUFFICES ASSUME NEW g \in familyGrants', g \notin familyGrants PROVE GivenForFamily(g)'
      OBVIOUS
    <3>1. PICK f \in req[c].opts.families : g = FamilyGrant(c, f)
      BY <1>5 DEF StoreFamily
    <3>2. g.session = req[c].root /\ g.tool = req[c].opts.tool
          /\ g.place = req[c].opts.place /\ g.family = f
      BY <3>1 DEF FamilyGrant
    <3> QED
      BY <1>3, <2>1, <3>1, <3>2 DEF GivenForFamily
  <2> QED
    BY <1>5, <2>2 DEF StoreFamily
<1> QED
  BY <1>4, <1>5

\* Every step leaves each grant with the answer it came from.
LEMMA GivenStep == TypeOK /\ Begun /\ Given /\ Next => Given'
<1> SUFFICES ASSUME TypeOK, Begun, Given, Next PROVE Given'
  OBVIOUS
<1>1. CASE UNCHANGED <<sessionPermissions, familyGrants, fleetGrants>>
  BY <1>1, GivenStays DEF Given
<1>2. ASSUME NEW c \in Call, StoreSession(c) \/ StoreFamily(c) PROVE Given'
  BY <1>2, GivenStays, StoresWhatWasGiven DEF Given
<1>3. ASSUME NEW s \in Session, GrantFleet(s) \/ RevokeFleet(s) PROVE Given'
  <2>1. sessionPermissions' = sessionPermissions /\ familyGrants' = familyGrants
    BY <1>3 DEF GrantFleet, RevokeFleet
  <2>2. \A g \in fleetGrants' : g[1] \in fleetOpened'
    BY <1>3 DEF GrantFleet, RevokeFleet, Given
  <2> QED
    BY <2>1, <2>2, GivenStays DEF Given
<1>4. ASSUME NEW c \in Call,
             \/ \E s \in Session, o \in Opts : Ask(c, s, o)
             \/ RefuseOutright(c) \/ ApproveUnasked(c) \/ Publish(c) \/ Receive(c) \/ Timeout(c)
             \/ Announce(c) \/ Forget(c) \/ AgentReads(c) \/ MarkDenial(c)
             \/ \E b \in Button : Answer(c, b) \/ Send(c, b)
      PROVE  UNCHANGED grants
  BY <1>4 DEF Ask, RefuseOutright, ApproveUnasked, Publish, Receive, Timeout, Announce, Forget,
              AgentReads, MarkDenial, Answer, Send
<1>5. ASSUME NEW s \in Session, CancelSession(s) \/ AutoApproveSession(s) \/ RevokeAutoApprove(s)
      PROVE  UNCHANGED grants
  BY <1>5 DEF CancelSession, AutoApproveSession, RevokeAutoApprove
<1>6. ASSUME NEW m \in Modes, SetMode(m) PROVE UNCHANGED grants
  BY <1>6 DEF SetMode
<1>7. ASSUME NEW h \in Helper, NEW p \in Conversation, RegisterChildSession(h, p) PROVE UNCHANGED grants
  BY <1>7 DEF RegisterChildSession
<1>8. UNCHANGED grants => Given'
  BY <1>1 DEF grants
<1> QED
  BY <1>2, <1>3, <1>4, <1>5, <1>6, <1>7, <1>8 DEF Next, Session

-----------------------------------------------------------------------------
(* Lookups find what was given. *)

\* A remembered answer that a lookup finds covers the request in its tree.
LEMMA FoundIsRemembered ==
  ASSUME TypeOK, Begun, Given, NEW s, NEW o \in Opts
  PROVE  /\ CoveredBySession(s, o) =>
              \E d \in Call : /\ <<d, "session">> \in pressed /\ req[d].root = s
                              /\ SessionGrantCovers(req[d].opts, o)
         /\ CoveredByFamily(s, o) =>
              /\ ~o.irreversible /\ ~o.egress
              /\ \E d \in Call :
                   /\ \/ <<d, "family">> \in pressed
                      \/ <<d, "session">> \in pressed /\ ~req[d].opts.irreversible
                   /\ req[d].root = s /\ req[d].opts.tool = o.tool
                   /\ <<o.place, req[d].opts.place>> \in Within
                   /\ req[d].opts.families \cap o.families # {}
         /\ <<s, o.tool>> \in fleetGrants => s \in fleetOpened /\ o.tool \in FleetTools
<1>1. ASSUME CoveredBySession(s, o)
      PROVE  \E d \in Call : /\ <<d, "session">> \in pressed /\ req[d].root = s
                             /\ SessionGrantCovers(req[d].opts, o)
  <2>1. PICK g \in sessionPermissions : g.session = s /\ SessionGrantCovers(g.opts, o)
    BY <1>1 DEF CoveredBySession
  <2>2. PICK d \in Call : <<d, "session">> \in pressed /\ req[d].root = g.session /\ req[d].opts = g.opts
    BY DEF Given, GivenForSession
  <2> QED
    BY <2>1, <2>2
<1>2. ASSUME CoveredByFamily(s, o)
      PROVE  /\ ~o.irreversible /\ ~o.egress
             /\ \E d \in Call :
                  /\ \/ <<d, "family">> \in pressed
                     \/ <<d, "session">> \in pressed /\ ~req[d].opts.irreversible
                  /\ req[d].root = s /\ req[d].opts.tool = o.tool
                  /\ <<o.place, req[d].opts.place>> \in Within
                  /\ req[d].opts.families \cap o.families # {}
  <2>1. PICK g \in familyGrants : /\ g.session = s /\ g.tool = o.tool
                                  /\ <<o.place, g.place>> \in Within
                                  /\ g.family \in o.families
    BY <1>2 DEF CoveredByFamily
  <2>2. GivenForFamily(g)
    BY DEF Given
  <2> QED
    BY <1>2, <2>1, <2>2 DEF GivenForFamily, CoveredByFamily
<1>3. <<s, o.tool>> \in fleetGrants => s \in fleetOpened /\ o.tool \in FleetTools
  BY DEF Given, TypeOK
<1> QED
  BY <1>1, <1>2, <1>3

\* What a lookup under the root of a call finds is standing.
LEMMA CoveredIsStanding ==
  ASSUME TypeOK, Begun, Given, NEW c \in Call, pc[c] # "idle"
  PROVE  /\ CoveredBySession(req[c].root, req[c].opts) => RememberedHere(c)
         /\ CoveredByFamily(req[c].root, req[c].opts) => RememberedKind(c)
         /\ <<req[c].root, req[c].opts.tool>> \in fleetGrants => FleetOpen(c)
         /\ IsCovered(c) => Standing(c)
<1>1. req[c].opts \in Opts /\ req[c].root \in Conversation
  BY BegunCall
<1>2. Root(req[c].root) = req[c].root
  BY <1>1, PermissionAssumption DEF Root
<1>3. ASSUME CoveredBySession(req[c].root, req[c].opts) PROVE RememberedHere(c)
  <2>1. PICK d \in Call : /\ <<d, "session">> \in pressed /\ req[d].root = req[c].root
                          /\ SessionGrantCovers(req[d].opts, req[c].opts)
    <3>1. PICK g \in sessionPermissions :
            g.session = req[c].root /\ SessionGrantCovers(g.opts, req[c].opts)
      BY <1>3 DEF CoveredBySession
    <3>2. GivenForSession(g)
      BY DEF Given
    <3> QED
      BY <3>1, <3>2 DEF GivenForSession
  <2>2. RememberedExact(d, c) \/ RememberedPlace(d, c)
    BY <2>1 DEF RememberedExact, RememberedPlace, SameTree, SessionGrantCovers, SameRequest
  <2> QED
    BY <2>2 DEF RememberedHere
<1>4. ASSUME CoveredByFamily(req[c].root, req[c].opts) PROVE RememberedKind(c)
  <2>1. ~req[c].opts.irreversible /\ ~req[c].opts.egress
    BY <1>4 DEF CoveredByFamily
  <2>2. PICK d \in Call :
          /\ \/ <<d, "family">> \in pressed
             \/ <<d, "session">> \in pressed /\ ~req[d].opts.irreversible
          /\ req[d].root = req[c].root /\ req[d].opts.tool = req[c].opts.tool
          /\ <<req[c].opts.place, req[d].opts.place>> \in Within
          /\ req[d].opts.families \cap req[c].opts.families # {}
    <3>1. PICK g \in familyGrants :
            /\ g.session = req[c].root /\ g.tool = req[c].opts.tool
            /\ <<req[c].opts.place, g.place>> \in Within /\ g.family \in req[c].opts.families
      BY <1>4 DEF CoveredByFamily
    <3>2. GivenForFamily(g)
      BY DEF Given
    <3> QED
      BY <3>1, <3>2 DEF GivenForFamily
  <2>3. RememberedFamily(d, c)
    BY <2>1, <2>2 DEF RememberedFamily, SameTree
  <2> QED
    BY <2>3 DEF RememberedKind
<1>5. <<req[c].root, req[c].opts.tool>> \in fleetGrants => FleetOpen(c)
  BY <1>1, FoundIsRemembered DEF FleetOpen
<1> QED
  BY <1>2, <1>3, <1>4, <1>5 DEF IsCovered, Standing

\* What keeps Justified(c) over a step that is not its Ask.
LEMMA StillJustified ==
  ASSUME TypeOK, Begun, Next, NEW c \in Call, pc[c] # "idle", Justified(c),
         <<c, "covered">> \in pressed' => <<c, "covered">> \in pressed \/ Standing(c),
         ch'[c] = "allow" \/ got'[c] = "allow" => SaidYes(c),
         got'[c] = "approved" /\ MustAskAnyway(req[c].opts) =>
           \/ got[c] = "approved" \/ Standing(c)
           \/ unattended /\ ~req[c].opts.irreversible
  PROVE  Justified(c)'
<1>1. req'[c] = req[c] /\ unattended' = unattended /\ pressed \subseteq pressed'
  BY Frame
<1>2. SaidYes(c) => SaidYes(c)'
  BY <1>1 DEF SaidYes
<1> QED
  BY <1>1, <1>2, StandingStays DEF Justified, MustAskAnyway

\* The step that asks: what its snapshot found had been given before.
LEMMA JustifiedAsk ==
  ASSUME TypeOK, Begun, DenialInv, Given, Next, NEW c \in Call, Justified(c),
         NEW s \in Session, NEW o \in Opts, Ask(c, s, o)
  PROVE  Justified(c)'
<1> USE DEF TypeOK
<1>1. /\ pc[c] = "idle" /\ ch' = ch /\ got' = got /\ pressed' = pressed
      /\ fleetOpened' = fleetOpened
      /\ req'[c].root = Root(s) /\ req'[c].opts = o
      /\ req'[c].covered = CoveredBySession(Root(s), o)
      /\ req'[c].fleet = (<<Root(s), o.tool>> \in fleetGrants)
      /\ \A d \in Call \ {c} : req'[d] = req[d]
  BY DEF Ask, answers, grants
<1>2. ch[c] = "empty" /\ got[c] = "none"
  BY <1>1 DEF DenialInv, Heard
<1>3. \A d \in Call : \A b : <<d, b>> \in pressed => d # c
  BY <1>1, PressedBegun
<1>4. ASSUME req'[c].covered PROVE RememberedHere(c)'
  <2>1. PICK d \in Call : /\ <<d, "session">> \in pressed /\ req[d].root = Root(s)
                          /\ SessionGrantCovers(req[d].opts, o)
    BY <1>1, <1>4, FoundIsRemembered
  <2>2. req'[d] = req[d] /\ <<d, "session">> \in pressed'
    BY <1>1, <1>3, <2>1
  <2>3. (RememberedExact(d, c) \/ RememberedPlace(d, c))'
    BY <1>1, <2>1, <2>2
    DEF RememberedExact, RememberedPlace, SameTree, SessionGrantCovers, SameRequest
  <2> QED
    BY <2>3 DEF RememberedHere
<1>5. req'[c].fleet => FleetOpen(c)'
  BY <1>1, FoundIsRemembered DEF FleetOpen
<1> QED
  BY <1>1, <1>2, <1>3, <1>4, <1>5 DEF Justified

\* The step that approves unasked: in a carve-out only what stands, or an
\* unattended program and a request that can be undone, gets this far.
LEMMA JustifiedUnasked ==
  ASSUME TypeOK, Begun, Given, NEW c \in Call, Justified(c), ApproveUnasked(c),
         MustAskAnyway(req[c].opts)
  PROVE  Standing(c) \/ (unattended /\ ~req[c].opts.irreversible)
<1>1. pc[c] # "idle" /\ ~RefusesOutright(c) /\ ApprovesUnasked(c)
  BY DEF ApproveUnasked
<1>2. CASE req[c].covered \/ req[c].fleet
  BY <1>1, <1>2 DEF Justified, Standing
<1>3. CASE CoveredByFamily(req[c].root, req[c].opts)
  BY <1>1, <1>3, CoveredIsStanding DEF Standing
<1>4. CASE req[c].auto /\ unattended
  BY <1>1, <1>4 DEF RefusesOutright
<1> QED
  BY <1>1, <1>2, <1>3, <1>4 DEF ApprovesUnasked

\* Every step leaves every approval with its authority.
LEMMA JustifiedStep ==
  ASSUME TypeOK, Begun, DenialInv, Given, AllJustified, Next, NEW c \in Call
  PROVE  Justified(c)'
<1> USE DEF TypeOK
<1>1. Justified(c)
  BY DEF AllJustified
<1>2. /\ ch[c] # "empty" \/ got[c] # "none" \/ answer[c] # Idle => pc[c] # "idle"
      /\ \A b : <<c, b>> \in pressed => pc[c] # "idle"
  BY BegunCall, PressedBegun DEF DenialInv, Heard
<1> DEFINE Kept ==
      /\ <<c, "covered">> \in pressed' => <<c, "covered">> \in pressed \/ Standing(c)
      /\ ch'[c] = ch[c] \/ (pc[c] # "idle" /\ (ch'[c] # "allow" \/ SaidYes(c)))
      /\ \/ got'[c] = got[c]
         \/ pc[c] # "idle" /\ (got'[c] = ch[c] \/ got'[c] \in {"refused", "timeout"} \/ ApproveUnasked(c))
      /\ pc[c] = "idle" => pc'[c] = "idle" /\ req'[c] = req[c] /\ <<c, "covered">> \notin pressed'
<1>3. Kept => Justified(c)'
  <2> SUFFICES ASSUME Kept PROVE Justified(c)'
    OBVIOUS
  <2>1. CASE pc[c] = "idle"
    BY <1>2, <2>1 DEF Justified
  <2>2. CASE pc[c] # "idle"
    <3>1. ch[c] # "approved"
      OBVIOUS
    <3>2. ch'[c] = "allow" \/ got'[c] = "allow" => SaidYes(c)
      <4>1. ApproveUnasked(c) => got'[c] = "approved"
        BY DEF ApproveUnasked
      <4> QED
        BY <1>1, <4>1 DEF Justified
    <3>3. got'[c] = "approved" /\ MustAskAnyway(req[c].opts) =>
            \/ got[c] = "approved" \/ Standing(c)
            \/ unattended /\ ~req[c].opts.irreversible
      BY <1>1, <3>1, JustifiedUnasked
    <3> QED
      BY <1>1, <2>2, <3>2, <3>3, StillJustified
  <2> QED
    BY <2>1, <2>2
<1>4. ASSUME pc' = pc, req' = req, ch' = ch, got' = got, pressed' = pressed PROVE Kept
  BY <1>2, <1>4
<1>5. ASSUME NEW d \in Call \ {c}, NEW s \in Session, NEW o \in Opts, Ask(d, s, o) PROVE Kept
  BY <1>2, <1>5 DEF Ask, answers
<1>6. ASSUME NEW d \in Call, RefuseOutright(d) \/ Publish(d) \/ Announce(d) \/ Forget(d) \/ AgentReads(d)
      PROVE  Kept
  BY <1>2, <1>6 DEF RefuseOutright, Publish, Announce, Forget, AgentReads, answers
<1>7. ASSUME NEW d \in Call, ApproveUnasked(d) PROVE Kept
  <2>1. d # c => got'[c] = got[c] /\ pc'[c] = pc[c]
    BY <1>7 DEF ApproveUnasked
  <2>2. pc[d] # "idle" /\ ch' = ch /\ pressed' = pressed /\ req' = req
    BY <1>7 DEF ApproveUnasked, answers
  <2> QED
    BY <1>2, <1>7, <2>1, <2>2
<1>8. ASSUME NEW d \in Call, Receive(d) PROVE Kept
  BY <1>2, <1>8 DEF Receive
<1>9. ASSUME NEW d \in Call, Timeout(d) PROVE Kept
  BY <1>2, <1>9 DEF Timeout, answers
<1>10. ASSUME NEW d \in Call, MarkDenial(d) \/ StoreSession(d) \/ StoreFamily(d) PROVE Kept
  BY <1>4, <1>10 DEF MarkDenial, StoreSession, StoreFamily, calls
<1>11. ASSUME NEW d \in Call, NEW b \in Button, MayAnswer(d, b), Answer(d, b) PROVE Kept
  <2>1. pc[d] # "idle"
    BY <1>11 DEF MayAnswer, Published, Waiting, Ends
  <2>2. b = "covered" => Standing(d)
    BY <1>11, <2>1, CoveredIsStanding DEF MayAnswer
  <2>3. /\ pc' = pc /\ req' = req /\ got' = got /\ ch' = ch /\ pressed' = pressed \cup {<<d, b>>}
    BY <1>11 DEF Answer, calls
  <2>4. <<c, "covered">> \in pressed' => <<c, "covered">> \in pressed \/ (d = c /\ b = "covered")
    BY <2>3
  <2> QED
    BY <1>2, <2>1, <2>2, <2>3, <2>4
<1>12. ASSUME NEW d \in Call, NEW b \in Button, Send(d, b) PROVE Kept
  <2>1. /\ pc' = pc /\ req' = req /\ got' = got /\ pressed' = pressed
        /\ ch' = [ch EXCEPT ![d] = Word(b)] /\ answer[d] = <<b, "send">>
    BY <1>12 DEF Send, calls
  <2>2. <<d, b>> \in pressed /\ pc[d] # "idle"
    BY <2>1, BegunCall, NotIdle
  <2>3. ch'[c] = ch[c] \/ (c = d /\ (ch'[c] = "allow" \/ b \in {"deny", "refuse"}))
    BY <2>1 DEF Word
  <2>4. b \in {"allow", "session", "family", "covered"} \/ b \in {"deny", "refuse"}
    BY PermissionAssumption DEF AllButtons
  <2>5. CASE b \in {"allow", "session", "family", "covered"}
    <3>1. c = d => SaidYes(c)
      BY <2>2, <2>5 DEF SaidYes
    <3> QED
      BY <1>2, <2>1, <2>2, <2>3, <2>5, <3>1
  <2>6. CASE b \in {"deny", "refuse"}
    <3>1. Word(b) # "allow"
      BY <2>6 DEF Word
    <3>2. ch'[c] = ch[c] \/ (c = d /\ ch'[c] # "allow")
      BY <2>1, <3>1
    <3> QED
      BY <1>2, <2>1, <2>2, <3>2
  <2> QED
    BY <2>4, <2>5, <2>6
<1>13. ASSUME NEW s \in Session, CancelSession(s) PROVE Kept
  <2>1. pc' = pc /\ req' = req /\ got' = got /\ pressed' = pressed
    BY <1>13 DEF CancelSession, calls
  <2>2. ch'[c] = ch[c] \/ (Pending(c) /\ ch'[c] = "cancel")
    BY <1>13 DEF CancelSession
  <2>3. Pending(c) => pc[c] # "idle"
    BY DEF Pending, Waiting
  <2> QED
    BY <1>2, <2>1, <2>2, <2>3
<1>14. ASSUME NEW s \in Session, RevokeAutoApprove(s) \/ AutoApproveSession(s)
                                \/ GrantFleet(s) \/ RevokeFleet(s)
       PROVE  Kept
  BY <1>4, <1>14 DEF RevokeAutoApprove, AutoApproveSession, GrantFleet, RevokeFleet, calls, answers
<1>15. ASSUME NEW m \in Modes, SetMode(m) PROVE Kept
  BY <1>4, <1>15 DEF SetMode, calls, answers
<1>16. ASSUME NEW h \in Helper, NEW p \in Conversation, RegisterChildSession(h, p) PROVE Kept
  BY <1>4, <1>16 DEF RegisterChildSession, calls, answers
<1>17. ASSUME NEW d \in Call, NEW s \in Session, NEW o \in Opts, Ask(d, s, o) PROVE Justified(c)'
  <2>1. CASE d = c
    BY <1>1, <1>17, <2>1, JustifiedAsk
  <2>2. CASE d # c
    BY <1>3, <1>5, <1>17, <2>2
  <2> QED
    BY <2>1, <2>2
<1> HIDE DEF Kept
<1> QED
  BY <1>3, <1>6, <1>7, <1>8, <1>9, <1>10, <1>11, <1>12, <1>13, <1>14, <1>15, <1>16, <1>17
  DEF Next, Session

-----------------------------------------------------------------------------
(* The theorems. *)

LEMMA InitJustified == Init => AInv
<1> SUFFICES ASSUME Init PROVE AInv
  OBVIOUS
<1>1. TypeOK /\ Begun
  BY InitTyped
<1>2. DenialInv
  BY DEF Init, DenialInv, Heard, DenyUnderWay, Idle
<1>3. Given /\ AllJustified
  BY DEF Init, Given, AllJustified, Justified
<1> QED
  BY <1>1, <1>2, <1>3 DEF AInv

LEMMA StutterJustified == AInv /\ UNCHANGED vars => (DenialInv /\ Given /\ AllJustified)'
<1> SUFFICES ASSUME AInv, UNCHANGED vars PROVE (DenialInv /\ Given /\ AllJustified)'
  OBVIOUS
<1>1. /\ unattended' = unattended /\ personDenied' = personDenied
      /\ sessionPermissions' = sessionPermissions /\ familyGrants' = familyGrants
      /\ fleetGrants' = fleetGrants /\ fleetOpened' = fleetOpened
      /\ pc' = pc /\ req' = req /\ got' = got
      /\ ch' = ch /\ answer' = answer /\ pressed' = pressed
  BY DEF vars, marks, calls, answers, grants, stances
<1>2. DenialInv'
  BY <1>1 DEF AInv, DenialInv, Heard, DenyUnderWay, Taken, Ended, SameTree
<1>3. Given'
  BY <1>1 DEF AInv, Given, GivenForSession, GivenForFamily
<1>4. ASSUME NEW c \in Call PROVE Justified(c)'
  <2>1. RememberedHere(c)' <=> RememberedHere(c)
    BY <1>1 DEF RememberedHere, RememberedExact, RememberedPlace, SameTree
  <2>2. RememberedKind(c)' <=> RememberedKind(c)
    BY <1>1 DEF RememberedKind, RememberedFamily, SameTree
  <2>3. (FleetOpen(c)' <=> FleetOpen(c)) /\ (SaidYes(c)' <=> SaidYes(c))
    BY <1>1 DEF FleetOpen, SaidYes
  <2>4. Standing(c)' <=> Standing(c)
    BY <2>1, <2>2, <2>3 DEF Standing
  <2> QED
    BY <1>1, <2>1, <2>3, <2>4 DEF AInv, AllJustified, Justified, MustAskAnyway
<1> QED
  BY <1>2, <1>3, <1>4 DEF AllJustified

LEMMA StepJustified == AInv /\ [Next]_vars => AInv'
<1>1. AInv /\ Next => (DenialInv /\ Given /\ AllJustified)'
  BY DenialStep, GivenStep, JustifiedStep DEF AInv, DenialInv, AllJustified
<1>2. AInv /\ [Next]_vars => (TypeOK /\ Begun)'
  BY NextTyped, BegunStep DEF AInv
<1> QED
  BY <1>1, <1>2, StutterJustified DEF AInv

\* THEOREM: an approval inside a carve-out was given by a person: to this
\* question, to one whose remembered scope covers it in the same tree, or to the
\* fleet question; or nobody was there to ask and it can be undone.
THEOREM EveryYesHasAuthority == Spec => []AuthorityForEveryYes
<1>1. AInv => AuthorityForEveryYes
  <2> SUFFICES ASSUME AInv, NEW c \in Call, Yes(c), MustAskAnyway(req[c].opts)
               PROVE  \/ Allowed(c) \/ Standing(c)
                      \/ unattended /\ ~req[c].opts.irreversible
    BY DEF AuthorityForEveryYes, Standing, RememberedHere, RememberedKind, FleetOpen
  <2>1. Justified(c)
    BY DEF AInv, AllJustified
  <2>2. SaidYes(c) => Allowed(c) \/ Standing(c)
    BY <2>1 DEF Justified, SaidYes, Allowed
  <2> QED
    BY <2>1, <2>2 DEF Yes, Justified
<1> QED
  BY <1>1, InitJustified, StepJustified, PTL DEF Spec

\* THEOREM: outside file changes and the fleet's own tools an irreversible
\* request is approved on a person's answer to it or to the identical one.
THEOREM IrreversibleIsAskedFor == Spec => []IrreversibleNeedsThePerson
<1>1. AuthorityForEveryYes => IrreversibleNeedsThePerson
  <2> SUFFICES ASSUME AuthorityForEveryYes, NEW c \in Call, Yes(c), req[c].opts.irreversible,
                      req[c].opts.tool \notin EditTools \cup FleetTools
               PROVE  Allowed(c) \/ \E d \in Call : RememberedExact(d, c)
    BY DEF IrreversibleNeedsThePerson
  <2>1. \A d \in Call : ~RememberedPlace(d, c) /\ ~RememberedFamily(d, c)
    BY DEF RememberedPlace, RememberedFamily
  <2> QED
    BY <2>1 DEF AuthorityForEveryYes, MustAskAnyway
<1> QED
  BY <1>1, EveryYesHasAuthority, PTL
=============================================================================
