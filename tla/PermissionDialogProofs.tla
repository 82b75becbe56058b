----------------------- MODULE PermissionDialogProofs -----------------------
(* Proofs about PermissionDialog, for every number of calls, sessions and keys pressed. *)
EXTENDS PermissionDialog, TLAPS

-----------------------------------------------------------------------------
(* The inductive invariant. *)

\* Types, as far as the proofs need them.
Phases == {"idle", "snapped", "returned"} \cup Waiting \cup Ends
Types ==
  /\ pc \in [Call -> Phases] /\ DOMAIN ch = Call /\ DOMAIN answer = Call
  /\ events \in Seq({"created", "deleted"} \X Call) /\ queue \in Seq(Call)
  /\ shown => current \in Call
  /\ handling \in Call \cup {Nobody}
  /\ \A r \in responses : r[1] \in Call

\* Each question is announced once, and its end after it.
Log == \A i, j \in 1..Len(events) :
  /\ events[i] = events[j] => i = j
  /\ events[i][1] = "created" /\ events[j][1] = "deleted" /\ events[i][2] = events[j][2] => i < j

\* Where a question is: nowhere before it is published, then on its way, then on the
\* screen, until its end is published or is on its way.
Flow == \A c \in Call :
  /\ pc[c] \in {"idle", "snapped"} => /\ ~Visible(c) /\ \A r \in responses : r[1] # c
  /\ InFlight("deleted", c) => pc[c] \in {"announced", "returned"}
  /\ InFlight("created", c) => ~OnScreen(c)
  /\ InFlight("created", c) \/ OnScreen(c) =>
       pc[c] \in {"waiting", "settled"} \/ InFlight("deleted", c)

\* A question that waits for its first answer; an answer to it that is still to be sent.
Open(c) == pc[c] = "waiting" /\ ch[c] = "empty"
Sent(c) == answer[c][2] \in {"mark", "send"}
Answered(c) == Open(c) => Sent(c)

\* While the loop is inside an answer, and none has been stale, the question on the screen
\* is the one answered first; it is answered, and so is the one being handled.
Loop == ~stale /\ ~Free =>
  shown /\ Answered(handling) /\ (handling = current \/ ~Open(current))

DInv == Types /\ Log /\ Flow /\ OneDialogAtATime /\ Loop /\ LostOnlyToAStaleAnswer

-----------------------------------------------------------------------------
(* Sequences. *)

\* What is appended comes last.
LEMMA Appended ==
  ASSUME NEW S, NEW s \in Seq(S), NEW e \in S
  PROVE  /\ Append(s, e) \in Seq(S) /\ Len(s) \in Nat /\ Len(Append(s, e)) = Len(s) + 1
         /\ \A i \in 1..Len(s) : Append(s, e)[i] = s[i]
         /\ Append(s, e)[Len(s) + 1] = e
         /\ Range(Append(s, e)) = Range(s) \cup {e}
<1>1. /\ Append(s, e) \in Seq(S) /\ Len(s) \in Nat /\ Len(Append(s, e)) = Len(s) + 1
      /\ \A i \in 1..Len(s) : Append(s, e)[i] = s[i]
      /\ Append(s, e)[Len(s) + 1] = e
  OBVIOUS
<1>2. DOMAIN Append(s, e) = 1..Len(s) + 1 /\ DOMAIN s = 1..Len(s)
  BY <1>1
<1> DEFINE t == Append(s, e)
<1>3. /\ DOMAIN t = 1..Len(s) + 1 /\ t[Len(s) + 1] = e /\ \A i \in 1..Len(s) : t[i] = s[i]
  BY <1>1, <1>2
<1> HIDE DEF t
<1>4. Range(t) = Range(s) \cup {e}
  <2>1. \A x \in Range(t) : x \in Range(s) \cup {e}
    BY <1>1, <1>2, <1>3 DEF Range
  <2>2. \A x \in Range(s) : x \in Range(t)
    BY <1>1, <1>2, <1>3 DEF Range
  <2>3. e \in Range(t)
    BY <1>1, <1>3 DEF Range
  <2> QED BY <2>1, <2>2, <2>3
<1> QED
  BY <1>1, <1>4 DEF t

\* What is taken off the front.
LEMMA Behind ==
  ASSUME NEW S, NEW s \in Seq(S), s # <<>>
  PROVE  /\ Tail(s) \in Seq(S) /\ Len(s) \in Nat \ {0} /\ Len(Tail(s)) = Len(s) - 1
         /\ Head(s) = s[1] /\ Head(s) \in S
         /\ \A i \in 1..Len(Tail(s)) : Tail(s)[i] = s[i + 1]
         /\ Range(s) = {Head(s)} \cup Range(Tail(s))
         /\ IsInjective(s) => IsInjective(Tail(s)) /\ Head(s) \notin Range(Tail(s))
<1> DEFINE t == Tail(s)
<1>1. /\ t \in Seq(S) /\ Len(s) \in Nat \ {0} /\ Len(t) = Len(s) - 1
      /\ Head(s) = s[1] /\ Head(s) \in S
      /\ \A i \in 1..Len(t) : t[i] = s[i + 1]
  OBVIOUS
<1>2. DOMAIN t = 1..Len(t) /\ DOMAIN s = 1..Len(s)
  BY <1>1
<1> HIDE DEF t
<1>3. Range(s) = {Head(s)} \cup Range(t)
  <2>1. ASSUME NEW i \in 1..Len(s) PROVE s[i] = s[1] \/ \E j \in 1..Len(t) : s[i] = t[j]
    <3>1. i = 1 \/ (i - 1 \in 1..Len(t) /\ t[i - 1] = s[i])
      BY <1>1
    <3> QED BY <3>1
  <2>2. \A j \in 1..Len(t) : j + 1 \in 1..Len(s) /\ t[j] = s[j + 1]
    BY <1>1
  <2>3. \A x \in Range(s) : x \in {Head(s)} \cup Range(t)
    BY <1>1, <1>2, <2>1 DEF Range
  <2>4. \A x \in Range(t) : x \in Range(s)
    BY <1>1, <1>2, <2>2 DEF Range
  <2>5. Head(s) \in Range(s)
    BY <1>1, <1>2 DEF Range
  <2> QED BY <2>3, <2>4, <2>5
<1>4. IsInjective(s) => IsInjective(t) /\ Head(s) \notin Range(t)
  <2> SUFFICES ASSUME \A a, b \in 1..Len(s) : s[a] = s[b] => a = b
               PROVE  /\ \A a, b \in 1..Len(t) : t[a] = t[b] => a = b
                      /\ \A a \in 1..Len(t) : t[a] # s[1]
    BY <1>1, <1>2 DEF IsInjective, Range
  <2> QED BY <1>1
<1> QED
  BY <1>1, <1>3, <1>4 DEF t

\* What is cut out of the middle.
LEMMA CutOut ==
  ASSUME NEW S, NEW s \in Seq(S), NEW n \in 1..Len(s), IsInjective(s)
  PROVE  /\ RemoveAt(s, n) \in Seq(S) /\ IsInjective(RemoveAt(s, n))
         /\ Range(RemoveAt(s, n)) = Range(s) \ {s[n]}
<1> DEFINE t == RemoveAt(s, n)
<1>1. /\ t \in Seq(S) /\ Len(s) \in Nat /\ Len(t) = Len(s) - 1
      /\ \A i \in 1..Len(t) : t[i] = IF i < n THEN s[i] ELSE s[i + 1]
  <2>1. /\ SubSeq(s, 1, n - 1) \in Seq(S) /\ Len(SubSeq(s, 1, n - 1)) = n - 1
        /\ \A i \in 1..n - 1 : SubSeq(s, 1, n - 1)[i] = s[i]
    OBVIOUS
  <2>2. /\ SubSeq(s, n + 1, Len(s)) \in Seq(S) /\ Len(SubSeq(s, n + 1, Len(s))) = Len(s) - n
        /\ \A i \in 1..Len(s) - n : SubSeq(s, n + 1, Len(s))[i] = s[n + i]
    OBVIOUS
  <2> DEFINE u == SubSeq(s, 1, n - 1)  v == SubSeq(s, n + 1, Len(s))
  <2>3. t = u \o v
    BY DEF RemoveAt
  <2>4. /\ u \in Seq(S) /\ Len(u) = n - 1 /\ \A i \in 1..n - 1 : u[i] = s[i]
        /\ v \in Seq(S) /\ Len(v) = Len(s) - n /\ \A i \in 1..Len(s) - n : v[i] = s[n + i]
    BY <2>1, <2>2
  <2> HIDE DEF t, u, v
  <2>5. /\ t \in Seq(S) /\ Len(t) = Len(u) + Len(v)
        /\ \A i \in 1..Len(t) : t[i] = IF i <= Len(u) THEN u[i] ELSE v[i - Len(u)]
    <3>1. u \in Seq(S) /\ v \in Seq(S)
      BY <2>4
    <3> QED BY <2>3, <3>1
  <2>6. ASSUME NEW i \in 1..Len(t) PROVE t[i] = IF i < n THEN s[i] ELSE s[i + 1]
    <3>1. CASE i < n
      BY <2>4, <2>5, <3>1
    <3>2. CASE ~(i < n)
      <4>1. t[i] = v[i - (n - 1)] /\ i - (n - 1) \in 1..Len(s) - n
        BY <2>4, <2>5, <3>2
      <4>2. n + (i - (n - 1)) = i + 1
        OBVIOUS
      <4> QED BY <2>4, <3>2, <4>1, <4>2
    <3> QED BY <3>1, <3>2
  <2>7. Len(s) \in Nat
    OBVIOUS
  <2> QED BY <2>4, <2>5, <2>6, <2>7
<1>2. DOMAIN t = 1..Len(t) /\ DOMAIN s = 1..Len(s)
  BY <1>1
<1> HIDE DEF t
<1>3. \A a, b \in 1..Len(s) : s[a] = s[b] => a = b
  BY <1>2 DEF IsInjective
<1>4. \A a, b \in 1..Len(t) : t[a] = t[b] => a = b
  BY <1>1, <1>3
<1>5. \A a \in 1..Len(t) : t[a] # s[n] /\ \E i \in 1..Len(s) : t[a] = s[i]
  BY <1>1, <1>3
<1>6. ASSUME NEW i \in 1..Len(s), i # n PROVE \E a \in 1..Len(t) : t[a] = s[i]
  <2>1. CASE i < n
    BY <1>1, <2>1
  <2>2. CASE i > n
    <3>1. i - 1 \in 1..Len(t) /\ t[i - 1] = s[i]
      BY <1>1, <2>2
    <3> QED BY <3>1
  <2> QED BY <1>1, <1>6, <2>1, <2>2
<1>7. Range(t) = Range(s) \ {s[n]}
  <2>1. \A x \in Range(t) : x \in Range(s) /\ x # s[n]
    BY <1>2, <1>5 DEF Range
  <2>2. \A x \in Range(s) : x # s[n] => x \in Range(t)
    BY <1>2, <1>6 DEF Range
  <2> QED BY <2>1, <2>2
<1> QED
  BY <1>1, <1>2, <1>4, <1>7 DEF t, IsInjective

-----------------------------------------------------------------------------
(* The service's own steps. *)

\* What they can do to a question: begin it, settle it, end it; they neither open a
\* question nor take back an answer that is on its way.
Quiet ==
  /\ \A c \in Call : \/ pc'[c] = pc[c]
                     \/ pc[c] = "idle" /\ pc'[c] = "snapped"
                     \/ pc[c] = "snapped" /\ pc'[c] = "returned"
                     \/ pc[c] = "waiting" /\ pc'[c] = "settled"
                     \/ pc[c] = "announced" /\ pc'[c] = "returned"
  /\ \A c \in Call : Open(c)' => Open(c) /\ (Sent(c) => Sent(c)')

\* A step of Request or of an answer that publishes nothing is quiet.
LEMMA QuietStep ==
  ASSUME Types, NEW c \in Call,
         \/ \E s \in Session, o \in Opts : Ask(c, s, o)
         \/ ApproveUnasked(c) \/ Receive(c) \/ Timeout(c) \/ Forget(c)
         \/ MarkDenial(c) \/ StoreSession(c) \/ StoreFamily(c)
         \/ \E b \in Button : Send(c, b)
  PROVE  Quiet /\ pc' \in [Call -> Phases] /\ DOMAIN ch' = Call /\ DOMAIN answer' = Call
<1> USE DEF Types
<1>1. ASSUME NEW s \in Session, NEW o \in Opts, Ask(c, s, o)
      PROVE  Quiet /\ pc' \in [Call -> Phases] /\ UNCHANGED answers
  <2>1. pc[c] = "idle" /\ pc' = [pc EXCEPT ![c] = "snapped"] /\ UNCHANGED <<ch, answer>>
    BY <1>1 DEF Ask, answers
  <2> QED BY <1>1, <2>1 DEF Ask, Quiet, Open, Sent, Phases
<1>2. CASE ApproveUnasked(c) \/ Forget(c)
  <2>1. /\ pc[c] \in {"snapped", "announced"} /\ pc' = [pc EXCEPT ![c] = "returned"]
        /\ UNCHANGED <<ch, answer>>
    BY <1>2 DEF ApproveUnasked, Forget, answers
  <2> QED BY <2>1 DEF Quiet, Open, Sent, Phases
<1>3. CASE Receive(c) \/ Timeout(c)
  <2>1. /\ pc[c] = "waiting" /\ pc' = [pc EXCEPT ![c] = "settled"] /\ answer' = answer
        /\ ch' = ch \/ ch' = [ch EXCEPT ![c] = "empty"]
    BY <1>3 DEF Receive, Timeout, answers
  <2> QED BY <2>1 DEF Quiet, Open, Sent, Phases, Waiting
<1>4. CASE MarkDenial(c)
  <2>1. /\ answer' = [answer EXCEPT ![c] = <<"deny", "send">>] /\ UNCHANGED <<pc, ch>>
    BY <1>4 DEF MarkDenial, calls
  <2> QED BY <2>1 DEF Quiet, Open, Sent
<1>5. CASE StoreSession(c) \/ StoreFamily(c)
  <2>1. /\ answer[c][2] = "store" /\ answer' = [answer EXCEPT ![c] = Idle] /\ UNCHANGED <<pc, ch>>
    BY <1>5 DEF StoreSession, StoreFamily, calls
  <2> QED BY <2>1 DEF Quiet, Open, Sent
<1>6. ASSUME NEW b \in Button, Send(c, b) PROVE Quiet /\ UNCHANGED pc /\ DOMAIN ch' = Call
                                                /\ DOMAIN answer' = Call
  <2>1. \E a : answer' = [answer EXCEPT ![c] = a]
    BY <1>6 DEF Send
  <2>2. UNCHANGED pc /\ ch' = [ch EXCEPT ![c] = Word(b)] /\ Word(b) # "empty"
    BY <1>6, PermissionAssumption DEF Send, calls, Word
  <2> QED BY <2>1, <2>2 DEF Quiet, Open, Sent
<1> QED
  BY <1>1, <1>2, <1>3, <1>4, <1>5, <1>6 DEF answers

\* So is ending a session's helpers: it unblocks questions, and opens none.
LEMMA CancelStep ==
  ASSUME Types, NEW s \in Session, CancelSession(s)
  PROVE  Quiet /\ pc' \in [Call -> Phases] /\ DOMAIN ch' = Call /\ DOMAIN answer' = Call
BY DEF Types, CancelSession, calls, Quiet, Open, Sent

\* Nothing on the screen moves with such a step.
LEMMA QuietKeeps ==
  ASSUME DInv, Quiet, pc' \in [Call -> Phases], DOMAIN ch' = Call, DOMAIN answer' = Call,
         UNCHANGED ui
  PROVE  DInv'
<1>1. UNCHANGED <<events, responses, shown, current, queue, handling, stale>>
  BY DEF ui, screen
<1>2. Types'
  BY <1>1 DEF DInv, Types
<1>3. Log' /\ OneDialogAtATime'
  BY <1>1 DEF DInv, Log, OneDialogAtATime
<1>4. \A c \in Call : /\ OnScreen(c)' <=> OnScreen(c)
                      /\ Visible(c)' <=> Visible(c)
                      /\ InFlight("created", c)' <=> InFlight("created", c)
                      /\ InFlight("deleted", c)' <=> InFlight("deleted", c)
  BY <1>1 DEF OnScreen, InFlight, Visible
<1>5. Flow'
  <2> SUFFICES ASSUME NEW c \in Call
               PROVE  /\ pc'[c] \in {"idle", "snapped"} =>
                           ~Visible(c) /\ \A r \in responses : r[1] # c
                      /\ InFlight("deleted", c) => pc'[c] \in {"announced", "returned"}
                      /\ InFlight("created", c) => ~OnScreen(c)
                      /\ InFlight("created", c) \/ OnScreen(c) =>
                           pc'[c] \in {"waiting", "settled"} \/ InFlight("deleted", c)
    BY <1>1, <1>4 DEF Flow
  <2>1. /\ pc[c] \in {"idle", "snapped"} => ~Visible(c) /\ \A r \in responses : r[1] # c
        /\ InFlight("deleted", c) => pc[c] \in {"announced", "returned"}
        /\ InFlight("created", c) => ~OnScreen(c)
        /\ InFlight("created", c) \/ OnScreen(c) =>
             pc[c] \in {"waiting", "settled"} \/ InFlight("deleted", c)
    BY DEF DInv, Flow
  <2>2. InFlight("created", c) \/ OnScreen(c) => Visible(c)
    BY DEF Visible
  <2> QED BY <2>1, <2>2 DEF Quiet
<1>6. Loop'
  <2>1. \A c \in Call : (Answered(c) => Answered(c)') /\ (~Open(c) => ~Open(c)')
    BY DEF Quiet, Answered
  <2> SUFFICES ASSUME ~stale, ~Free
               PROVE  shown /\ Answered(handling)' /\ (handling = current \/ ~Open(current)')
    BY <1>1 DEF Loop, Free, Answered, Open, Sent
  <2>2. shown /\ Answered(handling) /\ (handling = current \/ ~Open(current))
        /\ handling \in Call /\ current \in Call
    BY DEF DInv, Loop, Types, Free
  <2>3. PICK h \in Call, d \in Call : h = handling /\ d = current
    BY <2>2
  <2>4. Answered(h)' /\ (h = d \/ ~Open(d)')
    BY <2>1, <2>2, <2>3
  <2> QED BY <1>1, <2>2, <2>3, <2>4 DEF Answered, Open, Sent
<1>7. LostOnlyToAStaleAnswer'
  <2>1. \A c \in Call : Open(c)' => Open(c)
    BY DEF Quiet
  <2> QED BY <1>1, <1>4, <2>1 DEF DInv, LostOnlyToAStaleAnswer, Open
<1> QED
  BY <1>2, <1>3, <1>5, <1>6, <1>7 DEF DInv

-----------------------------------------------------------------------------
(* Publishing. *)

\* What Append and Tail do to what is on its way.
LEMMA EventAdded ==
  ASSUME Types, NEW t \in {"created", "deleted"}, NEW c \in Call,
         events' = Append(events, <<t, c>>)
  PROVE  /\ events' \in Seq({"created", "deleted"} \X Call)
         /\ \A u, d : InFlight(u, d)' <=> InFlight(u, d) \/ <<u, d>> = <<t, c>>
         /\ Len(events) \in Nat /\ Len(events') = Len(events) + 1
         /\ \A i \in 1..Len(events) : events'[i] = events[i]
         /\ events'[Len(events) + 1] = <<t, c>>
<1> DEFINE S == {"created", "deleted"} \X Call
<1>1. events \in Seq(S) /\ <<t, c>> \in S
  BY DEF Types
<1> HIDE DEF S
<1>2. /\ events' \in Seq(S) /\ Len(events) \in Nat /\ Len(events') = Len(events) + 1
      /\ \A i \in 1..Len(events) : events'[i] = events[i]
      /\ events'[Len(events) + 1] = <<t, c>>
      /\ Range(events') = Range(events) \cup {<<t, c>>}
  <2>1. PICK e \in S : e = <<t, c>>
    BY <1>1
  <2>2. events' = Append(events, e)
    BY <2>1
  <2>3. /\ Append(events, e) \in Seq(S) /\ Len(events) \in Nat
        /\ Len(Append(events, e)) = Len(events) + 1
        /\ \A i \in 1..Len(events) : Append(events, e)[i] = events[i]
        /\ Append(events, e)[Len(events) + 1] = e
        /\ Range(Append(events, e)) = Range(events) \cup {e}
    BY <1>1, Appended
  <2> QED BY <2>1, <2>2, <2>3
<1>3. \A u, d : InFlight(u, d) <=> <<u, d>> \in Range(events)
  BY DEF InFlight, Range
<1>4. \A u, d : InFlight(u, d)' <=> <<u, d>> \in Range(events')
  BY DEF InFlight, Range
<1> QED
  BY <1>2, <1>3, <1>4 DEF S

\* A new event for one that has none of its kind, and no later one, keeps the log.
LEMMA LogGrows ==
  ASSUME Types, Log, NEW t \in {"created", "deleted"}, NEW c \in Call, ~InFlight(t, c),
         t = "created" => ~InFlight("deleted", c), events' = Append(events, <<t, c>>)
  PROVE  Log'
<1>1. /\ Len(events) \in Nat /\ Len(events') = Len(events) + 1
      /\ \A i \in 1..Len(events) : events'[i] = events[i]
      /\ events'[Len(events) + 1] = <<t, c>>
  BY EventAdded
<1>2. \A i \in 1..Len(events) :
        events[i] # <<t, c>> /\ (t = "created" => events[i] # <<"deleted", c>>)
  BY DEF InFlight, Types
<1>3. \A i \in 1..Len(events) : events[i] = <<events[i][1], events[i][2]>>
  BY DEF Types
<1> SUFFICES ASSUME NEW i \in 1..Len(events'), NEW j \in 1..Len(events')
             PROVE  /\ events'[i] = events'[j] => i = j
                    /\ events'[i][1] = "created" /\ events'[j][1] = "deleted"
                       /\ events'[i][2] = events'[j][2] => i < j
  BY DEF Log
<1>4. CASE i \in 1..Len(events) /\ j \in 1..Len(events)
  BY <1>1, <1>4 DEF Log
<1>5. CASE i \in 1..Len(events) /\ j = Len(events) + 1
  BY <1>1, <1>2, <1>5
<1>6. CASE i = Len(events) + 1 /\ j \in 1..Len(events)
  BY <1>1, <1>2, <1>3, <1>6
<1>7. CASE i = Len(events) + 1 /\ j = Len(events) + 1
  BY <1>1, <1>7
<1> QED
  BY <1>1, <1>4, <1>5, <1>6, <1>7

\* The question sets out for the screen when its call starts to wait.
LEMMA PublishStep ==
  ASSUME DInv, NEW c \in Call, Publish(c), events' = Append(events, <<"created", c>>),
         UNCHANGED <<responses, keys, screen, handling, stale>>
  PROVE  DInv'
<1>1. /\ Types /\ Log /\ Flow /\ Loop
      /\ pc[c] = "snapped" /\ pc' = [pc EXCEPT ![c] = "waiting"] /\ UNCHANGED <<ch, answer>>
      /\ UNCHANGED <<responses, shown, current, queue, handling, stale>>
  BY DEF DInv, Publish, answers, screen
<1>2. \A d \in Call : pc'[d] = IF d = c THEN "waiting" ELSE pc[d]
  BY <1>1 DEF Types
<1>3. /\ ~Visible(c) /\ ~OnScreen(c) /\ handling # c
      /\ ~InFlight("created", c) /\ ~InFlight("deleted", c)
  BY <1>1 DEF Flow, Visible
<1>4. /\ events' \in Seq({"created", "deleted"} \X Call)
      /\ \A u, d : InFlight(u, d)' <=> InFlight(u, d) \/ <<u, d>> = <<"created", c>>
  BY <1>1, EventAdded
<1>5. Types'
  BY <1>1, <1>4 DEF Types, Phases, Waiting
<1>6. Log'
  BY <1>1, <1>3, LogGrows
<1>7. /\ \A d : OnScreen(d)' <=> OnScreen(d)
      /\ \A d \in Call : Visible(d)' <=> Visible(d) \/ d = c
      /\ \A d \in Call : InFlight("created", d)' <=> InFlight("created", d) \/ d = c
      /\ \A d \in Call : InFlight("deleted", d)' <=> InFlight("deleted", d)
  <2>1. \A d : OnScreen(d)' <=> OnScreen(d)
    BY <1>1 DEF OnScreen
  <2>2. \A d \in Call : InFlight("created", d)' <=> InFlight("created", d) \/ d = c
    BY <1>4
  <2>3. \A d \in Call : InFlight("deleted", d)' <=> InFlight("deleted", d)
    BY <1>4
  <2> QED BY <1>1, <2>1, <2>2, <2>3 DEF Visible
<1>8. Flow'
  BY <1>1, <1>2, <1>3, <1>7 DEF Flow
<1>9. OneDialogAtATime'
  BY <1>1 DEF DInv, OneDialogAtATime
<1>10. Loop'
  <2> SUFFICES ASSUME ~stale, ~Free
               PROVE  shown /\ Answered(handling)' /\ (handling = current \/ ~Open(current)')
    BY <1>1 DEF Loop, Free, Answered, Open, Sent
  <2>1. /\ shown /\ Answered(handling) /\ (handling = current \/ ~Open(current))
        /\ handling \in Call /\ current \in Call /\ handling # c /\ current # c
    BY <1>1, <1>3 DEF Loop, Types, Free, OnScreen
  <2> QED BY <1>1, <1>2, <2>1 DEF Answered, Open, Sent
<1>11. LostOnlyToAStaleAnswer'
  BY <1>1, <1>2, <1>7 DEF DInv, LostOnlyToAStaleAnswer
<1> QED
  BY <1>5, <1>6, <1>8, <1>9, <1>10, <1>11 DEF DInv

\* Its end is published once, after it was settled.
LEMMA AnnounceStep ==
  ASSUME DInv, NEW c \in Call, Announce(c), events' = Append(events, <<"deleted", c>>),
         UNCHANGED <<responses, keys, screen, handling, stale>>
  PROVE  DInv'
<1>1. /\ Types /\ Log /\ Flow /\ Loop
      /\ pc[c] = "settled" /\ pc' = [pc EXCEPT ![c] = "announced"] /\ UNCHANGED <<ch, answer>>
      /\ UNCHANGED <<responses, shown, current, queue, handling, stale>>
  BY DEF DInv, Announce, answers, screen
<1>2. \A d \in Call : pc'[d] = IF d = c THEN "announced" ELSE pc[d]
  BY <1>1 DEF Types
<1>3. ~InFlight("deleted", c)
  BY <1>1 DEF Flow
<1>4. /\ events' \in Seq({"created", "deleted"} \X Call)
      /\ \A u, d : InFlight(u, d)' <=> InFlight(u, d) \/ <<u, d>> = <<"deleted", c>>
  BY <1>1, EventAdded
<1>5. Types'
  BY <1>1, <1>4 DEF Types, Phases, Waiting
<1>6. Log'
  BY <1>1, <1>3, LogGrows
<1>7. /\ \A d : OnScreen(d)' <=> OnScreen(d)
      /\ \A d \in Call : Visible(d)' <=> Visible(d)
      /\ \A d \in Call : InFlight("created", d)' <=> InFlight("created", d)
      /\ \A d \in Call : InFlight("deleted", d)' <=> InFlight("deleted", d) \/ d = c
  <2>1. \A d : OnScreen(d)' <=> OnScreen(d)
    BY <1>1 DEF OnScreen
  <2>2. \A d \in Call : InFlight("created", d)' <=> InFlight("created", d)
    BY <1>4
  <2>3. \A d \in Call : InFlight("deleted", d)' <=> InFlight("deleted", d) \/ d = c
    BY <1>4
  <2> QED BY <1>1, <2>1, <2>2, <2>3 DEF Visible
<1>8. Flow'
  BY <1>1, <1>2, <1>3, <1>7 DEF Flow
<1>9. OneDialogAtATime'
  BY <1>1 DEF DInv, OneDialogAtATime
<1>10. \A d \in Call : (Open(d)' <=> Open(d)) /\ (Sent(d)' <=> Sent(d))
  BY <1>1, <1>2 DEF Open, Sent
<1>11. Loop'
  <2> SUFFICES ASSUME ~stale, ~Free
               PROVE  shown /\ Answered(handling)' /\ (handling = current \/ ~Open(current)')
    BY <1>1 DEF Loop, Free, Answered, Open, Sent
  <2>1. /\ shown /\ Answered(handling) /\ (handling = current \/ ~Open(current))
        /\ handling \in Call /\ current \in Call
    BY <1>1 DEF Loop, Types, Free
  <2> QED BY <1>1, <1>2, <2>1 DEF Answered, Open, Sent
<1>12. LostOnlyToAStaleAnswer'
  BY <1>1, <1>2, <1>7 DEF DInv, LostOnlyToAStaleAnswer
<1> QED
  BY <1>5, <1>6, <1>8, <1>9, <1>11, <1>12 DEF DInv

-----------------------------------------------------------------------------
(* The update loop. *)

\* The oldest event is taken.
LEMMA EventTaken ==
  ASSUME Types, Log, events # <<>>, events' = Tail(events)
  PROVE  \E t \in {"created", "deleted"}, c \in Call :
         /\ Head(events)[1] = t /\ Head(events)[2] = c
         /\ t = "deleted" => ~InFlight("created", c)
         /\ InFlight(t, c)
         /\ \A u, d : InFlight(u, d)' <=> InFlight(u, d) /\ <<u, d>> # <<t, c>>
         /\ events' \in Seq({"created", "deleted"} \X Call) /\ Log'
<1> DEFINE S == {"created", "deleted"} \X Call
<1>1. events \in Seq(S) /\ IsInjective(events)
  BY DEF Types, Log, IsInjective
<1>2. /\ events' \in Seq(S) /\ Len(events) \in Nat \ {0} /\ Len(events') = Len(events) - 1
      /\ Head(events) = events[1] /\ Head(events) \in S
      /\ \A i \in 1..Len(events') : events'[i] = events[i + 1]
      /\ Range(events) = {Head(events)} \cup Range(events') /\ Head(events) \notin Range(events')
  <2> HIDE DEF S
  <2> QED BY <1>1, Behind
<1>3. PICK t \in {"created", "deleted"}, c \in Call : Head(events) = <<t, c>>
  BY <1>2
<1>4. \A u, d : InFlight(u, d) <=> <<u, d>> \in Range(events)
  BY DEF InFlight, Range
<1>5. \A u, d : InFlight(u, d)' <=> <<u, d>> \in Range(events')
  BY DEF InFlight, Range
<1>6. t = "deleted" => ~InFlight("created", c)
  <2> SUFFICES ASSUME t = "deleted", NEW i \in 1..Len(events), events[i] = <<"created", c>>
               PROVE  FALSE
    BY <1>1, <1>2 DEF InFlight
  <2>1. 1 \in 1..Len(events) /\ events[1][1] = "deleted" /\ events[1][2] = c
    BY <1>2, <1>3
  <2>2. events[i][1] = "created" /\ events[i][2] = events[1][2]
    BY <2>1
  <2>3. i < 1
    BY <2>1, <2>2 DEF Log
  <2> QED BY <2>3
<1>7. Log'
  <2> SUFFICES ASSUME NEW i \in 1..Len(events'), NEW j \in 1..Len(events')
               PROVE  /\ events'[i] = events'[j] => i = j
                      /\ events'[i][1] = "created" /\ events'[j][1] = "deleted"
                         /\ events'[i][2] = events'[j][2] => i < j
    BY DEF Log
  <2>1. /\ i + 1 \in 1..Len(events) /\ j + 1 \in 1..Len(events)
        /\ events'[i] = events[i + 1] /\ events'[j] = events[j + 1]
    BY <1>2
  <2>2. /\ events[i + 1] = events[j + 1] => i + 1 = j + 1
        /\ events[i + 1][1] = "created" /\ events[j + 1][1] = "deleted"
           /\ events[i + 1][2] = events[j + 1][2] => i + 1 < j + 1
    BY <2>1 DEF Log
  <2> QED BY <2>1, <2>2
<1>8. /\ InFlight(t, c)
      /\ \A u, d : InFlight(u, d)' <=> InFlight(u, d) /\ <<u, d>> # <<t, c>>
  <2>1. \A x : x \in Range(events') <=> x \in Range(events) /\ x # <<t, c>>
    BY <1>2, <1>3
  <2>2. <<t, c>> \in Range(events)
    BY <1>2, <1>3
  <2> QED BY <1>4, <1>5, <2>1, <2>2
<1> QED
  BY <1>2, <1>3, <1>6, <1>7, <1>8 DEF S

\* The question on the screen, and those behind it, by the shape of the screen.
LEMMA ScreenShifts ==
  ASSUME Types, OneDialogAtATime, shown,
         IF queue = <<>> THEN shown' = FALSE /\ UNCHANGED <<current, queue>>
         ELSE current' = Head(queue) /\ queue' = Tail(queue) /\ UNCHANGED shown
  PROVE  /\ OneDialogAtATime' /\ queue' \in Seq(Call) /\ (shown' => current' \in Call)
         /\ \A c : OnScreen(c)' <=> OnScreen(c) /\ c # current
<1>1. queue \in Seq(Call) /\ IsInjective(queue) /\ current \notin Range(queue)
  BY DEF Types, OneDialogAtATime
<1>2. CASE queue = <<>>
  <2>1. Range(queue) = {} /\ queue' = queue /\ shown' = FALSE
    BY <1>2 DEF Range
  <2> QED BY <1>1, <1>2, <2>1 DEF OneDialogAtATime, OnScreen
<1>3. CASE queue # <<>>
  <2>0. current' = Head(queue) /\ queue' = Tail(queue) /\ shown' = shown
    BY <1>3
  <2>1. /\ queue' \in Seq(Call) /\ current' = Head(queue) /\ Head(queue) \in Call /\ shown'
        /\ Range(queue) = {Head(queue)} \cup Range(queue')
        /\ IsInjective(queue') /\ Head(queue) \notin Range(queue')
    <3>1. /\ Tail(queue) \in Seq(Call) /\ Head(queue) \in Call
          /\ Range(queue) = {Head(queue)} \cup Range(Tail(queue))
          /\ IsInjective(Tail(queue)) /\ Head(queue) \notin Range(Tail(queue))
      BY <1>1, <1>3, Behind
    <3> QED BY <2>0, <3>1
  <2> QED BY <1>1, <1>3, <2>1 DEF OneDialogAtATime, OnScreen
<1> QED
  BY <1>2, <1>3

\* A question comes to the screen, or behind what is there.
LEMMA ScreenGrows ==
  ASSUME Types, OneDialogAtATime, NEW c \in Call, ~OnScreen(c), Show(c)
  PROVE  /\ OneDialogAtATime' /\ queue' \in Seq(Call) /\ (shown' => current' \in Call)
         /\ \A d : OnScreen(d)' <=> OnScreen(d) \/ d = c
         /\ shown => shown' /\ current' = current
<1>1. /\ queue \in Seq(Call) /\ IsInjective(queue) /\ c \notin Range(queue)
      /\ shown => current \notin Range(queue) /\ current # c /\ current \in Call
      /\ ~shown => queue = <<>>
  BY DEF Types, OneDialogAtATime, OnScreen
<1>2. CASE shown
  <2>1. queue' = Append(queue, c) /\ UNCHANGED <<shown, current>>
    BY <1>2 DEF Show
  <2>2. /\ queue' \in Seq(Call) /\ Len(queue) \in Nat /\ Len(queue') = Len(queue) + 1
        /\ \A i \in 1..Len(queue) : queue'[i] = queue[i]
        /\ queue'[Len(queue) + 1] = c /\ Range(queue') = Range(queue) \cup {c}
    BY <1>1, <2>1, Appended
  <2>3. IsInjective(queue')
    <3>1. /\ \A i \in 1..Len(queue) : queue[i] # c
          /\ \A i, j \in 1..Len(queue) : queue[i] = queue[j] => i = j
      BY <1>1 DEF Range, IsInjective
    <3>2. \A i, j \in 1..Len(queue') : queue'[i] = queue'[j] => i = j
      BY <2>2, <3>1
    <3> QED BY <2>2, <3>2 DEF IsInjective
  <2> QED BY <1>1, <1>2, <2>1, <2>2, <2>3 DEF OneDialogAtATime, OnScreen
<1>3. CASE ~shown
  <2>1. shown' /\ current' = c /\ queue' = queue
    BY <1>3 DEF Show
  <2> QED BY <1>1, <1>3, <2>1 DEF OneDialogAtATime, OnScreen
<1> QED
  BY <1>2, <1>3

\* A settled question leaves the screen.
LEMMA ScreenSettles ==
  ASSUME Types, OneDialogAtATime, NEW c \in Call, Settled(c)
  PROVE  /\ OneDialogAtATime' /\ queue' \in Seq(Call) /\ (shown' => current' \in Call)
         /\ \A d : OnScreen(d)' <=> OnScreen(d) /\ d # c
<1>1. CASE c \in Range(queue)
  <2>1. PICK i \in 1..Len(queue) : queue[i] = c /\ queue' = RemoveAt(queue, i)
    BY <1>1 DEF Settled
  <2>2. /\ UNCHANGED <<shown, current>> /\ queue \in Seq(Call) /\ IsInjective(queue)
        /\ shown => current \notin Range(queue)
        /\ queue # <<>> => shown
    BY <1>1 DEF Settled, Types, OneDialogAtATime
  <2>3. /\ queue' \in Seq(Call) /\ IsInjective(queue') /\ Range(queue') = Range(queue) \ {c}
    BY <2>1, <2>2, CutOut
  <2>4. queue # <<>>
    BY <1>1 DEF Range
  <2> QED BY <1>1, <2>2, <2>3, <2>4 DEF OneDialogAtATime, OnScreen, Types
<1>2. CASE c \notin Range(queue) /\ shown /\ current = c
  <2>1. IF queue = <<>> THEN shown' = FALSE /\ UNCHANGED <<current, queue>>
        ELSE current' = Head(queue) /\ queue' = Tail(queue) /\ UNCHANGED shown
    BY <1>2 DEF Settled
  <2> QED BY <1>2, <2>1, ScreenShifts
<1>3. CASE c \notin Range(queue) /\ ~(shown /\ current = c)
  <2>1. UNCHANGED screen
    BY <1>3 DEF Settled
  <2> QED BY <1>3, <2>1 DEF screen, OneDialogAtATime, OnScreen, Types
<1> QED
  BY <1>1, <1>2, <1>3

\* A question that arrives is on no screen yet.
LEMMA CreatedStep == DInv /\ HandleCreated => DInv'
<1> SUFFICES ASSUME DInv, HandleCreated PROVE DInv'
  OBVIOUS
<1>0. /\ Types /\ Log /\ Flow /\ OneDialogAtATime /\ Loop /\ LostOnlyToAStaleAnswer
      /\ Free /\ events # <<>> /\ events' = Tail(events)
      /\ UNCHANGED <<pc, ch, answer, responses, handling, stale>>
  BY DEF DInv, HandleCreated, vars, calls, answers
<1>1. PICK c \in Call :
        /\ Head(events)[1] = "created" /\ Head(events)[2] = c /\ InFlight("created", c)
        /\ \A u, d : InFlight(u, d)' <=> InFlight(u, d) /\ <<u, d>> # <<"created", c>>
        /\ events' \in Seq({"created", "deleted"} \X Call) /\ Log'
  BY <1>0, EventTaken DEF HandleCreated
<1>2. Show(c) /\ ~OnScreen(c)
  BY <1>0, <1>1 DEF HandleCreated, Flow
<1>3. /\ OneDialogAtATime' /\ queue' \in Seq(Call) /\ (shown' => current' \in Call)
      /\ \A d : OnScreen(d)' <=> OnScreen(d) \/ d = c
  BY <1>0, <1>2, ScreenGrows
<1>4. Types'
  BY <1>0, <1>1, <1>3 DEF Types
<1>5. \A d \in Call : /\ InFlight("created", d)' <=> InFlight("created", d) /\ d # c
                      /\ InFlight("deleted", d)' <=> InFlight("deleted", d)
                      /\ Visible(d)' <=> Visible(d)
  <2>1. \A d \in Call : /\ InFlight("created", d)' <=> InFlight("created", d) /\ d # c
                        /\ InFlight("deleted", d)' <=> InFlight("deleted", d)
    BY <1>1
  <2> QED BY <1>0, <1>1, <1>3, <2>1 DEF Visible
<1>6. Flow'
  BY <1>0, <1>1, <1>3, <1>5 DEF Flow
<1>7. Loop'
  BY <1>0 DEF Loop, Free
<1>8. LostOnlyToAStaleAnswer'
  BY <1>0, <1>5 DEF LostOnlyToAStaleAnswer
<1> QED
  BY <1>1, <1>3, <1>4, <1>6, <1>7, <1>8 DEF DInv

\* A question whose end arrives waits for nothing: it may leave the screen.
LEMMA DeletedStep == DInv /\ HandleDeleted => DInv'
<1> SUFFICES ASSUME DInv, HandleDeleted PROVE DInv'
  OBVIOUS
<1>0. /\ Types /\ Log /\ Flow /\ OneDialogAtATime /\ Loop /\ LostOnlyToAStaleAnswer
      /\ Free /\ events # <<>> /\ events' = Tail(events)
      /\ UNCHANGED <<pc, ch, answer, responses, handling, stale>>
  BY DEF DInv, HandleDeleted, vars, calls, answers
<1>1. PICK c \in Call :
        /\ Head(events)[1] = "deleted" /\ Head(events)[2] = c /\ InFlight("deleted", c)
        /\ ~InFlight("created", c)
        /\ \A u, d : InFlight(u, d)' <=> InFlight(u, d) /\ <<u, d>> # <<"deleted", c>>
        /\ events' \in Seq({"created", "deleted"} \X Call) /\ Log'
  BY <1>0, EventTaken DEF HandleDeleted
<1>2. Settled(c) /\ pc[c] \in {"announced", "returned"}
  BY <1>0, <1>1 DEF HandleDeleted, Flow
<1>3. /\ OneDialogAtATime' /\ queue' \in Seq(Call) /\ (shown' => current' \in Call)
      /\ \A d : OnScreen(d)' <=> OnScreen(d) /\ d # c
  BY <1>0, <1>2, ScreenSettles
<1>4. Types'
  BY <1>0, <1>1, <1>3 DEF Types
<1>5. \A d \in Call : /\ InFlight("created", d)' <=> InFlight("created", d)
                      /\ InFlight("deleted", d)' <=> InFlight("deleted", d) /\ d # c
                      /\ Visible(d)' => Visible(d)
                      /\ d # c => (Visible(d) => Visible(d)')
  <2>1. \A d \in Call : /\ InFlight("created", d)' <=> InFlight("created", d)
                        /\ InFlight("deleted", d)' <=> InFlight("deleted", d) /\ d # c
    BY <1>1
  <2> QED BY <1>0, <1>3, <2>1 DEF Visible
<1>6. Flow'
  BY <1>0, <1>1, <1>2, <1>3, <1>5 DEF Flow
<1>7. Loop'
  BY <1>0 DEF Loop, Free
<1>8. LostOnlyToAStaleAnswer'
  BY <1>0, <1>2, <1>5 DEF LostOnlyToAStaleAnswer
<1> QED
  BY <1>1, <1>3, <1>4, <1>6, <1>7, <1>8 DEF DInv

\* What Answer does: the question it answers has its answer on the way.
LEMMA AnswerStep ==
  ASSUME Types, NEW c \in Call, NEW b, Answer(c, b)
  PROVE  /\ UNCHANGED <<pc, ch>> /\ DOMAIN answer' = Call /\ Answered(c)'
         /\ \A d \in Call : (Open(d)' <=> Open(d)) /\ (d # c => (Sent(d)' <=> Sent(d)))
<1>1. /\ UNCHANGED <<pc, ch>>
      /\ answer' = [answer EXCEPT ![c] =
           IF Pending(c) THEN <<b, IF b = "deny" THEN "mark" ELSE "send">>
           ELSE IF b \in {"session", "family"} THEN <<b, "store">> ELSE Idle]
  BY DEF Answer, calls
<1>2. Open(c) => answer'[c][2] \in {"mark", "send"}
  BY <1>1 DEF Types, Open, Pending, Waiting
<1> QED
  BY <1>1, <1>2 DEF Types, Answered, Open, Sent

\* The loop goes into an answer: its question stays in sight while it does.
LEMMA ResponseStep ==
  ASSUME DInv, NEW r \in responses, HandleResponse(r)
  PROVE  DInv'
<1> PICK c, b : c = r[1] /\ b = r[2]
  OBVIOUS
<1>0. /\ Types /\ Log /\ Flow /\ OneDialogAtATime /\ Loop /\ LostOnlyToAStaleAnswer
      /\ Free /\ c \in Call /\ Answer(c, b) /\ handling' = c
      /\ responses' = responses \ {r} /\ stale' = (stale \/ ~shown \/ current # c)
      /\ UNCHANGED <<events, shown, current, queue>>
  BY DEF DInv, Types, HandleResponse, screen
<1>1. /\ UNCHANGED <<pc, ch>> /\ DOMAIN answer' = Call /\ Answered(c)'
  BY <1>0, AnswerStep
<1>2. Types'
  BY <1>0, <1>1 DEF Types
<1>3. Log' /\ OneDialogAtATime'
  BY <1>0 DEF Log, OneDialogAtATime
<1>4. pc[c] \notin {"idle", "snapped"}
  BY <1>0 DEF Flow
<1>5. \A d \in Call : /\ OnScreen(d)' <=> OnScreen(d)
                      /\ InFlight("created", d)' <=> InFlight("created", d)
                      /\ InFlight("deleted", d)' <=> InFlight("deleted", d)
                      /\ Visible(d)' <=> Visible(d) \/ d = c
  <2>1. \A d \in Call : Visible(d) => OnScreen(d) \/ InFlight("created", d)
    BY <1>0, DialogAssumption DEF Visible, Free
  <2> QED BY <1>0, <2>1 DEF OnScreen, InFlight, Visible
<1>6. Flow'
  BY <1>0, <1>1, <1>4, <1>5 DEF Flow
<1>7. Loop'
  BY <1>0, <1>1 DEF Loop, Answered, Open, Sent
<1>8. LostOnlyToAStaleAnswer'
  BY <1>0, <1>1, <1>5 DEF LostOnlyToAStaleAnswer
<1> QED
  BY <1>2, <1>3, <1>6, <1>7, <1>8 DEF DInv

\* An answer that has come back leaves its question answered.
LEMMA Finished ==
  ASSUME DInv, ~Free, ~stale, answer[handling] = Idle
  PROVE  ~Open(handling) /\ ~Open(current) /\ shown
<1>1. ~Sent(handling)
  BY DEF Sent, Idle
<1> QED
  BY <1>1 DEF DInv, Loop, Answered

\* A question behind the dialog that is covered by now is answered instead of shown.
LEMMA CoveredStep == DInv /\ DrainCovered => DInv'
<1> SUFFICES ASSUME DInv, DrainCovered PROVE DInv'
  OBVIOUS
<1>a. queue # <<>>
  BY DEF DrainCovered, HeadCovered
<1> PICK c : c = Head(queue)
  OBVIOUS
<1>0. /\ Types /\ Log /\ Flow /\ OneDialogAtATime /\ LostOnlyToAStaleAnswer
      /\ ~Free /\ answer[handling] = Idle
      /\ Answer(c, "covered") /\ handling' = c /\ queue' = Tail(queue)
      /\ UNCHANGED <<events, responses, shown, current, stale>>
  BY DEF DInv, DrainCovered
<1>1. /\ c \in Call /\ queue' \in Seq(Call)
      /\ Range(queue) = {c} \cup Range(queue')
      /\ IsInjective(queue') /\ c \notin Range(queue')
  BY <1>0, <1>a, Behind DEF Types, OneDialogAtATime
<1>2. /\ UNCHANGED <<pc, ch>> /\ DOMAIN answer' = Call /\ Answered(c)'
  BY <1>0, <1>1, AnswerStep
<1>3. Types' /\ Log'
  BY <1>0, <1>1, <1>2 DEF Types, Log
<1>4. OneDialogAtATime'
  BY <1>0, <1>1, <1>a DEF OneDialogAtATime
<1>5. /\ OnScreen(c) /\ (shown => current # c)
      /\ \A d \in Call : /\ OnScreen(d)' <=> OnScreen(d) /\ d # c
                         /\ InFlight("created", d)' <=> InFlight("created", d)
                         /\ InFlight("deleted", d)' <=> InFlight("deleted", d)
  BY <1>0, <1>1 DEF OnScreen, InFlight, OneDialogAtATime
<1>6. \A d \in Call : Visible(d)' => Visible(d)
  BY <1>0, <1>5 DEF Visible
<1>7. Flow'
  BY <1>0, <1>2, <1>5, <1>6 DEF Flow
<1>8. ~stale => shown /\ ~Open(handling) /\ ~Open(current)
  BY <1>0, Finished
<1>9. Loop'
  BY <1>0, <1>2, <1>8 DEF Loop, Answered, Open, Sent
<1>10. LostOnlyToAStaleAnswer'
  <2> SUFFICES ASSUME ~stale, NEW d \in Call, Open(d), ~Visible(d)' PROVE FALSE
    BY <1>0, <1>2 DEF LostOnlyToAStaleAnswer, Open
  <2>1. d # c /\ d # handling
    BY <1>0, <1>8 DEF Visible
  <2>2. ~Visible(d)
    BY <1>0, <1>5, <2>1 DEF Visible
  <2> QED BY <1>0, <2>2 DEF LostOnlyToAStaleAnswer, Open
<1> QED
  BY <1>3, <1>4, <1>7, <1>9, <1>10 DEF DInv

\* The answer is done: the screen shifts, away from an answered question.
LEMMA DoneStep == DInv /\ DrainDone => DInv'
<1> SUFFICES ASSUME DInv, DrainDone PROVE DInv'
  OBVIOUS
<1>0. /\ Types /\ Log /\ Flow /\ OneDialogAtATime /\ LostOnlyToAStaleAnswer
      /\ ~Free /\ answer[handling] = Idle /\ handling' = Nobody
      /\ UNCHANGED <<pc, ch, answer, events, responses, stale>>
      /\ IF queue = <<>> THEN shown' = FALSE /\ UNCHANGED <<current, queue>>
         ELSE current' = Head(queue) /\ queue' = Tail(queue) /\ UNCHANGED shown
  BY DEF DInv, DrainDone, vars, calls, answers
<1>1. /\ OneDialogAtATime' /\ queue' \in Seq(Call) /\ (shown' => current' \in Call)
      /\ \A d : OnScreen(d)' => OnScreen(d)
      /\ \A d : OnScreen(d) /\ ~OnScreen(d)' => d = current
  <2>1. CASE shown
    BY <1>0, <2>1, ScreenShifts
  <2>2. CASE ~shown
    <3>1. queue = <<>>
      BY <1>0, <2>2 DEF OneDialogAtATime
    <3>2. shown' = FALSE /\ UNCHANGED <<current, queue>>
      BY <1>0, <3>1
    <3> QED BY <1>0, <2>2, <3>1, <3>2 DEF OneDialogAtATime, OnScreen, Types
  <2> QED BY <2>1, <2>2
<1>2. Types' /\ Log'
  BY <1>0, <1>1 DEF Types, Log
<1>3. \A d \in Call : /\ InFlight("created", d)' <=> InFlight("created", d)
                      /\ InFlight("deleted", d)' <=> InFlight("deleted", d)
                      /\ Visible(d)' => Visible(d)
  <2>1. \A d \in Call : d # Nobody
    BY DialogAssumption
  <2> QED BY <1>0, <1>1, <2>1 DEF InFlight, Visible
<1>4. Flow'
  BY <1>0, <1>1, <1>3 DEF Flow
<1>5. Loop'
  BY <1>0 DEF Loop, Free
<1>6. LostOnlyToAStaleAnswer'
  <2> SUFFICES ASSUME ~stale, NEW d \in Call, Open(d), ~Visible(d)' PROVE FALSE
    BY <1>0 DEF LostOnlyToAStaleAnswer, Open
  <2>1. d # handling /\ d # current
    BY <1>0, Finished
  <2>2. ~Visible(d)
    BY <1>0, <1>1, <1>3, <2>1 DEF Visible
  <2> QED BY <1>0, <2>2 DEF LostOnlyToAStaleAnswer, Open
<1> QED
  BY <1>1, <1>2, <1>4, <1>5, <1>6 DEF DInv


\* A key carries the question on the screen, which has been published.
LEMMA KeyStep ==
  ASSUME DInv, NEW b \in Button \ {"covered"}, PressKey(b)
  PROVE  DInv'
<1>0. /\ Types /\ Log /\ Flow /\ OneDialogAtATime /\ Loop /\ LostOnlyToAStaleAnswer
      /\ Free /\ shown /\ UNCHANGED <<pc, ch, answer, events>>
      /\ UNCHANGED <<shown, current, queue, handling, stale>>
      /\ responses' = responses \cup {<<current, b, keys'[current]>>}
  BY DEF DInv, PressKey, vars, calls, answers, screen
<1>1. PICK c \in Call : c = current
  BY <1>0 DEF Types
<1>2. \A r \in responses' : r \in responses \/ r[1] = c
  BY <1>0, <1>1
<1>3. Types'
  BY <1>0, <1>1, <1>2 DEF Types
<1>4. Log' /\ OneDialogAtATime' /\ Loop'
  BY <1>0 DEF Log, OneDialogAtATime, Loop, Free
<1>5. \A d \in Call : /\ OnScreen(d)' <=> OnScreen(d)
                      /\ InFlight("created", d)' <=> InFlight("created", d)
                      /\ InFlight("deleted", d)' <=> InFlight("deleted", d)
                      /\ Visible(d)' <=> Visible(d)
  BY <1>0 DEF OnScreen, InFlight, Visible
<1>6. Visible(c)
  BY <1>0, <1>1 DEF Visible, OnScreen
<1>7. Flow'
  BY <1>0, <1>2, <1>5, <1>6 DEF Flow
<1>8. LostOnlyToAStaleAnswer'
  BY <1>0, <1>5 DEF LostOnlyToAStaleAnswer
<1> QED
  BY <1>3, <1>4, <1>7, <1>8 DEF DInv

-----------------------------------------------------------------------------
(* The theorems. *)

\* Nothing is asked, published or shown to begin with.
LEMMA DialogStart == DInit => DInv
<1> SUFFICES ASSUME DInit PROVE DInv
  OBVIOUS
<1>0. /\ pc = [c \in Call |-> "idle"] /\ DOMAIN ch = Call /\ DOMAIN answer = Call
      /\ events = <<>> /\ responses = {} /\ shown = FALSE /\ queue = <<>> /\ handling = Nobody
  BY DEF DInit, Init
<1>1. Types
  BY <1>0 DEF Types, Phases
<1>2. \A c \in Call : ~OnScreen(c) /\ ~InFlight("created", c) /\ ~InFlight("deleted", c)
                      /\ ~Visible(c)
  BY <1>0, DialogAssumption DEF OnScreen, InFlight, Visible, Range
<1>3. Log /\ OneDialogAtATime /\ Loop
  BY <1>0 DEF Log, OneDialogAtATime, IsInjective, Loop, Free
<1>4. Flow /\ LostOnlyToAStaleAnswer
  BY <1>0, <1>2 DEF Flow, LostOnlyToAStaleAnswer
<1> QED
  BY <1>1, <1>3, <1>4 DEF DInv

\* Every step of the service, of the people who answer and of the loop keeps the invariant.
LEMMA DialogStep == DInv /\ [DNext]_dvars => DInv'
<1> SUFFICES ASSUME DInv, [DNext]_dvars PROVE DInv'
  OBVIOUS
<1>0. Types
  BY DEF DInv
<1>1. ASSUME UNCHANGED <<pc, ch, answer>>, UNCHANGED ui PROVE DInv'
  BY <1>0, <1>1, QuietKeeps DEF Quiet, Open, Sent, Types
<1>2. CASE UNCHANGED dvars
  BY <1>1, <1>2 DEF dvars, vars, calls, answers
<1>3. ASSUME NEW c \in Call, Service(c) PROVE DInv'
  <2>1. CASE /\ \/ \E s \in Session, o \in Opts : Ask(c, s, o)
                \/ ApproveUnasked(c) \/ Receive(c) \/ Timeout(c) \/ Forget(c)
                \/ MarkDenial(c) \/ StoreSession(c) \/ StoreFamily(c)
                \/ \E b \in Button : Send(c, b)
             /\ UNCHANGED ui
    BY <1>0, <2>1, QuietStep, QuietKeeps
  <2>2. CASE Publish(c) /\ events' = Append(events, <<"created", c>>)
             /\ UNCHANGED <<responses, keys, screen, handling, stale>>
    BY <2>2, PublishStep
  <2>3. CASE Announce(c) /\ events' = Append(events, <<"deleted", c>>)
             /\ UNCHANGED <<responses, keys, screen, handling, stale>>
    BY <2>3, AnnounceStep
  <2> QED BY <1>3, <2>1, <2>2, <2>3 DEF Service
<1>4. ASSUME NEW s \in Session, Cancel(s) PROVE DInv'
  BY <1>0, <1>4, CancelStep, QuietKeeps DEF Cancel
<1>5. ASSUME NEW h \in Helper, NEW p \in Conversation, RegisterChildSession(h, p), UNCHANGED ui
      PROVE  DInv'
  BY <1>1, <1>5 DEF RegisterChildSession, calls, answers
<1>6. ASSUME NEW b \in Button \ {"covered"}, PressKey(b) PROVE DInv'
  BY <1>6, KeyStep
<1>7. CASE Update
  BY <1>7, CreatedStep, DeletedStep, CoveredStep, DoneStep, ResponseStep DEF Update
<1> HIDE DEF DInv, Service, Cancel, PressKey, Update
<1> QED
  BY <1>2, <1>3, <1>4, <1>5, <1>6, <1>7 DEF DNext

\* The invariant holds throughout.
LEMMA DialogInvariant == DSpec => []DInv
BY DialogStart, DialogStep, PTL DEF DSpec

\* The dialog and the queue never hold a question twice, and nothing waits behind an
\* empty screen: what Update's queue in tui.go keeps, whoever answers and in what order.
THEOREM OneAtATime == DSpec => []OneDialogAtATime
<1>1. DInv => OneDialogAtATime
  BY DEF DInv
<1> QED BY <1>1, DialogInvariant, PTL

\* A dialog for a settled question is about to be taken down: the DeletedEvent that
\* settlePermission handles is on its way behind the event that showed it.
THEOREM DeadDialogsGo == DSpec => []NoDeadDialog
<1>1. DInv => NoDeadDialog
  BY DEF DInv, Flow, NoDeadDialog
<1> QED BY <1>1, DialogInvariant, PTL

\* An unanswered question leaves the front end only by an answer to another question
\* that was handled after the dialog had moved on.
THEOREM LostToStaleOnly == DSpec => []LostOnlyToAStaleAnswer
<1>1. DInv => LostOnlyToAStaleAnswer
  BY DEF DInv
<1> QED BY <1>1, DialogInvariant, PTL
=============================================================================
