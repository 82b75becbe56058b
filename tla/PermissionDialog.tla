-------------------------- MODULE PermissionDialog --------------------------
(***************************************************************************)
(* The terminal front end on top of the permission service (tui.go): the    *)
(* service's events and the answers people press reach one update loop,     *)
(* which holds one dialog and a queue behind it.                            *)
(*                                                                         *)
(* Events arrive in the order the service published them.  An answer is a   *)
(* command of the dialog that comes back as a message of its own, so it may *)
(* overtake events and other answers.  The update loop is one goroutine:    *)
(* while an answer blocks inside the service it handles nothing else.       *)
(* Standing modes, auto-approve, fleets and the agent's reading of a        *)
(* refusal never reach the dialog: they are left out.                       *)
(***************************************************************************)
EXTENDS Permission, Sequences, SequencesExt

CONSTANTS Nobody,    \* no call
          MaxKeys    \* bound: keys pressed on one question

ASSUME DialogAssumption == Nobody \notin Call /\ MaxKeys \in Nat

VARIABLES
  events,            \* published, not yet handled: <<type, call>>
  responses,         \* PermissionResponseMsgs on their way: <<call, button, nth key>>
  keys,              \* keys pressed on each question so far
  shown, current,    \* showPermissions, permissions.Current()
  queue,             \* permissionQueue
  handling,          \* the call whose answer the loop is inside, or Nobody
  stale              \* history: an answer was handled that was not the dialog's

screen == <<shown, current, queue>>
ui     == <<events, responses, keys, screen, handling, stale>>
dvars  == <<vars, ui>>

Free == handling = Nobody

\* The service side: what Request publishes goes to the back of the events.
Service(c) ==
  \/ /\ \/ \E s \in Session, o \in Opts : Ask(c, s, o)
        \/ ApproveUnasked(c) \/ Receive(c) \/ Timeout(c) \/ Forget(c)
        \/ MarkDenial(c) \/ StoreSession(c) \/ StoreFamily(c)
        \/ \E b \in Button : Send(c, b)
     /\ UNCHANGED ui
  \/ Publish(c) /\ events' = Append(events, <<"created", c>>)
     /\ UNCHANGED <<responses, keys, screen, handling, stale>>
  \/ Announce(c) /\ events' = Append(events, <<"deleted", c>>)
     /\ UNCHANGED <<responses, keys, screen, handling, stale>>

Cancel(s) == CancelSession(s) /\ UNCHANGED ui

\* A key on the dialog: the answer carries the request the dialog holds now.
PressKey(b) ==
  /\ Free /\ shown /\ keys[current] < MaxKeys
  /\ keys' = [keys EXCEPT ![current] = @ + 1]
  /\ responses' = responses \cup {<<current, b, keys'[current]>>}
  /\ UNCHANGED <<vars, events, screen, handling, stale>>

\* Mutant: what the dialog did before it had a queue.
ShowOver(c) == shown' = TRUE /\ current' = c /\ UNCHANGED queue

\* Queue, do not overwrite.
Show(c) ==
  IF shown THEN queue' = Append(queue, c) /\ UNCHANGED <<shown, current>>
           ELSE shown' = TRUE /\ current' = c /\ UNCHANGED queue

\* Mutant: a settled question is taken off the screen, not out of the queue.
SettledOnScreen(c) ==
  IF shown /\ current = c
    THEN IF queue = <<>>
           THEN shown' = FALSE /\ UNCHANGED <<current, queue>>
           ELSE current' = Head(queue) /\ queue' = Tail(queue) /\ UNCHANGED shown
    ELSE UNCHANGED screen

\* settlePermission: out of the queue, or off the screen.
Settled(c) ==
  IF c \in Range(queue)
    THEN /\ \E i \in 1..Len(queue) : /\ queue[i] = c /\ \A j \in 1..i - 1 : queue[j] # c
                                    /\ queue' = RemoveAt(queue, i)
         /\ UNCHANGED <<shown, current>>
    ELSE IF shown /\ current = c
           THEN IF queue = <<>>
                  THEN shown' = FALSE /\ UNCHANGED <<current, queue>>
                  ELSE current' = Head(queue) /\ queue' = Tail(queue) /\ UNCHANGED shown
           ELSE UNCHANGED screen

HandleCreated ==
  /\ Free /\ events # <<>> /\ Head(events)[1] = "created"
  /\ Show(Head(events)[2])
  /\ events' = Tail(events)
  /\ UNCHANGED <<vars, responses, keys, handling, stale>>

HandleDeleted ==
  /\ Free /\ events # <<>> /\ Head(events)[1] = "deleted"
  /\ Settled(Head(events)[2])
  /\ events' = Tail(events)
  /\ UNCHANGED <<vars, responses, keys, handling, stale>>

\* PermissionResponseMsg: the answer goes to the service first...
HandleResponse(r) ==
  /\ Free
  /\ Answer(r[1], r[2])
  /\ responses' = responses \ {r}
  /\ handling' = r[1]
  /\ stale' = (stale \/ ~shown \/ current # r[1])
  /\ UNCHANGED <<events, keys, screen>>

HeadCovered == IF queue = <<>> THEN FALSE ELSE IsCovered(Head(queue))

\* ... and when that returns, drainPermissionQueue answers what is covered by
\* now and shows the first question that is not.
DrainCovered ==
  /\ ~Free /\ answer[handling] = Idle /\ HeadCovered
  /\ Answer(Head(queue), "covered")
  /\ handling' = Head(queue)
  /\ queue' = Tail(queue)
  /\ UNCHANGED <<events, responses, keys, shown, current, stale>>

\* Mutant: an answer closes the dialog and forgets what is behind it.
DrainForgotten ==
  /\ ~Free /\ answer[handling] = Idle /\ ~HeadCovered
  /\ handling' = Nobody /\ shown' = FALSE
  /\ UNCHANGED <<vars, events, responses, keys, current, queue, stale>>

DrainDone ==
  /\ ~Free /\ answer[handling] = Idle /\ ~HeadCovered
  /\ handling' = Nobody
  /\ IF queue = <<>>
       THEN shown' = FALSE /\ UNCHANGED <<current, queue>>
       ELSE current' = Head(queue) /\ queue' = Tail(queue) /\ UNCHANGED shown
  /\ UNCHANGED <<vars, events, responses, keys, stale>>

DInit ==
  /\ Init
  /\ events = <<>> /\ responses = {} /\ keys = [c \in Call |-> 0]
  /\ shown = FALSE /\ current = Nobody /\ queue = <<>>
  /\ handling = Nobody /\ stale = FALSE

Update ==
  \/ HandleCreated \/ HandleDeleted \/ DrainCovered \/ DrainDone
  \/ \E r \in responses : HandleResponse(r)

DNext ==
  \/ \E c \in Call : Service(c)
  \/ \E s \in Session : Cancel(s)
  \/ \E h \in Helper, p \in Conversation : RegisterChildSession(h, p) /\ UNCHANGED ui
  \/ \E b \in Button \ {"covered"} : PressKey(b)
  \/ Update

DSpec == DInit /\ [][DNext]_dvars

-----------------------------------------------------------------------------
(* Properties. *)

InFlight(t, c) == \E i \in DOMAIN events : events[i] = <<t, c>>

OnScreen(c) == (shown /\ current = c) \/ c \in Range(queue)

\* The dialog and the queue never hold a question twice, and nothing waits in
\* the queue behind an empty screen.
OneDialogAtATime ==
  /\ IsInjective(queue)
  /\ shown => current \notin Range(queue)
  /\ queue # <<>> => shown

\* A dialog for a settled question is about to be taken down: the service's
\* DeletedEvent for it is on its way.
NoDeadDialog ==
  \A c \in Call : OnScreen(c) =>
    pc[c] \in {"waiting", "settled"} \/ InFlight("deleted", c)

Visible(c) == InFlight("created", c) \/ OnScreen(c) \/ handling = c

\* A question nobody has answered is on the screen, in the queue or on its way
\* there, unless an answer to some other question was handled in between.
LostOnlyToAStaleAnswer ==
  \A c \in Call : pc[c] = "waiting" /\ ch[c] = "empty" /\ ~Visible(c) => stale

\* tui.go, "QUEUE, do not overwrite": no published question is waited for
\* without ever being shown.
EveryWaitingQuestionIsVisible ==
  \A c \in Call : pc[c] = "waiting" /\ ch[c] = "empty" => Visible(c)
=============================================================================
