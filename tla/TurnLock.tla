------------------------------ MODULE TurnLock ------------------------------
(***************************************************************************)
(* What the agent promises of its sessions: a session is in at most one     *)
(* turn at a time, a turn takes a free session once, and gives it back by a *)
(* step of its own.  A turn's phase is its own: an entry that anybody else  *)
(* takes out of the table is no step of this lock.                          *)
(***************************************************************************)
CONSTANTS Session, Turn, NoTurn

VARIABLES holder,  \* the turn each session is in
          phase    \* each turn: "new", "holding" a session, or it has "left" it

LockInit ==
  /\ holder = [s \in Session |-> NoTurn]
  /\ phase = [t \in Turn |-> "new"]

Acquire(t, s) ==
  /\ phase[t] = "new" /\ holder[s] = NoTurn
  /\ holder' = [holder EXCEPT ![s] = t]
  /\ phase' = [phase EXCEPT ![t] = "holding"]

Release(t, s) ==
  /\ phase[t] = "holding" /\ holder[s] = t
  /\ holder' = [holder EXCEPT ![s] = NoTurn]
  /\ phase' = [phase EXCEPT ![t] = "left"]

LockNext == \E t \in Turn, s \in Session : Acquire(t, s) \/ Release(t, s)

LockSpec == LockInit /\ [][LockNext]_<<holder, phase>>
=============================================================================
