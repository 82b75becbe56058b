----------------------------- MODULE ToolRounds -----------------------------
(***************************************************************************)
(* What the tool loop promises about the requests of a conversation: they   *)
(* are made one after the other, and each is closed once: with the results  *)
(* of its calls stored, or left without (it had none, nobody could store    *)
(* them, or the program died).  A result never comes for a closed round.    *)
(***************************************************************************)
EXTENDS Naturals

CONSTANT MaxRound
VARIABLE phase

Round == 1..MaxRound
Phase == {"none", "open", "answered", "left"}

Open(r) ==
  /\ phase[r] = "none"
  /\ \A q \in Round : q < r => phase[q] \in {"answered", "left"}
  /\ phase' = [phase EXCEPT ![r] = "open"]

Close(r) ==
  /\ phase[r] = "open"
  /\ \E how \in {"answered", "left"} : phase' = [phase EXCEPT ![r] = how]

Init == phase = [r \in Round |-> "none"]
Next == \E r \in Round : Open(r) \/ Close(r)
Spec == Init /\ [][Next]_phase
=============================================================================
