------------------------------- MODULE Parker -------------------------------
(***************************************************************************)
(* What a ThreadParker of mekong9-parker promises: unpark leaves a token,  *)
(* however often it is called, and park returns by taking it. A timed park *)
(* may also give up, but only while there is no token.                     *)
(***************************************************************************)

VARIABLES token,  \* an unpark has not been answered by a park
          phase,  \* the call the owner is in
          answer  \* how its last call ended

vars == <<token, phase, answer>>

Phases  == {"none", "park", "park_until"}
Answers == {"none", "unparked", "timed_out"}

Init ==
  /\ token = FALSE
  /\ phase = "none"
  /\ answer = "none"

Unpark ==
  /\ token' = TRUE
  /\ UNCHANGED <<phase, answer>>

\* A call that finds the token does not block.
ParkWithToken ==
  /\ phase = "none"
  /\ token
  /\ token' = FALSE
  /\ answer' = "unparked"
  /\ UNCHANGED phase

ParkAndBlock(p) ==
  /\ phase = "none"
  /\ ~token
  /\ phase' = p
  /\ UNCHANGED <<token, answer>>

TakeToken ==
  /\ phase # "none"
  /\ token
  /\ token' = FALSE
  /\ phase' = "none"
  /\ answer' = "unparked"

TimeOut ==
  /\ phase = "park_until"
  /\ ~token
  /\ phase' = "none"
  /\ answer' = "timed_out"
  /\ UNCHANGED token

Next ==
  \/ Unpark
  \/ ParkWithToken
  \/ \E p \in Phases \ {"none"} : ParkAndBlock(p)
  \/ TakeToken
  \/ TimeOut

Spec == Init /\ [][Next]_vars
=============================================================================
