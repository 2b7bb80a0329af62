------------------------------- MODULE Sessions -------------------------------
(****************************************************************************)
(* What the sessions of a series promise, without draws, ballots or flags:  *)
(* a session is in one phase at a time, the entry list of a session changes *)
(* only while it takes sign-ups, a session is over for good once it is      *)
(* over, and no session starts before all the others are over.              *)
(****************************************************************************)

CONSTANTS
  Spars,    \* the sessions
  Members,  \* those who may enter
  Entry,    \* what a member may enter as
  NoEntry   \* the member has not entered

VARIABLES
  phase,    \* the phase of each session
  over,     \* the sessions marked complete
  entries   \* the entry list of each session

Phases == {"taking sign-ups", "closed", "released"}

Init ==
  /\ phase = [s \in Spars |-> "not started"]
  /\ over = {}
  /\ entries = [s \in Spars |-> [m \in Members |-> NoEntry]]

\* No session is under way when one starts.
Start(s, p) ==
  /\ phase[s] = "not started"
  /\ \A t \in Spars : phase[t] # "not started" => t \in over
  /\ p \in {"taking sign-ups", "closed"}
  /\ phase' = [phase EXCEPT ![s] = p]
  /\ UNCHANGED <<over, entries>>

\* A session that has started moves between the phases.
Move(s, p) ==
  /\ phase[s] # "not started"
  /\ p \in Phases
  /\ phase' = [phase EXCEPT ![s] = p]
  /\ UNCHANGED <<over, entries>>

\* Ending a session stops its sign-ups.
Finish(s) ==
  /\ phase[s] # "not started"
  /\ over' = over \cup {s}
  /\ phase' = [phase EXCEPT ![s] = IF @ = "taking sign-ups" THEN "closed" ELSE @]
  /\ UNCHANGED entries

Enter(s, m, e) ==
  /\ phase[s] = "taking sign-ups"
  /\ entries' = [entries EXCEPT ![s][m] = e]
  /\ UNCHANGED <<phase, over>>

Next ==
  \E s \in Spars :
    \/ \E p \in Phases : Start(s, p) \/ Move(s, p)
    \/ Finish(s)
    \/ \E m \in Members, e \in Entry : Enter(s, m, e)

Spec == Init /\ [][Next]_<<phase, over, entries>>
==============================================================================
