------------------------- MODULE MCSpeakerAllocation -------------------------
(****************************************************************************)
(* Every sign-up table of a few members, and every draw that solve_lp may   *)
(* find for it.                                                             *)
(****************************************************************************)
EXTENDS SpeakerAllocation

VARIABLES
  table,  \* the sign-ups that solve_lp is given
  draw    \* the rooms it returns, or Unsolved

CONSTANT Unsolved

Roles == [as_judge : BOOLEAN, as_speaker : BOOLEAN,
          partner_preference : {NoPartner}]

Init ==
  /\ table \in [Members -> Roles \cup {NoSignup}]
  /\ draw = Unsolved

Solve ==
  /\ draw = Unsolved
  /\ EveryoneHasARole(table)
  /\ draw' \in PossibleDraws(table)
  /\ UNCHANGED table

Next == Solve

Spec == Init /\ [][Next]_<<table, draw>>

\* FeasibleByCounting, for every table.
FeasibleExactlyByCounting == draw = Unsolved => FeasibleByCounting(table)

\* ChecksSuffice, for every table.
ChecksAlwaysSuffice == draw = Unsolved => ChecksSuffice(table)
==============================================================================
