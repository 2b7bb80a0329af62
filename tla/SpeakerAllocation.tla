-------------------------- MODULE SpeakerAllocation --------------------------
(****************************************************************************)
(* From sign-ups to a draw: the checks made before a draw is generated and  *)
(* the integer program that allocates every member that signed up.          *)
(*                                                                          *)
(* The program's objective (balanced teams, few rooms, partners together)   *)
(* only ranks the allocations, and the solver may stop short of the optimum *)
(* (set_mip_rel_gap), so the draw is any allocation that meets the          *)
(* constraints.  The numbers 4 and 8 of the code are the teams of a British *)
(* Parliamentary debate and their speakers, two to a team.                  *)
(****************************************************************************)
EXTENDS DraftDraw

CONSTANTS
  NoSignup,   \* no row of spar_signups for this member
  NoPartner   \* partner_preference is NULL

\* The teams of a debate are an enum (Og, Oo, Cg and Co).
ASSUME TeamsAssumption == IsFiniteSet(Teams) /\ Teams # {}

ASSUME NoPartnerAssumption == NoPartner \notin Members

Signup == [as_judge : BOOLEAN, as_speaker : BOOLEAN,
           partner_preference : Members \cup {NoPartner}]

ASSUME NoSignupAssumption == NoSignup \notin Signup

\* The sign-ups of one spar.
SignupTable == [Members -> Signup \cup {NoSignup}]

SignedUp(table) == {m \in Members : table[m] # NoSignup}
Judges(table)   == {m \in SignedUp(table) : table[m].as_judge}
Speakers(table) == {m \in SignedUp(table) : table[m].as_speaker}

MaxJudges == 100
SpeakersPerRoom == 2 * Cardinality(Teams)

CeilDiv(n, d) == (n + d - 1) \div d

-----------------------------------------------------------------------------
(* The checks of generate_draw.                                             *)

MissingPartner(table) ==
  \E m \in SignedUp(table) :
    /\ table[m].partner_preference # NoPartner
    /\ table[m].partner_preference \notin SignedUp(table)

BasicChecks(table) ==
  LET only_speak == Cardinality(Speakers(table) \ Judges(table))
  IN  /\ ~ MissingPartner(table)
      /\ only_speak >= Cardinality(Teams)
      /\ Cardinality(Judges(table)) * SpeakersPerRoom >= only_speak

-----------------------------------------------------------------------------
(* The program of solve_lp.                                                 *)

\* The assertion on each sign-up when the constraints are built.
EveryoneHasARole(table) == SignedUp(table) = Judges(table) \cup Speakers(table)

\* (For mutation testing: r_max rounded down.)
RMaxFloor(table) == Cardinality(Speakers(table)) \div SpeakersPerRoom

RMax(table) == CeilDiv(Cardinality(Speakers(table)), SpeakersPerRoom)

\* (For mutation testing: only the speaking roles are constrained.)
AllocationsOfWilling(table, n) ==
  {f \in [SignedUp(table) -> (1..n) \X Locs] :
     \A m \in SignedUp(table) : f[m][2] # Panel => m \in Speakers(table)}

\* Every member takes one position, in a role it signed up for.
Allocations(table, n) ==
  {f \in [SignedUp(table) -> (1..n) \X Locs] :
     \A m \in SignedUp(table) :
       m \in IF f[m][2] = Panel THEN Judges(table) ELSE Speakers(table)}

RoomsOf(f, n) ==
  [i \in 1..n |-> [loc \in Locs |-> {m \in DOMAIN f : f[m] = <<i, loc>>}]]

\* The constraints of an active room (u_r = 1); an inactive room is empty and
\* appears in no draw.
RoomIsLegal(room) ==
  /\ Cardinality(room[Panel]) \in 1..MaxJudges
  /\ \A team \in Teams : Cardinality(room[team]) \in 1..2

\* The draws the solver may return: any number n of active rooms, numbered
\* from 1 as solver_room_to_draft_draw lists them.
PossibleDraws(table) ==
  UNION {{rooms \in {RoomsOf(f, n) : f \in Allocations(table, n)} :
            \A i \in 1..n : RoomIsLegal(rooms[i])} : n \in 0..RMax(table)}

-----------------------------------------------------------------------------
(* When there is a draw at all, in numbers.                                 *)

\* n rooms can be filled if, for some number b of those willing to do both who
\* are made judges, there are enough judges and the speakers fit the teams.
CountsFit(table, n) ==
  LET judge_only == Cardinality(Judges(table) \ Speakers(table))
      speak_only == Cardinality(Speakers(table) \ Judges(table))
      both       == Cardinality(Judges(table) \cap Speakers(table))
  IN  \E b \in 0..both :
        /\ n <= judge_only + b /\ judge_only + b <= MaxJudges * n
        /\ n * Cardinality(Teams) <= speak_only + (both - b)
        /\ speak_only + (both - b) <= n * SpeakersPerRoom

\* If everyone has a role, the integer program has a solution exactly if the
\* counts fit for some number of rooms up to r_max.
FeasibleByCounting(table) ==
  EveryoneHasARole(table) =>
  ((PossibleDraws(table) # {}) <=> \E n \in 0..RMax(table) : CountsFit(table, n))

\* The checks made before a draw is generated are enough: if everyone who signed
\* up has a role, the program has a solution, however many are willing to do
\* both (_check_valid_solution_exists, "todo: this section is wrong").
ChecksSuffice(table) ==
  BasicChecks(table) /\ EveryoneHasARole(table) => PossibleDraws(table) # {}
==============================================================================
