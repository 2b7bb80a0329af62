------------------------------ MODULE SparClaims ------------------------------
(****************************************************************************)
(* What SparRound implements, and statements made about these handlers in   *)
(* the comments, messages, schema and assertions of the code that the       *)
(* handlers themselves do not keep.                                         *)
(****************************************************************************)
EXTENDS SparRound

-----------------------------------------------------------------------------
(* The promise of module Sessions.                                          *)

RowPhase(row) ==
  IF row.is_open
  THEN IF row.release_draw THEN "open and released" ELSE "taking sign-ups"
  ELSE IF row.release_draw THEN "released" ELSE "closed"

PhaseOf(s) == IF spars[s] = NoRow THEN "not started" ELSE RowPhase(spars[s])

PhaseMap == [s \in Spars |-> PhaseOf(s)]

Over == {s \in Started : spars[s].is_complete}

Promise == INSTANCE Sessions WITH
  Entry <- Signup, NoEntry <- NoSignup,
  phase <- PhaseMap, over <- Over, entries <- signups

\* Whatever is drawn, edited, confirmed and mailed meanwhile, and in whichever
\* order organisers press the buttons, the two flags and the completion mark of
\* the spars behave as the phases of Sessions, and the sign-ups of a spar never
\* change outside its sign-up phase.
KeepsSessionPromise == Promise!Spec

-----------------------------------------------------------------------------
(* Progress of the background task.                                         *)

\* A server in which nothing fails, and which goes on running its tasks (the
\* blocking pool and the async runtime run what is spawned on them).
SteadySpec ==
  /\ Init /\ [][Service]_vars
  /\ \A d \in Drafts : /\ WF_vars(SolveDraw(d) \/ SolverPanics(d))
                       /\ WF_vars(StoreDraw(d))

\* The checks of the request are enough for the solver: if everyone has a role,
\* a draft that has been asked for is drawn, whatever sign-ups, edits and
\* confirmations happen while it is solved (generate_draw).
RoledDraftsAreDrawn ==
  \A d \in Drafts :
    tasks[d].stage = "solving" /\ EveryoneHasARole(tasks[d].signups)
      ~> HasData(d)

-----------------------------------------------------------------------------
(* Statements that the code does not keep.                                  *)

\* complete_spar.rs:84 asserts rooms_with_ballots <= total_rooms.
NoMoreBallotedRoomsThanRooms ==
  \A s \in Spars : RoomsWithBallots(s) <= TotalRooms(s)

\* ratings.rs:28 "Compute scores for each player": whoever spoke in a room that
\* has a ballot is rated by it.
SpeakersAreRated ==
  \A room \in BallotedRooms, team \in Teams : room[team] \subseteq RatedMembers

\* draft_management.rs:450 "This page will automatically refresh when the draw
\* is ready": a draft that has been asked for is drawn at last.
DrawBecomesReady == \A d \in Drafts : drafts[d] # NoRow ~> HasData(d)
==============================================================================
