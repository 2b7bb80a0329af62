----------------------------- MODULE SparState -----------------------------
(****************************************************************************)
(* The tables and the background work that module SparRound moves through   *)
(* the life of a spar, and what its handlers read from them.                *)
(****************************************************************************)
EXTENDS SpeakerAllocation

CONSTANTS
  Spars,        \* the rows the spars table may come to hold
  Drafts,       \* the rows the draft_draws table may come to hold
  NoRow,        \* a row that has not been inserted
  SignupForms,  \* the sign-up forms members send: [member, signup]
  Edits,        \* the edit commands organisers send
  Sheets,       \* the scoresheets that a ballot may carry
  Null,         \* draft_draws.data before the solver has finished
  MaxConfirms,  \* bound: draws confirmed in one behaviour
  MaxBallots    \* bound: ballots held at once for one spar

SparRow == [is_open : BOOLEAN, release_draw : BOOLEAN, is_complete : BOOLEAN]

DraftRow == [spar : Spars, data : DraftDrawData \cup {Null}]

\* A ballot link: the n-th confirmation gives judge m of room i a fresh uuid.
Key  == (1..MaxConfirms) \X (Nat \ {0}) \X Members
Link == [key : Key, spar : Spars, room : Nat \ {0}, member : Members,
         expired : BOOLEAN]
Mail == [to : Members, key : Key]

\* created_at is kept in whole seconds; "forced" records the form's force flag.
Ballot == [room : Nat \ {0}, adjudicator : Members, sheet : Sheets,
           created_at : Nat, forced : BOOLEAN]

\* The background work of a draft: the solver runs on the sign-ups read by the
\* request, then its rooms wait to be stored.
Idle == [stage |-> "idle"]
Solving(table) == [stage |-> "solving", signups |-> table]
Storing(rooms) == [stage |-> "storing", rooms |-> rooms]
Task == {Idle} \cup [stage : {"solving"}, signups : SignupTable]
               \cup [stage : {"storing"}, rooms : Seq(DraftDrawRoom)]

ASSUME SparStateAssumption ==
  /\ NoRow \notin SparRow \cup DraftRow
  /\ Null \notin DraftDrawData
  /\ SignupForms \subseteq [member : Members, signup : Signup]
  /\ Edits \subseteq EditActions
  /\ MaxConfirms \in Nat
  /\ MaxBallots \in Nat

VARIABLES
  spars,     \* table spars
  signups,   \* table spar_signups, by spar
  drafts,    \* table draft_draws
  tasks,     \* the background task of each draft, in memory only
  rooms,     \* by spar, its confirmed rooms: spar_rooms, spar_adjudicators,
             \* spar_teams and spar_speakers
  links,     \* table spar_adjudicator_ballot_links
  ballots,   \* table adjudicator_ballots, by spar in order of insertion
  confirms,  \* how many draws have been confirmed (freshness of the uuids)
  outbox,    \* mails handed to a background task and not yet sent
  inbox      \* mails that reached their judge

vars == <<spars, signups, drafts, tasks, rooms, links, ballots, confirms,
          outbox, inbox>>

Started == {s \in Spars : spars[s] # NoRow}

HasData(d) == drafts[d] # NoRow /\ drafts[d].data # Null

-----------------------------------------------------------------------------
(* What the handlers read.                                                  *)

\* The rows of spar_rooms joined with adjudicator_ballots: one per ballot.
RoomsWithBallots(s) == Len(ballots[s])
TotalRooms(s) == Len(rooms[s])

\* A speaking partner must not have named somebody else.
MayName(s, m, partner) ==
  partner \in SignedUp(signups[s]) =>
    signups[s][partner].partner_preference \in {NoPartner, m}

\* signups[&id] panics for a placed member without a sign-up.
ConfirmPanics(d) ==
  ~ Placed(drafts[d].data.rooms) \subseteq SignedUp(signups[drafts[d].spar])

NewLinks(s, draw, n) ==
  LET seats == {p \in (DOMAIN draw) \X Members : p[2] \in draw[p[1]][Panel]}
  IN  {[key |-> <<n, p[1], p[2]>>, spar |-> s, room |-> p[1], member |-> p[2],
        expired |-> FALSE] : p \in seats}

\* One mail for every ballot link of the spar, expired or not.
LinkMails(s) ==
  {[to |-> l.member, key |-> l.key] : l \in {k \in links : k.spar = s}}

-----------------------------------------------------------------------------
(* Ballots.                                                                 *)

BallotsOf(s, i) == {j \in DOMAIN ballots[s] : ballots[s][j].room = i}

\* SparRoom::canonical_ballot: the ballot that comes first by created_at
\* (either of two in the same second).
RoomCanonical(s, i) ==
  {j \in BallotsOf(s, i) : \A k \in BallotsOf(s, i) :
     ballots[s][j].created_at <= ballots[s][k].created_at}

\* Spar::canonical_ballots: the greatest id among the latest created_at.
SparCanonical(s, i) ==
  {j \in BallotsOf(s, i) : \A k \in BallotsOf(s, i) :
     /\ ballots[s][j].created_at >= ballots[s][k].created_at
     /\ ballots[s][j].created_at = ballots[s][k].created_at => j >= k}

\* now, in whole seconds: the second of the latest ballot or the one after.
Clock(s) ==
  LET latest == IF ballots[s] = <<>> THEN 1
                ELSE ballots[s][Len(ballots[s])].created_at
  IN  {latest, latest + 1}

\* The comparison with the room's canonical ballot, if it has one.
AgreesWithCanonical(l, sheet) ==
  \/ BallotsOf(l.spar, l.room) = {}
  \/ \E j \in RoomCanonical(l.spar, l.room) : ballots[l.spar][j].sheet = sheet

\* The ballot that do_submit_ballot inserts for the owner of link l.
NewBallots(l, sheet, force) ==
  {[room |-> l.room, adjudicator |-> l.member, sheet |-> sheet,
    created_at |-> now, forced |-> force] : now \in Clock(l.spar)}

-----------------------------------------------------------------------------
(* What compute_scores reads from the ballots of the series.                *)

\* Whose speakers take over the new ratings of their team: the update meant for
\* closing opposition repeats that of closing government (teams[2] twice).
RatedTeams == Teams \ {"co"}

\* The confirmed rooms that have a ballot, over all spars of the series.
BallotedRooms ==
  UNION {{rooms[s][ballots[s][j].room] : j \in DOMAIN ballots[s]} : s \in Spars}

\* Indexing the first speaker of a team that has none is out of bounds.
RatingPanics == \E room \in BallotedRooms : \E team \in RatedTeams : room[team] = {}

\* The members that have got a new rating out of some debate.
RatedMembers == UNION {room[team] : room \in BallotedRooms, team \in RatedTeams}
==============================================================================
