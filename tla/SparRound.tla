------------------------------ MODULE SparRound ------------------------------
(****************************************************************************)
(* The life of the spars of one series: sign-ups are opened and closed, a   *)
(* draw is generated in the background, edited, confirmed and released,     *)
(* judges receive ballot links and submit ballots, and the spar is marked   *)
(* complete so that the next one may be started.                            *)
(*                                                                          *)
(* Each handler runs in one database transaction and is one action here;    *)
(* module DeferredTx shows why that is sound.  What happens outside the     *)
(* transaction -- the solver on a blocking thread, the transaction that     *)
(* stores its result, the sending of e-mail -- are actions of their own and *)
(* may be lost in a restart.  A handler that refuses a request or panics    *)
(* changes nothing, and so has no step.                                     *)
(****************************************************************************)
EXTENDS SparState

-----------------------------------------------------------------------------
(* Handlers with a plausible mistake in each, for mutation testing: a       *)
(* property is worth its run only if one of these, put in the place of the  *)
(* handler it is named after, violates it.  Nothing below uses them.        *)

\* do_make_session without the look at the earlier spars.
MakeSessionAlways(s, open) ==
  /\ spars[s] = NoRow
  /\ spars' = [spars EXCEPT ![s] =
       [is_open |-> open, release_draw |-> FALSE, is_complete |-> FALSE]]
  /\ UNCHANGED <<signups, drafts, tasks, rooms, links, ballots, confirms,
                 outbox, inbox>>

\* set_is_open that opens the sign-ups and leaves the draw released.
SetIsOpenOnly(s, state) ==
  /\ s \in Started
  /\ spars' = [spars EXCEPT ![s].is_open = state]
  /\ UNCHANGED <<signups, drafts, tasks, rooms, links, ballots, confirms,
                 outbox, inbox>>

\* do_register_for_spar that takes signing up in neither role as withdrawing.
RegisterOrWithdraw(s, m, signup) ==
  /\ s \in Started
  /\ spars[s].is_open /\ ~ spars[s].release_draw
  /\ signup.partner_preference # NoPartner =>
       signup.as_speaker /\ MayName(s, m, signup.partner_preference)
  /\ signups' = [signups EXCEPT ![s][m] =
       IF signup.as_judge \/ signup.as_speaker THEN signup ELSE NoSignup]
  /\ UNCHANGED <<spars, drafts, tasks, rooms, links, ballots, confirms,
                 outbox, inbox>>

\* do_register_for_spar that looks at the release flag only.
RegisterAnyTime(s, m, signup) ==
  /\ s \in Started
  /\ ~ spars[s].release_draw
  /\ signup.partner_preference # NoPartner =>
       signup.as_speaker /\ MayName(s, m, signup.partner_preference)
  /\ signups' = [signups EXCEPT ![s][m] = signup]
  /\ UNCHANGED <<spars, drafts, tasks, rooms, links, ballots, confirms,
                 outbox, inbox>>

\* generate_draw without the check that there are enough judges.
GenerateDrawTooFewJudges(s, d) ==
  /\ s \in Started
  /\ drafts[d] = NoRow
  /\ ~ MissingPartner(signups[s])
  /\ Cardinality(Speakers(signups[s]) \ Judges(signups[s])) >= Cardinality(Teams)
  /\ ~ RatingPanics
  /\ drafts' = [drafts EXCEPT ![d] = [spar |-> s, data |-> Null]]
  /\ tasks' = [tasks EXCEPT ![d] = Solving(signups[s])]
  /\ UNCHANGED <<spars, signups, rooms, links, ballots, confirms, outbox,
                 inbox>>

\* The store transaction leaves out the map of short numbers.
StoreBareRooms(d) ==
  /\ tasks[d].stage = "storing"
  /\ drafts' = [drafts EXCEPT ![d].data = [rooms |-> tasks[d].rooms]]
  /\ tasks' = [tasks EXCEPT ![d] = Idle]
  /\ UNCHANGED <<spars, signups, rooms, links, ballots, confirms, outbox,
                 inbox>>

\* The store transaction is retried after it has succeeded.
StoreDrawAgain(d) ==
  /\ tasks[d].stage = "storing"
  /\ drafts' = [drafts EXCEPT ![d].data = WithIdMap(tasks[d].rooms)]
  /\ UNCHANGED <<spars, signups, tasks, rooms, links, ballots, confirms,
                 outbox, inbox>>

\* do_edit_draw with a swap that moves only one of the two.
EditDrawHalfSwap(d, action) ==
  /\ HasData(d)
  /\ Recognised(drafts[d].data, action)
  /\ ~ EditPanics(drafts[d].data, action)
  /\ drafts' = [drafts EXCEPT ![d].data =
       IF action.kind = "swap" /\ action.a # action.b
       THEN [@ EXCEPT !.rooms = Replace(@, FindLoc(@, action.a), action.a, action.b)]
       ELSE Apply(@, action)]
  /\ UNCHANGED <<spars, signups, tasks, rooms, links, ballots, confirms,
                 outbox, inbox>>

\* do_confirm_draw over tables that do not cascade the delete to the links.
ConfirmKeepsLinks(d) ==
  /\ HasData(d)
  /\ ~ ConfirmPanics(d)
  /\ confirms < MaxConfirms
  /\ LET s == drafts[d].spar
         draw == drafts[d].data.rooms
     IN  /\ rooms' = [rooms EXCEPT ![s] = draw]
         /\ links' = links \cup NewLinks(s, draw, confirms + 1)
         /\ ballots' = [ballots EXCEPT ![s] = <<>>]
  /\ confirms' = confirms + 1
  /\ UNCHANGED <<spars, signups, drafts, tasks, outbox, inbox>>

\* do_confirm_draw over tables that do not cascade the delete to the ballots.
ConfirmKeepsBallots(d) ==
  /\ HasData(d)
  /\ ~ ConfirmPanics(d)
  /\ confirms < MaxConfirms
  /\ LET s == drafts[d].spar
         draw == drafts[d].data.rooms
     IN  /\ rooms' = [rooms EXCEPT ![s] = draw]
         /\ links' = {l \in links : l.spar # s}
                       \cup NewLinks(s, draw, confirms + 1)
  /\ confirms' = confirms + 1
  /\ UNCHANGED <<spars, signups, drafts, tasks, ballots, outbox, inbox>>

\* do_confirm_draw that hands the room's old link over to its new judge.
ConfirmTransfersLinks(d) ==
  /\ HasData(d)
  /\ ~ ConfirmPanics(d)
  /\ confirms < MaxConfirms
  /\ LET s == drafts[d].spar
         draw == drafts[d].data.rooms
         old(i) == {l \in links : l.spar = s /\ l.room = i}
     IN  /\ rooms' = [rooms EXCEPT ![s] = draw]
         /\ links' = {l \in links : l.spar # s} \cup
              {IF old(n.room) = {} THEN n
               ELSE [n EXCEPT !.key = (CHOOSE l \in old(n.room) : TRUE).key] :
                 n \in NewLinks(s, draw, confirms + 1)}
         /\ ballots' = [ballots EXCEPT ![s] = <<>>]
  /\ confirms' = confirms + 1
  /\ UNCHANGED <<spars, signups, drafts, tasks, outbox, inbox>>

\* do_submit_ballot that compares only with the judge's own earlier ballot.
SubmitUncompared(key, sheet, force) ==
  \E l \in links :
    LET s == l.spar
        room == rooms[s][l.room]
        own == {j \in RoomCanonical(s, l.room) :
                  ballots[s][j].adjudicator = l.member}
    IN  /\ l.key = key /\ ~ l.expired
        /\ \A team \in Teams : room[team] # {}
        /\ force \/ own = {} \/ \E j \in own : ballots[s][j].sheet = sheet
        /\ l.member \in room[Panel]
        /\ Len(ballots[s]) < MaxBallots
        /\ \E ballot \in NewBallots(l, sheet, force) :
             ballots' = [ballots EXCEPT ![s] = Append(@, ballot)]
        /\ UNCHANGED <<spars, signups, drafts, tasks, rooms, links, confirms,
                       outbox, inbox>>

\* do_submit_ballot that does not look for a speaker in every position.
SubmitToAnyRoom(key, sheet, force) ==
  \E l \in links :
    LET s == l.spar
    IN  /\ l.key = key /\ ~ l.expired
        /\ force \/ AgreesWithCanonical(l, sheet)
        /\ l.member \in rooms[s][l.room][Panel]
        /\ Len(ballots[s]) < MaxBallots
        /\ \E ballot \in NewBallots(l, sheet, force) :
             ballots' = [ballots EXCEPT ![s] = Append(@, ballot)]
        /\ UNCHANGED <<spars, signups, drafts, tasks, rooms, links, confirms,
                       outbox, inbox>>

-----------------------------------------------------------------------------
(* The model.                                                               *)

Init ==
  /\ spars = [s \in Spars |-> NoRow]
  /\ signups = [s \in Spars |-> [m \in Members |-> NoSignup]]
  /\ drafts = [d \in Drafts |-> NoRow]
  /\ tasks = [d \in Drafts |-> Idle]
  /\ rooms = [s \in Spars |-> <<>>]
  /\ links = {}
  /\ ballots = [s \in Spars |-> <<>>]
  /\ confirms = 0
  /\ outbox = {}
  /\ inbox = {}

-----------------------------------------------------------------------------
(* Sessions.                                                                *)

\* do_make_session: a new spar needs every earlier one to be complete.
MakeSession(s, open) ==
  /\ spars[s] = NoRow
  /\ \A t \in Started : spars[t].is_complete
  /\ spars' = [spars EXCEPT ![s] =
       [is_open |-> open, release_draw |-> FALSE, is_complete |-> FALSE]]
  /\ UNCHANGED <<signups, drafts, tasks, rooms, links, ballots, confirms,
                 outbox, inbox>>

\* set_is_open: opening the sign-ups withdraws the draw.
SetIsOpen(s, state) ==
  /\ s \in Started
  /\ spars' = [spars EXCEPT ![s].is_open = state,
                            ![s].release_draw = IF state THEN FALSE ELSE @]
  /\ UNCHANGED <<signups, drafts, tasks, rooms, links, ballots, confirms,
                 outbox, inbox>>

\* do_release_draw: releasing closes the sign-ups.  Whether it releases or
\* withdraws, every link of the spar is mailed again.
ReleaseDraw(s, released) ==
  /\ s \in Started
  /\ spars' = [spars EXCEPT ![s].release_draw = released,
                            ![s].is_open = IF released THEN FALSE ELSE @]
  /\ outbox' = outbox \cup LinkMails(s)
  /\ UNCHANGED <<signups, drafts, tasks, rooms, links, ballots, confirms,
                 inbox>>

\* do_release_draw, when send_mail panics (an address that lettre cannot parse):
\* the update is rolled back, the mails handed over before are sent all the same.
ReleasePanics(s) ==
  /\ s \in Started
  /\ \E sent \in SUBSET LinkMails(s) :
       /\ sent # LinkMails(s)
       /\ outbox' = outbox \cup sent
  /\ UNCHANGED <<spars, signups, drafts, tasks, rooms, links, ballots,
                 confirms, inbox>>

\* do_mark_spar_complete: unless forced, there must be rooms and no room may
\* lack a ballot.  (More joined rows than rooms fail an assertion.)
MarkSparComplete(s, force) ==
  /\ s \in Started
  /\ \/ force
     \/ /\ TotalRooms(s) # 0
        /\ RoomsWithBallots(s) = TotalRooms(s)
  /\ spars' = [spars EXCEPT ![s].is_open = FALSE, ![s].is_complete = TRUE]
  /\ UNCHANGED <<signups, drafts, tasks, rooms, links, ballots, confirms,
                 outbox, inbox>>

\* do_register_for_spar: insert or update the member's row.  Only a speaker
\* may name a partner.
RegisterForSpar(s, m, signup) ==
  /\ s \in Started
  /\ spars[s].is_open /\ ~ spars[s].release_draw
  /\ signup.partner_preference # NoPartner =>
       signup.as_speaker /\ MayName(s, m, signup.partner_preference)
  /\ signups' = [signups EXCEPT ![s][m] = signup]
  /\ UNCHANGED <<spars, drafts, tasks, rooms, links, ballots, confirms,
                 outbox, inbox>>

-----------------------------------------------------------------------------
(* Draft draws.                                                             *)

\* generate_draw, the request: a draft without data and a solver task, unless
\* the checks fail or computing the ratings panics.
GenerateDraw(s, d) ==
  /\ s \in Started
  /\ drafts[d] = NoRow
  /\ BasicChecks(signups[s])
  /\ ~ RatingPanics
  /\ drafts' = [drafts EXCEPT ![d] = [spar |-> s, data |-> Null]]
  /\ tasks' = [tasks EXCEPT ![d] = Solving(signups[s])]
  /\ UNCHANGED <<spars, signups, rooms, links, ballots, confirms, outbox,
                 inbox>>

\* generate_draw, the blocking task: solve_lp finds a draw.
SolveDraw(d) ==
  /\ tasks[d].stage = "solving"
  /\ EveryoneHasARole(tasks[d].signups)
  /\ \E draw \in PossibleDraws(tasks[d].signups) :
       tasks' = [tasks EXCEPT ![d] = Storing(draw)]
  /\ UNCHANGED <<spars, signups, drafts, rooms, links, ballots, confirms,
                 outbox, inbox>>

\* solve_lp panics: a sign-up without a role fails its assertion, and an
\* infeasible program fails solve().unwrap().
SolverPanics(d) ==
  /\ tasks[d].stage = "solving"
  /\ \/ ~ EveryoneHasARole(tasks[d].signups)
     \/ PossibleDraws(tasks[d].signups) = {}
  /\ tasks' = [tasks EXCEPT ![d] = Idle]
  /\ UNCHANGED <<spars, signups, drafts, rooms, links, ballots, confirms,
                 outbox, inbox>>

\* generate_draw, the second transaction: store the rooms in the draft.
StoreDraw(d) ==
  /\ tasks[d].stage = "storing"
  /\ drafts' = [drafts EXCEPT ![d].data = WithIdMap(tasks[d].rooms)]
  /\ tasks' = [tasks EXCEPT ![d] = Idle]
  /\ UNCHANGED <<spars, signups, rooms, links, ballots, confirms, outbox,
                 inbox>>

\* The second transaction fails: the database stayed locked for longer than
\* busy_timeout, and the update's unwrap ends the task.
StoreFails(d) ==
  /\ tasks[d].stage = "storing"
  /\ tasks' = [tasks EXCEPT ![d] = Idle]
  /\ UNCHANGED <<spars, signups, drafts, rooms, links, ballots, confirms,
                 outbox, inbox>>

\* do_edit_draw: the edited data replaces the old in the same row.
EditDraw(d, action) ==
  /\ HasData(d)
  /\ Recognised(drafts[d].data, action)
  /\ ~ EditPanics(drafts[d].data, action)
  /\ drafts' = [drafts EXCEPT ![d].data = Apply(@, action)]
  /\ UNCHANGED <<spars, signups, tasks, rooms, links, ballots, confirms,
                 outbox, inbox>>

\* do_confirm_draw: the rooms of the spar are deleted, and with them their
\* links and ballots, and the draft's rooms take their place.
ConfirmDraw(d) ==
  /\ HasData(d)
  /\ ~ ConfirmPanics(d)
  /\ confirms < MaxConfirms
  /\ LET s == drafts[d].spar
         draw == drafts[d].data.rooms
     IN  /\ rooms' = [rooms EXCEPT ![s] = draw]
         /\ links' = {l \in links : l.spar # s}
                       \cup NewLinks(s, draw, confirms + 1)
         /\ ballots' = [ballots EXCEPT ![s] = <<>>]
  /\ confirms' = confirms + 1
  /\ UNCHANGED <<spars, signups, drafts, tasks, outbox, inbox>>

-----------------------------------------------------------------------------
(* Ballots.                                                                 *)

\* do_submit_ballot: a live link, a speaker for every position, and unless
\* forced the same scoresheet as the room's canonical ballot.
SubmitBallot(key, sheet, force) ==
  \E l \in links :
    LET s == l.spar
        room == rooms[s][l.room]
    IN  /\ l.key = key /\ ~ l.expired
        /\ \A team \in Teams : room[team] # {}
        /\ force \/ AgreesWithCanonical(l, sheet)
        /\ l.member \in room[Panel]
        /\ Len(ballots[s]) < MaxBallots
        /\ \E ballot \in NewBallots(l, sheet, force) :
             ballots' = [ballots EXCEPT ![s] = Append(@, ballot)]
        /\ UNCHANGED <<spars, signups, drafts, tasks, rooms, links, confirms,
                       outbox, inbox>>

\* Five hours pass: the links of one confirmation expire together.
LinksExpire(s) ==
  /\ \E l \in links : l.spar = s /\ ~ l.expired
  /\ links' = {IF l.spar = s THEN [l EXCEPT !.expired = TRUE] ELSE l :
                 l \in links}
  /\ UNCHANGED <<spars, signups, drafts, tasks, rooms, ballots, confirms,
                 outbox, inbox>>

-----------------------------------------------------------------------------
(* Mail, and restarts of the server.                                        *)

\* send_mail's background task reaches the judge.
DeliverMail(mail) ==
  /\ mail \in outbox
  /\ outbox' = outbox \ {mail}
  /\ inbox' = inbox \cup {mail}
  /\ UNCHANGED <<spars, signups, drafts, tasks, rooms, links, ballots,
                 confirms>>

\* The mail server refuses it: the task's unwrap ends the task.
LoseMail(mail) ==
  /\ mail \in outbox
  /\ outbox' = outbox \ {mail}
  /\ UNCHANGED <<spars, signups, drafts, tasks, rooms, links, ballots,
                 confirms, inbox>>

\* A restart keeps the database and loses the tasks.
Restart ==
  /\ outbox # {} \/ \E d \in Drafts : tasks[d] # Idle
  /\ tasks' = [d \in Drafts |-> Idle]
  /\ outbox' = {}
  /\ UNCHANGED <<spars, signups, drafts, rooms, links, ballots, confirms,
                 inbox>>

-----------------------------------------------------------------------------

\* Requests, background tasks and the passing of time.
Service ==
  \/ \E s \in Spars, b \in BOOLEAN :
       \/ MakeSession(s, b)
       \/ SetIsOpen(s, b)
       \/ ReleaseDraw(s, b)
       \/ MarkSparComplete(s, b)
  \/ \E s \in Spars, f \in SignupForms : RegisterForSpar(s, f.member, f.signup)
  \/ \E s \in Spars, d \in Drafts : GenerateDraw(s, d)
  \/ \E d \in Drafts :
       \/ SolveDraw(d)
       \/ SolverPanics(d)
       \/ StoreDraw(d)
       \/ ConfirmDraw(d)
       \/ \E action \in Edits : EditDraw(d, action)
  \/ \E mail \in inbox, sheet \in Sheets, force \in BOOLEAN :
       SubmitBallot(mail.key, sheet, force)
  \/ \E s \in Spars : LinksExpire(s)
  \/ \E mail \in outbox : DeliverMail(mail)

\* What may fail around it.
Failure ==
  \/ \E s \in Spars : ReleasePanics(s)
  \/ \E d \in Drafts : StoreFails(d)
  \/ \E mail \in outbox : LoseMail(mail)
  \/ Restart

Next == Service \/ Failure

Spec == Init /\ [][Next]_vars

-----------------------------------------------------------------------------
(* Safety.                                                                  *)

\* Every table and task holds rows of its kind.
TypeOK ==
  /\ spars \in [Spars -> SparRow \cup {NoRow}]
  /\ signups \in [Spars -> SignupTable]
  /\ drafts \in [Drafts -> DraftRow \cup {NoRow}]
  /\ tasks \in [Drafts -> Task]
  /\ rooms \in [Spars -> Seq(DraftDrawRoom)]
  /\ links \subseteq Link
  /\ ballots \in [Spars -> Seq(Ballot)]
  /\ confirms \in 0..MaxConfirms
  /\ outbox \subseteq Mail
  /\ inbox \subseteq Mail

\* Two organisers who start a session at the same time cannot both succeed,
\* and no later step reopens an old session: at most one spar of a series is
\* not complete (do_make_session, spars.is_complete).
OneCurrentSpar ==
  \A s, t \in Started :
    ~ spars[s].is_complete /\ ~ spars[t].is_complete => s = t

\* However opening, closing, releasing and completing interleave, a released
\* draw means that sign-ups are closed (comment on spars.release_draw).
ReleasedIsClosed ==
  \A s \in Started : ~ (spars[s].release_draw /\ spars[s].is_open)

\* From the solver's result through every edit to the confirmed rooms, nobody
\* is given two positions in one spar (comment on spar_speakers).
NobodyIsDoubleBooked ==
  /\ \A d \in Drafts :
       /\ HasData(d) => NoDoubleBooking(drafts[d].data.rooms)
       /\ tasks[d].stage = "storing" => NoDoubleBooking(tasks[d].rooms)
  /\ \A s \in Spars : NoDoubleBooking(rooms[s])

\* Sign-ups may change while a draw is solved, edited and confirmed, yet every
\* member of a draft or a confirmed draw still has a sign-up for its spar, so
\* confirming never panics (signups[&id] in do_confirm_draw).
PlacedAreSignedUp ==
  /\ \A d \in Drafts : HasData(d) => ~ ConfirmPanics(d)
  /\ \A s \in Spars : Placed(rooms[s]) \subseteq SignedUp(signups[s])

\* Confirming again replaces rooms, judges and links together: the live links
\* are exactly one for every judge of every confirmed room, so the lookup of
\* the adjudicator in do_submit_ballot always finds a row.
LinksMatchPanels ==
  \A s \in Spars :
    /\ \A i \in DOMAIN rooms[s], m \in Members :
         m \in rooms[s][i][Panel] <=>
           \E l \in links : l.spar = s /\ l.room = i /\ l.member = m
    /\ \A l \in links : l.spar = s => l.room \in DOMAIN rooms[s]
    /\ \A k, l \in links : k.key = l.key
         \/ (k.spar = l.spar /\ k.room = l.room /\ k.member = l.member) => k = l

\* No ballot outlives the draw it was given for: the judge of every ballot sits
\* on the panel of its room in the draw confirmed now.
BallotsComeFromThePanel ==
  \A s \in Spars : \A j \in DOMAIN ballots[s] :
    /\ ballots[s][j].room \in DOMAIN rooms[s]
    /\ ballots[s][j].adjudicator \in rooms[s][ballots[s][j].room][Panel]

\* Removals and swaps in a draft never lead, over its confirmation, to a ballot
\* that BallotRepr::of_id cannot read (it needs all positions) or to a room in
\* which compute_scores finds no first speaker, or more than two, in a team.
BallotedRoomsAreFull ==
  \A s \in Spars : \A j \in DOMAIN ballots[s], team \in Teams :
    Cardinality(rooms[s][ballots[s][j].room][team]) \in 1..2

\* The ratings read a room's oldest ballot and the results page its newest.
\* As long as nobody forces a ballot they carry the same scoresheet, whichever
\* judges of the room submit and in whatever order.
UnforcedReadingsAgree ==
  \A s \in Spars : \A i \in DOMAIN rooms[s] :
    (\A j \in BallotsOf(s, i) : ~ ballots[s][j].forced) =>
      \A j \in RoomCanonical(s, i), k \in SparCanonical(s, i) :
        ballots[s][j].sheet = ballots[s][k].sheet

\* A mail only ever carries a link to the judge the link was made for, also
\* when it arrives after the draw has been replaced (do_release_draw).
MailGoesToItsJudge ==
  \A mail \in outbox \cup inbox :
    /\ mail.key[1] <= confirms
    /\ \A l \in links : l.key = mail.key => l.member = mail.to

KeptOrEdited(d) ==
  \/ drafts'[d] = drafts[d]
  \/ \E action \in Edits :
       /\ ~ EditPanics(drafts[d].data, action)
       /\ drafts'[d] = [drafts[d] EXCEPT !.data = Apply(@, action)]

\* The solver's late answer never overwrites an edit: once a draft has data, it
\* changes by edits only (the second transaction of generate_draw).
DraftChangesByEditsOnly ==
  [][\A d \in Drafts : HasData(d) => KeptOrEdited(d)]_vars
==============================================================================
