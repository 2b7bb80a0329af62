-------------------------- MODULE SparBallotProofs --------------------------
(****************************************************************************)
(* Links, mails and ballots, for any members, teams, spars and drafts: what *)
(* one confirmed draw leaves behind when the next one replaces it.          *)
(****************************************************************************)
EXTENDS SparRoundProofs

-----------------------------------------------------------------------------
(* Which steps matter.                                                      *)

\* Rooms, links and ballots change in three handlers only.
LEMMA OtherStepsKeepRooms ==
  ASSUME [Next]_vars
  PROVE  \/ \E d \in Drafts : ConfirmDraw(d)
         \/ \E mail \in inbox, sheet \in Sheets, force \in BOOLEAN :
              SubmitBallot(mail.key, sheet, force)
         \/ \E s \in Spars : LinksExpire(s)
         \/ UNCHANGED <<rooms, links, ballots, confirms>>
<1> DEFINE Kept == UNCHANGED <<rooms, links, ballots, confirms>>
<1>1. ASSUME NEW s \in Spars, NEW b \in BOOLEAN,
             \/ MakeSession(s, b) \/ SetIsOpen(s, b)
             \/ ReleaseDraw(s, b) \/ MarkSparComplete(s, b)
      PROVE  Kept
  BY <1>1 DEF MakeSession, SetIsOpen, ReleaseDraw, MarkSparComplete
<1>2. ASSUME NEW s \in Spars, NEW m, NEW signup, RegisterForSpar(s, m, signup)
      PROVE  Kept
  BY <1>2 DEF RegisterForSpar
<1>3. ASSUME NEW s \in Spars, NEW d \in Drafts, GenerateDraw(s, d) PROVE Kept
  BY <1>3 DEF GenerateDraw
<1>4. ASSUME NEW d \in Drafts,
             SolveDraw(d) \/ SolverPanics(d) \/ StoreDraw(d) \/ StoreFails(d)
      PROVE  Kept
  BY <1>4 DEF SolveDraw, SolverPanics, StoreDraw, StoreFails
<1>5. ASSUME NEW d \in Drafts, NEW action, EditDraw(d, action) PROVE Kept
  BY <1>5 DEF EditDraw
<1>6. ASSUME NEW mail, DeliverMail(mail) \/ LoseMail(mail) PROVE Kept
  BY <1>6 DEF DeliverMail, LoseMail
<1>7. ASSUME NEW s \in Spars, ReleasePanics(s) PROVE Kept
  BY <1>7 DEF ReleasePanics
<1>8. ASSUME Restart \/ UNCHANGED vars PROVE Kept
  BY <1>8 DEF Restart, vars
<1> HIDE DEF Kept
<1>9. \/ \E d \in Drafts : ConfirmDraw(d)
      \/ \E mail \in inbox, sheet \in Sheets, force \in BOOLEAN :
           SubmitBallot(mail.key, sheet, force)
      \/ \E s \in Spars : LinksExpire(s)
      \/ Kept
  BY <1>1, <1>2, <1>3, <1>4, <1>5, <1>6, <1>7, <1>8 DEF Next, Service, Failure
<1> QED
  BY <1>9 DEF Kept

\* A mail in the outbox or the inbox was there, or is sent for a link of now.
LEMMA MailsAreOfLinks ==
  ASSUME [Next]_vars, NEW mail \in outbox' \cup inbox'
  PROVE  mail \in outbox \cup inbox \/ \E s \in Spars : mail \in LinkMails(s)
<1> DEFINE Known == mail \in outbox \cup inbox \/ \E s \in Spars : mail \in LinkMails(s)
<1>1. ASSUME NEW s \in Spars, NEW b \in BOOLEAN, ReleaseDraw(s, b) PROVE Known
  BY <1>1 DEF ReleaseDraw
<1>2. ASSUME NEW s \in Spars, ReleasePanics(s) PROVE Known
  BY <1>2 DEF ReleasePanics
<1>3. ASSUME NEW m \in outbox, DeliverMail(m) \/ LoseMail(m) PROVE Known
  BY <1>3 DEF DeliverMail, LoseMail
<1>4. ASSUME Restart PROVE Known
  BY <1>4 DEF Restart
<1>5. ASSUME UNCHANGED <<outbox, inbox>> PROVE Known
  BY <1>5
<1>6. ASSUME NEW s \in Spars, NEW b \in BOOLEAN,
             MakeSession(s, b) \/ SetIsOpen(s, b) \/ MarkSparComplete(s, b)
      PROVE  UNCHANGED <<outbox, inbox>>
  BY <1>6 DEF MakeSession, SetIsOpen, MarkSparComplete
<1>7. ASSUME NEW s \in Spars, NEW m, NEW signup, RegisterForSpar(s, m, signup)
      PROVE  UNCHANGED <<outbox, inbox>>
  BY <1>7 DEF RegisterForSpar
<1>8. ASSUME NEW s \in Spars, NEW d \in Drafts, GenerateDraw(s, d)
      PROVE  UNCHANGED <<outbox, inbox>>
  BY <1>8 DEF GenerateDraw
<1>9. ASSUME NEW d \in Drafts,
             \/ SolveDraw(d) \/ SolverPanics(d) \/ StoreDraw(d) \/ StoreFails(d)
             \/ ConfirmDraw(d)
      PROVE  UNCHANGED <<outbox, inbox>>
  BY <1>9 DEF SolveDraw, SolverPanics, StoreDraw, StoreFails, ConfirmDraw
<1>10. ASSUME NEW d \in Drafts, NEW action, EditDraw(d, action)
       PROVE  UNCHANGED <<outbox, inbox>>
  BY <1>10 DEF EditDraw
<1>11. ASSUME NEW key, NEW sheet, NEW force, SubmitBallot(key, sheet, force)
       PROVE  UNCHANGED <<outbox, inbox>>
  BY <1>11 DEF SubmitBallot
<1>12. ASSUME NEW s \in Spars, LinksExpire(s) PROVE UNCHANGED <<outbox, inbox>>
  BY <1>12 DEF LinksExpire
<1>13. ASSUME UNCHANGED vars PROVE UNCHANGED <<outbox, inbox>>
  BY <1>13 DEF vars
<1> HIDE DEF Known
<1>14. Known
  BY <1>1, <1>2, <1>3, <1>4, <1>5, <1>6, <1>7, <1>8, <1>9, <1>10, <1>11, <1>12,
     <1>13 DEF Next, Service, Failure
<1> QED
  BY <1>14 DEF Known

-----------------------------------------------------------------------------
(* Links and mails.                                                         *)

\* A key says which confirmation, room and judge it is for, and no confirmation
\* makes links for two spars.  This is what LinksMatchPanels needs to tell two
\* links by their keys, and a mail to tell whose link it carries.
KeysNameLinks ==
  /\ \A l \in links : l.key[1] <= confirms /\ l.key = <<l.key[1], l.room, l.member>>
  /\ \A k, l \in links : k.key[1] = l.key[1] => k.spar = l.spar

MailsNameJudges ==
  \A mail \in outbox \cup inbox : mail.key[1] <= confirms /\ mail.key[3] = mail.to

LinkInv == LinksMatchPanels /\ KeysNameLinks /\ MailsNameJudges

LEMMA ConfirmKeepsLinkInv ==
  ASSUME TypeOK, LinkInv, NEW d \in Drafts, ConfirmDraw(d)
  PROVE  LinkInv'
<1> DEFINE s == drafts[d].spar
           draw == drafts[d].data.rooms
           n == confirms + 1
           new == NewLinks(s, draw, n)
<1>1. /\ s \in Spars /\ draw \in Draw /\ n \in 1..MaxConfirms
      /\ confirms \in Nat /\ n > confirms
  BY DraftCases, SparStateAssumption DEF ConfirmDraw, TypeOK
<1>2. /\ rooms' = [rooms EXCEPT ![s] = draw]
      /\ links' = {l \in links : l.spar # s} \cup new
      /\ confirms' = n /\ UNCHANGED <<outbox, inbox>>
  BY DEF ConfirmDraw
<1>3. DOMAIN rooms = Spars
  BY DEF TypeOK
<1>4. /\ \A l \in new : /\ l.key = <<n, l.room, l.member>> /\ l.spar = s
                        /\ l.room \in DOMAIN draw /\ l.member \in Members
                        /\ l.member \in draw[l.room][Panel] /\ l.expired = FALSE
      /\ \A i \in DOMAIN draw, m \in Members : m \in draw[i][Panel] =>
           [key |-> <<n, i, m>>, spar |-> s, room |-> i, member |-> m,
            expired |-> FALSE] \in new
  <2> DEFINE seats == {p \in (DOMAIN draw) \X Members : p[2] \in draw[p[1]][Panel]}
             Made(i, m) == [key |-> <<n, i, m>>, spar |-> s, room |-> i, member |-> m,
                            expired |-> FALSE]
  <2>1. new = {Made(p[1], p[2]) : p \in seats}
    BY DEF NewLinks
  <2>2. ASSUME NEW l \in new
        PROVE  /\ l.key = <<n, l.room, l.member>> /\ l.spar = s
               /\ l.room \in DOMAIN draw /\ l.member \in Members
               /\ l.member \in draw[l.room][Panel] /\ l.expired = FALSE
    <3>1. PICK p \in seats : l = Made(p[1], p[2])
      BY <2>1, <2>2
    <3> QED
      BY <3>1
  <2>3. ASSUME NEW i \in DOMAIN draw, NEW m \in Members, m \in draw[i][Panel]
        PROVE  Made(i, m) \in new
    <3>1. <<i, m>> \in seats
      BY <2>3
    <3> QED
      BY <2>1, <3>1
  <2> QED
    BY <2>2, <2>3
<1>5. \A k, l \in new : k.room = l.room /\ k.member = l.member => k = l
  <2> SUFFICES ASSUME NEW k \in new, NEW l \in new, k.room = l.room, k.member = l.member
               PROVE  k = l
    OBVIOUS
  <2>1. k = [key |-> <<n, k.room, k.member>>, spar |-> s, room |-> k.room,
             member |-> k.member, expired |-> FALSE]
    BY DEF NewLinks
  <2>2. l = [key |-> <<n, l.room, l.member>>, spar |-> s, room |-> l.room,
             member |-> l.member, expired |-> FALSE]
    BY DEF NewLinks
  <2> QED
    BY <2>1, <2>2
<1> HIDE DEF s, draw, n, new
<1>6. \A l \in links : l.key[1] <= confirms /\ l.key = <<l.key[1], l.room, l.member>>
                       /\ l.key[1] # n
  <2>1. \A l \in links : l.key[1] \in Int
    BY DEF TypeOK, Link, Key
  <2> QED
    BY <1>1, <2>1 DEF LinkInv, KeysNameLinks
<1>7. \A l \in new : l.key[1] = n
  BY <1>4
<1>8. LinksMatchPanels'
  <2> SUFFICES ASSUME NEW t \in Spars
               PROVE  /\ \A i \in DOMAIN rooms'[t], m \in Members :
                           m \in rooms'[t][i][Panel] <=>
                             \E l \in links' : l.spar = t /\ l.room = i /\ l.member = m
                      /\ \A l \in links' : l.spar = t => l.room \in DOMAIN rooms'[t]
                      /\ \A k, l \in links' : k.key = l.key
                           \/ (k.spar = l.spar /\ k.room = l.room /\ k.member = l.member)
                           => k = l
    BY DEF LinksMatchPanels
  <2>1. \A k, l \in links' : k.key = l.key
          \/ (k.spar = l.spar /\ k.room = l.room /\ k.member = l.member) => k = l
    <3> SUFFICES ASSUME NEW k \in links', NEW l \in links',
                        k.key = l.key
                        \/ (k.spar = l.spar /\ k.room = l.room /\ k.member = l.member)
                 PROVE  k = l
      OBVIOUS
    <3>1. CASE k \in links /\ l \in links
      BY <3>1, <1>1 DEF LinkInv, LinksMatchPanels
    <3>2. CASE k \in new /\ l \in new
      BY <3>2, <1>4, <1>5
    <3>3. CASE k \in new /\ l \in links /\ l.spar # s
      BY <3>3, <1>4, <1>6, <1>7
    <3>4. CASE l \in new /\ k \in links /\ k.spar # s
      BY <3>4, <1>4, <1>6, <1>7
    <3> QED
      BY <1>2, <3>1, <3>2, <3>3, <3>4
  <2>2. CASE t = s
    <3>1. rooms'[t] = draw /\ \A l \in links' : l.spar = t <=> l \in new
      BY <1>1, <1>2, <1>3, <1>4, <2>2
    <3>2. \A i \in DOMAIN draw, m \in Members :
            m \in draw[i][Panel] <=> \E l \in new : l.room = i /\ l.member = m
      BY <1>4
    <3> QED
      BY <1>2, <1>4, <2>1, <2>2, <3>1, <3>2
  <2>3. CASE t # s
    <3>1. rooms'[t] = rooms[t]
      BY <1>2, <1>3, <2>3
    <3>2. \A l : l \in links' /\ l.spar = t <=> l \in links /\ l.spar = t
      BY <1>2, <1>4, <2>3
    <3> QED
      BY <2>1, <3>1, <3>2 DEF LinkInv, LinksMatchPanels
  <2> QED
    BY <2>2, <2>3
<1>9. KeysNameLinks'
  <2>1. \A l \in links' : l.key[1] <= n /\ l.key = <<l.key[1], l.room, l.member>>
    <3>1. \A l \in links : l.key[1] <= n
      BY <1>1, <1>6 DEF TypeOK, Link, Key
    <3> QED
      BY <1>1, <1>2, <1>4, <1>6, <1>7, <3>1
  <2>2. \A k, l \in links' : k.key[1] = l.key[1] => k.spar = l.spar
    BY <1>2, <1>4, <1>6, <1>7 DEF LinkInv, KeysNameLinks
  <2> QED
    BY <1>2, <2>1, <2>2 DEF KeysNameLinks
<1>10. MailsNameJudges'
  <2>1. \A mail \in outbox \cup inbox : mail.key[1] \in Int
    BY DEF TypeOK, Mail, Key
  <2> QED
    BY <1>1, <1>2, <2>1 DEF LinkInv, MailsNameJudges
<1> QED
  BY <1>8, <1>9, <1>10 DEF LinkInv

LEMMA ExpiryKeepsLinkInv ==
  ASSUME TypeOK, LinkInv, NEW s \in Spars, LinksExpire(s)
  PROVE  LinkInv'
<1> DEFINE After(l) == IF l.spar = s THEN [l EXCEPT !.expired = TRUE] ELSE l
<1>1. links' = {After(l) : l \in links} /\ UNCHANGED <<rooms, confirms, outbox, inbox>>
  BY DEF LinksExpire
<1>2. \A l \in links : /\ After(l).key = l.key /\ After(l).spar = l.spar
                       /\ After(l).room = l.room /\ After(l).member = l.member
  BY DEF TypeOK, Link
<1> HIDE DEF After
<1>3. LinksMatchPanels'
  BY <1>1, <1>2 DEF LinkInv, LinksMatchPanels
<1>4. KeysNameLinks'
  BY <1>1, <1>2 DEF LinkInv, KeysNameLinks
<1> QED
  BY <1>1, <1>3, <1>4 DEF LinkInv, MailsNameJudges

LEMMA LinkStep == TypeOK /\ LinkInv /\ [Next]_vars => LinkInv'
<1> SUFFICES ASSUME TypeOK, LinkInv, [Next]_vars PROVE LinkInv'
  OBVIOUS
<1>1. CASE \E d \in Drafts : ConfirmDraw(d)
  BY <1>1, ConfirmKeepsLinkInv
<1>2. CASE \E s \in Spars : LinksExpire(s)
  BY <1>2, ExpiryKeepsLinkInv
<1>3. ASSUME NEW mail \in inbox, NEW sheet \in Sheets, NEW force \in BOOLEAN,
             SubmitBallot(mail.key, sheet, force)
      PROVE  UNCHANGED <<rooms, links, confirms>>
  BY <1>3 DEF SubmitBallot
<1>4. CASE UNCHANGED <<rooms, links, confirms>>
  <2>1. LinksMatchPanels' /\ KeysNameLinks'
    BY <1>4 DEF LinkInv, LinksMatchPanels, KeysNameLinks
  <2>2. MailsNameJudges'
    <3> SUFFICES ASSUME NEW mail \in outbox' \cup inbox'
                 PROVE  mail.key[1] <= confirms /\ mail.key[3] = mail.to
      BY <1>4 DEF MailsNameJudges
    <3>1. CASE mail \in outbox \cup inbox
      BY <3>1 DEF LinkInv, MailsNameJudges
    <3>2. CASE \E s \in Spars : mail \in LinkMails(s)
      <4>1. PICK l \in links : mail = [to |-> l.member, key |-> l.key]
        BY <3>2 DEF LinkMails
      <4>2. l.key = <<l.key[1], l.room, l.member>> /\ l.key[1] <= confirms
        BY DEF LinkInv, KeysNameLinks
      <4> QED
        BY <4>1, <4>2
    <3> QED
      BY <3>1, <3>2, MailsAreOfLinks
  <2> QED
    BY <2>1, <2>2 DEF LinkInv
<1> QED
  BY <1>1, <1>2, <1>3, <1>4, OtherStepsKeepRooms

LEMMA LinkInvariant == Spec => []LinkInv
<1>1. Init => LinkInv
  BY DEF Init, LinkInv, LinksMatchPanels, KeysNameLinks, MailsNameJudges
<1> QED
  BY <1>1, LinkStep, TypeCorrect, PTL DEF Spec

\* Confirming again replaces rooms, judges and links together, and no two links
\* share a key (do_confirm_draw and the cascades of the schema).
THEOREM LinksAlwaysMatchPanels == Spec => []LinksMatchPanels
BY LinkInvariant, PTL DEF LinkInv

\* A mail that is late never shows its reader another judge's ballot link
\* (do_release_draw mails what links there are, do_confirm_draw makes new ones).
THEOREM MailsReachTheirJudge == Spec => []MailGoesToItsJudge
<1>1. LinkInv => MailGoesToItsJudge
  <2> SUFFICES ASSUME LinkInv, NEW mail \in outbox \cup inbox,
                      NEW l \in links, l.key = mail.key
               PROVE  l.member = mail.to
    BY DEF LinkInv, MailGoesToItsJudge, MailsNameJudges
  <2>1. l.key = <<l.key[1], l.room, l.member>> /\ mail.key[3] = mail.to
    BY DEF LinkInv, KeysNameLinks, MailsNameJudges
  <2> QED
    BY <2>1
<1> QED
  BY <1>1, LinkInvariant, PTL

-----------------------------------------------------------------------------
(* The size of teams, from the solver to the confirmed rooms.               *)

DrawsAreSmall ==
  /\ \A d \in Drafts :
       /\ HasData(d) => SmallTeams(drafts[d].data.rooms)
       /\ tasks[d].stage = "storing" => SmallTeams(tasks[d].rooms)
  /\ \A s \in Spars : SmallTeams(rooms[s])

LEMMA SizeStep == BookingInv /\ DrawsAreSmall /\ [Next]_vars => DrawsAreSmall'
<1> SUFFICES ASSUME TypeOK, TasksMatchDrafts, NobodyIsDoubleBooked, DrawsAreSmall,
                    [Next]_vars
             PROVE  DrawsAreSmall'
  BY DEF BookingInv, TypeInv
<1> USE SparStateAssumption
<1>1. ASSUME NEW s \in Spars, NEW d \in Drafts, GenerateDraw(s, d)
      PROVE  DrawsAreSmall'
  BY <1>1 DEF GenerateDraw, DrawsAreSmall, HasData, Solving, TypeOK
<1>2. ASSUME NEW d \in Drafts, SolveDraw(d)
      PROVE  DrawsAreSmall'
  <2>1. PICK draw \in PossibleDraws(tasks[d].signups) :
          tasks' = [tasks EXCEPT ![d] = Storing(draw)]
    BY <1>2 DEF SolveDraw
  <2>2. SmallTeams(draw)
    BY <1>2, TaskCases, SolverKeepsTeamsSmall DEF SolveDraw, TypeOK
  <2> QED
    BY <1>2, <2>1, <2>2 DEF SolveDraw, DrawsAreSmall, HasData, Storing, TypeOK
<1>3. ASSUME NEW d \in Drafts, SolverPanics(d) \/ StoreFails(d)
      PROVE  DrawsAreSmall'
  BY <1>3 DEF SolverPanics, StoreFails, DrawsAreSmall, HasData, Idle, TypeOK
<1>4. ASSUME NEW d \in Drafts, StoreDraw(d)
      PROVE  DrawsAreSmall'
  <2>1. drafts[d] \in DraftRow
    BY <1>4 DEF StoreDraw, TasksMatchDrafts
  <2>2. drafts'[d].data.rooms = tasks[d].rooms
    BY <1>4, <2>1 DEF StoreDraw, WithIdMap, DraftRow, TypeOK
  <2>3. SmallTeams(tasks[d].rooms)
    BY <1>4 DEF StoreDraw, DrawsAreSmall
  <2>4. \A e \in Drafts : e # d => drafts'[e] = drafts[e] /\ tasks'[e] = tasks[e]
    BY <1>4 DEF StoreDraw, TypeOK
  <2>5. tasks'[d].stage = "idle" /\ rooms' = rooms
    BY <1>4 DEF StoreDraw, TypeOK, Idle
  <2> QED
    BY <2>2, <2>3, <2>4, <2>5 DEF DrawsAreSmall, HasData
<1>5. ASSUME NEW d \in Drafts, NEW action \in Edits, EditDraw(d, action)
      PROVE  DrawsAreSmall'
  <2>1. /\ drafts[d] \in DraftRow /\ drafts[d].data \in DraftDrawData
        /\ NoDoubleBooking(drafts[d].data.rooms) /\ SmallTeams(drafts[d].data.rooms)
    BY <1>5, DraftCases DEF EditDraw, NobodyIsDoubleBooked, DrawsAreSmall
  <2>2. SmallTeams(Apply(drafts[d].data, action).rooms)
    BY <1>5, <2>1, EditsKeepTeamsSmall DEF EditDraw
  <2>3. drafts'[d].data = Apply(drafts[d].data, action)
    BY <1>5, <2>1 DEF EditDraw, DraftRow, TypeOK
  <2>4. \A e \in Drafts : e # d => drafts'[e] = drafts[e]
    BY <1>5 DEF EditDraw, TypeOK
  <2> QED
    BY <1>5, <2>2, <2>3, <2>4 DEF EditDraw, DrawsAreSmall, HasData
<1>6. ASSUME NEW d \in Drafts, ConfirmDraw(d)
      PROVE  DrawsAreSmall'
  <2>1. rooms' = [rooms EXCEPT ![drafts[d].spar] = drafts[d].data.rooms]
    BY <1>6 DEF ConfirmDraw
  <2> QED
    BY <1>6, <2>1 DEF ConfirmDraw, DrawsAreSmall, HasData, TypeOK
<1>7. CASE Restart
  BY <1>7 DEF Restart, DrawsAreSmall, HasData, Idle
<1>8. CASE UNCHANGED <<drafts, tasks, rooms>>
  BY <1>8 DEF DrawsAreSmall, HasData
<1>9. ASSUME NEW s \in Spars, NEW b \in BOOLEAN,
             \/ MakeSession(s, b) \/ SetIsOpen(s, b)
             \/ ReleaseDraw(s, b) \/ MarkSparComplete(s, b)
      PROVE  UNCHANGED <<drafts, tasks, rooms>>
  BY <1>9 DEF MakeSession, SetIsOpen, ReleaseDraw, MarkSparComplete
<1>10. ASSUME NEW s \in Spars, NEW m, NEW signup, RegisterForSpar(s, m, signup)
       PROVE  UNCHANGED <<drafts, tasks, rooms>>
  BY <1>10 DEF RegisterForSpar
<1>11. ASSUME NEW key, NEW sheet, NEW force, SubmitBallot(key, sheet, force)
       PROVE  UNCHANGED <<drafts, tasks, rooms>>
  BY <1>11 DEF SubmitBallot
<1>12. ASSUME NEW s \in Spars, LinksExpire(s) \/ ReleasePanics(s)
       PROVE  UNCHANGED <<drafts, tasks, rooms>>
  BY <1>12 DEF LinksExpire, ReleasePanics
<1>13. ASSUME NEW mail, DeliverMail(mail) \/ LoseMail(mail)
       PROVE  UNCHANGED <<drafts, tasks, rooms>>
  BY <1>13 DEF DeliverMail, LoseMail
<1>14. CASE UNCHANGED vars
  BY <1>14, <1>8 DEF vars
<1> QED
  BY <1>1, <1>2, <1>3, <1>4, <1>5, <1>6, <1>7, <1>8, <1>9, <1>10, <1>11, <1>12,
     <1>13, <1>14 DEF Next, Service, Failure

LEMMA SizeInvariant == Spec => []DrawsAreSmall
<1>1. Init => DrawsAreSmall
  BY SparStateAssumption DEF Init, DrawsAreSmall, HasData, Idle, SmallTeams, Positions
<1> QED
  BY <1>1, SizeStep, BookingInvariant, PTL DEF Spec

-----------------------------------------------------------------------------
(* Ballots.                                                                 *)

\* Stronger than UnforcedReadingsAgree: not only the oldest and the newest, all
\* ballots of a room carry one scoresheet as long as none of them is forced.
UnforcedBallotsAgree ==
  \A s \in Spars : \A j, k \in DOMAIN ballots[s] :
    /\ ballots[s][j].room = ballots[s][k].room
    /\ \A b \in BallotsOf(s, ballots[s][j].room) : ~ ballots[s][b].forced
    => ballots[s][j].sheet = ballots[s][k].sheet

BallotInv == BallotsComeFromThePanel /\ BallotedRoomsAreFull /\ UnforcedBallotsAgree

\* What SubmitBallot adds: the last ballot of its spar.
LEMMA BallotAdded ==
  ASSUME TypeOK, NEW mail \in inbox, NEW sheet \in Sheets, NEW force \in BOOLEAN,
         SubmitBallot(mail.key, sheet, force)
  PROVE  \E l \in links, ballot \in Ballot :
           /\ ballot.room = l.room /\ ballot.adjudicator = l.member
           /\ ballot.sheet = sheet
           /\ \A team \in Teams : rooms[l.spar][l.room][team] # {}
           /\ l.member \in rooms[l.spar][l.room][Panel]
           /\ ~ ballot.forced => AgreesWithCanonical(l, sheet)
           /\ ballots' = [ballots EXCEPT ![l.spar] = Append(ballots[l.spar], ballot)]
           /\ UNCHANGED <<rooms, links>>
<1>1. PICK l \in links :
        /\ \A team \in Teams : rooms[l.spar][l.room][team] # {}
        /\ l.member \in rooms[l.spar][l.room][Panel]
        /\ force \/ AgreesWithCanonical(l, sheet)
        /\ \E ballot \in NewBallots(l, sheet, force) :
             ballots' = [ballots EXCEPT ![l.spar] = Append(@, ballot)]
        /\ UNCHANGED <<rooms, links>>
  BY DEF SubmitBallot
<1>2. PICK ballot \in NewBallots(l, sheet, force) :
        ballots' = [ballots EXCEPT ![l.spar] = Append(ballots[l.spar], ballot)]
  BY <1>1
<1>3. /\ ballot.room = l.room /\ ballot.adjudicator = l.member
      /\ ballot.sheet = sheet /\ ballot.forced = force
  BY DEF NewBallots
<1>4. Clock(l.spar) \subseteq Nat
  <2> DEFINE held == ballots[l.spar]
  <2>1. held \in Seq(Ballot)
    BY DEF TypeOK, Link
  <2> HIDE DEF held
  <2>2. CASE held # <<>>
    <3>1. held[Len(held)] \in Ballot
      BY <2>1, <2>2, EmptySeq, ElementOfSeq
    <3> QED
      BY <2>2, <3>1 DEF Clock, Ballot, held
  <2> QED
    BY <2>2 DEF Clock, held
<1>5. ballot \in Ballot
  BY <1>4 DEF NewBallots, TypeOK, Link, Ballot
<1>6. ~ ballot.forced => AgreesWithCanonical(l, sheet)
  BY <1>1, <1>3
<1> QED
  BY <1>1, <1>2, <1>3, <1>5, <1>6, Zenon

\* A submission keeps what is known of ballots: the link leads to a full room
\* whose panel its owner sits on, and the sheet is that of the room's others.
LEMMA SubmitKeepsBallotInv ==
  ASSUME TypeOK, LinksMatchPanels, DrawsAreSmall, BallotInv,
         NEW mail \in inbox, NEW sheet \in Sheets, NEW force \in BOOLEAN,
         SubmitBallot(mail.key, sheet, force)
  PROVE  BallotInv'
<1>1. PICK l \in links, ballot \in Ballot :
        /\ ballot.room = l.room /\ ballot.adjudicator = l.member
        /\ ballot.sheet = sheet
        /\ \A team \in Teams : rooms[l.spar][l.room][team] # {}
        /\ l.member \in rooms[l.spar][l.room][Panel]
        /\ ~ ballot.forced => AgreesWithCanonical(l, sheet)
        /\ ballots' = [ballots EXCEPT ![l.spar] = Append(ballots[l.spar], ballot)]
        /\ UNCHANGED <<rooms, links>>
  BY BallotAdded
<1> DEFINE s == l.spar
           old == ballots[s]
           new == ballots'[s]
           last == Len(old) + 1
<1>2. s \in Spars /\ old \in Seq(Ballot) /\ DOMAIN ballots = Spars
  BY DEF TypeOK, Link
<1>3. /\ new = Append(old, ballot)
      /\ \A t \in Spars : t # s => ballots'[t] = ballots[t]
  BY <1>1, <1>2
<1>4. /\ DOMAIN new = (DOMAIN old) \cup {last} /\ last \notin DOMAIN old
      /\ new[last] = ballot /\ \A j \in DOMAIN old : new[j] = old[j]
  <2>1. /\ new \in Seq(Ballot) /\ Len(new) = Len(old) + 1
        /\ \A j \in 1..Len(old) : new[j] = old[j]
        /\ new[Len(old) + 1] = ballot
    BY <1>2, <1>3, AppendProperties
  <2>2. /\ Len(old) \in Nat /\ DOMAIN old = 1..Len(old) /\ DOMAIN new = 1..Len(new)
    BY <1>2, <2>1, LenProperties
  <2>3. 1..(Len(old) + 1) = (1..Len(old)) \cup {Len(old) + 1}
    BY <2>2
  <2> QED
    BY <2>1, <2>2, <2>3
<1>5. l.room \in DOMAIN rooms[s] /\ rooms[s] \in Draw
  BY <1>2, DrawIsSeq DEF LinksMatchPanels, TypeOK
<1> HIDE DEF s, old, new, last
<1>6. BallotsComeFromThePanel'
  <2> SUFFICES ASSUME NEW t \in Spars, NEW j \in DOMAIN ballots'[t]
               PROVE  /\ ballots'[t][j].room \in DOMAIN rooms[t]
                      /\ ballots'[t][j].adjudicator
                           \in rooms[t][ballots'[t][j].room][Panel]
    BY <1>1 DEF BallotsComeFromThePanel
  <2>1. CASE t = s /\ j = last
    BY <1>1, <1>4, <1>5, <2>1 DEF s, new
  <2>2. CASE ~ (t = s /\ j = last)
    <3>1. j \in DOMAIN ballots[t] /\ ballots'[t][j] = ballots[t][j]
      BY <1>3, <1>4, <2>2 DEF old, new
    <3> QED
      BY <3>1 DEF BallotInv, BallotsComeFromThePanel
  <2> QED
    BY <2>1, <2>2
<1>7. BallotedRoomsAreFull'
  <2> SUFFICES ASSUME NEW t \in Spars, NEW j \in DOMAIN ballots'[t], NEW team \in Teams
               PROVE  Cardinality(rooms[t][ballots'[t][j].room][team]) \in 1..2
    BY <1>1 DEF BallotedRoomsAreFull
  <2>1. CASE t = s /\ j = last
    <3> DEFINE p == <<l.room, team>>
               speakers == rooms[s][l.room][team]
    <3>1. p \in Positions(rooms[s]) /\ At(rooms[s], p) = speakers /\ p[2] \in Teams
      BY <1>5 DEF Positions, At, Locs
    <3>2. IsFiniteSet(speakers) /\ Cardinality(speakers) \in Nat /\ Cardinality(speakers) <= 2
      BY <1>2, <1>5, <3>1, FinitePlaces DEF DrawsAreSmall, SmallTeams
    <3>3. speakers # {}
      BY <1>1 DEF s
    <3>4. Cardinality(speakers) # 0
      BY <3>2, <3>3, FS_EmptySet
    <3>5. ballots'[t][j].room = l.room
      BY <1>1, <1>4, <2>1 DEF new
    <3> QED
      BY <2>1, <3>2, <3>4, <3>5
  <2>2. CASE ~ (t = s /\ j = last)
    <3>1. j \in DOMAIN ballots[t] /\ ballots'[t][j] = ballots[t][j]
      BY <1>3, <1>4, <2>2 DEF old, new
    <3> QED
      BY <3>1 DEF BallotInv, BallotedRoomsAreFull
  <2> QED
    BY <2>1, <2>2
<1>8. UnforcedBallotsAgree'
  <2> SUFFICES ASSUME NEW t \in Spars,
                      NEW j \in DOMAIN ballots'[t], NEW k \in DOMAIN ballots'[t],
                      ballots'[t][j].room = ballots'[t][k].room,
                      \A b \in DOMAIN ballots'[t] :
                        ballots'[t][b].room = ballots'[t][j].room => ~ ballots'[t][b].forced
               PROVE  ballots'[t][j].sheet = ballots'[t][k].sheet
    BY DEF UnforcedBallotsAgree, BallotsOf
  <2>1. CASE t # s
    BY <1>3, <2>1 DEF BallotInv, UnforcedBallotsAgree, BallotsOf
  <2>2. CASE t = s
    <3>1. \A x, y \in DOMAIN old :
            old[x].room = ballots'[t][j].room /\ old[y].room = ballots'[t][j].room
              => old[x].sheet = old[y].sheet
      <4>1. \A b \in DOMAIN old : old[b].room = ballots'[t][j].room => ~ old[b].forced
        BY <1>4, <2>2 DEF new
      <4> QED
        BY <1>2, <4>1 DEF BallotInv, UnforcedBallotsAgree, BallotsOf, old
    <3>2. \A x \in DOMAIN old : old[x].room = ballots'[t][j].room /\ l.room = ballots'[t][j].room
            => old[x].sheet = sheet
      <4> SUFFICES ASSUME NEW x \in DOMAIN old, old[x].room = ballots'[t][j].room,
                          l.room = ballots'[t][j].room
                   PROVE  old[x].sheet = sheet
        OBVIOUS
      <4>1. ~ ballot.forced
        <5>1. last \in DOMAIN ballots'[t] /\ ballots'[t][last] = ballot
          BY <1>4, <2>2 DEF new
        <5> QED
          BY <1>1, <5>1
      <4>2. AgreesWithCanonical(l, sheet)
        BY <1>1, <4>1
      <4>3. x \in BallotsOf(s, l.room)
        BY DEF BallotsOf, old
      <4>4. PICK y \in RoomCanonical(s, l.room) : old[y].sheet = sheet
        BY <4>2, <4>3 DEF AgreesWithCanonical, s, old
      <4>5. y \in DOMAIN old /\ old[y].room = l.room
        BY DEF RoomCanonical, BallotsOf, old
      <4> QED
        BY <3>1, <4>4, <4>5
    <3>3. \A x \in DOMAIN new :
            \/ x \in DOMAIN old /\ new[x] = old[x]
            \/ x = last /\ new[x].room = l.room /\ new[x].sheet = sheet
      BY <1>1, <1>4
    <3>4. j \in DOMAIN new /\ k \in DOMAIN new /\ new[j].room = ballots'[t][j].room
          /\ new[k].room = ballots'[t][j].room
      BY <2>2 DEF new
    <3>5. new[j].sheet = new[k].sheet
      BY <3>1, <3>2, <3>3, <3>4
    <3> QED
      BY <2>2, <3>5 DEF new
  <2> QED
    BY <2>1, <2>2
<1> QED
  BY <1>6, <1>7, <1>8 DEF BallotInv

LEMMA BallotStep ==
  TypeOK /\ LinksMatchPanels /\ DrawsAreSmall /\ BallotInv /\ [Next]_vars => BallotInv'
<1> SUFFICES ASSUME TypeOK, LinksMatchPanels, DrawsAreSmall, BallotInv, [Next]_vars
             PROVE  BallotInv'
  OBVIOUS
<1>1. ASSUME NEW d \in Drafts, ConfirmDraw(d)
      PROVE  BallotInv'
  <2> DEFINE s == drafts[d].spar
  <2>1. s \in Spars
    BY <1>1, DraftCases DEF ConfirmDraw
  <2>2. /\ ballots'[s] = <<>>
        /\ \A t \in Spars : t # s => ballots'[t] = ballots[t] /\ rooms'[t] = rooms[t]
    BY <1>1, <2>1 DEF ConfirmDraw, TypeOK
  <2> HIDE DEF s
  <2> QED
    BY <2>1, <2>2 DEF BallotInv, BallotsComeFromThePanel, BallotedRoomsAreFull,
                      UnforcedBallotsAgree, BallotsOf
<1>2. ASSUME NEW mail \in inbox, NEW sheet \in Sheets, NEW force \in BOOLEAN,
             SubmitBallot(mail.key, sheet, force)
      PROVE  BallotInv'
  BY <1>2, SubmitKeepsBallotInv
<1>3. ASSUME NEW s \in Spars, LinksExpire(s) PROVE UNCHANGED <<rooms, ballots>>
  BY <1>3 DEF LinksExpire
<1>4. CASE UNCHANGED <<rooms, ballots>>
  BY <1>4 DEF BallotInv, BallotsComeFromThePanel, BallotedRoomsAreFull,
              UnforcedBallotsAgree, BallotsOf
<1> QED
  BY <1>1, <1>2, <1>3, <1>4, OtherStepsKeepRooms

LEMMA BallotInvariant == Spec => []BallotInv
<1>1. Init => BallotInv
  BY DEF Init, BallotInv, BallotsComeFromThePanel, BallotedRoomsAreFull,
         UnforcedBallotsAgree
<1>2. LinkInv => LinksMatchPanels
  BY DEF LinkInv
<1> QED
  BY <1>1, <1>2, BallotStep, LinkInvariant, SizeInvariant, TypeCorrect, PTL DEF Spec

\* A ballot never outlives the draw that its judge was given a link for
\* (the cascade from spar_rooms when do_confirm_draw deletes them).
THEOREM BallotsStayWithTheirPanel == Spec => []BallotsComeFromThePanel
BY BallotInvariant, PTL DEF BallotInv

\* Whatever was edited, ballots are for rooms with one or two speakers in every
\* team, which of_id and compute_scores rely on.
THEOREM BallotsAreOfFullRooms == Spec => []BallotedRoomsAreFull
BY BallotInvariant, PTL DEF BallotInv

\* The two readings of a room's ballots (SparRoom::canonical_ballot and
\* Spar::canonical_ballots) differ only after a forced one.
THEOREM ReadingsAgreeUnlessForced == Spec => []UnforcedReadingsAgree
<1>1. UnforcedBallotsAgree => UnforcedReadingsAgree
  BY DEF UnforcedBallotsAgree, UnforcedReadingsAgree, RoomCanonical, SparCanonical,
         BallotsOf
<1> QED
  BY <1>1, BallotInvariant, PTL DEF BallotInv
==============================================================================
