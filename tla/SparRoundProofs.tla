--------------------------- MODULE SparRoundProofs ---------------------------
(****************************************************************************)
(* Proofs about SparRound, for any members, teams, spars and drafts: types, *)
(* that nobody is double-booked, drafts against sign-ups, and sessions.     *)
(****************************************************************************)
EXTENDS SparClaims, DrawProofs

-----------------------------------------------------------------------------
(* Types.                                                                   *)

LEMMA DrawIsSeq == Draw = Seq(DraftDrawRoom)
BY DEF Draw

LEMMA TaskCases ==
  ASSUME NEW t \in Task
  PROVE  /\ t.stage = "solving" => t.signups \in SignupTable
         /\ t.stage = "storing" => t.rooms \in Draw
BY DEF Task, Idle, Draw

LEMMA DraftCases ==
  ASSUME TypeOK, NEW d \in Drafts, HasData(d)
  PROVE  /\ drafts[d] \in DraftRow
         /\ drafts[d].spar \in Spars
         /\ drafts[d].data \in DraftDrawData
         /\ drafts[d].data.rooms \in Draw
BY DEF TypeOK, HasData, DraftRow, DraftDrawData, Draw

LEMMA NewLinksAreLinks ==
  ASSUME NEW s \in Spars, NEW draw \in Draw, NEW n \in 1..MaxConfirms
  PROVE  NewLinks(s, draw, n) \subseteq Link
<1> SUFFICES ASSUME NEW p \in (DOMAIN draw) \X Members
             PROVE  [key |-> <<n, p[1], p[2]>>, spar |-> s, room |-> p[1],
                     member |-> p[2], expired |-> FALSE] \in Link
  BY DEF NewLinks
<1>1. p[1] \in Nat \ {0} /\ p[2] \in Members
  BY RoomsOfDraw
<1> QED
  BY <1>1 DEF Link, Key

\* A background task belongs to a draft that is still without data.
TasksMatchDrafts ==
  \A d \in Drafts : tasks[d].stage # "idle" =>
    drafts[d] \in DraftRow /\ drafts[d].data = Null

TypeInv == TypeOK /\ TasksMatchDrafts

\* An edit keeps the type of a draft only if nobody has two places in it
\* (FindLoc would be free to answer with either), so types and bookings are
\* invariant together.
BookingInv == TypeInv /\ NobodyIsDoubleBooked

LEMMA BookingInit == Init => BookingInv
BY SparStateAssumption
   DEF Init, BookingInv, TypeInv, TypeOK, TasksMatchDrafts, SignupTable, Task,
       Idle, NobodyIsDoubleBooked, NoDoubleBooking, Positions, HasData

\* The row that each of the organisers' actions leaves for its spar.
MadeRow(b)      == [is_open |-> b, release_draw |-> FALSE, is_complete |-> FALSE]
OpenedRow(s, b) == [is_open |-> b,
                    release_draw |-> IF b THEN FALSE ELSE spars[s].release_draw,
                    is_complete |-> spars[s].is_complete]
ReleasedRow(s, b) == [is_open |-> IF b THEN FALSE ELSE spars[s].is_open,
                      release_draw |-> b,
                      is_complete |-> spars[s].is_complete]
CompletedRow(s) == [is_open |-> FALSE, release_draw |-> spars[s].release_draw,
                    is_complete |-> TRUE]

LEMMA RowsWritten ==
  ASSUME TypeOK, NEW s \in Spars, NEW b \in BOOLEAN
  PROVE  /\ MakeSession(s, b) => MadeRow(b) \in SparRow
                                 /\ spars' = [spars EXCEPT ![s] = MadeRow(b)]
         /\ SetIsOpen(s, b) => OpenedRow(s, b) \in SparRow
                               /\ spars' = [spars EXCEPT ![s] = OpenedRow(s, b)]
         /\ ReleaseDraw(s, b) => ReleasedRow(s, b) \in SparRow
                                 /\ spars' = [spars EXCEPT ![s] = ReleasedRow(s, b)]
         /\ MarkSparComplete(s, b) => CompletedRow(s) \in SparRow
                                      /\ spars' = [spars EXCEPT ![s] = CompletedRow(s)]
<1>1. s \in Started => spars[s] \in SparRow
  BY DEF TypeOK, Started
<1>2. MakeSession(s, b) => MadeRow(b) \in SparRow /\ spars' = [spars EXCEPT ![s] = MadeRow(b)]
  BY DEF MakeSession, MadeRow, SparRow
<1>3. SetIsOpen(s, b) => OpenedRow(s, b) \in SparRow
                         /\ spars' = [spars EXCEPT ![s] = OpenedRow(s, b)]
  BY <1>1 DEF SetIsOpen, OpenedRow, SparRow, TypeOK
<1>4. ReleaseDraw(s, b) => ReleasedRow(s, b) \in SparRow
                           /\ spars' = [spars EXCEPT ![s] = ReleasedRow(s, b)]
  BY <1>1 DEF ReleaseDraw, ReleasedRow, SparRow, TypeOK
<1>5. MarkSparComplete(s, b) => CompletedRow(s) \in SparRow
                                /\ spars' = [spars EXCEPT ![s] = CompletedRow(s)]
  BY <1>1 DEF MarkSparComplete, CompletedRow, SparRow, TypeOK
<1> QED
  BY <1>2, <1>3, <1>4, <1>5

LEMMA SparsAreTyped ==
  ASSUME TypeOK, NEW s \in Spars, NEW b \in BOOLEAN,
         \/ MakeSession(s, b) \/ SetIsOpen(s, b)
         \/ ReleaseDraw(s, b) \/ MarkSparComplete(s, b)
  PROVE  spars' \in [Spars -> SparRow \cup {NoRow}]
BY RowsWritten DEF TypeOK

LEMMA TypeStep == BookingInv /\ [Next]_vars => TypeInv'
<1> SUFFICES ASSUME TypeInv, NobodyIsDoubleBooked, [Next]_vars
             PROVE  TypeInv'
  BY DEF BookingInv
<1> USE SparStateAssumption DEF TypeInv
<1>1. ASSUME NEW s \in Spars, NEW b \in BOOLEAN,
             MakeSession(s, b) \/ SetIsOpen(s, b) \/ MarkSparComplete(s, b)
      PROVE  TypeInv'
  BY <1>1, SparsAreTyped
     DEF MakeSession, SetIsOpen, MarkSparComplete, TypeOK, TasksMatchDrafts
<1>2. ASSUME NEW s \in Spars, NEW b \in BOOLEAN, ReleaseDraw(s, b)
      PROVE  TypeInv'
  <2>1. outbox' \subseteq Mail
    BY <1>2 DEF ReleaseDraw, LinkMails, TypeOK, Mail, Link
  <2> QED
    BY <1>2, <2>1, SparsAreTyped DEF ReleaseDraw, TypeOK, TasksMatchDrafts
<1>3. ASSUME NEW s \in Spars, NEW f \in SignupForms,
             RegisterForSpar(s, f.member, f.signup)
      PROVE  TypeInv'
  <2>1. signups' \in [Spars -> SignupTable]
    BY <1>3 DEF RegisterForSpar, TypeOK, SignupTable
  <2> QED
    BY <1>3, <2>1 DEF RegisterForSpar, TypeOK, TasksMatchDrafts
<1>4. ASSUME NEW s \in Spars, NEW d \in Drafts, GenerateDraw(s, d)
      PROVE  TypeInv'
  <2>1. Solving(signups[s]) \in Task /\ [spar |-> s, data |-> Null] \in DraftRow
    BY DEF TypeOK, Task, Solving, DraftRow
  <2> QED
    BY <1>4, <2>1 DEF GenerateDraw, TypeOK, TasksMatchDrafts
<1>5. ASSUME NEW d \in Drafts, SolveDraw(d)
      PROVE  TypeInv'
  <2>1. PICK draw \in PossibleDraws(tasks[d].signups) :
          tasks' = [tasks EXCEPT ![d] = Storing(draw)]
    BY <1>5 DEF SolveDraw
  <2>2. tasks[d].signups \in SignupTable
    BY <1>5, TaskCases DEF SolveDraw, TypeOK
  <2>3. Storing(draw) \in Task
    BY <2>2, SolverPlacesEverybodyOnce, DrawIsSeq DEF Storing, Task
  <2> QED
    BY <1>5, <2>1, <2>3 DEF SolveDraw, TypeOK, TasksMatchDrafts
<1>6. ASSUME NEW d \in Drafts, SolverPanics(d) \/ StoreFails(d)
      PROVE  TypeInv'
  <2>1. Idle \in Task /\ Idle.stage = "idle"
    BY DEF Task, Idle
  <2> QED
    BY <1>6, <2>1 DEF SolverPanics, StoreFails, TypeOK, TasksMatchDrafts
<1>7. ASSUME NEW d \in Drafts, StoreDraw(d)
      PROVE  TypeInv'
  <2>1. WithIdMap(tasks[d].rooms) \in DraftDrawData
    BY <1>7, TaskCases, DrawIsSeq DEF StoreDraw, TypeOK, WithIdMap, DraftDrawData, Placed
  <2>2. drafts[d] \in DraftRow
    BY <1>7 DEF StoreDraw, TasksMatchDrafts
  <2>3. [drafts[d] EXCEPT !.data = WithIdMap(tasks[d].rooms)] \in DraftRow
    BY <2>1, <2>2 DEF DraftRow
  <2>4. Idle \in Task /\ Idle.stage = "idle"
    BY DEF Task, Idle
  <2> QED
    BY <1>7, <2>3, <2>4 DEF StoreDraw, TypeOK, TasksMatchDrafts
<1>8. ASSUME NEW d \in Drafts, NEW action \in Edits, EditDraw(d, action)
      PROVE  TypeInv'
  <2>1. /\ drafts[d] \in DraftRow /\ drafts[d].data \in DraftDrawData
        /\ NoDoubleBooking(drafts[d].data.rooms)
    BY <1>8, DraftCases DEF EditDraw, NobodyIsDoubleBooked
  <2>2. Apply(drafts[d].data, action) \in DraftDrawData
    BY <1>8, <2>1, EditsKeepDraw DEF EditDraw
  <2>3. /\ [drafts[d] EXCEPT !.data = Apply(@, action)] \in DraftRow
        /\ drafts' = [drafts EXCEPT ![d] = [drafts[d] EXCEPT !.data = Apply(@, action)]]
    BY <1>8, <2>1, <2>2 DEF DraftRow, EditDraw, TypeOK
  <2>4. tasks[d].stage = "idle"
    BY <1>8 DEF TasksMatchDrafts, EditDraw, HasData
  <2> QED
    BY <1>8, <2>3, <2>4 DEF EditDraw, TypeOK, TasksMatchDrafts
<1>9. ASSUME NEW d \in Drafts, ConfirmDraw(d)
      PROVE  TypeInv'
  <2> DEFINE s == drafts[d].spar
             draw == drafts[d].data.rooms
  <2>1. s \in Spars /\ draw \in Draw /\ confirms + 1 \in 1..MaxConfirms
    BY <1>9, DraftCases DEF ConfirmDraw, TypeOK
  <2>2. links' \subseteq Link
    BY <1>9, <2>1, NewLinksAreLinks DEF ConfirmDraw, TypeOK
  <2>3. rooms' \in [Spars -> Seq(DraftDrawRoom)] /\ ballots' \in [Spars -> Seq(Ballot)]
    BY <1>9, <2>1, DrawIsSeq DEF ConfirmDraw, TypeOK
  <2> QED
    BY <1>9, <2>1, <2>2, <2>3 DEF ConfirmDraw, TypeOK, TasksMatchDrafts
<1>10. ASSUME NEW mail \in inbox, NEW sheet \in Sheets, NEW force \in BOOLEAN,
              SubmitBallot(mail.key, sheet, force)
       PROVE  TypeInv'
  <2>1. PICK l \in links :
          /\ \E ballot \in NewBallots(l, sheet, force) :
               ballots' = [ballots EXCEPT ![l.spar] = Append(@, ballot)]
          /\ UNCHANGED <<spars, signups, drafts, tasks, rooms, links, confirms,
                         outbox, inbox>>
    BY <1>10 DEF SubmitBallot
  <2>2. l \in Link /\ ballots[l.spar] \in Seq(Ballot)
    BY <2>1 DEF TypeOK, Link
  <2>3. Clock(l.spar) \subseteq Nat
    <3> DEFINE held == ballots[l.spar]
    <3>1. CASE held = <<>>
      BY <3>1 DEF Clock
    <3>2. CASE held # <<>>
      <4>1. Len(held) \in 1..Len(held)
        BY <2>2, <3>2, EmptySeq
      <4>2. held[Len(held)] \in Ballot
        BY <2>2, <4>1, ElementOfSeq
      <4> QED
        BY <3>2, <4>2 DEF Clock, Ballot
    <3> QED
      BY <3>1, <3>2
  <2>4. PICK ballot \in NewBallots(l, sheet, force) :
               ballots' = [ballots EXCEPT ![l.spar] = Append(@, ballot)]
    BY <2>1
  <2>5. ballot \in Ballot
    BY <2>2, <2>3 DEF NewBallots, Link, Ballot
  <2>6. ballots' \in [Spars -> Seq(Ballot)]
    BY <2>2, <2>4, <2>5, AppendProperties DEF TypeOK
  <2> QED
    BY <2>1, <2>6 DEF TypeOK, TasksMatchDrafts
<1>11. ASSUME NEW s \in Spars, LinksExpire(s)
       PROVE  TypeInv'
  <2>1. links' \subseteq Link
    <3> SUFFICES ASSUME NEW l \in links
                 PROVE  l \in Link /\ [l EXCEPT !.expired = TRUE] \in Link
      BY <1>11 DEF LinksExpire
    <3>1. l \in Link
      BY DEF TypeOK
    <3> QED
      BY <3>1 DEF Link
  <2> QED
    BY <1>11, <2>1 DEF LinksExpire, TypeOK, TasksMatchDrafts
<1>12. ASSUME NEW mail \in outbox, DeliverMail(mail) \/ LoseMail(mail)
       PROVE  TypeInv'
  BY <1>12 DEF DeliverMail, LoseMail, TypeOK, TasksMatchDrafts
<1>13. CASE Restart
  <2>1. Idle \in Task /\ Idle.stage = "idle"
    BY DEF Task, Idle
  <2> QED
    BY <1>13, <2>1 DEF Restart, TypeOK, TasksMatchDrafts
<1>14. ASSUME NEW s \in Spars, ReleasePanics(s)
       PROVE  TypeInv'
  <2>1. LinkMails(s) \subseteq Mail
    BY DEF LinkMails, TypeOK, Mail, Link
  <2> QED
    BY <1>14, <2>1 DEF ReleasePanics, TypeOK, TasksMatchDrafts
<1>15. CASE UNCHANGED vars
  BY <1>15 DEF vars, TypeOK, TasksMatchDrafts
<1> QED
  BY <1>1, <1>2, <1>3, <1>4, <1>5, <1>6, <1>7, <1>8, <1>9, <1>10, <1>11, <1>12,
     <1>13, <1>14, <1>15 DEF Next, Service, Failure

LEMMA BookingStep == BookingInv /\ [Next]_vars => NobodyIsDoubleBooked'
<1> SUFFICES ASSUME TypeOK, TasksMatchDrafts, NobodyIsDoubleBooked, [Next]_vars
             PROVE  NobodyIsDoubleBooked'
  BY DEF BookingInv, TypeInv
<1> USE SparStateAssumption
<1>1. ASSUME NEW s \in Spars, NEW d \in Drafts, GenerateDraw(s, d)
      PROVE  NobodyIsDoubleBooked'
  BY <1>1 DEF GenerateDraw, NobodyIsDoubleBooked, HasData, Solving, TypeOK
<1>2. ASSUME NEW d \in Drafts, SolveDraw(d)
      PROVE  NobodyIsDoubleBooked'
  <2>1. PICK draw \in PossibleDraws(tasks[d].signups) :
          tasks' = [tasks EXCEPT ![d] = Storing(draw)]
    BY <1>2 DEF SolveDraw
  <2>2. NoDoubleBooking(draw)
    BY <1>2, TaskCases, SolverPlacesEverybodyOnce DEF SolveDraw, TypeOK
  <2> QED
    BY <1>2, <2>1, <2>2 DEF SolveDraw, NobodyIsDoubleBooked, HasData, Storing, TypeOK
<1>3. ASSUME NEW d \in Drafts, SolverPanics(d) \/ StoreFails(d)
      PROVE  NobodyIsDoubleBooked'
  BY <1>3 DEF SolverPanics, StoreFails, NobodyIsDoubleBooked, HasData, Idle, TypeOK
<1>4. ASSUME NEW d \in Drafts, StoreDraw(d)
      PROVE  NobodyIsDoubleBooked'
  <2>1. drafts[d] \in DraftRow
    BY <1>4 DEF StoreDraw, TasksMatchDrafts
  <2>2. drafts'[d].data.rooms = tasks[d].rooms
    BY <1>4, <2>1 DEF StoreDraw, WithIdMap, DraftRow, TypeOK
  <2>3. NoDoubleBooking(tasks[d].rooms)
    BY <1>4 DEF StoreDraw, NobodyIsDoubleBooked
  <2>4. \A e \in Drafts : e # d => drafts'[e] = drafts[e] /\ tasks'[e] = tasks[e]
    BY <1>4 DEF StoreDraw, TypeOK
  <2>5. tasks'[d].stage = "idle" /\ rooms' = rooms
    BY <1>4 DEF StoreDraw, TypeOK, Idle
  <2> QED
    BY <2>2, <2>3, <2>4, <2>5 DEF NobodyIsDoubleBooked, HasData
<1>5. ASSUME NEW d \in Drafts, NEW action \in Edits, EditDraw(d, action)
      PROVE  NobodyIsDoubleBooked'
  <2>1. /\ drafts[d] \in DraftRow /\ drafts[d].data \in DraftDrawData
        /\ NoDoubleBooking(drafts[d].data.rooms)
    BY <1>5, DraftCases DEF EditDraw, NobodyIsDoubleBooked
  <2>2. NoDoubleBooking(Apply(drafts[d].data, action).rooms)
    BY <1>5, <2>1, EditsKeepDraw DEF EditDraw
  <2>3. drafts'[d].data = Apply(drafts[d].data, action)
    BY <1>5, <2>1 DEF EditDraw, DraftRow, TypeOK
  <2>4. \A e \in Drafts : e # d => drafts'[e] = drafts[e]
    BY <1>5 DEF EditDraw, TypeOK
  <2> QED
    BY <1>5, <2>2, <2>3, <2>4 DEF EditDraw, NobodyIsDoubleBooked, HasData
<1>6. ASSUME NEW d \in Drafts, ConfirmDraw(d)
      PROVE  NobodyIsDoubleBooked'
  <2>1. rooms' = [rooms EXCEPT ![drafts[d].spar] = drafts[d].data.rooms]
    BY <1>6 DEF ConfirmDraw
  <2> QED
    BY <1>6, <2>1 DEF ConfirmDraw, NobodyIsDoubleBooked, HasData, TypeOK
<1>7. CASE Restart
  BY <1>7 DEF Restart, NobodyIsDoubleBooked, HasData, Idle
<1>8. CASE UNCHANGED <<drafts, tasks, rooms>>
  BY <1>8 DEF NobodyIsDoubleBooked, HasData
<1>9. ASSUME NEW s \in Spars, NEW b \in BOOLEAN,
             \/ MakeSession(s, b) \/ SetIsOpen(s, b)
             \/ ReleaseDraw(s, b) \/ MarkSparComplete(s, b)
      PROVE  UNCHANGED <<drafts, tasks, rooms>>
  BY <1>9 DEF MakeSession, SetIsOpen, ReleaseDraw, MarkSparComplete
<1>10. ASSUME NEW s \in Spars, NEW m, NEW signup, RegisterForSpar(s, m, signup)
       PROVE  UNCHANGED <<drafts, tasks, rooms>>
  BY <1>10 DEF RegisterForSpar
<1>11. ASSUME NEW key, NEW sheet, NEW force, SubmitBallot(key, sheet, force)
       PROVE  UNCHANGED <<drafts, tasks, rooms>>
  BY <1>11 DEF SubmitBallot
<1>12. ASSUME NEW s \in Spars, LinksExpire(s) \/ ReleasePanics(s)
       PROVE  UNCHANGED <<drafts, tasks, rooms>>
  BY <1>12 DEF LinksExpire, ReleasePanics
<1>13. ASSUME NEW mail, DeliverMail(mail) \/ LoseMail(mail)
       PROVE  UNCHANGED <<drafts, tasks, rooms>>
  BY <1>13 DEF DeliverMail, LoseMail
<1>14. CASE UNCHANGED vars
  BY <1>14, <1>8 DEF vars
<1> QED
  BY <1>1, <1>2, <1>3, <1>4, <1>5, <1>6, <1>7, <1>8, <1>9, <1>10, <1>11, <1>12,
     <1>13, <1>14 DEF Next, Service, Failure

LEMMA BookingInvariant == Spec => []BookingInv
<1>1. BookingInv /\ [Next]_vars => BookingInv'
  BY TypeStep, BookingStep DEF BookingInv
<1> QED
  BY BookingInit, <1>1, PTL DEF Spec

\* The rows of every table, the task of every draft and every mail are of their
\* kind in every reachable state.
THEOREM TypeCorrect == Spec => []TypeOK
BY BookingInvariant, PTL DEF BookingInv, TypeInv

\* Whatever the solver finds and however the draft is edited and confirmed,
\* nobody has two places in a draft or in the confirmed rooms of a spar.
THEOREM NobodyIsEverDoubleBooked == Spec => []NobodyIsDoubleBooked
BY BookingInvariant, PTL DEF BookingInv

-----------------------------------------------------------------------------
(* Drafts and confirmed draws against the sign-ups, which go on changing    *)
(* while a draw is solved, stored, edited and confirmed.                    *)

\* The people a draft's task or data speaks of are signed up for its spar.
\* PlacedAreSignedUp says so of finished drafts only, and is not inductive: the
\* solver's copy of the sign-ups and the rooms it is about to store count too.
DraftIsSignedUp(d) ==
  LET present == SignedUp(signups[drafts[d].spar])
  IN  /\ tasks[d].stage = "solving" => SignedUp(tasks[d].signups) \subseteq present
      /\ tasks[d].stage = "storing" => Placed(tasks[d].rooms) \subseteq present
      /\ HasData(d) => Placed(drafts[d].data.rooms) \subseteq present

RoomsAreSignedUp(s) == Placed(rooms[s]) \subseteq SignedUp(signups[s])

SignedInv ==
  /\ \A d \in Drafts : DraftIsSignedUp(d)
  /\ \A s \in Spars : RoomsAreSignedUp(s)

LEMMA SignedInit == Init => SignedInv
<1> SUFFICES ASSUME Init PROVE SignedInv
  OBVIOUS
<1>1. \A d \in Drafts : drafts[d] = NoRow /\ tasks[d].stage = "idle"
  BY DEF Init, Idle
<1>2. \A s \in Spars : rooms[s] = <<>> /\ Placed(<<>>) = {}
  BY DEF Init, Placed, PositionsOf, Positions
<1> QED
  BY <1>1, <1>2 DEF SignedInv, DraftIsSignedUp, RoomsAreSignedUp, HasData

\* Nobody's sign-up is ever withdrawn.
LEMMA SignupsGrow ==
  ASSUME TypeOK, [Next]_vars, NEW s \in Spars
  PROVE  SignedUp(signups[s]) \subseteq SignedUp(signups'[s])
<1>1. ASSUME NEW t \in Spars, NEW f \in SignupForms,
             RegisterForSpar(t, f.member, f.signup)
      PROVE  SignedUp(signups[s]) \subseteq SignedUp(signups'[s])
  <2>1. f.signup # NoSignup
    BY SparStateAssumption, NoSignupAssumption
  <2> QED
    BY <1>1, <2>1 DEF RegisterForSpar, SignedUp, TypeOK, SignupTable
<1>2. CASE UNCHANGED signups
  BY <1>2
<1>3. ASSUME NEW t \in Spars, NEW b \in BOOLEAN,
             \/ MakeSession(t, b) \/ SetIsOpen(t, b) \/ ReleaseDraw(t, b)
             \/ MarkSparComplete(t, b) \/ LinksExpire(t) \/ ReleasePanics(t)
      PROVE  UNCHANGED signups
  BY <1>3 DEF MakeSession, SetIsOpen, ReleaseDraw, MarkSparComplete, LinksExpire,
              ReleasePanics
<1>4. ASSUME NEW d \in Drafts,
             \/ (\E t \in Spars : GenerateDraw(t, d)) \/ SolveDraw(d)
             \/ SolverPanics(d) \/ StoreDraw(d) \/ StoreFails(d)
             \/ ConfirmDraw(d) \/ (\E action \in Edits : EditDraw(d, action))
      PROVE  UNCHANGED signups
  BY <1>4 DEF GenerateDraw, SolveDraw, SolverPanics, StoreDraw, StoreFails,
              ConfirmDraw, EditDraw
<1>5. ASSUME NEW key, NEW sheet, NEW force, SubmitBallot(key, sheet, force)
      PROVE  UNCHANGED signups
  BY <1>5 DEF SubmitBallot
<1>6. ASSUME NEW mail, DeliverMail(mail) \/ LoseMail(mail)
      PROVE  UNCHANGED signups
  BY <1>6 DEF DeliverMail, LoseMail
<1>7. CASE Restart \/ UNCHANGED vars
  BY <1>7 DEF Restart, vars
<1> QED
  BY <1>1, <1>2, <1>3, <1>4, <1>5, <1>6, <1>7 DEF Next, Service, Failure

\* A step that leaves a draft and its task alone keeps what is said of it.
LEMMA UntouchedDraft ==
  ASSUME TypeOK, TasksMatchDrafts, [Next]_vars, NEW d \in Drafts,
         DraftIsSignedUp(d), drafts'[d] = drafts[d],
         tasks'[d] = tasks[d] \/ tasks'[d].stage = "idle"
  PROVE  DraftIsSignedUp(d)'
<1>1. CASE drafts[d] = NoRow
  <2>1. tasks[d].stage = "idle"
    BY <1>1, SparStateAssumption DEF TasksMatchDrafts
  <2> QED
    BY <1>1, <2>1 DEF DraftIsSignedUp, HasData
<1>2. CASE drafts[d] # NoRow
  <2>1. drafts[d].spar \in Spars
    BY <1>2 DEF TypeOK, DraftRow
  <2>2. SignedUp(signups[drafts[d].spar]) \subseteq SignedUp(signups'[drafts[d].spar])
    BY <2>1, SignupsGrow
  <2> QED
    BY <2>2 DEF DraftIsSignedUp, HasData
<1> QED
  BY <1>1, <1>2

LEMMA UntouchedRooms ==
  ASSUME TypeOK, [Next]_vars, NEW s \in Spars, RoomsAreSignedUp(s),
         rooms'[s] = rooms[s]
  PROVE  RoomsAreSignedUp(s)'
BY SignupsGrow DEF RoomsAreSignedUp

LEMMA SignedStep == BookingInv /\ SignedInv /\ [Next]_vars => SignedInv'
<1> SUFFICES ASSUME TypeOK, TasksMatchDrafts, NobodyIsDoubleBooked, SignedInv,
                    [Next]_vars
             PROVE  SignedInv'
  BY DEF BookingInv, TypeInv
<1>1. ASSUME NEW s \in Spars, NEW d \in Drafts, GenerateDraw(s, d)
      PROVE  SignedInv'
  <2>1. /\ drafts'[d] = [spar |-> s, data |-> Null] /\ tasks'[d] = Solving(signups[s])
        /\ signups' = signups /\ rooms' = rooms
        /\ \A e \in Drafts : e # d => drafts'[e] = drafts[e] /\ tasks'[e] = tasks[e]
    BY <1>1 DEF GenerateDraw, TypeOK
  <2>2. DraftIsSignedUp(d)'
    BY <2>1 DEF DraftIsSignedUp, Solving, HasData
  <2> QED
    BY <2>1, <2>2, UntouchedDraft, UntouchedRooms DEF SignedInv
<1>2. ASSUME NEW d \in Drafts, SolveDraw(d)
      PROVE  SignedInv'
  <2>1. PICK draw \in PossibleDraws(tasks[d].signups) :
          tasks' = [tasks EXCEPT ![d] = Storing(draw)]
    BY <1>2 DEF SolveDraw
  <2>2. Placed(draw) = SignedUp(tasks[d].signups)
    BY <1>2, TaskCases, SolverPlacesEverybodyOnce DEF SolveDraw, TypeOK
  <2>3. /\ tasks'[d] = Storing(draw)
        /\ UNCHANGED <<drafts, signups, rooms>>
        /\ \A e \in Drafts : e # d => tasks'[e] = tasks[e]
    BY <1>2, <2>1 DEF SolveDraw, TypeOK
  <2>4. drafts[d].data = Null
    BY <1>2 DEF SolveDraw, TasksMatchDrafts
  <2>5. DraftIsSignedUp(d)'
    BY <1>2, <2>2, <2>3, <2>4 DEF SolveDraw, SignedInv, DraftIsSignedUp, Storing, HasData
  <2> QED
    BY <2>3, <2>5, UntouchedDraft, UntouchedRooms DEF SignedInv
<1>3. ASSUME NEW d \in Drafts, StoreDraw(d)
      PROVE  SignedInv'
  <2>1. drafts[d] \in DraftRow
    BY <1>3 DEF StoreDraw, TasksMatchDrafts
  <2>2. /\ drafts'[d].data.rooms = tasks[d].rooms
        /\ drafts'[d].spar = drafts[d].spar
        /\ tasks'[d].stage = "idle"
        /\ UNCHANGED <<signups, rooms>>
        /\ \A e \in Drafts : e # d => drafts'[e] = drafts[e] /\ tasks'[e] = tasks[e]
    BY <1>3, <2>1 DEF StoreDraw, WithIdMap, DraftRow, TypeOK, Idle
  <2>3. DraftIsSignedUp(d)'
    BY <1>3, <2>2 DEF StoreDraw, SignedInv, DraftIsSignedUp
  <2> QED
    BY <2>2, <2>3, UntouchedDraft, UntouchedRooms DEF SignedInv
<1>4. ASSUME NEW d \in Drafts, NEW action \in Edits, EditDraw(d, action)
      PROVE  SignedInv'
  <2>1. /\ drafts[d] \in DraftRow /\ drafts[d].data \in DraftDrawData
        /\ NoDoubleBooking(drafts[d].data.rooms)
    BY <1>4, DraftCases DEF EditDraw, NobodyIsDoubleBooked
  <2>2. Placed(Apply(drafts[d].data, action).rooms) \subseteq Placed(drafts[d].data.rooms)
    BY <1>4, <2>1, EditsKeepDraw, SparStateAssumption DEF EditDraw
  <2>3. /\ drafts'[d].data = Apply(drafts[d].data, action)
        /\ drafts'[d].spar = drafts[d].spar
        /\ UNCHANGED <<signups, rooms, tasks>>
        /\ \A e \in Drafts : e # d => drafts'[e] = drafts[e]
    BY <1>4, <2>1 DEF EditDraw, DraftRow, TypeOK
  <2>4. DraftIsSignedUp(d)'
    BY <1>4, <2>2, <2>3 DEF EditDraw, SignedInv, DraftIsSignedUp
  <2> QED
    BY <2>3, <2>4, UntouchedDraft, UntouchedRooms DEF SignedInv
<1>5. ASSUME NEW d \in Drafts, ConfirmDraw(d)
      PROVE  SignedInv'
  <2> DEFINE s == drafts[d].spar
  <2>1. s \in Spars /\ Placed(drafts[d].data.rooms) \subseteq SignedUp(signups[s])
    BY <1>5, DraftCases DEF ConfirmDraw, ConfirmPanics
  <2>2. /\ rooms' = [rooms EXCEPT ![s] = drafts[d].data.rooms]
        /\ UNCHANGED <<signups, drafts, tasks>>
    BY <1>5 DEF ConfirmDraw
  <2>3. /\ RoomsAreSignedUp(s)'
        /\ \A t \in Spars : t # s => rooms'[t] = rooms[t]
    BY <2>1, <2>2 DEF RoomsAreSignedUp, TypeOK
  <2> QED
    BY <2>2, <2>3, UntouchedDraft, UntouchedRooms DEF SignedInv
<1>6. ASSUME UNCHANGED <<drafts, rooms>>,
             \A d \in Drafts : tasks'[d] = tasks[d] \/ tasks'[d].stage = "idle"
      PROVE  SignedInv'
  BY <1>6, UntouchedDraft, UntouchedRooms DEF SignedInv
<1>7. ASSUME NEW d \in Drafts, SolverPanics(d) \/ StoreFails(d)
      PROVE  SignedInv'
  BY <1>7, <1>6 DEF SolverPanics, StoreFails, TypeOK, Idle
<1>8. CASE Restart
  BY <1>8, <1>6 DEF Restart, Idle
<1>9. CASE UNCHANGED <<drafts, tasks, rooms>>
  BY <1>9, <1>6
<1>10. ASSUME NEW s \in Spars, NEW b \in BOOLEAN,
             \/ MakeSession(s, b) \/ SetIsOpen(s, b)
             \/ ReleaseDraw(s, b) \/ MarkSparComplete(s, b)
      PROVE  UNCHANGED <<drafts, tasks, rooms>>
  BY <1>10 DEF MakeSession, SetIsOpen, ReleaseDraw, MarkSparComplete
<1>11. ASSUME NEW s \in Spars, NEW m, NEW signup, RegisterForSpar(s, m, signup)
       PROVE  UNCHANGED <<drafts, tasks, rooms>>
  BY <1>11 DEF RegisterForSpar
<1>12. ASSUME NEW key, NEW sheet, NEW force, SubmitBallot(key, sheet, force)
       PROVE  UNCHANGED <<drafts, tasks, rooms>>
  BY <1>12 DEF SubmitBallot
<1>13. ASSUME NEW s \in Spars, LinksExpire(s) \/ ReleasePanics(s)
       PROVE  UNCHANGED <<drafts, tasks, rooms>>
  BY <1>13 DEF LinksExpire, ReleasePanics
<1>14. ASSUME NEW mail, DeliverMail(mail) \/ LoseMail(mail)
       PROVE  UNCHANGED <<drafts, tasks, rooms>>
  BY <1>14 DEF DeliverMail, LoseMail
<1>15. CASE UNCHANGED vars
  BY <1>15, <1>9 DEF vars
<1> QED
  BY <1>1, <1>2, <1>3, <1>4, <1>5, <1>7, <1>8, <1>9, <1>10, <1>11, <1>12, <1>13,
     <1>14, <1>15 DEF Next, Service, Failure

\* Sign-ups may change at any time between the request for a draw and its
\* confirmation, and everyone in a draft or a confirmed draw still has one, so
\* that signups[&id] of do_confirm_draw never panics.
THEOREM PlacedStaySignedUp == Spec => []PlacedAreSignedUp
<1>1. SignedInv => PlacedAreSignedUp
  BY DEF SignedInv, DraftIsSignedUp, RoomsAreSignedUp, PlacedAreSignedUp, ConfirmPanics
<1> QED
  BY SignedInit, SignedStep, BookingInvariant, <1>1, PTL DEF Spec

\* Once a draft has data, every step keeps it or is one accepted edit of it: the
\* second transaction of generate_draw finds its own draft still without data.
THEOREM DraftsChangeByEditsAlone == Spec => DraftChangesByEditsOnly
<1>1. ASSUME TypeOK, TasksMatchDrafts, [Next]_vars
      PROVE  \A d \in Drafts : HasData(d) => KeptOrEdited(d)
  <2> SUFFICES ASSUME NEW d \in Drafts, HasData(d), drafts'[d] # drafts[d]
               PROVE  KeptOrEdited(d)
    BY DEF KeptOrEdited
  <2>1. drafts[d] # NoRow /\ drafts[d].data # Null
    BY DEF HasData
  <2>2. ASSUME NEW s \in Spars, NEW e \in Drafts, GenerateDraw(s, e)
        PROVE  FALSE
    BY <1>1, <2>1, <2>2 DEF GenerateDraw, TypeOK
  <2>3. ASSUME NEW e \in Drafts, StoreDraw(e)
        PROVE  FALSE
    <3>1. drafts[e].data = Null /\ e # d
      BY <1>1, <2>1, <2>3 DEF StoreDraw, TasksMatchDrafts
    <3> QED
      BY <1>1, <2>3, <3>1 DEF StoreDraw, TypeOK
  <2>4. ASSUME NEW e \in Drafts, NEW action \in Edits, EditDraw(e, action)
        PROVE  KeptOrEdited(d)
    BY <1>1, <2>4 DEF EditDraw, KeptOrEdited, TypeOK
  <2>5. CASE UNCHANGED drafts
    BY <2>5
  <2>6. ASSUME NEW e \in Drafts,
               SolveDraw(e) \/ SolverPanics(e) \/ StoreFails(e) \/ ConfirmDraw(e)
        PROVE  UNCHANGED drafts
    BY <2>6 DEF SolveDraw, SolverPanics, StoreFails, ConfirmDraw
  <2>7. CASE Restart \/ UNCHANGED vars
    BY <2>7, <2>5 DEF Restart, vars
  <2>8. ASSUME NEW s \in Spars, NEW b \in BOOLEAN,
               \/ MakeSession(s, b) \/ SetIsOpen(s, b) \/ ReleaseDraw(s, b)
               \/ MarkSparComplete(s, b) \/ LinksExpire(s) \/ ReleasePanics(s)
        PROVE  UNCHANGED drafts
    BY <2>8 DEF MakeSession, SetIsOpen, ReleaseDraw, MarkSparComplete, LinksExpire,
                ReleasePanics
  <2>9. ASSUME NEW s \in Spars, NEW m, NEW signup, RegisterForSpar(s, m, signup)
        PROVE  UNCHANGED drafts
    BY <2>9 DEF RegisterForSpar
  <2>10. ASSUME NEW key, NEW sheet, NEW force, SubmitBallot(key, sheet, force)
         PROVE  UNCHANGED drafts
    BY <2>10 DEF SubmitBallot
  <2>11. ASSUME NEW mail, DeliverMail(mail) \/ LoseMail(mail)
         PROVE  UNCHANGED drafts
    BY <2>11 DEF DeliverMail, LoseMail
  <2> QED
    BY <1>1, <2>2, <2>3, <2>4, <2>5, <2>6, <2>7, <2>8, <2>9, <2>10,
       <2>11 DEF Next, Service, Failure
<1>2. BookingInv /\ [Next]_vars => [\A d \in Drafts : HasData(d) => KeptOrEdited(d)]_vars
  BY <1>1 DEF BookingInv, TypeInv
<1> QED
  BY <1>2, BookingInvariant, PTL DEF Spec, DraftChangesByEditsOnly

-----------------------------------------------------------------------------
(* The sessions of a series keep the promise of module Sessions.            *)

SessionInv == OneCurrentSpar /\ ReleasedIsClosed

LEMMA RowsOfStarted ==
  ASSUME TypeOK, NEW s \in Started
  PROVE  /\ spars[s] \in SparRow
         /\ spars[s].is_open \in BOOLEAN
         /\ spars[s].release_draw \in BOOLEAN
         /\ spars[s].is_complete \in BOOLEAN
BY DEF TypeOK, Started, SparRow

\* Writing a row for one spar starts that spar and touches no other.
LEMMA RowWritten ==
  ASSUME TypeOK, NEW s \in Spars, NEW row \in SparRow,
         spars' = [spars EXCEPT ![s] = row]
  PROVE  /\ spars'[s] = row
         /\ \A t \in Spars : t # s => spars'[t] = spars[t]
         /\ Started' = Started \cup {s}
BY SparStateAssumption DEF TypeOK, Started

\* Only the organisers' four actions write the spars table.
LEMMA SparsUnchanged ==
  ASSUME [Next]_vars,
         ~ \E s \in Spars, b \in BOOLEAN :
             \/ MakeSession(s, b) \/ SetIsOpen(s, b)
             \/ ReleaseDraw(s, b) \/ MarkSparComplete(s, b)
  PROVE  spars' = spars
BY DEF Next, Service, Failure, RegisterForSpar, GenerateDraw, SolveDraw, SolverPanics,
       StoreDraw, StoreFails, EditDraw, ConfirmDraw, SubmitBallot, LinksExpire,
       DeliverMail, LoseMail, ReleasePanics, Restart, vars

LEMMA SessionStep == TypeOK /\ SessionInv /\ [Next]_vars => SessionInv'
<1> SUFFICES ASSUME TypeOK, OneCurrentSpar, ReleasedIsClosed, [Next]_vars
             PROVE  SessionInv'
  BY DEF SessionInv
<1>1. ASSUME NEW s \in Spars, NEW b \in BOOLEAN, MakeSession(s, b)
      PROVE  SessionInv'
  <2>1. \A t \in Started : spars[t].is_complete /\ t # s
    BY <1>1 DEF MakeSession, Started
  <2>2. /\ spars'[s] = MadeRow(b) /\ Started' = Started \cup {s}
        /\ \A t \in Spars : t # s => spars'[t] = spars[t]
    BY <1>1, RowsWritten, RowWritten
  <2>3. \A t \in Started' : t # s => t \in Started /\ spars'[t] = spars[t]
    BY <2>2 DEF Started
  <2> QED
    BY <2>1, <2>2, <2>3 DEF SessionInv, OneCurrentSpar, ReleasedIsClosed, MadeRow
<1>2. ASSUME NEW s \in Spars, NEW b \in BOOLEAN,
             SetIsOpen(s, b) \/ ReleaseDraw(s, b) \/ MarkSparComplete(s, b)
      PROVE  SessionInv'
  <2>1. s \in Started
    BY <1>2 DEF SetIsOpen, ReleaseDraw, MarkSparComplete
  <2>2. PICK row \in {OpenedRow(s, b), ReleasedRow(s, b), CompletedRow(s)} :
          row \in SparRow /\ spars' = [spars EXCEPT ![s] = row]
    BY <1>2, RowsWritten
  <2>3. /\ spars'[s] = row /\ Started' = Started
        /\ \A t \in Spars : t # s => spars'[t] = spars[t]
    <3>1. row \in SparRow /\ spars' = [spars EXCEPT ![s] = row]
      BY <2>2
    <3>2. /\ spars'[s] = row /\ Started' = Started \cup {s}
          /\ \A t \in Spars : t # s => spars'[t] = spars[t]
      BY <3>1, RowWritten
    <3> QED
      BY <2>1, <3>2
  <2>4. /\ row.is_complete = FALSE => spars[s].is_complete = FALSE
        /\ ~ (row.release_draw /\ row.is_open)
    <3>1. /\ spars[s].is_open \in BOOLEAN /\ spars[s].release_draw \in BOOLEAN
          /\ ~ (spars[s].release_draw /\ spars[s].is_open)
      BY <2>1, RowsOfStarted DEF ReleasedIsClosed
    <3>2. CASE row = OpenedRow(s, b)
      BY <3>1, <3>2 DEF OpenedRow
    <3>3. CASE row = ReleasedRow(s, b)
      BY <3>1, <3>3 DEF ReleasedRow
    <3>4. CASE row = CompletedRow(s)
      BY <3>1, <3>4 DEF CompletedRow
    <3> QED
      BY <2>2, <3>2, <3>3, <3>4
  <2>5. row.is_complete \in BOOLEAN
    BY <2>2 DEF SparRow
  <2>6. \A t \in Started : ~ spars'[t].is_complete => ~ spars[t].is_complete
    BY <2>3, <2>4, <2>5, RowsOfStarted DEF Started
  <2>7. OneCurrentSpar'
    BY <2>3, <2>6 DEF OneCurrentSpar
  <2>8. ReleasedIsClosed'
    BY <2>3, <2>4 DEF ReleasedIsClosed, Started
  <2> QED
    BY <2>7, <2>8 DEF SessionInv
<1>3. CASE spars' = spars
  BY <1>3 DEF SessionInv, OneCurrentSpar, ReleasedIsClosed, Started
<1> QED
  BY <1>1, <1>2, <1>3, SparsUnchanged

\* The two facts, in whatever order the buttons are pressed.
LEMMA SessionInvariance == Spec => []SessionInv
<1>1. Init => SessionInv
  BY DEF Init, SessionInv, OneCurrentSpar, ReleasedIsClosed, Started
<1>2. BookingInv => TypeOK
  BY DEF BookingInv, TypeInv
<1> QED
  BY <1>1, <1>2, BookingInvariant, SessionStep, PTL DEF Spec

\* At most one spar of the series is not complete: nobody can start a session
\* while another is under way.
THEOREM OneSparIsCurrent == Spec => []OneCurrentSpar
<1>1. SessionInv => OneCurrentSpar
  BY DEF SessionInv
<1> QED
  BY <1>1, SessionInvariance, PTL

\* A spar whose draw is released takes no sign-ups: releasing closes it and
\* opening it withdraws the draw, in whatever order the buttons are pressed.
THEOREM ReleasedStaysClosed == Spec => []ReleasedIsClosed
<1>1. SessionInv => ReleasedIsClosed
  BY DEF SessionInv
<1> QED
  BY <1>1, SessionInvariance, PTL

-----------------------------------------------------------------------------
(* The refinement of Sessions.                                              *)

LEMMA PhaseWritten ==
  ASSUME TypeOK, NEW s \in Spars, NEW row \in SparRow,
         spars' = [spars EXCEPT ![s] = row]
  PROVE  /\ PhaseMap' = [PhaseMap EXCEPT ![s] = RowPhase(row)]
         /\ Over' = IF row.is_complete THEN Over \cup {s} ELSE Over \ {s}
<1>1. /\ spars'[s] = row /\ row # NoRow
      /\ \A t \in Spars : t # s => spars'[t] = spars[t]
  BY SparStateAssumption DEF TypeOK
<1>2. PhaseMap' = [PhaseMap EXCEPT ![s] = RowPhase(row)]
  <2>1. (PhaseOf(s))' = RowPhase(row)
    BY <1>1 DEF PhaseOf, RowPhase
  <2>2. \A t \in Spars : t # s => (PhaseOf(t))' = PhaseOf(t)
    BY <1>1 DEF PhaseOf, RowPhase
  <2> QED
    BY <2>1, <2>2 DEF PhaseMap
<1>3. row.is_complete \in BOOLEAN
  BY DEF SparRow
<1>4. \A t \in Spars : t \in Over' <=> IF t = s THEN row.is_complete ELSE t \in Over
  BY <1>1 DEF Over, Started
<1>5. Over \subseteq Spars /\ Over' \subseteq Spars
  BY DEF Over, Started
<1> QED
  BY <1>2, <1>3, <1>4, <1>5

LEMMA PromiseStep ==
  TypeOK /\ SessionInv /\ SessionInv' /\ [Next]_vars
    => [Promise!Next]_<<PhaseMap, Over, signups>>
<1> SUFFICES ASSUME TypeOK, SessionInv, SessionInv', [Next]_vars
             PROVE  \/ Promise!Next
                    \/ UNCHANGED <<PhaseMap, Over, signups>>
  OBVIOUS
<1>1. ASSUME NEW s \in Spars, NEW b \in BOOLEAN, MakeSession(s, b)
      PROVE  \E p \in Promise!Phases : Promise!Start(s, p)
  <2> DEFINE p == RowPhase(MadeRow(b))
  <2>1. p \in {"taking sign-ups", "closed"}
    BY DEF RowPhase, MadeRow
  <2>2. PhaseMap[s] = "not started" /\ \A t \in Spars : PhaseMap[t] # "not started" => t \in Over
    BY <1>1 DEF MakeSession, PhaseMap, PhaseOf, Over, Started
  <2>3. PhaseMap' = [PhaseMap EXCEPT ![s] = p] /\ Over' = Over
    <3>1. MadeRow(b) \in SparRow /\ spars' = [spars EXCEPT ![s] = MadeRow(b)]
      BY <1>1, RowsWritten
    <3>2. /\ PhaseMap' = [PhaseMap EXCEPT ![s] = p]
          /\ Over' = IF MadeRow(b).is_complete THEN Over \cup {s} ELSE Over \ {s}
      BY <3>1, PhaseWritten
    <3>3. s \notin Over
      BY <1>1 DEF MakeSession, Over, Started
    <3>4. MadeRow(b).is_complete = FALSE
      BY DEF MadeRow
    <3> QED
      BY <3>2, <3>3, <3>4
  <2>4. signups' = signups
    BY <1>1 DEF MakeSession
  <2> QED
    BY <2>1, <2>2, <2>3, <2>4 DEF Promise!Start, Promise!Phases
<1>2. ASSUME NEW s \in Spars, NEW b \in BOOLEAN, SetIsOpen(s, b) \/ ReleaseDraw(s, b)
      PROVE  \E p \in Promise!Phases : Promise!Move(s, p)
  <2>1. s \in Started /\ signups' = signups
    BY <1>2 DEF SetIsOpen, ReleaseDraw
  <2>2. PICK row \in {OpenedRow(s, b), ReleasedRow(s, b)} :
          row \in SparRow /\ spars' = [spars EXCEPT ![s] = row]
    BY <1>2, RowsWritten
  <2>3. row.is_complete = spars[s].is_complete
    <3>1. CASE row = OpenedRow(s, b)
      BY <3>1 DEF OpenedRow
    <3>2. CASE row = ReleasedRow(s, b)
      BY <3>2 DEF ReleasedRow
    <3> QED
      BY <2>2, <3>1, <3>2
  <2>4. PhaseMap' = [PhaseMap EXCEPT ![s] = RowPhase(row)] /\ Over' = Over
    <3>1. row \in SparRow /\ spars' = [spars EXCEPT ![s] = row]
      BY <2>2
    <3>2. /\ PhaseMap' = [PhaseMap EXCEPT ![s] = RowPhase(row)]
          /\ Over' = IF row.is_complete THEN Over \cup {s} ELSE Over \ {s}
      BY <3>1, PhaseWritten
    <3>3. s \in Over <=> row.is_complete
      BY <2>1, <2>3 DEF Over
    <3> QED
      BY <3>2, <3>3
  <2>5. RowPhase(row) \in Promise!Phases
    <3>1. spars'[s] = row /\ s \in Started'
      BY <2>1, <2>2, RowWritten
    <3>2. ~ (row.release_draw /\ row.is_open)
      BY <3>1 DEF SessionInv, ReleasedIsClosed
    <3> QED
      BY <3>2 DEF RowPhase, Promise!Phases
  <2>6. PhaseMap[s] # "not started"
    BY <2>1 DEF PhaseMap, PhaseOf, Started, RowPhase
  <2> QED
    BY <2>1, <2>4, <2>5, <2>6 DEF Promise!Move
<1>3. ASSUME NEW s \in Spars, NEW b \in BOOLEAN, MarkSparComplete(s, b)
      PROVE  Promise!Finish(s)
  <2>1. s \in Started /\ signups' = signups
    BY <1>3 DEF MarkSparComplete
  <2>2. /\ PhaseMap' = [PhaseMap EXCEPT ![s] = RowPhase(CompletedRow(s))]
        /\ Over' = Over \cup {s}
    BY <1>3, RowsWritten, PhaseWritten DEF CompletedRow
  <2>3. /\ PhaseMap[s] = RowPhase(spars[s])
        /\ ~ (spars[s].release_draw /\ spars[s].is_open)
    BY <2>1 DEF PhaseMap, PhaseOf, Started, SessionInv, ReleasedIsClosed
  <2>4. /\ PhaseMap[s] # "not started"
        /\ RowPhase(CompletedRow(s)) =
             IF PhaseMap[s] = "taking sign-ups" THEN "closed" ELSE PhaseMap[s]
    BY <2>3 DEF RowPhase, CompletedRow
  <2> QED
    BY <2>1, <2>2, <2>4 DEF Promise!Finish
<1>4. ASSUME NEW s \in Spars, NEW f \in SignupForms,
             RegisterForSpar(s, f.member, f.signup)
      PROVE  \E m \in Members, e \in Signup : Promise!Enter(s, m, e)
  <2>1. f.member \in Members /\ f.signup \in Signup
    BY SparStateAssumption
  <2>2. PhaseMap[s] = "taking sign-ups"
    BY <1>4 DEF RegisterForSpar, PhaseMap, PhaseOf, RowPhase, Started
  <2>3. spars' = spars /\ signups' = [signups EXCEPT ![s][f.member] = f.signup]
    BY <1>4 DEF RegisterForSpar
  <2>4. UNCHANGED <<PhaseMap, Over>>
    BY <2>3 DEF PhaseMap, PhaseOf, Over, Started
  <2> QED
    BY <2>1, <2>2, <2>3, <2>4 DEF Promise!Enter
<1>5. CASE UNCHANGED <<spars, signups>>
  BY <1>5 DEF PhaseMap, PhaseOf, Over, Started
<1>6. \/ \E s \in Spars, b \in BOOLEAN :
           \/ MakeSession(s, b) \/ SetIsOpen(s, b)
           \/ ReleaseDraw(s, b) \/ MarkSparComplete(s, b)
      \/ \E s \in Spars, f \in SignupForms : RegisterForSpar(s, f.member, f.signup)
      \/ UNCHANGED <<spars, signups>>
  BY DEF Next, Service, Failure, GenerateDraw, SolveDraw, SolverPanics, StoreDraw,
         StoreFails, EditDraw, ConfirmDraw, SubmitBallot, LinksExpire, DeliverMail,
         LoseMail, ReleasePanics, Restart, vars
<1> QED
  BY <1>1, <1>2, <1>3, <1>4, <1>5, <1>6 DEF Promise!Next

\* The two flags and the completion mark of the spars, and the sign-ups, behave
\* as the phases of Sessions whatever else goes on.
THEOREM SessionPromiseIsKept == Spec => KeepsSessionPromise
<1>1. Init => Promise!Init /\ SessionInv
  BY DEF Init, Promise!Init, PhaseMap, PhaseOf, Over, Started, SessionInv,
         OneCurrentSpar, ReleasedIsClosed
<1>2. BookingInv => TypeOK
  BY DEF BookingInv, TypeInv
<1> QED
  BY <1>1, <1>2, BookingInvariant, SessionStep, PromiseStep, PTL
     DEF Spec, KeepsSessionPromise, Promise!Spec
==============================================================================
