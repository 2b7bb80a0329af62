----------------------------- MODULE ModelTest ------------------------------
(****************************************************************************)
(* The model-based test: a second, simpler implementation of the            *)
(* application (State, step_model) that takes the same actions, and a       *)
(* comparison of both after each of them.  Actions name rows by an index    *)
(* into the vectors of the model, clamped to a length.  An action that both *)
(* sides ignore has no effect, SubmitBallot among them: no action confirms  *)
(* a draw, so there are no rooms.  The draws that the test generates are    *)
(* solved and stored beside its next actions, and beside the next test.     *)
(****************************************************************************)
EXTENDS Handlers

CONSTANTS Indices,      \* the indexes that actions carry
          SignupForms,  \* as_judge and as_speaker
          MaxRows       \* bound: rows of each table

ASSUME ModelTestAssumption ==
  /\ Indices \subseteq Nat /\ MaxRows \in [Tables -> Nat]
  /\ PoolSize \in Nat /\ PoolSize > 0
  /\ SignupForms \subseteq [as_judge : BOOLEAN, as_speaker : BOOLEAN]

VARIABLES model,     \* State: vectors of rows, group_members, active_user
          failed     \* an assertion of the test has failed

vars == <<db, last, drawing, model, failed>>

\* usize::clamp(0, len.saturating_sub(1)), counted from one.
Clamp(i, rows) == 1 + (IF i < Len(rows) THEN i
                       ELSE IF rows = <<>> THEN 0 ELSE Len(rows) - 1)

\* The row that step_app posts to, if the model has it.
Post(rows, k, Handler(_)) ==
  IF k \in DOMAIN rows THEN Handler(rows[k].pid) \/ IsLost ELSE UNCHANGED <<db, last>>

\* The test calls the application first, so that last_id() is the new row's.
Push(table, row) == model' = [model EXCEPT ![table] = Append(@, row)]

\* The vectors have as many rows as the tables, and every row is found there by
\* its public id, with the same values in the columns that are compared.
Compared(row) ==
  [c \in DOMAIN row \ {"group", "series", "member", "spar", "release_draw",
                       "is_complete"} |-> row[c]]

SameRows(table, rows) ==
  /\ Len(table) = Len(rows)
  /\ \A k \in DOMAIN rows : \E j \in DOMAIN table : Compared(table[j]) = Compared(rows[k])

MatchesDatabase == \A t \in Tables : SameRows(db[t], model[t])

\* membership.is_admin || membership.is_superuser of the active user.
IsAdmin(group) == <<model.active, group>> \in model.admins

IsAdminOfSeries(k) == k \in DOMAIN model.series /\ IsAdmin(model.series[k].group)

IsAdminOfSpar(k) ==
  k \in DOMAIN model.spars /\ IsAdmin(model.series[model.spars[k].series].group)

-----------------------------------------------------------------------------
(* The model takes an action (step_model); last' is last_id().              *)

ModelSetup(account) ==
  IF model.users = <<>> /\ account \in ValidAccounts
    THEN Push("users", [pid |-> last', account |-> account])
    ELSE UNCHANGED model

ModelLogin(i) ==
  model' = IF model.users = <<>> THEN model
           ELSE [model EXCEPT !.active = Clamp(i, model.users)]

ModelCreateGroup(name, website) ==
  LET taken(g) == g.name = name \/ (website # NoWebsite /\ website = g.website)
  IN IF model.active # Nobody /\ name \in ValidGroupNames /\ ~ Some(model.groups, taken)
       THEN model' = [model EXCEPT
              !.groups = Append(@, [pid |-> last', name |-> name, website |-> website]),
              !.admins = @ \cup {<<model.active, Len(model.groups) + 1>>}]
       ELSE UNCHANGED model

ModelCreateSparSeries(i, title) ==
  LET group    == Clamp(i, model.groups)
      taken(s) == s.group = group /\ s.title = title
  IN IF group \in DOMAIN model.groups /\ IsAdmin(group) /\ ~ Some(model.series, taken)
       THEN Push("series", [pid |-> last', title |-> title, group |-> group])
       ELSE UNCHANGED model

ModelCreateSpar(i, open) ==
  LET k           == Clamp(i, model.series)
      complete(s) == s.series = k => s.is_complete
  IN IF IsAdminOfSeries(k) /\ \A j \in DOMAIN model.spars : complete(model.spars[j])
       THEN Push("spars", [pid |-> last', series |-> k, is_open |-> open,
                           release_draw |-> FALSE, is_complete |-> FALSE])
       ELSE UNCHANGED model

\* The index of the spar is clamped to the number of sign-ups.
SignupSpar(i)   == Clamp(i, model.signups)
SignupMember(i) == Clamp(i, model.members)

SignupCounts(s, m) ==
  s \in DOMAIN model.spars /\ m \in DOMAIN model.members /\ model.spars[s].is_open

ModelSignup(i, j, form) ==
  LET m    == SignupMember(i)
      s    == SignupSpar(j)
      mine == {k \in DOMAIN model.signups :
                 model.signups[k].member = m /\ model.signups[k].spar = s}
  IN IF ~ SignupCounts(s, m) THEN UNCHANGED model
     ELSE IF mine # {}
       THEN model' = [model EXCEPT
              !.signups[CHOOSE k \in mine : TRUE] = Changed(@, form)]
       ELSE Push("signups", [pid |-> last', member |-> m, spar |-> s,
                             as_judge |-> form.as_judge, as_speaker |-> form.as_speaker])

\* assert!(!spar.release_draw) for an open spar.
ModelPanics(s, m) == SignupCounts(s, m) /\ model.spars[s].release_draw

\* sync: the model becomes a copy of the database, except for who is active.
Sync == model' = [db EXCEPT !.active = model.active]

\* Also AddMember clamps to the number of another vector, that of the members.
MemberSeries(i) == Clamp(i, model.members)

ModelAddMember(i, name, email) ==
  IF /\ name \in ValidMemberNames /\ email \in ValidMemberEmails
     /\ IsAdminOfSeries(MemberSeries(i))
    THEN Push("members", [pid |-> last', name |-> name, email |-> email,
                          series |-> MemberSeries(i)])
    ELSE UNCHANGED model

ModelReleaseDraw(i) ==
  LET k == Clamp(i, model.spars)
  IN model' = IF IsAdminOfSpar(k)
                THEN [model EXCEPT !.spars[k].release_draw = TRUE,
                                   !.spars[k].is_open = FALSE]
                ELSE model

ModelSetSparIsOpen(i, state) ==
  LET k == Clamp(i, model.spars)
  IN model' = IF IsAdminOfSpar(k)
                THEN [model EXCEPT !.spars[k].is_open = state,
                                   !.spars[k].release_draw = IF state THEN FALSE ELSE @]
                ELSE model

-----------------------------------------------------------------------------
(* One action, taken by both (State::run).  The posts are those of step_app. *)

\* Nobody looks at the status of a response.  After the step of the application
\* comes that of the model, and assert_matches_database compares the two.
Compare(panics) ==
  /\ ~ failed
  /\ \A t \in Tables : Len(db'[t]) <= MaxRows[t]
  /\ failed' = (panics \/ ~ MatchesDatabase')

Step(panics) == Compare(panics) /\ UNCHANGED drawing

Setup(account) ==
  (DoSetup(account) \/ IsLost) /\ ModelSetup(account) /\ Step(FALSE)

\* Logging in only reads, but needs a connection.
Login(i) ==
  /\ IF model.users = <<>> THEN UNCHANGED <<db, last>>
     ELSE DoPasswordLogin(model.users[Clamp(i, model.users)].account) \/ TimesOut
  /\ ModelLogin(i)
  /\ Step(FALSE)

CreateGroup(name, website) ==
  /\ DoCreateGroup(name, website) \/ IsLost
  /\ ModelCreateGroup(name, website)
  /\ Step(FALSE)

CreateSparSeries(i, title) ==
  LET post(pid) == DoCreateNewSparSeries(pid, title)
  IN /\ Post(model.groups, Clamp(i, model.groups), post)
     /\ ModelCreateSparSeries(i, title)
     /\ Step(FALSE)

CreateSpar(i, open) ==
  LET post(pid) == DoMakeSession(pid, open)
  IN /\ Post(model.series, Clamp(i, model.series), post)
     /\ ModelCreateSpar(i, open)
     /\ Step(FALSE)

AddMember(i, name, email) ==
  LET post(pid) == DoAddMember(pid, name, email)
  IN /\ Post(model.series, MemberSeries(i), post)
     /\ ModelAddMember(i, name, email)
     /\ Step(FALSE)

ReleaseDraw(i) ==
  /\ Post(model.spars, Clamp(i, model.spars), DoReleaseDraw)
  /\ ModelReleaseDraw(i)
  /\ Step(FALSE)

SetSparIsOpen(i, state) ==
  LET post(pid) == SetIsOpen(pid, state)
  IN /\ Post(model.spars, Clamp(i, model.spars), post)
     /\ ModelSetSparIsOpen(i, state)
     /\ Step(FALSE)

Signup(i, j, form) ==
  LET m == SignupMember(i)
      post(pid) == IF m \in DOMAIN model.members
                     THEN DoRegisterForSpar(pid, model.members[m].pid, form)
                     ELSE UNCHANGED <<db, last>>
  IN /\ Post(model.spars, SignupSpar(j), post)
     /\ ModelSignup(i, j, form)
     /\ Step(ModelPanics(SignupSpar(j), m))

\* The database is read after the response, with the draw still in progress.
GenerateDrawAndSync(i) ==
  LET k == Clamp(i, model.spars)
  IN /\ \/ k \in DOMAIN model.spars /\ GenerateDraw(model.spars[k].pid)
        \/ k \in DOMAIN model.spars /\ IsLost /\ UNCHANGED drawing
        \/ k \notin DOMAIN model.spars /\ UNCHANGED <<db, last, drawing>>
     /\ Sync
     /\ Compare(FALSE)

\* Nothing waits for the tasks: one may end between any two actions.
DrawEndsBeside == DrawEnds /\ UNCHANGED <<model, failed>>

\* make_test_runner: the next sequence of actions starts from nothing, except
\* for the draws that are still in progress.
Reset ==
  /\ db' = NoRows /\ last' = NoId /\ model' = NoRows /\ failed' = FALSE
  /\ UNCHANGED drawing

\* reset_db begins with a write, on a connection without a busy_timeout: while
\* a draw is being stored it fails, after /logout and State::reset.
ResetFails ==
  /\ drawing > 0
  /\ db' = [db EXCEPT !.active = Nobody] /\ model' = NoRows /\ failed' = TRUE
  /\ UNCHANGED <<last, drawing>>

Init ==
  db = NoRows /\ last = NoId /\ drawing = 0 /\ model = NoRows /\ failed = FALSE

Next ==
  \/ \E account \in Accounts : Setup(account)
  \/ \E i \in Indices : Login(i)
  \/ \E name \in GroupNames, website \in Websites \cup {NoWebsite} :
       CreateGroup(name, website)
  \/ \E i \in Indices, title \in Titles : CreateSparSeries(i, title)
  \/ \E i \in Indices, open \in BOOLEAN : CreateSpar(i, open)
  \/ \E i \in Indices, name \in MemberNames, email \in MemberEmails :
       AddMember(i, name, email)
  \/ \E i \in Indices : ReleaseDraw(i)
  \/ \E i \in Indices, state \in BOOLEAN : SetSparIsOpen(i, state)
  \/ \E i, j \in Indices, form \in SignupForms : Signup(i, j, form)
  \/ \E i \in Indices : GenerateDrawAndSync(i)
  \/ DrawEndsBeside
  \/ Reset
  \/ ResetFails

Spec == Init /\ [][Next]_vars

-----------------------------------------------------------------------------

\* The two rows of a spar agree, or a release was lost: the model has a spar
\* released that is closed, and not released, in the database.
SparAgrees(k) ==
  \/ model.spars[k] = db.spars[k]
  \/ /\ ~ db.spars[k].is_open
     /\ model.spars[k] = [db.spars[k] EXCEPT !.release_draw = TRUE]

\* As long as the test has not failed, the two sides agree also in what it does
\* not compare: who administers what, which series, member or spar a row belongs
\* to, whether a spar is complete.  A request that is lost to a draw may leave
\* two differences unseen, and only these: a release of a closed spar, and the
\* first login, before there are any groups (State::check_*).
DriftIsConfined ==
  ~ failed =>
    /\ \A t \in Tables \ {"spars"} : model[t] = db[t]
    /\ model.admins = db.admins
    /\ model.active # db.active => db.active = Nobody /\ db.groups = <<>>
    /\ DOMAIN model.spars = DOMAIN db.spars
    /\ \A k \in DOMAIN db.spars : SparAgrees(k)

\* The model adds a member whose name or e-mail one of its members has:
\* do_add_member refuses it, in whichever series, and the AddMember arm of
\* step_model does not.
AddsTaken ==
  LET rows  == model'.members
      added == model.members # rows /\ rows # <<>>
      taken(m) == m.name = rows[Len(rows)].name \/ m.email = rows[Len(rows)].email
  IN added /\ Some(model.members, taken)

\* The application changes no table while a draw is in progress.
MayBeLost == drawing > 0 /\ \A t \in Tables : db'[t] = db[t]

\* A duplicate member always fails the test.  Otherwise it fails, or its two sides
\* first part, only with a request that is lost to a draw in progress, or after a
\* first login that was: all other refusals and all that is written agree.
EveryFailureHasAReason ==
  [][~ failed =>
       /\ AddsTaken => failed'
       /\ failed' \/ (model = db /\ model' # db') =>
            AddsTaken \/ MayBeLost \/ model.active # db.active]_vars
==============================================================================
