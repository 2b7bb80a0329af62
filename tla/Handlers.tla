------------------------------ MODULE Handlers ------------------------------
(****************************************************************************)
(* The handlers that the model-based test posts to, over the tables they    *)
(* write.  A row is known to the outside by its public id; its position in  *)
(* its table is its primary key, since only the reset of the test deletes   *)
(* rows.  A refused request changes nothing.  One browser sends all         *)
(* requests, so the login cookie is a single value.                         *)
(*                                                                          *)
(* A draw goes on being solved and stored after its request, on a thread    *)
(* and a connection of its own, while the next requests are served.  They   *)
(* may be lost for it (IsLost).                                             *)
(****************************************************************************)
EXTENDS Sequences, Integers, FiniteSets

CONSTANTS Accounts,       \* what is typed into the set-up form
          ValidAccounts,  \* with a user name, e-mail and password that pass
          GroupNames, ValidGroupNames, Websites, Titles,
          MemberNames, ValidMemberNames, MemberEmails, ValidMemberEmails,
          Nobody,         \* nobody is logged in
          NoWebsite,      \* a group without one
          NoId,           \* an id that no row of these tables has
          TeamsOfARoom,   \* four in the code
          PoolSize        \* the connections of the pool; ten in the code

VARIABLES db,             \* the tables, and the user of the login cookie
          last,           \* PREV_IDS: the last uuid that gen_uuid has returned
          drawing         \* how many draws are being solved or stored

Tables == {"users", "groups", "series", "members", "spars", "signups"}

NoRows ==
  [users |-> <<>>, groups |-> <<>>, series |-> <<>>, members |-> <<>>, spars |-> <<>>,
   signups |-> <<>>, admins |-> {}, active |-> Nobody]

\* gen_uuid: a uuid is named after the row it is generated for.
NewId(table) == <<table, Len(db[table]) + 1>>

\* Whether a table has a row with this public id, and its primary key.
Known(table, pid) == \E k \in DOMAIN db[table] : db[table][k].pid = pid
Key(table, pid)   == CHOOSE k \in DOMAIN db[table] : db[table][k].pid = pid

Some(rows, Test(_)) == \E k \in DOMAIN rows : Test(rows[k])

\* The reply to a request that may insert a row.
Insert(accepted, table, row) ==
  IF accepted
    THEN /\ db' = [db EXCEPT ![table] = Append(@, row)]
         /\ last' = NewId(table)
    ELSE UNCHANGED <<db, last>>

\* check_modify_resource_in_group: creators are admins with signing power,
\* and there are no other members of a group.
MayModify(group) == <<db.active, group>> \in db.admins

\* ModifyResourceInGroup for the series or spar of a request.
MayModifySeries(pid) ==
  /\ Known("series", pid)
  /\ MayModify(db.series[Key("series", pid)].group)

MayModifySpar(pid) ==
  /\ Known("spars", pid)
  /\ MayModify(db.series[db.spars[Key("spars", pid)].series].group)

\* Change the row of a spar, if the request is allowed to.
UpdateSpar(pid, Change(_)) ==
  /\ db' = IF MayModifySpar(pid)
             THEN [db EXCEPT !.spars[Key("spars", pid)] = Change(@)]
             ELSE db
  /\ UNCHANGED last

\* A sign-up with the roles of another form.
Changed(signup, form) ==
  [signup EXCEPT !.as_judge = form.as_judge, !.as_speaker = form.as_speaker]

-----------------------------------------------------------------------------
(* Handlers with a plausible mistake in each, for mutation testing.         *)

\* do_create_group that counts having no website as having the same one.
DoCreateGroupByWebsite(name, website) ==
  LET taken(g) == g.name = name \/ g.website = website
      accepted == /\ db.active # Nobody
                  /\ name \in ValidGroupNames
                  /\ ~ Some(db.groups, taken)
  IN IF accepted
       THEN /\ last' = NewId("groups")
            /\ db' = [db EXCEPT
                 !.groups = Append(@, [pid |-> last', name |-> name, website |-> website]),
                 !.admins = @ \cup {<<db.active, Len(db.groups) + 1>>}]
       ELSE UNCHANGED <<db, last>>

\* set_is_open that leaves the draw released.
SetIsOpenOnly(spar, state) ==
  LET change(row) == [row EXCEPT !.is_open = state]
  IN UpdateSpar(spar, change)

-----------------------------------------------------------------------------
(* The handlers.                                                            *)

\* do_setup: only while there are no users.
DoSetup(account) ==
  Insert(db.users = <<>> /\ account \in ValidAccounts,
         "users", [pid |-> NewId("users"), account |-> account])

\* do_password_login: by the e-mail and password of the account.
DoPasswordLogin(account) ==
  LET found == {k \in DOMAIN db.users : db.users[k].account = account}
  IN /\ db' = IF db.active = Nobody /\ found # {}
                THEN [db EXCEPT !.active = CHOOSE k \in found : TRUE]
                ELSE db
     /\ UNCHANGED last

\* do_create_group; the creator becomes an admin with signing power.
DoCreateGroup(name, website) ==
  LET taken(g) == g.name = name \/ (website # NoWebsite /\ g.website = website)
      accepted == /\ db.active # Nobody
                  /\ name \in ValidGroupNames
                  /\ ~ Some(db.groups, taken)
  IN IF accepted
       THEN /\ last' = NewId("groups")
            /\ db' = [db EXCEPT
                 !.groups = Append(@, [pid |-> last', name |-> name, website |-> website]),
                 !.admins = @ \cup {<<db.active, Len(db.groups) + 1>>}]
       ELSE UNCHANGED <<db, last>>

\* do_create_new_spar_series: the uuid is generated before the titles of the
\* group are compared.
DoCreateNewSparSeries(group, title) ==
  LET key      == Key("groups", group)
      taken(s) == s.group = key /\ s.title = title
  IN IF ~ (Known("groups", group) /\ MayModify(key)) THEN UNCHANGED <<db, last>>
     ELSE IF Some(db.series, taken) THEN last' = NoId /\ UNCHANGED db
     ELSE Insert(TRUE, "series",
                 [pid |-> NewId("series"), title |-> title, group |-> key])

\* do_add_member: a name or e-mail may be used once, in all series together.
DoAddMember(series, name, email) ==
  LET taken(m) == m.name = name \/ m.email = email
  IN Insert(/\ MayModifySeries(series)
            /\ name \in ValidMemberNames /\ email \in ValidMemberEmails
            /\ ~ Some(db.members, taken),
            "members",
            [pid |-> NewId("members"), name |-> name, email |-> email,
             series |-> Key("series", series)])

\* do_make_session: while no spar of the series is incomplete.
DoMakeSession(series, open) ==
  LET underWay(s) == s.series = Key("series", series) /\ ~ s.is_complete
  IN Insert(MayModifySeries(series) /\ ~ Some(db.spars, underWay),
            "spars",
            [pid |-> NewId("spars"), series |-> Key("series", series),
             is_open |-> open, release_draw |-> FALSE, is_complete |-> FALSE])

\* do_release_draw with released=true.
DoReleaseDraw(spar) ==
  LET change(row) == [row EXCEPT !.release_draw = TRUE, !.is_open = FALSE]
  IN UpdateSpar(spar, change)

\* set_is_open.
SetIsOpen(spar, state) ==
  LET change(row) == [row EXCEPT !.is_open = state,
                                 !.release_draw = IF state THEN FALSE ELSE @]
  IN UpdateSpar(spar, change)

\* do_register_for_spar without a partner: nobody has to be logged in, and the
\* member may be one of any series.
DoRegisterForSpar(spar, member, form) ==
  LET s    == Key("spars", spar)
      m    == Key("members", member)
      open == /\ Known("spars", spar) /\ Known("members", member)
              /\ db.spars[s].is_open /\ ~ db.spars[s].release_draw
      mine == {k \in DOMAIN db.signups :
                 db.signups[k].spar = s /\ db.signups[k].member = m}
  IN IF open /\ mine # {}
       THEN /\ db' = [db EXCEPT !.signups = [k \in DOMAIN @ |->
                 IF k \in mine THEN Changed(@[k], form) ELSE @[k]]]
            /\ UNCHANGED last
       ELSE Insert(open, "signups",
                   [pid |-> NewId("signups"), member |-> m, spar |-> s,
                    as_judge |-> form.as_judge, as_speaker |-> form.as_speaker])

\* The checks of generate_draw; nobody names a partner here.
ChecksPass(spar) ==
  LET signups    == {k \in DOMAIN db.signups : db.signups[k].spar = spar}
      judges     == {k \in signups : db.signups[k].as_judge}
      only_speak == {k \in signups \ judges : db.signups[k].as_speaker}
  IN /\ Cardinality(only_speak) >= TeamsOfARoom
     /\ Cardinality(judges) * 2 * TeamsOfARoom >= Cardinality(only_speak)

\* generate_draw: of the tables above it writes none, but there is the uuid of a
\* draft, and a task that keeps the connection of the request.
GenerateDraw(spar) ==
  IF MayModifySpar(spar) /\ ChecksPass(Key("spars", spar))
    THEN /\ drawing < PoolSize
         /\ drawing' = drawing + 1 /\ last' = NoId /\ UNCHANGED db
    ELSE UNCHANGED <<db, last, drawing>>

\* The task ends: its draw is stored, or it has panicked.
DrawEnds ==
  /\ drawing > 0
  /\ drawing' = drawing - 1
  /\ UNCHANGED <<db, last>>

\* A request is lost to a draw in progress.  The transaction that stores the draw
\* has the write lock, or has committed since the handler's first read, so that
\* its first write fails and its unwrap panics (module DeferredTx): nothing
\* changes, but a new row already had its uuid.
IsLost == drawing > 0 /\ last' \in {last, NoId} /\ UNCHANGED db

\* A request is lost for want of a connection: draws have them all, until the
\* guard times out (module ConnectionPool).
TimesOut == drawing = PoolSize /\ UNCHANGED <<db, last>>
==============================================================================
