--------------------------- MODULE ModelTestProofs ---------------------------
(****************************************************************************)
(* Which differences between the model and the application the model-based  *)
(* test may overlook, and what makes it fail: for any accounts, names,      *)
(* indexes, any number of rows, and any number of draws beside it.          *)
(****************************************************************************)
EXTENDS ModelTest, SequenceTheorems, TLAPS

Pid == Tables \X Nat

UserRow   == [pid : Pid, account : ValidAccounts]
GroupRow  == [pid : Pid, name : ValidGroupNames, website : Websites \cup {NoWebsite}]
SeriesRow == [pid : Pid, title : Titles, group : Nat]
MemberRow == [pid : Pid, name : ValidMemberNames, email : ValidMemberEmails, series : Nat]
SparRow   == [pid : Pid, series : Nat, is_open : BOOLEAN, release_draw : BOOLEAN,
           is_complete : BOOLEAN]
SignupRow == [pid : Pid, member : Nat, spar : Nat, as_judge : BOOLEAN, as_speaker : BOOLEAN]

RowsOf == [users |-> UserRow, groups |-> GroupRow, series |-> SeriesRow,
           members |-> MemberRow, spars |-> SparRow, signups |-> SignupRow]

DbTypeOK ==
  db \in [users : Seq(UserRow), groups : Seq(GroupRow), series : Seq(SeriesRow),
          members : Seq(MemberRow), spars : Seq(SparRow), signups : Seq(SignupRow),
          admins : SUBSET (Nat \X Nat), active : Nat \cup {Nobody}]

\* The public id of a row names its table and its primary key.
RowsAreNumbered ==
  \A t \in Tables : \A k \in DOMAIN db[t] : db[t][k].pid = <<t, k>>

\* What the test takes for granted: the n-th user is the one of the login
\* cookie, an open spar is not released, and somebody's sign-up is one row.
OneUser == Len(db.users) <= 1 /\ db.active \in {Nobody} \cup DOMAIN db.users

NoneOpenAndReleased ==
  \A k \in DOMAIN db.spars : ~ (db.spars[k].is_open /\ db.spars[k].release_draw)

SignupsAreUnique ==
  \A j, k \in DOMAIN db.signups :
    /\ db.signups[j].member = db.signups[k].member
    /\ db.signups[j].spar = db.signups[k].spar
    => j = k

DbInv == /\ DbTypeOK /\ RowsAreNumbered /\ OneUser
         /\ NoneOpenAndReleased /\ SignupsAreUnique

\* As long as the test has not failed: the model differs from the database in
\* releases of closed spars and in the first login at most, so that both sides
\* allow and refuse the same.
Near ==
  /\ DOMAIN model = DOMAIN db
  /\ \A t \in Tables \ {"spars"} : model[t] = db[t]
  /\ model.admins = db.admins
  /\ model.active \in {Nobody} \cup DOMAIN db.users
  /\ model.active # db.active => db.active = Nobody
  /\ db.active = Nobody => db.groups = <<>>
  /\ db.groups = <<>> => db.admins = {}
  /\ model.spars \in Seq(SparRow) /\ DOMAIN model.spars = DOMAIN db.spars
  /\ \A k \in DOMAIN db.spars : SparAgrees(k)

TestInv == DbInv /\ (~ failed => Near)

-----------------------------------------------------------------------------
(* Rows and their ids.                                                      *)

LEMMA TablesAreSequences ==
  ASSUME DbTypeOK, NEW t \in Tables
  PROVE  /\ t \in DOMAIN db /\ NewId(t) \in Pid
         /\ Len(db[t]) \in Nat /\ DOMAIN db[t] = 1..Len(db[t])
         /\ \E S : db[t] \in Seq(S)
<1>1. t \in DOMAIN db /\ \E S : db[t] \in Seq(S)
  BY DEF DbTypeOK, Tables
<1>2. PICK S : db[t] \in Seq(S)
  BY <1>1
<1>3. Len(db[t]) \in Nat /\ DOMAIN db[t] = 1..Len(db[t])
  BY <1>2
<1> QED
  BY <1>1, <1>3 DEF NewId, Pid

LEMMA KeyOfRow ==
  ASSUME RowsAreNumbered, NEW t \in Tables, NEW k \in DOMAIN db[t]
  PROVE  Known(t, db[t][k].pid) /\ Key(t, db[t][k].pid) = k
<1>1. \A j \in DOMAIN db[t] : db[t][j].pid = <<t, j>>
  BY DEF RowsAreNumbered
<1>2. \A j \in DOMAIN db[t] : db[t][j].pid = db[t][k].pid => j = k
  BY <1>1
<1> QED
  BY <1>2 DEF Known, Key

LEMMA KeyOfKnown ==
  ASSUME DbTypeOK, NEW t \in Tables, NEW pid, Known(t, pid)
  PROVE  /\ Key(t, pid) \in DOMAIN db[t] /\ Key(t, pid) \in Nat
         /\ db[t][Key(t, pid)].pid = pid
BY TablesAreSequences DEF Known, Key

LEMMA AppendRow ==
  ASSUME NEW S, NEW rows \in Seq(S), NEW row \in S
  PROVE  /\ Append(rows, row) \in Seq(S)
         /\ Len(Append(rows, row)) = Len(rows) + 1
         /\ DOMAIN Append(rows, row) = 1..(Len(rows) + 1)
         /\ Append(rows, row)[Len(rows) + 1] = row
         /\ \A k \in 1..Len(rows) : Append(rows, row)[k] = rows[k]
BY AppendProperties

\* A row that is inserted has the next number, and nothing else changes.
LEMMA InsertAppends ==
  ASSUME DbTypeOK, RowsAreNumbered, NEW t \in Tables, NEW row \in RowsOf[t],
         row.pid = NewId(t), db' = [db EXCEPT ![t] = Append(@, row)]
  PROVE  /\ DbTypeOK' /\ RowsAreNumbered'
         /\ DOMAIN db'[t] = 1..(Len(db[t]) + 1) /\ DOMAIN db[t] = 1..Len(db[t])
         /\ Len(db'[t]) = Len(db[t]) + 1 /\ Len(db[t]) \in Nat
         /\ db'[t][Len(db[t]) + 1] = row
         /\ \A k \in DOMAIN db[t] : db'[t][k] = db[t][k]
         /\ \A u \in Tables : u # t => db'[u] = db[u]
         /\ db'.active = db.active /\ db'.admins = db.admins
<1> DEFINE S == RowsOf[t]
           rows == db[t]
<1>1. rows \in Seq(S) /\ row \in S
  BY DEF DbTypeOK, Tables, RowsOf
<1> HIDE DEF S, rows
<1>2. DOMAIN rows = 1..Len(rows) /\ Len(rows) \in Nat
  BY <1>1
<1>3. /\ Append(rows, row) \in Seq(S)
      /\ Len(Append(rows, row)) = Len(rows) + 1
      /\ DOMAIN Append(rows, row) = 1..(Len(rows) + 1)
      /\ Append(rows, row)[Len(rows) + 1] = row
      /\ \A k \in 1..Len(rows) : Append(rows, row)[k] = rows[k]
  BY <1>1, AppendRow
<1> USE DEF S, rows
<1>4. t \in DOMAIN db
  BY TablesAreSequences
<1>5. db'[t] = Append(db[t], row) /\ \A u \in Tables : u # t => db'[u] = db[u]
  BY <1>4
<1>6. db'.active = db.active /\ db'.admins = db.admins
  BY DEF Tables
<1>7. DbTypeOK'
  <2>1. \A u \in Tables : db'[u] \in Seq(RowsOf[u])
    <3> SUFFICES ASSUME NEW u \in Tables
                 PROVE  db'[u] \in Seq(RowsOf[u])
      OBVIOUS
    <3>1. db[u] \in Seq(RowsOf[u])
      BY DEF DbTypeOK, Tables, RowsOf
    <3> QED
      BY <1>3, <1>5, <3>1
  <2>2. /\ db'.users \in Seq(UserRow) /\ db'.groups \in Seq(GroupRow)
        /\ db'.series \in Seq(SeriesRow) /\ db'.members \in Seq(MemberRow)
        /\ db'.spars \in Seq(SparRow) /\ db'.signups \in Seq(SignupRow)
    BY <2>1 DEF Tables, RowsOf
  <2>3. /\ DOMAIN db' = Tables \cup {"admins", "active"}
        /\ db' = [f \in DOMAIN db' |-> db'[f]]
    BY DEF DbTypeOK, Tables
  <2> QED
    BY <2>2, <2>3, <1>6 DEF DbTypeOK, Tables
<1> SUFFICES ASSUME NEW u \in Tables, NEW k \in DOMAIN db'[u]
             PROVE  db'[u][k].pid = <<u, k>>
  BY <1>2, <1>3, <1>5, <1>6, <1>7 DEF RowsAreNumbered
<1>8. CASE u # t
  BY <1>5, <1>8 DEF RowsAreNumbered
<1>9. CASE u = t /\ k \in DOMAIN db[t]
  BY <1>2, <1>3, <1>5, <1>9 DEF RowsAreNumbered
<1>10. CASE u = t /\ k \notin DOMAIN db[t]
  <2>1. k = Len(db[t]) + 1
    BY <1>2, <1>3, <1>5, <1>10
  <2> QED
    BY <1>3, <1>5, <1>10, <2>1 DEF NewId
<1> QED
  BY <1>8, <1>9, <1>10

-----------------------------------------------------------------------------
(* Every handler leaves the database in order, whatever it is sent.         *)

\* A refused request keeps everything; so does one that writes another table.
LEMMA UnchangedKeepsDb ==
  ASSUME DbInv, db' = db
  PROVE  DbInv'
BY DEF DbInv, DbTypeOK, RowsAreNumbered, OneUser, NoneOpenAndReleased, SignupsAreUnique

LEMMA EmptyDbInOrder == db' = NoRows => DbInv'
BY EmptySeq DEF NoRows, DbInv, DbTypeOK, RowsAreNumbered, OneUser, NoneOpenAndReleased,
   SignupsAreUnique, Tables

LEMMA SetupKeepsDb ==
  ASSUME DbInv, NEW account, DoSetup(account)
  PROVE  DbInv'
<1> DEFINE row == [pid |-> NewId("users"), account |-> account]
<1>1. CASE db.users = <<>> /\ account \in ValidAccounts
  <2>1. "users" \in Tables
    BY DEF Tables
  <2>2. row \in RowsOf["users"] /\ row.pid = NewId("users")
    BY <1>1, <2>1, TablesAreSequences DEF RowsOf, UserRow, DbInv
  <2>3. db' = [db EXCEPT !["users"] = Append(@, row)]
    BY <1>1 DEF DoSetup, Insert
  <2> HIDE DEF row
  <2>4. /\ DbTypeOK' /\ RowsAreNumbered' /\ DOMAIN db'.users = 1..(Len(db.users) + 1)
        /\ Len(db'.users) = Len(db.users) + 1 /\ db'.active = db.active
        /\ \A u \in Tables : u # "users" => db'[u] = db[u]
    BY <2>1, <2>2, <2>3, InsertAppends DEF DbInv
  <2>6. Len(db.users) = 0
    BY <1>1
  <2>5. db'.spars = db.spars /\ db'.signups = db.signups
    BY <2>4 DEF Tables
  <2> QED
    BY <1>1, <2>4, <2>5, <2>6 DEF DbInv, OneUser, NoneOpenAndReleased, SignupsAreUnique
<1>2. CASE ~ (db.users = <<>> /\ account \in ValidAccounts)
  BY <1>2, UnchangedKeepsDb DEF DoSetup, Insert
<1> QED
  BY <1>1, <1>2

LEMMA LoginKeepsDb ==
  ASSUME DbInv, NEW account, DoPasswordLogin(account)
  PROVE  DbInv'
<1> DEFINE found == {k \in DOMAIN db.users : db.users[k].account = account}
<1>1. CASE db.active = Nobody /\ found # {}
  <2>1. PICK k \in found : db' = [db EXCEPT !.active = k]
    BY <1>1 DEF DoPasswordLogin
  <2>2. k \in DOMAIN db.users /\ k \in Nat
    BY <2>1 DEF DbInv, DbTypeOK
  <2>3. DbTypeOK' /\ db'.active = k /\ \A t \in Tables : db'[t] = db[t]
    BY <2>1, <2>2 DEF DbInv, DbTypeOK, Tables
  <2>4. db'.users = db.users /\ db'.spars = db.spars /\ db'.signups = db.signups
    BY <2>3 DEF Tables
  <2> QED
    BY <2>2, <2>3, <2>4
       DEF DbInv, RowsAreNumbered, OneUser, NoneOpenAndReleased, SignupsAreUnique
<1>2. CASE ~ (db.active = Nobody /\ found # {})
  BY <1>2, UnchangedKeepsDb DEF DoPasswordLogin
<1> QED
  BY <1>1, <1>2

LEMMA CreateGroupKeepsDb ==
  ASSUME DbInv, NEW name, NEW website \in Websites \cup {NoWebsite},
         DoCreateGroup(name, website)
  PROVE  DbInv'
<1> DEFINE row == [pid |-> NewId("groups"), name |-> name, website |-> website]
<1>1. CASE db' = db
  BY <1>1, UnchangedKeepsDb
<1>2. CASE db' # db
  <2> DEFINE inserted == [db EXCEPT !["groups"] = Append(@, row)]
  <2>1. /\ db.active # Nobody /\ name \in ValidGroupNames
        /\ db' = [db EXCEPT !.groups = Append(@, row),
                            !.admins = @ \cup {<<db.active, Len(db.groups) + 1>>}]
    BY <1>2 DEF DoCreateGroup
  <2>2. "groups" \in Tables /\ NewId("groups") \in Pid /\ Len(db.groups) \in Nat
    BY TablesAreSequences DEF DbInv, Tables
  <2>3. row \in GroupRow
    BY <2>1, <2>2 DEF GroupRow
  <2>4. Append(db.groups, row) \in Seq(GroupRow)
    BY <2>3 DEF DbInv, DbTypeOK
  <2> HIDE DEF row
  <2>5. <<db.active, Len(db.groups) + 1>> \in Nat \X Nat
    BY <2>1, <2>2 DEF DbInv, DbTypeOK
  <2>6. DbTypeOK'
    BY <2>1, <2>4, <2>5 DEF DbInv, DbTypeOK
  <2>7. /\ db'.groups = Append(db.groups, row)
        /\ \A t \in Tables : t # "groups" => db'[t] = db[t]
    BY <2>1 DEF DbInv, DbTypeOK, Tables
  <2>8. /\ DOMAIN Append(db.groups, row) = 1..(Len(db.groups) + 1)
        /\ Append(db.groups, row)[Len(db.groups) + 1] = row
        /\ \A k \in 1..Len(db.groups) : Append(db.groups, row)[k] = db.groups[k]
        /\ DOMAIN db.groups = 1..Len(db.groups)
    BY <2>3, AppendProperties DEF DbInv, DbTypeOK, row
  <2>9. \A k \in DOMAIN db'.groups : db'.groups[k].pid = <<"groups", k>>
    <3>1. row.pid = <<"groups", Len(db.groups) + 1>>
      BY DEF row, NewId
    <3> QED
      BY <2>2, <2>7, <2>8, <3>1 DEF DbInv, RowsAreNumbered
  <2>10. RowsAreNumbered'
    BY <2>7, <2>9 DEF DbInv, RowsAreNumbered
  <2>11. /\ db'.users = db.users /\ db'.spars = db.spars /\ db'.signups = db.signups
         /\ db'.active = db.active
    BY <2>1, <2>7 DEF Tables, DbInv, DbTypeOK
  <2> QED
    BY <2>6, <2>10, <2>11 DEF DbInv, OneUser, NoneOpenAndReleased, SignupsAreUnique
<1> QED
  BY <1>1, <1>2

LEMMA CreateSeriesKeepsDb ==
  ASSUME DbInv, NEW group, NEW title \in Titles, DoCreateNewSparSeries(group, title)
  PROVE  DbInv'
<1> DEFINE row == [pid |-> NewId("series"), title |-> title, group |-> Key("groups", group)]
<1>1. CASE db' = db
  BY <1>1, UnchangedKeepsDb
<1>2. CASE db' # db
  <2>1. /\ Known("groups", group)
        /\ db' = [db EXCEPT !["series"] = Append(@, row)]
    BY <1>2 DEF DoCreateNewSparSeries, Insert
  <2>2. "series" \in Tables /\ "groups" \in Tables
    BY DEF Tables
  <2>3. row \in RowsOf["series"] /\ row.pid = NewId("series")
    BY <2>1, <2>2, TablesAreSequences, KeyOfKnown DEF RowsOf, SeriesRow, DbInv
  <2> HIDE DEF row
  <2>4. /\ DbTypeOK' /\ RowsAreNumbered' /\ db'.active = db.active
        /\ \A u \in Tables : u # "series" => db'[u] = db[u]
    BY <2>1, <2>2, <2>3, InsertAppends DEF DbInv
  <2>5. db'.users = db.users /\ db'.spars = db.spars /\ db'.signups = db.signups
    BY <2>4 DEF Tables
  <2> QED
    BY <2>4, <2>5 DEF DbInv, OneUser, NoneOpenAndReleased, SignupsAreUnique
<1> QED
  BY <1>1, <1>2

LEMMA AddMemberKeepsDb ==
  ASSUME DbInv, NEW series, NEW name, NEW email, DoAddMember(series, name, email)
  PROVE  DbInv'
<1> DEFINE row == [pid |-> NewId("members"), name |-> name, email |-> email,
                   series |-> Key("series", series)]
<1>1. CASE db' = db
  BY <1>1, UnchangedKeepsDb
<1>2. CASE db' # db
  <2>1. /\ MayModifySeries(series)
        /\ name \in ValidMemberNames /\ email \in ValidMemberEmails
        /\ db' = [db EXCEPT !["members"] = Append(@, row)]
    BY <1>2 DEF DoAddMember, Insert
  <2>2. "series" \in Tables /\ "members" \in Tables
    BY DEF Tables
  <2>3. row \in RowsOf["members"] /\ row.pid = NewId("members")
    BY <2>1, <2>2, TablesAreSequences, KeyOfKnown
       DEF RowsOf, MemberRow, DbInv, MayModifySeries
  <2> HIDE DEF row
  <2>4. /\ DbTypeOK' /\ RowsAreNumbered' /\ db'.active = db.active
        /\ \A u \in Tables : u # "members" => db'[u] = db[u]
    BY <2>1, <2>2, <2>3, InsertAppends DEF DbInv
  <2>5. db'.users = db.users /\ db'.spars = db.spars /\ db'.signups = db.signups
    BY <2>4 DEF Tables
  <2> QED
    BY <2>4, <2>5 DEF DbInv, OneUser, NoneOpenAndReleased, SignupsAreUnique
<1> QED
  BY <1>1, <1>2

LEMMA MakeSessionKeepsDb ==
  ASSUME DbInv, NEW series, NEW open \in BOOLEAN, DoMakeSession(series, open)
  PROVE  DbInv'
<1> DEFINE row == [pid |-> NewId("spars"), series |-> Key("series", series),
                   is_open |-> open, release_draw |-> FALSE, is_complete |-> FALSE]
<1>1. CASE db' = db
  BY <1>1, UnchangedKeepsDb
<1>2. CASE db' # db
  <2>1. /\ MayModifySeries(series)
        /\ db' = [db EXCEPT !["spars"] = Append(@, row)]
    BY <1>2 DEF DoMakeSession, Insert
  <2>2. "series" \in Tables /\ "spars" \in Tables
    BY DEF Tables
  <2>3. row \in RowsOf["spars"] /\ row.pid = NewId("spars") /\ row.release_draw = FALSE
    BY <2>1, <2>2, TablesAreSequences, KeyOfKnown
       DEF RowsOf, SparRow, DbInv, MayModifySeries
  <2> HIDE DEF row
  <2>4. /\ DbTypeOK' /\ RowsAreNumbered' /\ db'.active = db.active
        /\ DOMAIN db'.spars = 1..(Len(db.spars) + 1) /\ DOMAIN db.spars = 1..Len(db.spars)
        /\ Len(db.spars) \in Nat
        /\ db'.spars[Len(db.spars) + 1] = row
        /\ \A k \in DOMAIN db.spars : db'.spars[k] = db.spars[k]
        /\ \A u \in Tables : u # "spars" => db'[u] = db[u]
    BY <2>1, <2>2, <2>3, InsertAppends DEF DbInv
  <2>5. db'.users = db.users /\ db'.signups = db.signups
    BY <2>4 DEF Tables
  <2>6. NoneOpenAndReleased'
    BY <2>3, <2>4 DEF DbInv, NoneOpenAndReleased
  <2> QED
    BY <2>4, <2>5, <2>6 DEF DbInv, OneUser, SignupsAreUnique
<1> QED
  BY <1>1, <1>2

\* A spar that is closed or not released may replace itself.
LEMMA UpdateKeepsDb ==
  ASSUME DbInv, NEW k \in DOMAIN db.spars, NEW row \in SparRow,
         row.pid = db.spars[k].pid, ~ (row.is_open /\ row.release_draw),
         db' = [db EXCEPT !.spars = [@ EXCEPT ![k] = row]]
  PROVE  DbInv'
<1> DEFINE spars == [db.spars EXCEPT ![k] = row]
<1>1. spars \in Seq(SparRow) /\ DOMAIN spars = DOMAIN db.spars
  BY DEF DbInv, DbTypeOK
<1>2. \A j \in DOMAIN spars : spars[j] = IF j = k THEN row ELSE db.spars[j]
  OBVIOUS
<1>3. db'.spars = spars /\ db'.active = db.active /\ \A u \in Tables : u # "spars" => db'[u] = db[u]
  BY DEF DbInv, DbTypeOK, Tables
<1>4. db' = [db EXCEPT !.spars = spars]
  OBVIOUS
<1> HIDE DEF spars
<1>5. DbTypeOK'
  BY <1>1, <1>4 DEF DbInv, DbTypeOK
<1>6. "spars" \in Tables
  BY DEF Tables
<1>7. RowsAreNumbered'
  <2>1. \A j \in DOMAIN spars : spars[j].pid = <<"spars", j>>
    <3>1. \A j \in DOMAIN db.spars : db.spars[j].pid = <<"spars", j>>
      BY <1>6 DEF DbInv, RowsAreNumbered
    <3> QED
      BY <1>1, <1>2, <3>1
  <2>2. \A u \in Tables : u # "spars" =>
          \A j \in DOMAIN db'[u] : db'[u][j].pid = <<u, j>>
    BY <1>3 DEF DbInv, RowsAreNumbered
  <2> QED
    BY <1>3, <2>1, <2>2 DEF RowsAreNumbered
<1>8. NoneOpenAndReleased'
  BY <1>1, <1>2, <1>3 DEF DbInv, NoneOpenAndReleased
<1>9. db'.users = db.users /\ db'.signups = db.signups
  BY <1>3 DEF Tables
<1> QED
  BY <1>3, <1>5, <1>7, <1>8, <1>9 DEF DbInv, OneUser, SignupsAreUnique

LEMMA SparOfPid ==
  ASSUME DbInv, NEW pid, MayModifySpar(pid)
  PROVE  Key("spars", pid) \in DOMAIN db.spars /\ db.spars[Key("spars", pid)] \in SparRow
<1>1. "spars" \in Tables
  BY DEF Tables
<1>2. Key("spars", pid) \in DOMAIN db.spars
  BY <1>1, KeyOfKnown DEF DbInv, MayModifySpar
<1> QED
  BY <1>2 DEF DbInv, DbTypeOK

LEMMA ReleaseDrawKeepsDb ==
  ASSUME DbInv, NEW spar, DoReleaseDraw(spar)
  PROVE  DbInv'
<1> DEFINE k == Key("spars", spar)
           row == [db.spars[k] EXCEPT !.release_draw = TRUE, !.is_open = FALSE]
<1>1. CASE MayModifySpar(spar)
  <2>1. k \in DOMAIN db.spars /\ db.spars[k] \in SparRow
    BY <1>1, SparOfPid
  <2>2. row \in SparRow /\ row.pid = db.spars[k].pid /\ row.is_open = FALSE
    BY <2>1 DEF SparRow
  <2>3. db' = [db EXCEPT !.spars = [@ EXCEPT ![k] = row]]
    BY <1>1 DEF DoReleaseDraw, UpdateSpar
  <2> HIDE DEF row, k
  <2> QED
    BY <2>1, <2>2, <2>3, UpdateKeepsDb
<1>2. CASE ~ MayModifySpar(spar)
  BY <1>2, UnchangedKeepsDb DEF DoReleaseDraw, UpdateSpar
<1> QED
  BY <1>1, <1>2

LEMMA SetIsOpenKeepsDb ==
  ASSUME DbInv, NEW spar, NEW state \in BOOLEAN, SetIsOpen(spar, state)
  PROVE  DbInv'
<1> DEFINE k == Key("spars", spar)
           row == [db.spars[k] EXCEPT !.is_open = state,
                                      !.release_draw = IF state THEN FALSE ELSE @]
<1>1. CASE MayModifySpar(spar)
  <2>1. k \in DOMAIN db.spars /\ db.spars[k] \in SparRow
    BY <1>1, SparOfPid
  <2>2. row \in SparRow /\ row.pid = db.spars[k].pid
    BY <2>1 DEF SparRow
  <2>3. ~ (row.is_open /\ row.release_draw)
    BY <2>1 DEF SparRow
  <2>4. db' = [db EXCEPT !.spars = [@ EXCEPT ![k] = row]]
    BY <1>1 DEF SetIsOpen, UpdateSpar
  <2> HIDE DEF row, k
  <2> QED
    BY <2>1, <2>2, <2>3, <2>4, UpdateKeepsDb
<1>2. CASE ~ MayModifySpar(spar)
  BY <1>2, UnchangedKeepsDb DEF SetIsOpen, UpdateSpar
<1> QED
  BY <1>1, <1>2

LEMMA ChangedIsTheSameSignup ==
  ASSUME NEW row \in SignupRow, NEW form \in SignupForms
  PROVE  /\ Changed(row, form) \in SignupRow /\ Changed(row, form).pid = row.pid
         /\ Changed(row, form).member = row.member /\ Changed(row, form).spar = row.spar
<1>1. form.as_judge \in BOOLEAN /\ form.as_speaker \in BOOLEAN
  BY ModelTestAssumption
<1> QED
  BY <1>1 DEF Changed, SignupRow

LEMMA RegisterKeepsDb ==
  ASSUME DbInv, NEW spar, NEW member, NEW form \in SignupForms,
         DoRegisterForSpar(spar, member, form)
  PROVE  DbInv'
<1> DEFINE s == Key("spars", spar)
           m == Key("members", member)
           open == /\ Known("spars", spar) /\ Known("members", member)
                   /\ db.spars[s].is_open /\ ~ db.spars[s].release_draw
           mine == {k \in DOMAIN db.signups :
                      db.signups[k].spar = s /\ db.signups[k].member = m}
           row == [pid |-> NewId("signups"), member |-> m, spar |-> s,
                   as_judge |-> form.as_judge, as_speaker |-> form.as_speaker]
<1>1. form.as_judge \in BOOLEAN /\ form.as_speaker \in BOOLEAN
  BY ModelTestAssumption
<1>2. "spars" \in Tables /\ "members" \in Tables /\ "signups" \in Tables
  BY DEF Tables
<1>3. CASE open /\ mine # {}
  <2> DEFINE signups == [k \in DOMAIN db.signups |->
                           IF k \in mine THEN Changed(db.signups[k], form)
                                         ELSE db.signups[k]]
  <2>1. db' = [db EXCEPT !.signups = signups]
    BY <1>3 DEF DoRegisterForSpar
  <2>2. db.signups \in Seq(SignupRow)
    BY DEF DbInv, DbTypeOK
  <2> HIDE DEF mine
  <2>4. DOMAIN signups = DOMAIN db.signups
    OBVIOUS
  <2>3. \A k \in DOMAIN signups :
          /\ signups[k] \in SignupRow /\ signups[k].pid = db.signups[k].pid
          /\ signups[k].member = db.signups[k].member
          /\ signups[k].spar = db.signups[k].spar
    <3> SUFFICES ASSUME NEW k \in DOMAIN db.signups
                 PROVE  /\ signups[k] \in SignupRow /\ signups[k].pid = db.signups[k].pid
                        /\ signups[k].member = db.signups[k].member
                        /\ signups[k].spar = db.signups[k].spar
      OBVIOUS
    <3>1. db.signups[k] \in SignupRow
      BY <2>2
    <3>2. signups[k] \in {db.signups[k], Changed(db.signups[k], form)}
      OBVIOUS
    <3> QED
      BY <3>1, <3>2, ChangedIsTheSameSignup
  <2> HIDE DEF signups
  <2>5. signups \in Seq(SignupRow)
    <3>1. DOMAIN signups = 1..Len(db.signups) /\ Len(db.signups) \in Nat
      BY <2>2, <2>4
    <3>2. signups = [k \in DOMAIN signups |-> signups[k]]
      BY DEF signups
    <3>3. signups \in [1..Len(db.signups) -> SignupRow]
      BY <2>3, <3>1, <3>2
    <3> QED
      BY <3>1, <3>3, SeqDef
  <2>6. DbTypeOK'
    BY <2>1, <2>5 DEF DbInv, DbTypeOK
  <2>7. /\ db'.signups = signups /\ db'.active = db.active
        /\ \A u \in Tables : u # "signups" => db'[u] = db[u]
    BY <2>1 DEF DbInv, DbTypeOK, Tables
  <2>8. RowsAreNumbered'
    <3>1. \A j \in DOMAIN db.signups : db.signups[j].pid = <<"signups", j>>
      BY <1>2 DEF DbInv, RowsAreNumbered
    <3>2. \A j \in DOMAIN signups : signups[j].pid = <<"signups", j>>
      BY <2>3, <2>4, <3>1
    <3>3. \A u \in Tables : u # "signups" =>
            \A j \in DOMAIN db'[u] : db'[u][j].pid = <<u, j>>
      BY <2>7 DEF DbInv, RowsAreNumbered
    <3> QED
      BY <2>7, <3>2, <3>3 DEF RowsAreNumbered
  <2>9. SignupsAreUnique'
    BY <2>3, <2>4, <2>7 DEF DbInv, SignupsAreUnique
  <2>10. db'.users = db.users /\ db'.spars = db.spars
    BY <2>7 DEF Tables
  <2> QED
    BY <2>6, <2>7, <2>8, <2>9, <2>10 DEF DbInv, OneUser, NoneOpenAndReleased
<1>4. CASE open /\ mine = {}
  <2>1. db' = [db EXCEPT !["signups"] = Append(@, row)]
    BY <1>4 DEF DoRegisterForSpar, Insert
  <2>2. s \in Nat /\ m \in Nat
    BY <1>2, <1>4, KeyOfKnown DEF DbInv
  <2>3. row \in RowsOf["signups"] /\ row.pid = NewId("signups")
        /\ row.member = m /\ row.spar = s
    <3>1. row.pid \in Pid
      BY <1>2, TablesAreSequences DEF DbInv
    <3> HIDE DEF s, m
    <3> QED
      BY <1>1, <2>2, <3>1 DEF RowsOf, SignupRow
  <2>4. \A k \in DOMAIN db.signups : ~ (db.signups[k].spar = s /\ db.signups[k].member = m)
    BY <1>4
  <2> HIDE DEF row, mine, open, s, m
  <2>5. /\ DbTypeOK' /\ RowsAreNumbered' /\ db'.active = db.active
        /\ DOMAIN db'.signups = 1..(Len(db.signups) + 1)
        /\ DOMAIN db.signups = 1..Len(db.signups)
        /\ Len(db.signups) \in Nat
        /\ db'.signups[Len(db.signups) + 1] = row
        /\ \A k \in DOMAIN db.signups : db'.signups[k] = db.signups[k]
        /\ \A u \in Tables : u # "signups" => db'[u] = db[u]
    BY <1>2, <2>1, <2>3, InsertAppends DEF DbInv
  <2>6. SignupsAreUnique'
    <3> DEFINE n == Len(db.signups) + 1
    <3>1. \A k \in DOMAIN db'.signups : k \in DOMAIN db.signups \/ k = n
      BY <2>5
    <3> HIDE DEF n
    <3> QED
      BY <2>3, <2>4, <2>5, <3>1 DEF DbInv, SignupsAreUnique, n
  <2>7. db'.users = db.users /\ db'.spars = db.spars
    BY <2>5 DEF Tables
  <2> QED
    BY <2>5, <2>6, <2>7 DEF DbInv, OneUser, NoneOpenAndReleased
<1>5. CASE ~ open
  BY <1>5, UnchangedKeepsDb DEF DoRegisterForSpar, Insert
<1> QED
  BY <1>3, <1>4, <1>5

LEMMA LoggedOutKeepsDb ==
  ASSUME DbInv, db' = [db EXCEPT !.active = Nobody]
  PROVE  DbInv'
<1>1. DbTypeOK' /\ db'.active = Nobody /\ \A t \in Tables : db'[t] = db[t]
  BY DEF DbInv, DbTypeOK, Tables
<1>2. db'.users = db.users /\ db'.spars = db.spars /\ db'.signups = db.signups
  BY <1>1 DEF Tables
<1> QED
  BY <1>1, <1>2
     DEF DbInv, RowsAreNumbered, OneUser, NoneOpenAndReleased, SignupsAreUnique

-----------------------------------------------------------------------------
(* What the comparison sees.                                                *)

LEMMA NearTables ==
  ASSUME Near
  PROVE  /\ model.users = db.users /\ model.groups = db.groups
         /\ model.series = db.series /\ model.members = db.members
         /\ model.signups = db.signups
BY DEF Near, Tables

LEMMA NearLengths ==
  ASSUME DbInv, Near, NEW t \in Tables
  PROVE  /\ Len(model[t]) = Len(db[t]) /\ Len(db[t]) \in Nat
         /\ t \in DOMAIN model /\ \E S : model[t] \in Seq(S)
<1>1. t \in DOMAIN db /\ Len(db[t]) \in Nat /\ DOMAIN db[t] = 1..Len(db[t])
      /\ \E S : db[t] \in Seq(S)
  BY TablesAreSequences DEF DbInv
<1>2. CASE t # "spars"
  BY <1>1, <1>2 DEF Near
<1>3. CASE t = "spars"
  <2>1. Len(model.spars) \in Nat /\ DOMAIN model.spars = 1..Len(model.spars)
    BY DEF Near
  <2>2. \A m, n \in Nat : 1..m = 1..n => m = n
    OBVIOUS
  <2> QED
    BY <1>1, <1>3, <2>1, <2>2 DEF Near
<1> QED
  BY <1>2, <1>3

\* What the test does not compare is not needed for the two sides to match.
LEMMA NearMatches ==
  ASSUME DbInv, Near
  PROVE  MatchesDatabase
<1> SUFFICES ASSUME NEW t \in Tables PROVE SameRows(db[t], model[t])
  BY DEF MatchesDatabase
<1>1. Len(db[t]) = Len(model[t])
  BY NearLengths
<1>2. CASE t # "spars"
  BY <1>1, <1>2 DEF Near, SameRows
<1>3. CASE t = "spars"
  <2> SUFFICES ASSUME NEW k \in DOMAIN db.spars
               PROVE  Compared(db.spars[k]) = Compared(model.spars[k])
    BY <1>1, <1>3 DEF Near, SameRows
  <2>1. model.spars[k] \in SparRow /\ db.spars[k] \in SparRow
    BY DEF Near, DbInv, DbTypeOK
  <2>2. \A row \in SparRow :
          Compared(row) = [c \in {"pid", "is_open"} |-> row[c]]
    <3>1. \A row \in SparRow : DOMAIN row = {"pid", "series", "is_open", "release_draw",
                                              "is_complete"}
      BY DEF SparRow
    <3>2. \A row \in SparRow :
            DOMAIN row \ {"group", "series", "member", "spar", "release_draw",
                          "is_complete"} = {"pid", "is_open"}
      BY <3>1
    <3> QED
      BY <3>2 DEF Compared
  <2>3. SparAgrees(k)
    BY DEF Near
  <2>4. /\ model.spars[k].pid = db.spars[k].pid
        /\ model.spars[k].is_open = db.spars[k].is_open
    BY <2>1, <2>3 DEF SparAgrees, SparRow
  <2> QED
    BY <2>1, <2>2, <2>4
<1> QED
  BY <1>2, <1>3

\* A row that only the model has is noticed.
LEMMA PushIsNoticed ==
  ASSUME DbInv, Near, db' = db, NEW t \in Tables, NEW row,
         model'[t] = Append(model[t], row)
  PROVE  ~ MatchesDatabase'
<1>1. PICK S : model[t] \in Seq(S)
  BY NearLengths
<1> DEFINE S1 == S \cup {row}
<1>2. model[t] \in Seq(S1)
  BY <1>1, SeqMonotonic
<1> HIDE DEF S1
<1>3. row \in S1
  BY DEF S1
<1>4. Len(Append(model[t], row)) = Len(model[t]) + 1
  BY <1>2, <1>3, AppendRow
<1>5. Len(model[t]) = Len(db[t]) /\ Len(db[t]) \in Nat
  BY NearLengths
<1>6. Len(db'[t]) # Len(model'[t])
  BY <1>4, <1>5
<1> QED
  BY <1>6 DEF MatchesDatabase, SameRows

-----------------------------------------------------------------------------
(* Ways to stay near.                                                       *)

\* Also an exact copy stays one.
StaysNear == Near' /\ (model = db => model' = db')

LEMMA UnchangedStaysNear ==
  ASSUME Near, db' = db, model' = model
  PROVE  StaysNear
BY DEF StaysNear, Near, SparAgrees

\* Both sides allow the same.
LEMMA RightsAgree ==
  ASSUME Near, NEW group
  PROVE  IsAdmin(group) <=> MayModify(group)
BY DEF Near, IsAdmin, MayModify

\* Both sides append a row.
LEMMA AppendedStaysNear ==
  ASSUME DbInv, Near, NEW t \in {"users", "series", "members", "signups"}, NEW row,
         t = "users" => db.users = <<>>,
         db' = [db EXCEPT ![t] = Append(@, row)],
         model' = [model EXCEPT ![t] = Append(@, row)]
  PROVE  StaysNear
<1>1. DOMAIN db = Tables \cup {"admins", "active"} /\ DOMAIN model = DOMAIN db
  BY DEF DbInv, DbTypeOK, Tables, Near
<1>2. /\ \A f \in DOMAIN db : f # t => db'[f] = db[f] /\ model'[f] = model[f]
      /\ DOMAIN db' = DOMAIN db /\ DOMAIN model' = DOMAIN db
  BY <1>1
<1>3. db'[t] = model'[t]
  BY <1>1 DEF Near, Tables
<1>4. \A u \in Tables \ {"spars"} : model'[u] = db'[u]
  BY <1>1, <1>2, <1>3 DEF Near
<1>5. /\ db'.groups = db.groups /\ db'.spars = db.spars
      /\ db'.admins = db.admins /\ db'.active = db.active
      /\ model'.spars = model.spars /\ model'.admins = model.admins
      /\ model'.active = model.active
  BY <1>1, <1>2 DEF Tables
<1>6. DOMAIN db.users \subseteq DOMAIN db'.users
  <2>1. CASE t = "users"
    BY <2>1, EmptySeq
  <2>2. CASE t # "users"
    BY <1>1, <1>2, <2>2 DEF Tables
  <2> QED
    BY <2>1, <2>2
<1>7. Near'
  <2>1. model'.active \in {Nobody} \cup DOMAIN db'.users
    BY <1>5, <1>6 DEF Near
  <2>2. \A k \in DOMAIN db'.spars : SparAgrees(k)'
    BY <1>5 DEF Near, SparAgrees
  <2>3. /\ model'.admins = db'.admins
        /\ model'.active # db'.active => db'.active = Nobody
        /\ db'.active = Nobody => db'.groups = <<>>
        /\ db'.groups = <<>> => db'.admins = {}
        /\ model'.spars \in Seq(SparRow) /\ DOMAIN model'.spars = DOMAIN db'.spars
    BY <1>5 DEF Near
  <2> QED
    BY <1>2, <1>4, <2>1, <2>2, <2>3 DEF Near
<1>8. model = db => model' = db'
  OBVIOUS
<1> QED
  BY <1>7, <1>8 DEF StaysNear

LEMMA NearSpar ==
  ASSUME DbInv, Near, NEW k \in DOMAIN db.spars
  PROVE  /\ model.spars[k] \in SparRow /\ db.spars[k] \in SparRow
         /\ k \in DOMAIN model.spars
         /\ model.spars[k].pid = db.spars[k].pid
         /\ model.spars[k].series = db.spars[k].series
         /\ model.spars[k].is_open = db.spars[k].is_open
         /\ model.spars[k].is_complete = db.spars[k].is_complete
         /\ db.spars[k].is_open => model.spars[k] = db.spars[k]
         /\ db.spars[k].release_draw => model.spars[k].release_draw
<1>1. model.spars[k] \in SparRow /\ db.spars[k] \in SparRow /\ k \in DOMAIN model.spars
  BY DEF Near, DbInv, DbTypeOK
<1>2. SparAgrees(k)
  BY DEF Near
<1> QED
  BY <1>1, <1>2 DEF SparAgrees, SparRow

LEMMA SparPost ==
  ASSUME DbInv, Near, NEW k \in DOMAIN db.spars
  PROVE  /\ Known("spars", model.spars[k].pid) /\ Key("spars", model.spars[k].pid) = k
         /\ IsAdminOfSpar(k) <=> MayModifySpar(model.spars[k].pid)
<1>1. "spars" \in Tables
  BY DEF Tables
<1>2. Known("spars", model.spars[k].pid) /\ Key("spars", model.spars[k].pid) = k
  BY <1>1, NearSpar, KeyOfRow DEF DbInv
<1>3. model.series[model.spars[k].series].group = db.series[db.spars[k].series].group
  BY NearSpar, NearTables
<1> QED
  BY <1>2, <1>3, NearSpar, RightsAgree DEF MayModifySpar, IsAdminOfSpar

\* Each side replaces its row of a spar.
LEMMA ReplacedStaysNear ==
  ASSUME DbInv, Near, NEW k \in DOMAIN db.spars, NEW r \in SparRow, NEW row \in SparRow,
         r = row \/ (~ row.is_open /\ r = [row EXCEPT !.release_draw = TRUE]),
         db' = [db EXCEPT !.spars = [@ EXCEPT ![k] = row]],
         model' = [model EXCEPT !.spars = [@ EXCEPT ![k] = r]]
  PROVE  Near'
<1>1. DOMAIN db = Tables \cup {"admins", "active"} /\ DOMAIN model = DOMAIN db
  BY DEF DbInv, DbTypeOK, Tables, Near
<1>2. /\ \A f \in DOMAIN db : f # "spars" => db'[f] = db[f] /\ model'[f] = model[f]
      /\ DOMAIN db' = DOMAIN db /\ DOMAIN model' = DOMAIN db
      /\ db'.spars = [db.spars EXCEPT ![k] = row]
      /\ model'.spars = [model.spars EXCEPT ![k] = r]
  BY <1>1 DEF Tables
<1>3. \A u \in Tables \ {"spars"} : model'[u] = db'[u]
  BY <1>1, <1>2 DEF Near
<1>4. /\ db'.groups = db.groups /\ db'.users = db.users
      /\ db'.admins = db.admins /\ db'.active = db.active
      /\ model'.admins = model.admins /\ model'.active = model.active
  BY <1>1, <1>2 DEF Tables
<1>5. model'.spars \in Seq(SparRow) /\ DOMAIN model'.spars = DOMAIN db'.spars
  BY <1>2 DEF Near
<1>6. ASSUME NEW j \in DOMAIN db'.spars
      PROVE  SparAgrees(j)'
  <2>1. j \in DOMAIN db.spars /\ j \in DOMAIN model.spars
    BY <1>2, <1>6 DEF Near
  <2>2. CASE j = k
    <3>1. db'.spars[j] = row /\ model'.spars[j] = r
      BY <1>2, <2>1, <2>2
    <3> QED
      BY <3>1 DEF SparAgrees
  <2>3. CASE j # k
    <3>1. db'.spars[j] = db.spars[j] /\ model'.spars[j] = model.spars[j]
      BY <1>2, <2>1, <2>3
    <3> QED
      BY <3>1, <2>1 DEF SparAgrees, Near
  <2> QED
    BY <2>2, <2>3
<1> QED
  BY <1>2, <1>3, <1>4, <1>5, <1>6 DEF Near

\* Whether a spar is open is compared, by its public id.
LEMMA IsOpenIsCompared ==
  ASSUME DbInv, Near, db' = db, NEW k \in DOMAIN db.spars, NEW r \in SparRow,
         r.pid = db.spars[k].pid,
         model' = [model EXCEPT !.spars = [@ EXCEPT ![k] = r]], MatchesDatabase'
  PROVE  r.is_open = db.spars[k].is_open
<1>1. "spars" \in Tables /\ "spars" \in DOMAIN model /\ k \in DOMAIN model.spars
  BY DEF Tables, Near, DbInv, DbTypeOK
<1>2. k \in DOMAIN model'.spars /\ model'.spars[k] = r
  BY <1>1
<1>3. PICK j \in DOMAIN db.spars : Compared(db.spars[j]) = Compared(r)
  BY <1>1, <1>2 DEF MatchesDatabase, SameRows
<1>4. \A row \in SparRow :
        Compared(row) = [c \in {"pid", "is_open"} |-> row[c]]
  <2>1. \A row \in SparRow : DOMAIN row = {"pid", "series", "is_open", "release_draw",
                                            "is_complete"}
    BY DEF SparRow
  <2>2. \A row \in SparRow :
          DOMAIN row \ {"group", "series", "member", "spar", "release_draw",
                        "is_complete"} = {"pid", "is_open"}
    BY <2>1
  <2> QED
    BY <2>2 DEF Compared
<1>5. db.spars[j] \in SparRow
  BY DEF DbInv, DbTypeOK
<1>6. [c \in {"pid", "is_open"} |-> db.spars[j][c]] = [c \in {"pid", "is_open"} |-> r[c]]
  BY <1>3, <1>4, <1>5
<1>7. db.spars[j].pid = r.pid /\ db.spars[j].is_open = r.is_open
  <2>1. \A c \in {"pid", "is_open"} : db.spars[j][c] = r[c]
    BY <1>6
  <2> QED
    BY <2>1
<1>8. j = k
  <2>1. db.spars[j].pid = <<"spars", j>> /\ db.spars[k].pid = <<"spars", k>>
    BY <1>1 DEF DbInv, RowsAreNumbered
  <2>2. <<"spars", j>> = <<"spars", k>>
    BY <1>7, <2>1
  <2>3. \A a, b : <<"spars", a>> = <<"spars", b>> => a = b
    OBVIOUS
  <2> QED
    BY <2>2, <2>3
<1> QED
  BY <1>7, <1>8

-----------------------------------------------------------------------------
(* What a step of both sides comes to.                                      *)

LEMMA NearAlwaysMatches == DbInv /\ Near => MatchesDatabase
BY NearMatches

LEMMA NearMatchesNext ==
  ASSUME DbInv', Near'
  PROVE  MatchesDatabase'
<1>1. (DbInv /\ Near => MatchesDatabase)'
  BY NearAlwaysMatches, PTL
<1> QED
  BY <1>1

Outcome ==
  /\ DbInv'
  /\ ~ failed' => Near'
  /\ AddsTaken => failed'
  /\ failed' \/ (model = db /\ model' # db') =>
       AddsTaken \/ MayBeLost \/ model.active # db.active

LEMMA StayingAddsNobody ==
  ASSUME model'.members = model.members
  PROVE  ~ AddsTaken
BY DEF AddsTaken

\* Both sides have served the action.
LEMMA ServedOutcome ==
  ASSUME DbInv', StaysNear, ~ AddsTaken, Compare(FALSE)
  PROVE  Outcome
BY NearMatchesNext DEF StaysNear, Compare, Outcome

\* The application has not.
LEMMA IdleOutcome ==
  ASSUME DbInv, db' = db, drawing > 0 \/ model.active # db.active,
         MatchesDatabase' => Near', AddsTaken => ~ MatchesDatabase',
         NEW panics, Compare(panics)
  PROVE  Outcome
<1>1. DbInv'
  BY UnchangedKeepsDb
<1>2. ~ failed' => MatchesDatabase'
  BY DEF Compare
<1>3. MayBeLost \/ model.active # db.active
  BY DEF MayBeLost
<1> QED
  BY <1>1, <1>2, <1>3 DEF Outcome

LEMMA LostIsIdle ==
  ASSUME IsLost
  PROVE  db' = db /\ drawing > 0
BY DEF IsLost

LEMMA DomainOfModel ==
  ASSUME DbInv, Near
  PROVE  DOMAIN model = Tables \cup {"admins", "active"} /\ DOMAIN db = DOMAIN model
BY DEF DbInv, DbTypeOK, Near, Tables

LEMMA SetupOutcome ==
  ASSUME DbInv, Near, NEW account \in Accounts, Setup(account)
  PROVE  Outcome
<1> DEFINE row == [pid |-> last', account |-> account]
           free == model.users = <<>> /\ account \in ValidAccounts
<1>1. free => model' = [model EXCEPT !["users"] = Append(@, row)]
  BY DEF Setup, ModelSetup, Push
<1>2. ~ free => model' = model
  BY DEF Setup, ModelSetup
<1>3. Compare(FALSE) /\ ~ AddsTaken
  <2>1. model'.members = model.members
    BY <1>1, <1>2, DomainOfModel DEF Tables
  <2> QED
    BY <2>1, StayingAddsNobody DEF Setup, Step
<1>4. CASE DoSetup(account)
  <2>1. DbInv'
    BY <1>4, SetupKeepsDb
  <2>2. free => db' = [db EXCEPT !["users"] = Append(@, row)] /\ db.users = <<>>
    BY <1>4, NearTables DEF DoSetup, Insert
  <2>3. ~ free => db' = db
    BY <1>4, NearTables DEF DoSetup, Insert
  <2> HIDE DEF row, free
  <2>4. StaysNear
    BY <1>1, <1>2, <2>2, <2>3, UnchangedStaysNear, AppendedStaysNear
  <2> QED
    BY <1>3, <2>1, <2>4, ServedOutcome
<1>5. CASE IsLost
  <2>1. db' = db /\ drawing > 0
    BY <1>5, LostIsIdle
  <2>2. free => ~ MatchesDatabase'
    <3>1. "users" \in Tables /\ "users" \in DOMAIN model
      BY DomainOfModel DEF Tables
    <3> HIDE DEF row, free
    <3>2. free => model'["users"] = Append(model["users"], row)
      BY <1>1, <3>1
    <3> QED
      BY <2>1, <3>1, <3>2, PushIsNoticed
  <2>3. ~ free => Near'
    BY <1>2, <2>1, UnchangedStaysNear DEF StaysNear
  <2> QED
    BY <1>3, <2>1, <2>2, <2>3, IdleOutcome
<1> QED
  BY <1>4, <1>5 DEF Setup

\* There is one user at most, who is the one that is named.
LEMMA UserIsTheFirst ==
  ASSUME DbInv, db.users # <<>>, NEW i \in Indices
  PROVE  DOMAIN db.users = {1} /\ Clamp(i, db.users) = 1
<1>1. db.users \in Seq(UserRow)
  BY DEF DbInv, DbTypeOK
<1>2. Len(db.users) \in Nat /\ Len(db.users) # 0 /\ DOMAIN db.users = 1..Len(db.users)
  BY <1>1, EmptySeq
<1>3. Len(db.users) <= 1
  BY DEF DbInv, OneUser
<1>4. \A n \in Nat : n # 0 /\ n <= 1 => n = 1
  OBVIOUS
<1>5. Len(db.users) = 1
  BY <1>2, <1>3, <1>4
<1>6. \A d : d = 1..1 => d = {1}
  OBVIOUS
<1>7. DOMAIN db.users = {1}
  BY <1>2, <1>5, <1>6
<1>8. Clamp(i, db.users) = 1
  BY <1>5, ModelTestAssumption DEF Clamp
<1> QED
  BY <1>7, <1>8

LEMMA LoginOutcome ==
  ASSUME DbInv, Near, NEW i \in Indices, Login(i)
  PROVE  Outcome
<1>1. Compare(FALSE) /\ model.users = db.users
  BY NearTables DEF Login, Step
<1>2. CASE db.users = <<>>
  <2>1. db' = db /\ model' = model
    BY <1>1, <1>2 DEF Login, ModelLogin
  <2>2. DbInv' /\ StaysNear /\ ~ AddsTaken
    BY <2>1, UnchangedKeepsDb, UnchangedStaysNear, StayingAddsNobody
  <2> QED
    BY <1>1, <2>2, ServedOutcome
<1>3. CASE db.users # <<>>
  <2>1. DOMAIN db.users = {1} /\ Clamp(i, model.users) = 1
    BY <1>1, <1>3, UserIsTheFirst
  <2>2. model' = [model EXCEPT !.active = 1]
    BY <1>1, <1>3, <2>1 DEF Login, ModelLogin
  <2>3. /\ model'.active = 1 /\ DOMAIN model' = DOMAIN model
        /\ \A f \in DOMAIN model : f # "active" => model'[f] = model[f]
    BY <2>2, DomainOfModel
  <2>4. /\ \A t \in Tables : model'[t] = model[t]
        /\ model'.spars = model.spars /\ model'.admins = model.admins
        /\ model'.members = model.members
    BY <2>3, DomainOfModel DEF Tables
  <2>5. ~ AddsTaken
    BY <2>4, StayingAddsNobody
  <2>6. db.active # Nobody => db.active = 1 /\ model.active = 1
    BY <2>1 DEF DbInv, OneUser, Near
  <2>7. CASE DoPasswordLogin(db.users[1].account)
    <3> DEFINE found == {k \in DOMAIN db.users :
                           db.users[k].account = db.users[1].account}
    <3>1. found = {1}
      BY <2>1
    <3>2. db.active = Nobody => db' = [db EXCEPT !.active = 1]
      BY <2>7, <3>1 DEF DoPasswordLogin
    <3>3. db.active # Nobody => db' = db
      BY <2>7 DEF DoPasswordLogin
    <3> HIDE DEF found
    <3>4. /\ db'.active = 1 /\ DOMAIN db' = DOMAIN db
          /\ \A f \in DOMAIN db : f # "active" => db'[f] = db[f]
      BY <2>6, <3>2, <3>3, DomainOfModel
    <3>5. /\ \A t \in Tables : db'[t] = db[t]
          /\ db'.spars = db.spars /\ db'.admins = db.admins
          /\ db'.users = db.users /\ db'.groups = db.groups
      BY <3>4, DomainOfModel DEF Tables
    <3>6. Near'
      <4>1. db'.active = Nobody => db'.groups = <<>>
        BY <2>6, <3>4, <3>5 DEF Near
      <4>2. \A k \in DOMAIN db'.spars : SparAgrees(k)'
        BY <2>4, <3>5 DEF Near, SparAgrees
      <4> QED
        BY <2>1, <2>3, <2>4, <3>4, <3>5, <4>1, <4>2 DEF Near
    <3>7. model = db => model' = db'
      <4>1. db.active # Nobody => [db EXCEPT !.active = 1] = db
        BY <2>6 DEF DbInv, DbTypeOK
      <4> QED
        BY <2>2, <3>2, <3>3, <4>1
    <3>8. DbInv'
      BY <2>7, LoginKeepsDb
    <3> QED
      BY <1>1, <2>5, <3>6, <3>7, <3>8, ServedOutcome DEF StaysNear
  <2>8. CASE TimesOut
    <3>1. db' = db /\ drawing > 0
      BY <2>8, ModelTestAssumption DEF TimesOut
    <3>2. Near'
      <4>1. \A k \in DOMAIN db'.spars : SparAgrees(k)'
        BY <2>4, <3>1 DEF Near, SparAgrees
      <4> QED
        BY <2>1, <2>3, <2>4, <2>6, <3>1, <4>1 DEF Near
    <3> QED
      BY <1>1, <2>5, <3>1, <3>2, IdleOutcome
  <2> QED
    BY <1>1, <1>3, <2>1, <2>7, <2>8 DEF Login
<1> QED
  BY <1>2, <1>3

\* A model that adds a group alone is found out, also when only the model has
\* somebody logged in.
LEMMA CreateGroupOutcome ==
  ASSUME DbInv, Near, NEW name \in GroupNames, NEW website \in Websites \cup {NoWebsite},
         CreateGroup(name, website)
  PROVE  Outcome
<1> DEFINE taken(g) == g.name = name \/ (website # NoWebsite /\ g.website = website)
           free == name \in ValidGroupNames /\ \A k \in DOMAIN db.groups : ~ taken(db.groups[k])
           row == [pid |-> last', name |-> name, website |-> website]
           pushes == model.active # Nobody /\ free
<1>1. pushes =>
        model' = [model EXCEPT !.groups = Append(@, row),
                               !.admins = @ \cup {<<model.active, Len(model.groups) + 1>>}]
  BY NearTables DEF CreateGroup, ModelCreateGroup, Some
<1>2. ~ pushes => model' = model
  BY NearTables DEF CreateGroup, ModelCreateGroup, Some
<1>3. Compare(FALSE)
  BY DEF CreateGroup, Step
<1> HIDE DEF free, row
<1>4. ~ AddsTaken
  <2>1. model'.members = model.members
    BY <1>1, <1>2, DomainOfModel DEF Tables
  <2> QED
    BY <2>1, StayingAddsNobody
<1>5. ASSUME db' = db
      PROVE  MatchesDatabase' => Near'
  <2>1. "groups" \in Tables /\ "groups" \in DOMAIN model
    BY DomainOfModel DEF Tables
  <2>2. pushes => model'["groups"] = Append(model["groups"], row)
    BY <1>1, <2>1
  <2> HIDE DEF pushes
  <2>3. pushes => ~ MatchesDatabase'
    BY <1>5, <2>1, <2>2, PushIsNoticed
  <2>4. ~ pushes => Near'
    BY <1>2, <1>5, UnchangedStaysNear DEF StaysNear
  <2> QED
    BY <2>3, <2>4
<1>6. CASE DoCreateGroup(name, website)
  <2>1. DbInv'
    BY <1>6, CreateGroupKeepsDb
  <2>2. CASE model.active # db.active
    <3>1. db' = db
      BY <1>6, <2>2 DEF DoCreateGroup, Near
    <3> QED
      BY <1>3, <1>4, <1>5, <2>2, <3>1, IdleOutcome
  <2>3. CASE model.active = db.active /\ ~ pushes
    <3>1. db' = db
      BY <1>6, <2>3 DEF DoCreateGroup, Some, free
    <3>2. StaysNear
      BY <1>2, <2>3, <3>1, UnchangedStaysNear
    <3> QED
      BY <1>3, <1>4, <2>1, <3>2, ServedOutcome
  <2>4. CASE model.active = db.active /\ pushes
    <3>1. db' = [db EXCEPT
                   !.groups = Append(@, row),
                   !.admins = @ \cup {<<db.active, Len(db.groups) + 1>>}]
      BY <1>6, <2>4 DEF DoCreateGroup, Some, free, row
    <3> HIDE DEF pushes
    <3>2. model' = [model EXCEPT
                      !.groups = Append(@, row),
                      !.admins = @ \cup {<<model.active, Len(model.groups) + 1>>}]
      BY <1>1, <2>4
    <3>3. /\ DOMAIN db' = DOMAIN db /\ DOMAIN model' = DOMAIN model
          /\ db'.groups = Append(db.groups, row) /\ model'.groups = Append(model.groups, row)
          /\ db'.admins = db.admins \cup {<<db.active, Len(db.groups) + 1>>}
          /\ model'.admins = model.admins \cup {<<model.active, Len(model.groups) + 1>>}
          /\ \A f \in DOMAIN db : f \notin {"groups", "admins"} =>
               db'[f] = db[f] /\ model'[f] = model[f]
      BY <3>1, <3>2, DomainOfModel DEF Tables
    <3>4. /\ db'.users = db.users /\ db'.spars = db.spars /\ db'.active = db.active
          /\ model'.spars = model.spars /\ model'.active = model.active
      BY <3>3, DomainOfModel DEF Tables
    <3>5. model'.groups = db'.groups /\ model'.admins = db'.admins
      BY <2>4, <3>3, NearTables DEF Near
    <3>6. \A t \in Tables \ {"spars"} : model'[t] = db'[t]
      <4> SUFFICES ASSUME NEW t \in Tables \ {"spars"} PROVE model'[t] = db'[t]
        OBVIOUS
      <4>1. CASE t = "groups"
        BY <3>5, <4>1
      <4>2. CASE t # "groups"
        <5>1. t \in DOMAIN db /\ t \notin {"groups", "admins"}
          BY <4>2, DomainOfModel DEF Tables
        <5> QED
          BY <3>3, <5>1 DEF Near
      <4> QED
        BY <4>1, <4>2
    <3>7. db'.groups # <<>>
      <4>1. \E S : db.groups \in Seq(S)
        BY DEF DbInv, DbTypeOK
      <4>2. PICK S : db.groups \in Seq(S)
        BY <4>1
      <4> DEFINE S1 == S \cup {row}
      <4>3. db.groups \in Seq(S1)
        BY <4>2, SeqMonotonic
      <4> HIDE DEF S1
      <4>4. row \in S1
        BY DEF S1
      <4>5. Len(Append(db.groups, row)) = Len(db.groups) + 1 /\ Len(db.groups) \in Nat
        BY <4>3, <4>4, AppendRow
      <4> QED
        BY <3>3, <4>5
    <3>8. db.active # Nobody
      BY <2>4 DEF pushes
    <3>9. \A k \in DOMAIN db'.spars : SparAgrees(k)'
      BY <3>4 DEF Near, SparAgrees
    <3>10. Near'
      BY <2>4, <3>3, <3>4, <3>5, <3>6, <3>7, <3>8, <3>9 DEF Near
    <3>11. model = db => model' = db'
      BY <3>1, <3>2
    <3> QED
      BY <1>3, <1>4, <2>1, <3>10, <3>11, ServedOutcome DEF StaysNear
  <2> QED
    BY <2>2, <2>3, <2>4
<1>7. CASE IsLost
  BY <1>3, <1>4, <1>5, <1>7, LostIsIdle, IdleOutcome
<1> QED
  BY <1>6, <1>7 DEF CreateGroup

LEMMA CreateSeriesOutcome ==
  ASSUME DbInv, Near, NEW i \in Indices, NEW title \in Titles, CreateSparSeries(i, title)
  PROVE  Outcome
<1> DEFINE k == Clamp(i, db.groups)
           pid == db.groups[k].pid
           row == [pid |-> last', title |-> title, group |-> k]
           taken(s) == s.group = k /\ s.title = title
           free == \A j \in DOMAIN db.series : ~ taken(db.series[j])
           pushes == k \in DOMAIN db.groups /\ IsAdmin(k) /\ free
<1>1. Compare(FALSE)
  BY DEF CreateSparSeries, Step
<1>2. pushes => model' = [model EXCEPT !["series"] = Append(@, row)]
  BY NearTables DEF CreateSparSeries, ModelCreateSparSeries, Push, Some
<1>3. ~ pushes => model' = model
  BY NearTables DEF CreateSparSeries, ModelCreateSparSeries, Some
<1>4. CASE k \in DOMAIN db.groups /\ DoCreateNewSparSeries(pid, title)
  <2>1. Known("groups", pid) /\ Key("groups", pid) = k
    <3>1. "groups" \in Tables
      BY DEF Tables
    <3> QED
      BY <1>4, <3>1, KeyOfRow DEF DbInv
  <2>2. IsAdmin(k) <=> MayModify(k)
    BY RightsAgree
  <2> HIDE DEF k, pid
  <2>3. pushes => db' = [db EXCEPT !["series"] = Append(@, row)]
    BY <1>4, <2>1, <2>2 DEF DoCreateNewSparSeries, Insert, Some
  <2>4. ~ pushes => db' = db
    BY <1>4, <2>1, <2>2 DEF DoCreateNewSparSeries, Insert, Some
  <2>5. DbInv'
    BY <1>4, CreateSeriesKeepsDb
  <2> HIDE DEF row, pushes
  <2>6. StaysNear
    BY <1>2, <1>3, <2>3, <2>4, UnchangedStaysNear, AppendedStaysNear
  <2>7. ~ AddsTaken
    <3>1. model'.members = model.members
      BY <1>2, <1>3, DomainOfModel DEF Tables
    <3> QED
      BY <3>1, StayingAddsNobody
  <2> QED
    BY <1>1, <2>5, <2>6, <2>7, ServedOutcome
<1>5. CASE k \notin DOMAIN db.groups /\ UNCHANGED db
  <2>1. model' = model
    BY <1>3, <1>5
  <2> QED
    BY <1>1, <1>5, <2>1, UnchangedKeepsDb, UnchangedStaysNear, StayingAddsNobody, ServedOutcome
<1>6. CASE IsLost
  <2> HIDE DEF row, pushes
  <2>1. "series" \in Tables /\ "series" \in DOMAIN model
    BY DomainOfModel DEF Tables
  <2>2. pushes => model'["series"] = Append(model["series"], row)
    BY <1>2, <2>1
  <2>3. db' = db /\ drawing > 0
    BY <1>6, LostIsIdle
  <2>4. pushes => ~ MatchesDatabase'
    BY <2>1, <2>2, <2>3, PushIsNoticed
  <2>5. ~ pushes => Near'
    BY <1>3, <2>3, UnchangedStaysNear DEF StaysNear
  <2>6. ~ AddsTaken
    <3>1. model'.members = model.members
      BY <1>2, <1>3, DomainOfModel DEF Tables
    <3> QED
      BY <3>1, StayingAddsNobody
  <2> QED
    BY <1>1, <2>3, <2>4, <2>5, <2>6, IdleOutcome
<1>7. \/ k \in DOMAIN db.groups /\ (DoCreateNewSparSeries(pid, title) \/ IsLost)
      \/ k \notin DOMAIN db.groups /\ UNCHANGED db
  BY NearTables DEF CreateSparSeries, Post
<1> QED
  BY <1>4, <1>5, <1>6, <1>7

LEMMA SeriesPost ==
  ASSUME DbInv, Near, NEW k \in DOMAIN db.series
  PROVE  /\ Known("series", db.series[k].pid) /\ Key("series", db.series[k].pid) = k
         /\ IsAdminOfSeries(k) <=> MayModifySeries(db.series[k].pid)
<1>1. "series" \in Tables
  BY DEF Tables
<1>2. Known("series", db.series[k].pid) /\ Key("series", db.series[k].pid) = k
  BY <1>1, KeyOfRow DEF DbInv
<1> QED
  BY <1>2, NearTables, RightsAgree DEF MayModifySeries, IsAdminOfSeries

\* Both sides append the same spar.
LEMMA AppendedSparStaysNear ==
  ASSUME DbInv, DbInv', Near, NEW row \in SparRow,
         db' = [db EXCEPT !["spars"] = Append(@, row)],
         model' = [model EXCEPT !["spars"] = Append(@, row)]
  PROVE  StaysNear
<1>1. /\ DOMAIN db' = DOMAIN db /\ DOMAIN model' = DOMAIN model
      /\ db'.spars = Append(db.spars, row) /\ model'.spars = Append(model.spars, row)
      /\ \A f \in DOMAIN db : f # "spars" => db'[f] = db[f] /\ model'[f] = model[f]
  BY DomainOfModel DEF Tables
<1>2. \A u \in Tables \ {"spars"} : model'[u] = db'[u]
  BY <1>1, DomainOfModel DEF Near
<1>3. /\ db'.groups = db.groups /\ db'.users = db.users
      /\ db'.admins = db.admins /\ db'.active = db.active
      /\ model'.admins = model.admins /\ model'.active = model.active
  BY <1>1, DomainOfModel DEF Tables
<1>4. "spars" \in Tables
  BY DEF Tables
<1>5. Len(model.spars) = Len(db.spars)
  BY <1>4, NearLengths
<1>6. db.spars \in Seq(SparRow) /\ model.spars \in Seq(SparRow)
  BY DEF DbInv, DbTypeOK, Near
<1> DEFINE n == Len(db.spars)
<1>7. /\ n \in Nat /\ DOMAIN db.spars = 1..n
      /\ db'.spars \in Seq(SparRow) /\ DOMAIN db'.spars = 1..(n + 1)
      /\ db'.spars[n + 1] = row /\ \A k \in 1..n : db'.spars[k] = db.spars[k]
  BY <1>1, <1>6, AppendRow
<1>8. /\ model'.spars \in Seq(SparRow) /\ DOMAIN model'.spars = 1..(n + 1)
      /\ model'.spars[n + 1] = row /\ \A k \in 1..n : model'.spars[k] = model.spars[k]
  BY <1>1, <1>5, <1>6, AppendRow
<1> HIDE DEF n
<1>9. ASSUME NEW k \in DOMAIN db'.spars PROVE SparAgrees(k)'
  <2>1. CASE k \in 1..n
    <3>1. db'.spars[k] = db.spars[k] /\ model'.spars[k] = model.spars[k]
      BY <1>7, <1>8, <2>1
    <3>2. SparAgrees(k)
      BY <1>7, <2>1 DEF Near
    <3> QED
      BY <3>1, <3>2 DEF SparAgrees
  <2>2. CASE k = n + 1
    BY <1>7, <1>8, <2>2 DEF SparAgrees
  <2> QED
    BY <1>7, <2>1, <2>2
<1>10. Near'
  BY <1>1, <1>2, <1>3, <1>7, <1>8, <1>9 DEF Near
<1>11. model = db => model' = db'
  OBVIOUS
<1> QED
  BY <1>10, <1>11 DEF StaysNear

LEMMA CreateSparOutcome ==
  ASSUME DbInv, Near, NEW i \in Indices, NEW open \in BOOLEAN, CreateSpar(i, open)
  PROVE  Outcome
<1> DEFINE k == Clamp(i, db.series)
           pid == db.series[k].pid
           row == [pid |-> last', series |-> k, is_open |-> open, release_draw |-> FALSE,
                   is_complete |-> FALSE]
           underWay(s) == s.series = k /\ ~ s.is_complete
           free == \A j \in DOMAIN db.spars : ~ underWay(db.spars[j])
           pushes == IsAdminOfSeries(k) /\ free
<1>1. Compare(FALSE)
  BY DEF CreateSpar, Step
<1>2. free <=> \A j \in DOMAIN model.spars : model.spars[j].series = k => model.spars[j].is_complete
  <2>1. DOMAIN model.spars = DOMAIN db.spars
    BY DEF Near
  <2>2. \A j \in DOMAIN db.spars : /\ model.spars[j].series = db.spars[j].series
                                   /\ model.spars[j].is_complete = db.spars[j].is_complete
    BY NearSpar
  <2> QED
    BY <2>1, <2>2
<1>3. ModelCreateSpar(i, open) /\ Clamp(i, model.series) = k
  BY NearTables DEF CreateSpar
<1> HIDE DEF k, free
<1>4. pushes => model' = [model EXCEPT !["spars"] = Append(@, row)]
  BY <1>2, <1>3 DEF ModelCreateSpar, Push
<1>5. ~ pushes => model' = model
  BY <1>2, <1>3 DEF ModelCreateSpar
<1>6. ~ AddsTaken
  <2>1. model'.members = model.members
    BY <1>4, <1>5, DomainOfModel DEF Tables
  <2> QED
    BY <2>1, StayingAddsNobody
<1>7. CASE k \in DOMAIN db.series /\ DoMakeSession(pid, open)
  <2>1. /\ Known("series", pid) /\ Key("series", pid) = k
        /\ IsAdminOfSeries(k) <=> MayModifySeries(pid)
    BY <1>7, SeriesPost
  <2> HIDE DEF pid
  <2>3. pushes =>
          /\ db' = [db EXCEPT !["spars"] =
                      Append(@, [pid |-> NewId("spars"), series |-> k, is_open |-> open,
                                 release_draw |-> FALSE, is_complete |-> FALSE])]
          /\ last' = NewId("spars")
    BY <1>7, <2>1 DEF DoMakeSession, Insert, Some, free
  <2>4. ~ pushes => db' = db
    BY <1>7, <2>1 DEF DoMakeSession, Insert, Some, free
  <2>5. DbInv'
    BY <1>7, MakeSessionKeepsDb
  <2>6. CASE pushes
    <3>1. db' = [db EXCEPT !["spars"] = Append(@, row)]
      BY <2>3, <2>6
    <3>2. row \in SparRow
      <4>1. "spars" \in Tables
        BY DEF Tables
      <4>2. last' \in Pid
        BY <2>3, <2>6, <4>1, TablesAreSequences DEF DbInv
      <4>3. k \in Nat
        BY <1>7 DEF DbInv, DbTypeOK
      <4> QED
        BY <4>2, <4>3 DEF SparRow
    <3>3. model' = [model EXCEPT !["spars"] = Append(@, row)]
      BY <1>4, <2>6
    <3> HIDE DEF row
    <3>4. StaysNear
      BY <2>5, <3>1, <3>2, <3>3, AppendedSparStaysNear
    <3> QED
      BY <1>1, <1>6, <2>5, <3>4, ServedOutcome
  <2>7. CASE ~ pushes
    BY <1>1, <1>5, <1>6, <2>4, <2>5, <2>7, UnchangedStaysNear, ServedOutcome
  <2> QED
    BY <2>6, <2>7
<1>8. CASE k \notin DOMAIN db.series /\ UNCHANGED db
  <2>1. model' = model
    BY <1>5, <1>8, NearTables DEF IsAdminOfSeries
  <2> QED
    BY <1>1, <1>6, <1>8, <2>1, UnchangedKeepsDb, UnchangedStaysNear, ServedOutcome
<1>9. CASE IsLost
  <2> HIDE DEF row, pushes
  <2>1. "spars" \in Tables /\ "spars" \in DOMAIN model
    BY DomainOfModel DEF Tables
  <2>2. pushes => model'["spars"] = Append(model["spars"], row)
    BY <1>4, <2>1
  <2>3. db' = db /\ drawing > 0
    BY <1>9, LostIsIdle
  <2>4. pushes => ~ MatchesDatabase'
    BY <2>1, <2>2, <2>3, PushIsNoticed
  <2>5. ~ pushes => Near'
    BY <1>5, <2>3, UnchangedStaysNear DEF StaysNear
  <2> QED
    BY <1>1, <1>6, <2>3, <2>4, <2>5, IdleOutcome
<1>10. \/ k \in DOMAIN db.series /\ (DoMakeSession(pid, open) \/ IsLost)
       \/ k \notin DOMAIN db.series /\ UNCHANGED db
  BY NearTables DEF CreateSpar, Post, k
<1> QED
  BY <1>7, <1>8, <1>9, <1>10

\* The one arm of step_model that does not refuse what its handler refuses.
LEMMA AddMemberOutcome ==
  ASSUME DbInv, Near, NEW i \in Indices, NEW name \in MemberNames, NEW email \in MemberEmails,
         AddMember(i, name, email)
  PROVE  Outcome
<1> DEFINE k == MemberSeries(i)
           pid == db.series[k].pid
           row == [pid |-> last', name |-> name, email |-> email, series |-> k]
           taken(m) == m.name = name \/ m.email = email
           some == \E j \in DOMAIN db.members : taken(db.members[j])
           pushes == /\ name \in ValidMemberNames /\ email \in ValidMemberEmails
                     /\ IsAdminOfSeries(k)
<1>1. Compare(FALSE)
  BY DEF AddMember, Step
<1>2. /\ pushes => model' = [model EXCEPT !["members"] = Append(@, row)]
      /\ ~ pushes => model' = model
  BY DEF AddMember, ModelAddMember, Push
<1>3. pushes => k \in DOMAIN db.series
  BY NearTables DEF IsAdminOfSeries
<1>4. row.name = name /\ row.email = email
  OBVIOUS
<1> HIDE DEF k, row
<1>5. "members" \in Tables /\ "members" \in DOMAIN model
  BY DomainOfModel DEF Tables
<1>6. ASSUME pushes
      PROVE  model'["members"] = Append(model["members"], row) /\ (AddsTaken <=> some)
  <2> DEFINE rows == model.members
  <2>1. model'.members = Append(rows, row) /\ rows = db.members
    BY <1>2, <1>5, <1>6, NearTables
  <2>2. /\ Append(rows, row) # rows /\ Append(rows, row) # <<>>
        /\ Append(rows, row)[Len(Append(rows, row))] = row
    <3> DEFINE S == MemberRow \cup {row}
    <3>1. rows \in Seq(MemberRow)
      BY <2>1 DEF DbInv, DbTypeOK
    <3>2. rows \in Seq(S) /\ row \in S
      BY <3>1, SeqMonotonic
    <3> HIDE DEF rows, S
    <3>3. /\ Len(Append(rows, row)) = Len(rows) + 1 /\ Len(rows) \in Nat
          /\ Append(rows, row)[Len(rows) + 1] = row
      BY <3>2, AppendRow
    <3>4. Append(rows, row) # rows
      <4>1. \A n \in Nat : n + 1 # n
        OBVIOUS
      <4> QED
        BY <3>3, <4>1
    <3>5. Append(rows, row) # <<>>
      <4>1. \A n \in Nat : n + 1 # 0
        OBVIOUS
      <4> QED
        BY <3>3, <4>1, EmptySeq
    <3> QED
      BY <3>3, <3>4, <3>5
  <2>3. AddsTaken <=> some
    BY <1>4, <2>1, <2>2 DEF AddsTaken, Some
  <2> QED
    BY <2>1, <2>3
<1>7. ~ pushes => ~ AddsTaken
  BY <1>2, StayingAddsNobody
<1>8. ASSUME db' = db
      PROVE  (MatchesDatabase' => Near') /\ (AddsTaken => ~ MatchesDatabase')
  <2> HIDE DEF pushes
  <2>1. pushes => ~ MatchesDatabase'
    BY <1>5, <1>6, <1>8, PushIsNoticed
  <2>2. ~ pushes => Near'
    BY <1>2, <1>8, UnchangedStaysNear DEF StaysNear
  <2> QED
    BY <1>7, <2>1, <2>2
<1>9. CASE k \in DOMAIN db.series /\ DoAddMember(pid, name, email)
  <2>1. /\ Known("series", pid) /\ Key("series", pid) = k
        /\ IsAdminOfSeries(k) <=> MayModifySeries(pid)
    BY <1>9, SeriesPost
  <2>2. DbInv'
    BY <1>9, AddMemberKeepsDb
  <2> HIDE DEF pid
  <2>3. pushes /\ ~ some => db' = [db EXCEPT !["members"] = Append(@, row)]
    BY <1>9, <2>1 DEF DoAddMember, Insert, Some, row
  <2>4. ~ pushes \/ some => db' = db
    BY <1>9, <2>1 DEF DoAddMember, Insert, Some
  <2> HIDE DEF some, pushes
  <2>5. CASE pushes /\ some
    <3>1. ~ MatchesDatabase' /\ AddsTaken
      BY <1>5, <1>6, <2>4, <2>5, PushIsNoticed
    <3> QED
      BY <1>1, <2>2, <3>1 DEF Outcome, Compare
  <2>6. CASE pushes /\ ~ some
    BY <1>1, <1>2, <1>6, <2>2, <2>3, <2>6, AppendedStaysNear, ServedOutcome
  <2>7. CASE ~ pushes
    BY <1>1, <1>2, <1>7, <2>2, <2>4, <2>7, UnchangedStaysNear, ServedOutcome
  <2> QED
    BY <2>5, <2>6, <2>7
<1>10. CASE k \notin DOMAIN db.series /\ UNCHANGED db
  <2> HIDE DEF pushes
  <2> QED
    BY <1>1, <1>2, <1>3, <1>7, <1>10, UnchangedKeepsDb, UnchangedStaysNear, ServedOutcome
<1>11. CASE IsLost
  BY <1>1, <1>8, <1>11, LostIsIdle, IdleOutcome
<1>12. \/ k \in DOMAIN db.series /\ (DoAddMember(pid, name, email) \/ IsLost)
       \/ k \notin DOMAIN db.series /\ UNCHANGED db
  BY NearTables DEF AddMember, Post, k
<1> QED
  BY <1>9, <1>10, <1>11, <1>12

\* A release that is lost is overlooked if the spar is closed, and only then.
LEMMA ReleaseDrawOutcome ==
  ASSUME DbInv, Near, NEW i \in Indices, ReleaseDraw(i)
  PROVE  Outcome
<1> DEFINE k == Clamp(i, model.spars)
           pid == model.spars[k].pid
           r == [model.spars[k] EXCEPT !.release_draw = TRUE, !.is_open = FALSE]
           row == [db.spars[k] EXCEPT !.release_draw = TRUE, !.is_open = FALSE]
<1>1. Compare(FALSE)
  BY DEF ReleaseDraw, Step
<1>2. /\ IsAdminOfSpar(k) => model' = [model EXCEPT !.spars = [@ EXCEPT ![k] = r]]
      /\ ~ IsAdminOfSpar(k) => model' = model
  BY DEF ReleaseDraw, ModelReleaseDraw
<1>3. ~ AddsTaken
  <2> HIDE DEF k, r
  <2>1. model'.members = model.members
    BY <1>2, DomainOfModel DEF Tables
  <2> QED
    BY <2>1, StayingAddsNobody
<1>4. k \in DOMAIN model.spars <=> k \in DOMAIN db.spars
  BY DEF Near
<1>5. \/ k \in DOMAIN db.spars /\ (DoReleaseDraw(pid) \/ IsLost)
      \/ k \notin DOMAIN db.spars /\ UNCHANGED db
  BY <1>4 DEF ReleaseDraw, Post
<1>6. IsAdminOfSpar(k) => k \in DOMAIN db.spars
  BY <1>4 DEF IsAdminOfSpar
<1> HIDE DEF k
<1>7. CASE k \in DOMAIN db.spars /\ DoReleaseDraw(pid)
  <2>1. Key("spars", pid) = k /\ (IsAdminOfSpar(k) <=> MayModifySpar(pid))
    BY <1>7, SparPost
  <2>2. DbInv'
    BY <1>7, ReleaseDrawKeepsDb
  <2> HIDE DEF pid
  <2>3. CASE IsAdminOfSpar(k)
    <3>1. db' = [db EXCEPT !.spars = [@ EXCEPT ![k] = row]]
      BY <1>7, <2>1, <2>3 DEF DoReleaseDraw, UpdateSpar
    <3>2. r = row /\ r \in SparRow /\ row \in SparRow
      <4>1. /\ model.spars[k] \in SparRow /\ db.spars[k] \in SparRow
            /\ model.spars[k].pid = db.spars[k].pid
            /\ model.spars[k].series = db.spars[k].series
            /\ model.spars[k].is_complete = db.spars[k].is_complete
        BY <1>7, NearSpar
      <4> QED
        BY <4>1 DEF SparRow
    <3>3. model' = [model EXCEPT !.spars = [@ EXCEPT ![k] = r]]
      BY <1>2, <2>3
    <3>4. model = db => model' = db'
      BY <3>1, <3>3
    <3> HIDE DEF r, row
    <3>5. Near'
      BY <1>7, <3>1, <3>2, <3>3, ReplacedStaysNear
    <3> QED
      BY <1>1, <1>3, <2>2, <3>4, <3>5, ServedOutcome DEF StaysNear
  <2>4. CASE ~ IsAdminOfSpar(k)
    <3>1. db' = db
      BY <1>7, <2>1, <2>4 DEF DoReleaseDraw, UpdateSpar
    <3> QED
      BY <1>1, <1>2, <1>3, <2>2, <2>4, <3>1, UnchangedStaysNear, ServedOutcome
  <2> QED
    BY <2>3, <2>4
<1>8. CASE k \notin DOMAIN db.spars /\ UNCHANGED db
  BY <1>1, <1>2, <1>3, <1>6, <1>8, UnchangedKeepsDb, UnchangedStaysNear, ServedOutcome
<1>9. CASE k \in DOMAIN db.spars /\ IsLost
  <2>1. db' = db /\ drawing > 0
    BY <1>9, LostIsIdle
  <2>2. ASSUME MatchesDatabase', IsAdminOfSpar(k)
        PROVE  Near'
    <3>1. model' = [model EXCEPT !.spars = [@ EXCEPT ![k] = r]]
      BY <1>2, <2>2
    <3>2. /\ model.spars[k] \in SparRow /\ db.spars[k] \in SparRow
          /\ model.spars[k].pid = db.spars[k].pid
          /\ model.spars[k].series = db.spars[k].series
          /\ model.spars[k].is_complete = db.spars[k].is_complete
      BY <1>9, NearSpar
    <3>3. r \in SparRow /\ r.pid = db.spars[k].pid /\ r.is_open = FALSE
      BY <3>2 DEF SparRow
    <3>4. ~ db.spars[k].is_open
      <4> HIDE DEF r
      <4> QED
        BY <1>9, <2>1, <2>2, <3>1, <3>3, IsOpenIsCompared
    <3>5. r = [db.spars[k] EXCEPT !.release_draw = TRUE]
      BY <3>2, <3>4 DEF SparRow
    <3>6. db' = [db EXCEPT !.spars = [@ EXCEPT ![k] = db.spars[k]]]
      BY <1>9, <2>1 DEF DbInv, DbTypeOK
    <3> HIDE DEF r
    <3> QED
      BY <1>9, <3>1, <3>2, <3>3, <3>4, <3>5, <3>6, ReplacedStaysNear
  <2>3. ~ IsAdminOfSpar(k) => Near'
    BY <1>2, <2>1, UnchangedStaysNear DEF StaysNear
  <2> QED
    BY <1>1, <1>3, <2>1, <2>2, <2>3, IdleOutcome
<1> QED
  BY <1>5, <1>7, <1>8, <1>9

LEMMA SetSparIsOpenOutcome ==
  ASSUME DbInv, Near, NEW i \in Indices, NEW state \in BOOLEAN, SetSparIsOpen(i, state)
  PROVE  Outcome
<1> DEFINE k == Clamp(i, model.spars)
           pid == model.spars[k].pid
           r == [model.spars[k] EXCEPT !.is_open = state,
                                       !.release_draw = IF state THEN FALSE ELSE @]
           row == [db.spars[k] EXCEPT !.is_open = state,
                                      !.release_draw = IF state THEN FALSE ELSE @]
<1>1. Compare(FALSE)
  BY DEF SetSparIsOpen, Step
<1>2. /\ IsAdminOfSpar(k) => model' = [model EXCEPT !.spars = [@ EXCEPT ![k] = r]]
      /\ ~ IsAdminOfSpar(k) => model' = model
  BY DEF SetSparIsOpen, ModelSetSparIsOpen
<1>3. ~ AddsTaken
  <2> HIDE DEF k, r
  <2>1. model'.members = model.members
    BY <1>2, DomainOfModel DEF Tables
  <2> QED
    BY <2>1, StayingAddsNobody
<1>4. k \in DOMAIN model.spars <=> k \in DOMAIN db.spars
  BY DEF Near
<1>5. \/ k \in DOMAIN db.spars /\ (SetIsOpen(pid, state) \/ IsLost)
      \/ k \notin DOMAIN db.spars /\ UNCHANGED db
  BY <1>4 DEF SetSparIsOpen, Post
<1>6. IsAdminOfSpar(k) => k \in DOMAIN db.spars
  BY <1>4 DEF IsAdminOfSpar
<1> HIDE DEF k
<1>7. ASSUME k \in DOMAIN db.spars
      PROVE  /\ r \in SparRow /\ row \in SparRow /\ r.pid = db.spars[k].pid /\ r.is_open = state
             /\ row.is_open = state
             /\ r = row \/ (~ row.is_open /\ r = [row EXCEPT !.release_draw = TRUE])
             /\ model.spars[k] = db.spars[k] => r = row
  <2>1. /\ model.spars[k] \in SparRow /\ db.spars[k] \in SparRow
        /\ model.spars[k].pid = db.spars[k].pid
    BY <1>7, NearSpar
  <2>2. /\ r \in SparRow /\ row \in SparRow /\ r.pid = model.spars[k].pid
        /\ r.is_open = state /\ row.is_open = state
    BY <2>1 DEF SparRow
  <2>3. model.spars[k] = db.spars[k] => r = row
    OBVIOUS
  <2>4. CASE model.spars[k] = db.spars[k]
    BY <2>1, <2>2, <2>3, <2>4
  <2>5. CASE model.spars[k] # db.spars[k]
    <3>1. model.spars[k] = [db.spars[k] EXCEPT !.release_draw = TRUE]
      BY <1>7, <2>5 DEF Near, SparAgrees
    <3>2. CASE state
      <4>1. r = row
        BY <2>1, <3>1, <3>2 DEF SparRow
      <4> QED
        BY <2>1, <2>2, <4>1
    <3>3. CASE ~ state
      <4>1. ~ row.is_open /\ r = [row EXCEPT !.release_draw = TRUE]
        BY <2>1, <2>2, <3>1, <3>3 DEF SparRow
      <4> QED
        BY <2>1, <2>2, <2>5, <4>1
    <3> QED
      BY <3>2, <3>3
  <2> QED
    BY <2>4, <2>5
<1>8. CASE k \in DOMAIN db.spars /\ SetIsOpen(pid, state)
  <2>1. Key("spars", pid) = k /\ (IsAdminOfSpar(k) <=> MayModifySpar(pid))
    BY <1>8, SparPost
  <2>2. DbInv'
    BY <1>8, SetIsOpenKeepsDb
  <2> HIDE DEF pid
  <2>3. CASE IsAdminOfSpar(k)
    <3>1. db' = [db EXCEPT !.spars = [@ EXCEPT ![k] = row]]
      BY <1>8, <2>1, <2>3 DEF SetIsOpen, UpdateSpar
    <3>2. model' = [model EXCEPT !.spars = [@ EXCEPT ![k] = r]]
      BY <1>2, <2>3
    <3>3. model = db => model' = db'
      BY <3>1, <3>2
    <3> HIDE DEF r, row
    <3>4. Near'
      BY <1>7, <1>8, <3>1, <3>2, ReplacedStaysNear
    <3> QED
      BY <1>1, <1>3, <2>2, <3>3, <3>4, ServedOutcome DEF StaysNear
  <2>4. CASE ~ IsAdminOfSpar(k)
    <3>1. db' = db
      BY <1>8, <2>1, <2>4 DEF SetIsOpen, UpdateSpar
    <3> QED
      BY <1>1, <1>2, <1>3, <2>2, <2>4, <3>1, UnchangedStaysNear, ServedOutcome
  <2> QED
    BY <2>3, <2>4
<1>9. CASE k \notin DOMAIN db.spars /\ UNCHANGED db
  BY <1>1, <1>2, <1>3, <1>6, <1>9, UnchangedKeepsDb, UnchangedStaysNear, ServedOutcome
<1>10. CASE k \in DOMAIN db.spars /\ IsLost
  <2>1. db' = db /\ drawing > 0
    BY <1>10, LostIsIdle
  <2>2. ASSUME MatchesDatabase', IsAdminOfSpar(k)
        PROVE  Near'
    <3>1. model' = [model EXCEPT !.spars = [@ EXCEPT ![k] = r]]
      BY <1>2, <2>2
    <3>2. r \in SparRow /\ r.pid = db.spars[k].pid /\ r.is_open = state
      BY <1>7, <1>10
    <3>3. db.spars[k].is_open = state
      <4> HIDE DEF r
      <4> QED
        BY <1>10, <2>1, <2>2, <3>1, <3>2, IsOpenIsCompared
    <3>4. db.spars[k] \in SparRow /\ ~ (db.spars[k].is_open /\ db.spars[k].release_draw)
      BY <1>10, NearSpar DEF DbInv, NoneOpenAndReleased
    <3>5. row = db.spars[k]
      BY <3>3, <3>4 DEF SparRow
    <3>6. db' = [db EXCEPT !.spars = [@ EXCEPT ![k] = row]]
      BY <1>10, <2>1, <3>5 DEF DbInv, DbTypeOK
    <3> HIDE DEF r, row
    <3> QED
      BY <1>7, <1>10, <3>1, <3>6, ReplacedStaysNear
  <2>3. ~ IsAdminOfSpar(k) => Near'
    BY <1>2, <2>1, UnchangedStaysNear DEF StaysNear
  <2> QED
    BY <1>1, <1>3, <2>1, <2>2, <2>3, IdleOutcome
<1> QED
  BY <1>5, <1>8, <1>9, <1>10

LEMMA MemberPost ==
  ASSUME DbInv, Near, NEW k \in DOMAIN model.members
  PROVE  Known("members", model.members[k].pid) /\ Key("members", model.members[k].pid) = k
<1>1. "members" \in Tables
  BY DEF Tables
<1> QED
  BY <1>1, NearTables, KeyOfRow DEF DbInv

\* The roles of a sign-up are compared, by its public id.
LEMMA RolesAreCompared ==
  ASSUME DbInv, Near, db' = db, NEW c \in DOMAIN db.signups, NEW form \in SignupForms,
         model' = [model EXCEPT !.signups =
                     [model.signups EXCEPT ![c] = Changed(model.signups[c], form)]],
         MatchesDatabase'
  PROVE  Near'
<1> DEFINE row == db.signups[c]
           r == Changed(row, form)
<1>1. "signups" \in Tables
  BY DEF Tables
<1>2. row \in SignupRow /\ db.signups \in Seq(SignupRow)
  BY DEF DbInv, DbTypeOK
<1>3. r \in SignupRow /\ r.pid = row.pid /\ r.member = row.member /\ r.spar = row.spar
  BY <1>2, ChangedIsTheSameSignup
<1>4. /\ model'.signups = [db.signups EXCEPT ![c] = r]
      /\ \A f \in DOMAIN model : f # "signups" => model'[f] = model[f]
      /\ DOMAIN model' = DOMAIN model
  BY DomainOfModel, NearTables DEF Tables
<1> HIDE DEF row, r
<1>5. c \in DOMAIN model'.signups /\ model'.signups[c] = r
  BY <1>4
<1>6. PICK j \in DOMAIN db.signups : Compared(db.signups[j]) = Compared(r)
  BY <1>1, <1>5 DEF MatchesDatabase, SameRows
<1>7. \A s \in SignupRow :
        Compared(s) = [f \in {"pid", "as_judge", "as_speaker"} |-> s[f]]
  <2>1. \A s \in SignupRow : DOMAIN s = {"pid", "member", "spar", "as_judge", "as_speaker"}
    BY DEF SignupRow
  <2>2. \A s \in SignupRow :
          DOMAIN s \ {"group", "series", "member", "spar", "release_draw",
                      "is_complete"} = {"pid", "as_judge", "as_speaker"}
    BY <2>1
  <2> QED
    BY <2>2 DEF Compared
<1>8. db.signups[j] \in SignupRow
  BY <1>2
<1>9. [f \in {"pid", "as_judge", "as_speaker"} |-> db.signups[j][f]]
        = [f \in {"pid", "as_judge", "as_speaker"} |-> r[f]]
  BY <1>3, <1>6, <1>7, <1>8
<1>10. \A f \in {"pid", "as_judge", "as_speaker"} : db.signups[j][f] = r[f]
  BY <1>9
<1>11. j = c
  <2>1. db.signups[j].pid = <<"signups", j>> /\ row.pid = <<"signups", c>>
    BY <1>1 DEF DbInv, RowsAreNumbered, row
  <2>2. <<"signups", j>> = <<"signups", c>>
    BY <1>3, <1>10, <2>1
  <2>3. \A a, b : <<"signups", a>> = <<"signups", b>> => a = b
    OBVIOUS
  <2> QED
    BY <2>2, <2>3
<1>12. r = row
  <2>1. r.as_judge = row.as_judge /\ r.as_speaker = row.as_speaker
    BY <1>10, <1>11 DEF row
  <2> QED
    BY <1>2, <1>3, <2>1 DEF SignupRow
<1>13. model'.signups = db.signups
  BY <1>2, <1>4, <1>12 DEF row
<1>14. \A t \in Tables \ {"spars"} : model'[t] = db'[t]
  BY <1>4, <1>13, DomainOfModel DEF Near
<1>15. model'.spars = model.spars /\ model'.admins = model.admins /\ model'.active = model.active
  BY <1>4, DomainOfModel DEF Tables
<1>16. \A k \in DOMAIN db'.spars : SparAgrees(k)'
  BY <1>15 DEF Near, SparAgrees
<1> QED
  BY <1>4, <1>14, <1>15, <1>16 DEF Near

\* The assertion of the model does not fail, and a sign-up that is repeated is
\* the only one of its member and spar.
LEMMA SignupOutcome ==
  ASSUME DbInv, Near, NEW i \in Indices, NEW j \in Indices, NEW form \in SignupForms,
         Signup(i, j, form)
  PROVE  Outcome
<1> DEFINE s == SignupSpar(j)
           m == SignupMember(i)
           there == s \in DOMAIN db.spars /\ m \in DOMAIN db.members
           spid == model.spars[s].pid
           mpid == model.members[m].pid
           mine == {k \in DOMAIN db.signups :
                      db.signups[k].spar = s /\ db.signups[k].member = m}
           row == [pid |-> last', member |-> m, spar |-> s,
                   as_judge |-> form.as_judge, as_speaker |-> form.as_speaker]
           counts == SignupCounts(s, m)
           the == CHOOSE k \in mine : TRUE
<1>1. DOMAIN model.spars = DOMAIN db.spars /\ DOMAIN model.members = DOMAIN db.members
  BY NearTables DEF Near
<1>2. counts <=> there /\ db.spars[s].is_open
  BY <1>1, NearSpar DEF SignupCounts
<1>3. counts => ~ db.spars[s].release_draw /\ ~ model.spars[s].release_draw
  BY <1>2, NearSpar DEF DbInv, NoneOpenAndReleased
<1>4. Compare(FALSE)
  BY <1>3 DEF Signup, Step, ModelPanics
<1>5. mine = {k \in DOMAIN model.signups :
                model.signups[k].member = m /\ model.signups[k].spar = s}
  BY NearTables
<1>6. ModelSignup(i, j, form)
  BY DEF Signup
<1>7. \/ there /\ DoRegisterForSpar(spid, mpid, form)
      \/ db' = db /\ ~ there
      \/ IsLost
  BY <1>1 DEF Signup, Post
<1>8. ~ counts => model' = model
  BY <1>6 DEF ModelSignup
<1>9. counts /\ mine # {} =>
        model' = [model EXCEPT !.signups =
                    [model.signups EXCEPT ![the] = Changed(model.signups[the], form)]]
  BY <1>5, <1>6 DEF ModelSignup
<1>10. counts /\ mine = {} => model' = [model EXCEPT !["signups"] = Append(@, row)]
  BY <1>5, <1>6 DEF ModelSignup, Push
<1>11. mine # {} => the \in DOMAIN db.signups /\ mine = {the}
  <2>1. mine # {} => the \in mine
    OBVIOUS
  <2>2. \A k \in mine : the \in mine => k = the
    <3> HIDE DEF the
    <3> QED
      BY DEF DbInv, SignupsAreUnique
  <2> HIDE DEF the
  <2> QED
    BY <2>1, <2>2
<1>12. ~ AddsTaken
  <2> HIDE DEF counts, mine, the, row
  <2>1. model'.members = model.members
    BY <1>8, <1>9, <1>10, DomainOfModel DEF Tables
  <2> QED
    BY <2>1, StayingAddsNobody
<1>13. there => /\ Known("spars", spid) /\ Key("spars", spid) = s
                /\ Known("members", mpid) /\ Key("members", mpid) = m
  <2> HIDE DEF s, m
  <2> QED
    BY <1>1, SparPost, MemberPost
<1> HIDE DEF s, m, the, counts
<1>14. CASE there /\ DoRegisterForSpar(spid, mpid, form)
  <2>1. DbInv'
    BY <1>14, RegisterKeepsDb
  <2> HIDE DEF spid, mpid
  <2>2. CASE counts /\ mine # {}
    <3>1. db' = [db EXCEPT !.signups = [k \in DOMAIN @ |->
                   IF k \in mine THEN Changed(@[k], form) ELSE @[k]]]
      <4> HIDE DEF mine
      <4> QED
        BY <1>2, <1>3, <1>13, <1>14, <2>2 DEF DoRegisterForSpar, mine
    <3>2. [k \in DOMAIN db.signups |->
             IF k \in mine THEN Changed(db.signups[k], form) ELSE db.signups[k]]
            = [db.signups EXCEPT ![the] = Changed(db.signups[the], form)]
      <4>1. db.signups \in Seq(SignupRow)
        BY DEF DbInv, DbTypeOK
      <4> HIDE DEF mine
      <4> QED
        BY <1>11, <2>2, <4>1
    <3> HIDE DEF mine
    <3>3. db' = [db EXCEPT !.signups =
                   [db.signups EXCEPT ![the] = Changed(db.signups[the], form)]]
      BY <3>1, <3>2
    <3>4. model' = [model EXCEPT !.signups =
                      [model.signups EXCEPT ![the] = Changed(model.signups[the], form)]]
      BY <1>9, <2>2
    <3>5. /\ DOMAIN db' = DOMAIN db /\ DOMAIN model' = DOMAIN model
          /\ db'.signups = [db.signups EXCEPT ![the] = Changed(db.signups[the], form)]
          /\ model'.signups = [model.signups EXCEPT ![the] =
                                Changed(model.signups[the], form)]
          /\ \A f \in DOMAIN db : f # "signups" => db'[f] = db[f] /\ model'[f] = model[f]
      BY <3>3, <3>4, DomainOfModel DEF Tables
    <3>6. \A t \in Tables \ {"spars"} : model'[t] = db'[t]
      <4>1. model'.signups = db'.signups
        BY <3>5, NearTables
      <4> QED
        BY <3>5, <4>1, DomainOfModel DEF Near
    <3>7. /\ db'.groups = db.groups /\ db'.users = db.users /\ db'.spars = db.spars
          /\ db'.admins = db.admins /\ db'.active = db.active
          /\ model'.admins = model.admins /\ model'.active = model.active
          /\ model'.spars = model.spars
      BY <3>5, DomainOfModel DEF Tables
    <3>8. \A k \in DOMAIN db'.spars : SparAgrees(k)'
      BY <3>7 DEF Near, SparAgrees
    <3>9. Near'
      BY <3>5, <3>6, <3>7, <3>8 DEF Near
    <3>10. model = db => model' = db'
      BY <3>3, <3>4
    <3> QED
      BY <1>4, <1>12, <2>1, <3>9, <3>10, ServedOutcome DEF StaysNear
  <2>3. CASE counts /\ mine = {}
    <3>1. db' = [db EXCEPT !["signups"] = Append(@, row)]
      BY <1>2, <1>3, <1>13, <1>14, <2>3 DEF DoRegisterForSpar, Insert
    <3> HIDE DEF row, mine
    <3>2. StaysNear
      BY <1>10, <2>3, <3>1, AppendedStaysNear
    <3> QED
      BY <1>4, <1>12, <2>1, <3>2, ServedOutcome
  <2>4. CASE ~ counts
    <3>1. db' = db
      BY <1>2, <1>13, <1>14, <2>4 DEF DoRegisterForSpar, Insert
    <3> QED
      BY <1>4, <1>8, <1>12, <2>1, <2>4, <3>1, UnchangedStaysNear, ServedOutcome
  <2> QED
    BY <2>2, <2>3, <2>4
<1>15. CASE db' = db /\ ~ there
  BY <1>2, <1>4, <1>8, <1>12, <1>15, UnchangedKeepsDb, UnchangedStaysNear, ServedOutcome
<1>16. CASE IsLost
  <2>1. db' = db /\ drawing > 0
    BY <1>16, LostIsIdle
  <2>2. ASSUME MatchesDatabase', counts, mine # {}
        PROVE  Near'
    <3>1. model' = [model EXCEPT !.signups =
                      [model.signups EXCEPT ![the] = Changed(model.signups[the], form)]]
      BY <1>9, <2>2
    <3> HIDE DEF mine
    <3> QED
      BY <1>11, <2>1, <2>2, <3>1, RolesAreCompared
  <2>3. counts /\ mine = {} => ~ MatchesDatabase'
    <3>1. "signups" \in Tables /\ "signups" \in DOMAIN model
      BY DomainOfModel DEF Tables
    <3> HIDE DEF row, mine
    <3>2. counts /\ mine = {} => model'["signups"] = Append(model["signups"], row)
      BY <1>10, <3>1
    <3> QED
      BY <2>1, <3>1, <3>2, PushIsNoticed
  <2>4. ~ counts => Near'
    BY <1>8, <2>1, UnchangedStaysNear DEF StaysNear
  <2> QED
    BY <1>4, <1>12, <2>1, <2>2, <2>3, <2>4, IdleOutcome
<1> QED
  BY <1>7, <1>14, <1>15, <1>16

\* The copy differs from the database in who is logged in at most.
LEMMA GenerateDrawOutcome ==
  ASSUME DbInv, Near, NEW i \in Indices, GenerateDrawAndSync(i)
  PROVE  Outcome
<1>1. db' = db /\ model' = [db EXCEPT !.active = model.active] /\ Compare(FALSE)
  BY DEF GenerateDrawAndSync, GenerateDraw, IsLost, Sync
<1>2. /\ DOMAIN model' = DOMAIN db' /\ model'.active = model.active
      /\ \A f \in DOMAIN db : f # "active" => model'[f] = db'[f]
  BY <1>1, DomainOfModel
<1>3. /\ \A t \in Tables : model'[t] = db'[t]
      /\ model'.spars = db'.spars /\ model'.admins = db'.admins
      /\ model'.members = db'.members
  BY <1>2, DomainOfModel DEF Tables
<1>4. db.spars \in Seq(SparRow)
  BY DEF DbInv, DbTypeOK
<1>5. Near'
  BY <1>1, <1>2, <1>3, <1>4 DEF Near, SparAgrees
<1>6. model = db => model' = db'
  BY <1>1 DEF DbInv, DbTypeOK
<1>7. ~ AddsTaken
  BY <1>1, <1>3, NearTables, StayingAddsNobody
<1> QED
  BY <1>1, <1>5, <1>6, <1>7, UnchangedKeepsDb, ServedOutcome DEF StaysNear

LEMMA EmptyIsNear == db = NoRows /\ model = NoRows => DbInv /\ Near
BY EmptySeq DEF NoRows, DbInv, DbTypeOK, RowsAreNumbered, OneUser, NoneOpenAndReleased,
   SignupsAreUnique, Tables, Near, SparAgrees

LEMMA EmptyIsNearNext ==
  ASSUME db' = NoRows, model' = NoRows
  PROVE  DbInv' /\ Near'
<1>1. (db = NoRows /\ model = NoRows => DbInv /\ Near)'
  BY EmptyIsNear, PTL
<1> QED
  BY <1>1

LEMMA EveryOutcome ==
  ASSUME DbInv, Near, ~ failed, [Next]_vars
  PROVE  Outcome
<1>1. ASSUME NEW account \in Accounts, Setup(account)
      PROVE  Outcome
  BY <1>1, SetupOutcome
<1>2. ASSUME NEW i \in Indices, Login(i)
      PROVE  Outcome
  BY <1>2, LoginOutcome
<1>3. ASSUME NEW name \in GroupNames, NEW website \in Websites \cup {NoWebsite},
             CreateGroup(name, website)
      PROVE  Outcome
  BY <1>3, CreateGroupOutcome
<1>4. ASSUME NEW i \in Indices, NEW title \in Titles, CreateSparSeries(i, title)
      PROVE  Outcome
  BY <1>4, CreateSeriesOutcome
<1>5. ASSUME NEW i \in Indices, NEW open \in BOOLEAN, CreateSpar(i, open)
      PROVE  Outcome
  BY <1>5, CreateSparOutcome
<1>6. ASSUME NEW i \in Indices, NEW name \in MemberNames, NEW email \in MemberEmails,
             AddMember(i, name, email)
      PROVE  Outcome
  BY <1>6, AddMemberOutcome
<1>7. ASSUME NEW i \in Indices, ReleaseDraw(i)
      PROVE  Outcome
  BY <1>7, ReleaseDrawOutcome
<1>8. ASSUME NEW i \in Indices, NEW state \in BOOLEAN, SetSparIsOpen(i, state)
      PROVE  Outcome
  BY <1>8, SetSparIsOpenOutcome
<1>9. ASSUME NEW i \in Indices, NEW j \in Indices, NEW form \in SignupForms,
             Signup(i, j, form)
      PROVE  Outcome
  BY <1>9, SignupOutcome
<1>10. ASSUME NEW i \in Indices, GenerateDrawAndSync(i)
      PROVE  Outcome
  BY <1>10, GenerateDrawOutcome
<1>11. CASE DrawEndsBeside \/ UNCHANGED vars
  <2>1. db' = db /\ model' = model /\ failed' = failed
    BY <1>11 DEF DrawEndsBeside, DrawEnds, vars
  <2> QED
    BY <2>1, UnchangedKeepsDb, UnchangedStaysNear, StayingAddsNobody DEF Outcome, StaysNear
<1>12. CASE Reset
  <2>1. DbInv' /\ Near'
    BY <1>12, EmptyIsNearNext DEF Reset
  <2>2. ~ AddsTaken
    BY <1>12 DEF Reset, AddsTaken, NoRows
  <2> QED
    BY <1>12, <2>1, <2>2 DEF Reset, Outcome
<1>13. CASE ResetFails
  <2>1. db' = [db EXCEPT !.active = Nobody] /\ drawing > 0 /\ failed'
    BY <1>13 DEF ResetFails
  <2>2. DbInv'
    BY <2>1, LoggedOutKeepsDb
  <2>3. MayBeLost
    BY <2>1, DomainOfModel DEF MayBeLost, Tables
  <2> QED
    BY <2>1, <2>2, <2>3 DEF Outcome
<1> QED
  BY <1>1, <1>2, <1>3, <1>4, <1>5, <1>6, <1>7, <1>8, <1>9, <1>10, <1>11, <1>12, <1>13
     DEF Next

LEMMA TestInvInductive == TestInv /\ [Next]_vars => TestInv'
<1> SUFFICES ASSUME TestInv, [Next]_vars PROVE TestInv'
  OBVIOUS
<1>1. CASE ~ failed
  BY <1>1, EveryOutcome DEF TestInv, Outcome
<1>2. CASE failed
  <2>1. Reset \/ ResetFails \/ DrawEndsBeside \/ UNCHANGED vars
    BY <1>2 DEF Next, Step, Compare, Setup, Login, CreateGroup, CreateSparSeries, CreateSpar,
       AddMember, ReleaseDraw, SetSparIsOpen, Signup, GenerateDrawAndSync
  <2>2. CASE Reset
    BY <2>2, EmptyIsNearNext DEF Reset, TestInv
  <2>3. CASE ResetFails
    BY <2>3, LoggedOutKeepsDb DEF ResetFails, TestInv
  <2>4. CASE DrawEndsBeside \/ UNCHANGED vars
    <3>1. db' = db /\ failed' = failed
      BY <2>4 DEF DrawEndsBeside, DrawEnds, vars
    <3> QED
      BY <1>2, <3>1, UnchangedKeepsDb DEF TestInv
  <2> QED
    BY <2>1, <2>2, <2>3, <2>4
<1> QED
  BY <1>1, <1>2

LEMMA TestInvHolds == Spec => []TestInv
<1>1. Init => TestInv
  BY EmptyIsNear DEF Init, TestInv
<1> QED
  BY <1>1, TestInvInductive, PTL DEF Spec

\* As long as no assertion of the test has failed, the model is a copy of the
\* database, also in the columns that assert_matches_database does not look at,
\* but for releases of closed spars and a first login that were lost to a draw.
THEOREM DriftStaysConfined == Spec => []DriftIsConfined
<1>1. TestInv => DriftIsConfined
  BY DEF TestInv, Near, DriftIsConfined
<1> QED
  BY <1>1, TestInvHolds, PTL

\* An assertion fails, or an exact copy becomes an inexact one, only in a step in
\* which the AddMember arm of step_model takes a name or an e-mail that
\* do_add_member refuses, or beside a draw that a request may have been lost to.
\* The former always fails.  All other arms refuse what their handlers refuse and
\* write what they write.
THEOREM FailuresHaveReasons == Spec => EveryFailureHasAReason
<1>1. TestInv /\ [Next]_vars =>
        [~ failed =>
           /\ AddsTaken => failed'
           /\ failed' \/ (model = db /\ model' # db') =>
                AddsTaken \/ MayBeLost \/ model.active # db.active]_vars
  BY EveryOutcome DEF TestInv, Outcome
<1> QED
  BY <1>1, TestInvHolds, PTL DEF Spec, EveryFailureHasAReason
==============================================================================
