------------------------------ MODULE SiteProofs ------------------------------
(****************************************************************************)
(* Accounts, members and join requests, for any browsers, addresses, groups *)
(* and series.  Each part is proved about by itself, and SiteIsBoth carries *)
(* the results over to the site.                                            *)
(****************************************************************************)
EXTENDS Site, SequenceTheorems, TLAPS

-----------------------------------------------------------------------------
(* Members.                                                                 *)

\* MembersAreDistinct is inductive beside the type of the tables;
\* RequestsAreDistinct is the part that ApprovalsDoNotBlock needs.
PeopleInv == TypeOK /\ MembersAreDistinct /\ RequestsAreDistinct

\* A row added where there is a place shares no data within its series.
LEMMA PlaceKeepsDistinct ==
  ASSUME TypeOK, MembersAreDistinct, NEW p \in Person, HasPlaceFor(members, p),
         members' = members \cup {p}
  PROVE  MembersAreDistinct'
<1> SUFFICES ASSUME NEW a \in members', NEW b \in members',
                    a.series = b.series, SharesData(a, b)
             PROVE  a = b
  BY DEF MembersAreDistinct, SharesData
<1>1. CASE a \in members /\ b \in members
  BY <1>1 DEF MembersAreDistinct
<1>2. CASE a = p \/ b = p
  BY <1>2 DEF HasPlaceFor, Known, SharesData
<1> QED
  BY <1>1, <1>2

\* A person no table knows has a place in both indexes.
LEMMA UnknownHasPlace ==
  ASSUME NEW p, ~ Known(members, p)
  PROVE  HasPlaceFor(members, p)
BY DEF HasPlaceFor, Known

LEMMA PeopleStep == PeopleInv /\ [Next]_vars => PeopleInv'
<1> SUFFICES ASSUME PeopleInv, [Next]_vars PROVE PeopleInv'
  OBVIOUS
<1> USE DEF PeopleInv
<1>1. ASSUME NEW p \in Person, AddMember(p) PROVE PeopleInv'
  <2>1. MembersAreDistinct'
    BY <1>1, UnknownHasPlace, PlaceKeepsDistinct DEF AddMember
  <2> QED
    BY <1>1, <2>1 DEF AddMember, TypeOK, RequestsAreDistinct
<1>2. ASSUME NEW p \in Person, RequestToJoin(p) PROVE PeopleInv'
  <2>1. RequestsAreDistinct'
    BY <1>2 DEF RequestToJoin, RequestsAreDistinct, Known, SharesData
  <2> QED
    BY <1>2, <2>1 DEF RequestToJoin, TypeOK, MembersAreDistinct
<1>3. ASSUME NEW r \in requests, ApproveJoinRequest(r) PROVE PeopleInv'
  <2>1. r \in Person
    BY DEF TypeOK
  <2>2. MembersAreDistinct'
    BY <1>3, <2>1, PlaceKeepsDistinct DEF ApproveJoinRequest
  <2> QED
    BY <1>3, <2>1, <2>2 DEF ApproveJoinRequest, TypeOK, RequestsAreDistinct
<1>4. ASSUME NEW m \in members, NEW email \in Emails, SetMemberEmail(m, email)
      PROVE  PeopleInv'
  <2> DEFINE n == [m EXCEPT !.email = email]
  <2>1. /\ m \in Person /\ n \in Person
        /\ n.series = m.series /\ n.name = m.name /\ n.email = email
    BY DEF TypeOK, Person
  <2> HIDE DEF n
  <2>2. members' = (members \ {m}) \cup {n}
    BY <1>4 DEF SetMemberEmail, n
  <2>3. \A q \in members \ {m} : q.series = n.series => ~ SharesData(q, n)
    BY <1>4, <2>1 DEF SetMemberEmail, MembersAreDistinct, SharesData
  <2>4. MembersAreDistinct'
    <3> SUFFICES ASSUME NEW a \in members', NEW b \in members',
                        a.series = b.series, SharesData(a, b)
                 PROVE  a = b
      BY DEF MembersAreDistinct, SharesData
    <3>1. CASE a \in members \ {m} /\ b \in members \ {m}
      BY <3>1 DEF MembersAreDistinct
    <3>2. CASE a = n \/ b = n
      BY <2>2, <2>3, <3>2 DEF SharesData
    <3> QED
      BY <2>2, <3>1, <3>2
  <2> QED
    BY <1>4, <2>1, <2>2, <2>4 DEF SetMemberEmail, TypeOK, RequestsAreDistinct
<1>5. CASE UNCHANGED vars
  BY <1>5 DEF vars, TypeOK, MembersAreDistinct, RequestsAreDistinct
<1> QED
  BY <1>1, <1>2, <1>3, <1>4, <1>5 DEF Next

LEMMA PeopleInvariant == Spec => []PeopleInv
<1>1. Init => PeopleInv
  BY DEF Init, PeopleInv, TypeOK, MembersAreDistinct, RequestsAreDistinct
<1> QED
  BY <1>1, PeopleStep, PTL DEF Spec

\* Members of a series have names and e-mail addresses of their own, by hand, by
\* request or by change of address (the handlers of spar_series/admin_routes.rs).
THEOREM MembersStayDistinct == Spec => []MembersAreDistinct
<1>1. PeopleInv => MembersAreDistinct
  BY DEF PeopleInv
<1> QED
  BY <1>1, PeopleInvariant, PTL

\* An approval never spoils another one (approve_join_request): requests share no
\* data, since do_request2join_spar_series looks at the requests of every series.
THEOREM ApprovalsAreIndependent == Spec => ApprovalsDoNotBlock
<1>1. ASSUME PeopleInv, NEW r \in requests, ApproveJoinRequest(r),
             NEW q \in requests', HasPlaceFor(members, q)
      PROVE  HasPlaceFor(members', q)
  <2>1. ~ SharesData(r, q)
    BY <1>1 DEF ApproveJoinRequest, PeopleInv, RequestsAreDistinct
  <2> QED
    BY <1>1, <2>1 DEF ApproveJoinRequest, HasPlaceFor, Known, SharesData
<1>2. PeopleInv /\ [Next]_vars =>
        [\A r \in requests : ApproveJoinRequest(r) =>
           \A q \in requests' :
             HasPlaceFor(members, q) => HasPlaceFor(members', q)]_vars
  BY <1>1
<1> QED
  BY <1>2, PeopleInvariant, PTL DEF Spec, ApprovalsDoNotBlock

\* A request disappears only when its person has become a member
\* (approve_join_request; no other handler deletes one).
THEOREM NobodyIsForgotten == Spec => RequestsAreAnswered
<1>1. ASSUME [Next]_vars, NEW r \in requests \ requests'
      PROVE  InSeries(r.series, r.name)'
  <2>1. ApproveJoinRequest(r)
    BY <1>1 DEF Next, AddMember, RequestToJoin, ApproveJoinRequest,
                SetMemberEmail, vars
  <2> QED
    BY <2>1 DEF ApproveJoinRequest, InSeries
<1>2. [Next]_vars =>
        [\A r \in requests \ requests' : InSeries(r.series, r.name)']_vars
  BY <1>1
<1> QED
  BY <1>2, PTL DEF Spec, RequestsAreAnswered

-----------------------------------------------------------------------------
(* Accounts.                                                                *)

User == [username : Usernames, email : Addresses, password : Passwords,
         is_superuser : BOOLEAN, may_create_resources : BOOLEAN]

Invite == [email : Addresses, may_create_resources : BOOLEAN]

AccountsTypeOK ==
  /\ users \in Seq(User)
  /\ invites \subseteq Invite
  /\ magic_links \subseteq DOMAIN users
  /\ login \in [Browsers -> (DOMAIN users) \cup {Nobody}]

\* ClosedMeansInvited needs the last part: registration is never disabled
\* before the set-up, as only a superuser can disable it.
AccountsInv ==
  /\ AccountsTypeOK
  /\ SuperuserIsFirst
  /\ AccountsAreDistinct
  /\ users = <<>> => disable_signups = NoRow

\* The new account is the last row, and the others stay what they were.
LEMMA UserAdded ==
  ASSUME AccountsTypeOK, NEW name \in Usernames, NEW mail \in Addresses,
         NEW password \in Passwords, NEW super \in BOOLEAN, NEW creates \in BOOLEAN,
         NewUser(name, mail, password, super, creates)
  PROVE  /\ users' \in Seq(User)
         /\ Len(users') = Len(users) + 1
         /\ DOMAIN users' = (DOMAIN users) \cup {Len(users) + 1}
         /\ \A u \in DOMAIN users : users'[u] = users[u]
         /\ users'[Len(users) + 1] =
              [username |-> name, email |-> mail, password |-> password,
               is_superuser |-> super, may_create_resources |-> creates]
<1> DEFINE row == [username |-> name, email |-> mail, password |-> password,
                   is_superuser |-> super, may_create_resources |-> creates]
<1>1. row \in User
  BY DEF User
<1>2. users \in Seq(User) /\ users' = Append(users, row)
  BY DEF AccountsTypeOK, NewUser
<1> HIDE DEF row
<1>3. /\ users' \in Seq(User)
      /\ Len(users') = Len(users) + 1
      /\ \A u \in 1..Len(users) : users'[u] = users[u]
      /\ users'[Len(users) + 1] = row
  BY <1>1, <1>2, AppendProperties
<1>4. Len(users) \in Nat /\ DOMAIN users = 1..Len(users) /\ DOMAIN users' = 1..Len(users')
  BY <1>2, <1>3, LenProperties
<1>5. 1..(Len(users) + 1) = 1..Len(users) \cup {Len(users) + 1}
  BY <1>4
<1> QED
  BY <1>3, <1>4, <1>5 DEF row

\* What the three ways to an account have in common: name and address are new,
\* and only the first account is made a superuser.
LEMMA NewUserKeepsAccounts ==
  ASSUME AccountsInv, NEW name \in Usernames, NEW mail \in Addresses,
         NEW password \in Passwords, NEW super \in BOOLEAN, NEW creates \in BOOLEAN,
         NewUser(name, mail, password, super, creates),
         ~ NameTaken(name), ~ EmailTaken(mail), super => users = <<>>
  PROVE  AccountsInv'
<1> DEFINE n == Len(users) + 1
           row == [username |-> name, email |-> mail, password |-> password,
                   is_superuser |-> super, may_create_resources |-> creates]
<1>1. AccountsTypeOK
  BY DEF AccountsInv
<1>2. /\ users' \in Seq(User)
      /\ Len(users') = Len(users) + 1
      /\ DOMAIN users' = (DOMAIN users) \cup {n}
      /\ \A u \in DOMAIN users : users'[u] = users[u]
      /\ users'[n] = row
  BY <1>1, UserAdded, Zenon
<1>3. /\ users' \in Seq(User)
      /\ DOMAIN users' = (DOMAIN users) \cup {n}
      /\ \A u \in DOMAIN users : users'[u] = users[u]
      /\ users'[n].username = name /\ users'[n].email = mail
      /\ users'[n].is_superuser = super
  BY <1>2
<1>4. users = <<>> => n = 1
  OBVIOUS
<1> HIDE DEF n, row
<1>5. AccountsTypeOK'
  BY <1>3 DEF AccountsInv, AccountsTypeOK, NewUser
<1>6. SuperuserIsFirst'
  BY <1>3, <1>4 DEF AccountsInv, SuperuserIsFirst
<1>7. AccountsAreDistinct'
  BY <1>3 DEF AccountsInv, AccountsAreDistinct, NameTaken, EmailTaken
<1>8. users' # <<>>
  <2>1. Len(users') # 0 /\ Len(<<>>) = 0
    BY <1>1, <1>2, LenProperties, EmptySeq DEF AccountsTypeOK
  <2> QED
    BY <2>1
<1> QED
  BY <1>5, <1>6, <1>7, <1>8 DEF AccountsInv

LEMMA AccountsStep == AccountsInv /\ [AccountsNext]_accountVars => AccountsInv'
<1> SUFFICES ASSUME AccountsInv, [AccountsNext]_accountVars PROVE AccountsInv'
  OBVIOUS
<1>1. AccountsTypeOK
  BY DEF AccountsInv
<1>2. ASSUME NEW name \in Usernames, NEW mail \in Addresses, NEW password \in Passwords,
             DoSetup(name, mail, password) \/ DoRegister(name, mail, password)
      PROVE  AccountsInv'
  <2>1. users = <<>> => ~ NameTaken(name) /\ ~ EmailTaken(mail)
    BY DEF NameTaken, EmailTaken
  <2> QED
    BY <1>2, <2>1, NewUserKeepsAccounts DEF DoSetup, DoRegister
<1>3. ASSUME NEW b \in Browsers, NEW i \in invites, NEW mail \in Addresses,
             NEW name \in Usernames, NEW password \in Passwords,
             DoAcceptInvite(b, i, mail, name, password)
      PROVE  AccountsInv'
  <2>1. Lower[i.email] \in Addresses /\ i.may_create_resources \in BOOLEAN
    BY <1>1, AccountsAssumption DEF AccountsTypeOK, Invite
  <2> QED
    BY <1>3, <2>1, NewUserKeepsAccounts DEF DoAcceptInvite, InviteIsValid
<1>4. ASSUME NEW b \in Browsers, NEW value, DoUpsertConfig(b, value)
      PROVE  AccountsInv'
  <2>1. users # <<>>
    BY <1>1, <1>4
       DEF DoUpsertConfig, MayModifyGlobalConfig, LoggedIn, AccountsTypeOK
  <2> QED
    BY <1>4, <2>1 DEF DoUpsertConfig, AccountsInv, AccountsTypeOK, SuperuserIsFirst,
                      AccountsAreDistinct
<1>5. ASSUME NEW b \in Browsers, NEW mail \in Addresses, NEW creates \in BOOLEAN,
             DoInviteUser(b, mail, creates)
      PROVE  AccountsInv'
  <2>1. invites' \subseteq Invite
    BY <1>1, <1>5, AccountsAssumption DEF DoInviteUser, AccountsTypeOK, Invite
  <2> QED
    BY <1>5, <2>1 DEF DoInviteUser, AccountsInv, AccountsTypeOK, SuperuserIsFirst,
                      AccountsAreDistinct
<1>6. ASSUME NEW b \in Browsers, NEW old \in Passwords, NEW new \in Passwords,
             DoSetPassword(b, old, new)
      PROVE  AccountsInv'
  <2>1. /\ users' \in Seq(User) /\ DOMAIN users' = DOMAIN users
        /\ \A u \in DOMAIN users :
             /\ users'[u].username = users[u].username
             /\ users'[u].email = users[u].email
             /\ users'[u].is_superuser = users[u].is_superuser
    <3> DEFINE id == changing[b].id
               row == [users[id] EXCEPT !.password = new]
    <3>1. CASE users' = users
      BY <1>1, <3>1 DEF AccountsTypeOK
    <3>2. CASE users' # users
      <4>1. users' = [users EXCEPT ![id] = row]
        BY <1>6, <3>2 DEF DoSetPassword
      <4>2. id \in DOMAIN users => row \in User
        <5> SUFFICES ASSUME id \in DOMAIN users PROVE row \in User
          OBVIOUS
        <5>1. users[id] \in User
          BY <1>1, ElementOfSeq, LenProperties DEF AccountsTypeOK
        <5> QED
          BY <5>1 DEF User
      <4>3. users' \in Seq(User)
        <5>1. /\ users \in [1..Len(users) -> User] /\ Len(users) \in Nat
              /\ DOMAIN users = 1..Len(users)
          BY <1>1, LenProperties DEF AccountsTypeOK
        <5> HIDE DEF id, row
        <5>2. users' \in [1..Len(users) -> User]
          BY <4>1, <4>2, <5>1
        <5> QED
          BY <5>1, <5>2, SeqDef
      <4>4. \A u \in DOMAIN users : users[u] \in User
        BY <1>1, ElementOfSeq, LenProperties DEF AccountsTypeOK
      <4> QED
        BY <4>1, <4>3, <4>4 DEF User
    <3> QED
      BY <3>1, <3>2
  <2>2. users' = <<>> => users = <<>>
    BY <2>1, <1>1, EmptySeq DEF AccountsTypeOK
  <2> QED
    BY <1>6, <2>1, <2>2 DEF DoSetPassword, AccountsInv, AccountsTypeOK,
                            SuperuserIsFirst, AccountsAreDistinct
<1>7. ASSUME NEW b \in Browsers, NEW mail, NEW password,
             DoPasswordLogin(b, mail, password)
      PROVE  AccountsInv'
  BY <1>7 DEF DoPasswordLogin, AccountsInv, AccountsTypeOK, SuperuserIsFirst,
              AccountsAreDistinct
<1>8. ASSUME NEW b \in Browsers, NEW mail, DoLogin(b, mail)
      PROVE  AccountsInv'
  BY <1>8 DEF DoLogin, AccountsInv, AccountsTypeOK, SuperuserIsFirst, AccountsAreDistinct
<1>9. ASSUME NEW b \in Browsers, NEW u \in magic_links, DoLoginWithCode(b, u)
      PROVE  AccountsInv'
  BY <1>9 DEF DoLoginWithCode, AccountsInv, AccountsTypeOK, SuperuserIsFirst,
              AccountsAreDistinct
<1>10. ASSUME NEW b \in Browsers, NEW g \in Groups,
              Logout(b) \/ LoadUser(b) \/ DoCreateGroup(b, g)
       PROVE  AccountsInv'
  BY <1>10 DEF Logout, LoadUser, DoCreateGroup, AccountsInv, AccountsTypeOK,
               SuperuserIsFirst, AccountsAreDistinct
<1>11. ASSUME NEW u \in magic_links, MagicLinkExpires(u)
       PROVE  AccountsInv'
  BY <1>11 DEF MagicLinkExpires, AccountsInv, AccountsTypeOK, SuperuserIsFirst,
               AccountsAreDistinct
<1>12. CASE UNCHANGED accountVars
  BY <1>12 DEF accountVars, AccountsInv, AccountsTypeOK, SuperuserIsFirst,
               AccountsAreDistinct
<1>13. ASSUME NEW b \in Browsers, Logout(b) \/ LoadUser(b)
       PROVE  AccountsInv'
  BY <1>13 DEF Logout, LoadUser, AccountsInv, AccountsTypeOK, SuperuserIsFirst,
               AccountsAreDistinct
<1> QED
  BY <1>2, <1>3, <1>4, <1>5, <1>6, <1>7, <1>8, <1>9, <1>10, <1>11, <1>12, <1>13
     DEF AccountsNext

LEMMA AccountsInvariant == AccountsSpec => []AccountsInv
<1>1. AccountsInit => AccountsInv
  BY DEF AccountsInit, AccountsInv, AccountsTypeOK, SuperuserIsFirst, AccountsAreDistinct
<1> QED
  BY <1>1, AccountsStep, PTL DEF AccountsSpec

\* Nobody but the first account of a site is a superuser (do_setup), whatever
\* comes between the set-up and later registrations and invitations.
THEOREM NobodyBecomesSuperuser == AccountsSpec => []SuperuserIsFirst
<1>1. AccountsInv => SuperuserIsFirst
  BY DEF AccountsInv
<1> QED
  BY <1>1, AccountsInvariant, PTL

\* No two accounts share a name or an address, whichever of do_setup,
\* do_register and do_accept_invite made them.
THEOREM AccountsStayDistinct == AccountsSpec => []AccountsAreDistinct
<1>1. AccountsInv => AccountsAreDistinct
  BY DEF AccountsInv
<1> QED
  BY <1>1, AccountsInvariant, PTL

\* Only NewUser makes the table longer, and only DoAcceptInvite uses it while
\* registration is disabled: do_setup needs an empty table, which cannot be.
THEOREM RegistrationStaysClosed == AccountsSpec => ClosedMeansInvited
<1> DEFINE Invited == \E i \in invites :
             /\ users'[Len(users')].email = i.email
             /\ users'[Len(users')].may_create_resources = i.may_create_resources
             /\ ~ users'[Len(users')].is_superuser
<1>1. ASSUME AccountsInv, AccountsNext, disable_signups = "1", Len(users') > Len(users)
      PROVE  Invited
  <2>1. AccountsTypeOK /\ users # <<>> /\ Len(users) \in Nat
    BY <1>1, AccountsAssumption, LenProperties DEF AccountsInv, AccountsTypeOK
  <2>2. ASSUME NEW b \in Browsers, NEW i \in invites, NEW mail \in Addresses,
               NEW name \in Usernames, NEW password \in Passwords,
               DoAcceptInvite(b, i, mail, name, password)
        PROVE  Invited
    <3>1. /\ i.email = Lower[mail] /\ Lower[i.email] = i.email
          /\ i.email \in Addresses /\ i.may_create_resources \in BOOLEAN
      BY <2>1, <2>2, AccountsAssumption DEF DoAcceptInvite, AccountsTypeOK, Invite
    <3>2. NewUser(name, i.email, password, FALSE, i.may_create_resources)
      BY <2>2, <3>1 DEF DoAcceptInvite
    <3>3. /\ Len(users') = Len(users) + 1
          /\ users'[Len(users) + 1] =
               [username |-> name, email |-> i.email, password |-> password,
                is_superuser |-> FALSE, may_create_resources |-> i.may_create_resources]
      BY <2>1, <3>1, <3>2, UserAdded, Zenon
    <3> QED
      BY <3>3
  <2>3. ASSUME NEW b \in Browsers, NEW old, NEW new, DoSetPassword(b, old, new)
        PROVE  Len(users') = Len(users)
    BY <2>1, <2>3 DEF DoSetPassword, AccountsTypeOK
  <2>4. \/ \E b \in Browsers, i \in invites, mail \in Addresses,
              name \in Usernames, password \in Passwords :
             DoAcceptInvite(b, i, mail, name, password)
        \/ \E b \in Browsers, old, new \in Passwords : DoSetPassword(b, old, new)
        \/ users' = users
    BY <1>1, <2>1, AccountsAssumption
       DEF AccountsNext, DoSetup, DoRegister, RegistrationsAreOpen, DoUpsertConfig,
           DoInviteUser, DoPasswordLogin, DoLogin, DoLoginWithCode, DoCreateGroup,
           Logout, LoadUser, MagicLinkExpires
  <2> QED
    BY <1>1, <2>1, <2>2, <2>3, <2>4
<1>2. AccountsInv /\ [AccountsNext]_accountVars =>
        [disable_signups = "1" /\ Len(users') > Len(users) => Invited]_accountVars
  BY <1>1
<1> QED
  BY <1>2, AccountsInvariant, PTL DEF AccountsSpec, ClosedMeansInvited

-----------------------------------------------------------------------------
(* The site.                                                                *)

\* Every step of the site is a step of the accounts and a step of the members,
\* or leaves them alone: permissions only take steps away.
THEOREM SiteIsBoth == SiteSpec => AccountsSpec /\ Spec
<1>1. SiteInit => AccountsInit /\ Init
  BY DEF SiteInit
<1>2. [SiteNext]_siteVars => [AccountsNext]_accountVars /\ [Next]_vars
  <2>1. ASSUME MemberStep PROVE Next /\ UNCHANGED accountVars
    BY <2>1 DEF MemberStep, Next
  <2>2. ASSUME NEW b \in Browsers, NEW s \in Series, CreateSparSeries(b, s)
        PROVE  UNCHANGED <<accountVars, vars>>
    BY <2>2 DEF CreateSparSeries
  <2> QED
    BY <2>1, <2>2 DEF SiteNext, siteVars
<1> QED
  BY <1>1, <1>2, PTL DEF SiteSpec, AccountsSpec, Spec

\* What holds of the parts holds of the site, where they work beside each other.
THEOREM SiteIsCorrect ==
  SiteSpec => /\ [](SuperuserIsFirst /\ AccountsAreDistinct /\ MembersAreDistinct)
              /\ ClosedMeansInvited
              /\ ApprovalsDoNotBlock
              /\ RequestsAreAnswered
BY SiteIsBoth, NobodyBecomesSuperuser, AccountsStayDistinct, RegistrationStaysClosed,
   MembersStayDistinct, ApprovalsAreIndependent, NobodyIsForgotten, PTL
==============================================================================
