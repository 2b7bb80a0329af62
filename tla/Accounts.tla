------------------------------ MODULE Accounts ------------------------------
(****************************************************************************)
(* Accounts, and the ways to one: the set-up of the site, registration,     *)
(* and invitations.  Browsers log in with a password or a mailed link, and  *)
(* an account's password is changed in two steps: the request guard loads   *)
(* the account, and the handler compares and writes later.  Every other     *)
(* handler is one transaction and one action; refused requests have no      *)
(* step.                                                                    *)
(****************************************************************************)
EXTENDS Sequences, Integers

CONSTANTS
  Browsers, Passwords, Usernames, Groups,
  Addresses,    \* e-mail addresses as people type them
  Lower,        \* an address as invitations keep it: trimmed, in lower case
  Settings,     \* values of disable_signups
  MaxUsers,     \* bound: accounts
  Nobody, NoRow

ASSUME AccountsAssumption ==
  /\ Lower \in [Addresses -> Addresses]
  /\ \A a \in Addresses : Lower[Lower[a]] = Lower[a]
  /\ MaxUsers \in Nat
  /\ NoRow # "1"

VARIABLES
  users,            \* table users, in order of id; no account is deleted
  disable_signups,  \* the row of that key in config, or NoRow
  invites,          \* account_invites; the code of one is known by its address
  magic_links,      \* ids of the accounts with a link that has not expired
  login,            \* the login cookie of each browser
  changing,         \* the account that a request to change a password has loaded
  admin             \* the member of group_members with signing power, by group

accountVars == <<users, disable_signups, invites, magic_links, login, changing, admin>>

\* The unique indexes of users.
NameTaken(name)  == \E u \in DOMAIN users : users[u].username = name
EmailTaken(mail) == \E u \in DOMAIN users : users[u].email = mail

NewUser(name, mail, password, super, creates) ==
  /\ Len(users) < MaxUsers
  /\ users' = Append(users,
       [username |-> name, email |-> mail, password |-> password,
        is_superuser |-> super, may_create_resources |-> creates])
  /\ UNCHANGED <<disable_signups, invites, magic_links, login, changing, admin>>

LoggedIn(b) == login[b] # Nobody

\* check_if_registrations_are_open: a value that is no number ends the request.
RegistrationsAreOpen == disable_signups \in {NoRow, "0"}

\* Permission::ModifyGlobalConfig.
MayModifyGlobalConfig(b) == LoggedIn(b) /\ users[login[b]].is_superuser

\* check_invite_is_valid.
InviteIsValid(i) == i \in invites /\ ~ EmailTaken(Lower[i.email])

AccountsInit ==
  /\ users = <<>>
  /\ disable_signups = NoRow
  /\ invites = {}
  /\ magic_links = {}
  /\ login = [b \in Browsers |-> Nobody]
  /\ changing = [b \in Browsers |-> Nobody]
  /\ admin = [g \in Groups |-> Nobody]

-----------------------------------------------------------------------------
(* Handlers with a plausible mistake in each, for mutation testing.         *)

\* do_setup that looks for a superuser, not for any account.
DoSetupUnlessSuperuser(name, mail, password) ==
  /\ \A u \in DOMAIN users : ~ users[u].is_superuser
  /\ ~ NameTaken(name) /\ ~ EmailTaken(mail)
  /\ NewUser(name, mail, password, TRUE, TRUE)

\* do_register over a table without the index on e-mails.
DoRegisterByName(name, mail, password) ==
  /\ RegistrationsAreOpen
  /\ ~ NameTaken(name)
  /\ NewUser(name, mail, password, FALSE, TRUE)

\* do_accept_invite that gives everybody the rights of do_register.
DoAcceptInviteAsRegistered(b, i, mail, name, password) ==
  /\ ~ LoggedIn(b)
  /\ InviteIsValid(i)
  /\ i.email = Lower[mail]
  /\ ~ NameTaken(name)
  /\ NewUser(name, Lower[i.email], password, FALSE, TRUE)

-----------------------------------------------------------------------------
(* The handlers.                                                            *)

\* do_setup: the first account, a superuser.
DoSetup(name, mail, password) ==
  /\ users = <<>>
  /\ NewUser(name, mail, password, TRUE, TRUE)

\* do_register: the address is kept as typed, and only the index compares it.
DoRegister(name, mail, password) ==
  /\ RegistrationsAreOpen
  /\ ~ NameTaken(name)
  /\ ~ EmailTaken(mail)
  /\ NewUser(name, mail, password, FALSE, TRUE)

\* do_upsert_config for the key disable_signups.
DoUpsertConfig(b, value) ==
  /\ MayModifyGlobalConfig(b)
  /\ disable_signups' = value
  /\ UNCHANGED <<users, invites, magic_links, login, changing, admin>>

\* do_invite_user: a second invitation of an address repeats the first.
DoInviteUser(b, mail, creates) ==
  /\ MayModifyGlobalConfig(b)
  /\ ~ EmailTaken(mail)
  /\ invites' = IF \E i \in invites : i.email = Lower[mail] THEN invites
                ELSE invites \cup
                       {[email |-> Lower[mail], may_create_resources |-> creates]}
  /\ UNCHANGED <<users, disable_signups, magic_links, login, changing, admin>>

\* do_accept_invite, by somebody with the code of the invitation.
DoAcceptInvite(b, i, mail, name, password) ==
  /\ ~ LoggedIn(b)
  /\ InviteIsValid(i)
  /\ i.email = Lower[mail]
  /\ ~ NameTaken(name)
  /\ NewUser(name, Lower[i.email], password, FALSE, i.may_create_resources)

\* do_password_login.
DoPasswordLogin(b, mail, password) ==
  /\ ~ LoggedIn(b)
  /\ \E u \in DOMAIN users :
       /\ users[u].email = mail /\ users[u].password = password
       /\ login' = [login EXCEPT ![b] = u]
  /\ UNCHANGED <<users, disable_signups, invites, magic_links, changing, admin>>

\* do_login: a link is mailed.
DoLogin(b, mail) ==
  /\ ~ LoggedIn(b)
  /\ \E u \in DOMAIN users :
       users[u].email = mail /\ magic_links' = magic_links \cup {u}
  /\ UNCHANGED <<users, disable_signups, invites, login, changing, admin>>

\* do_login_with_code.
DoLoginWithCode(b, u) ==
  /\ ~ LoggedIn(b)
  /\ u \in magic_links
  /\ login' = [login EXCEPT ![b] = u]
  /\ UNCHANGED <<users, disable_signups, invites, magic_links, changing, admin>>

\* The thirty minutes of a link are over.
MagicLinkExpires(u) ==
  /\ u \in magic_links
  /\ magic_links' = magic_links \ {u}
  /\ UNCHANGED <<users, disable_signups, invites, login, changing, admin>>

Logout(b) ==
  /\ login' = [login EXCEPT ![b] = Nobody]
  /\ UNCHANGED <<users, disable_signups, invites, magic_links, changing, admin>>

\* The request guard of do_set_password loads the account of the cookie.
LoadUser(b) ==
  /\ LoggedIn(b) /\ changing[b] = Nobody
  /\ changing' = [changing EXCEPT ![b] =
       [id |-> login[b], password |-> users[login[b]].password]]
  /\ UNCHANGED <<users, disable_signups, invites, magic_links, login, admin>>

\* do_set_password: the old password is compared with what the guard loaded.
DoSetPassword(b, old, new) ==
  /\ changing[b] # Nobody
  /\ users' = IF old = changing[b].password
                THEN [users EXCEPT ![changing[b].id].password = new]
                ELSE users
  /\ changing' = [changing EXCEPT ![b] = Nobody]
  /\ UNCHANGED <<disable_signups, invites, magic_links, login, admin>>

\* do_create_group: the name of a group is free; its creator becomes its admin.
DoCreateGroup(b, g) ==
  /\ LoggedIn(b) /\ users[login[b]].may_create_resources
  /\ admin[g] = Nobody
  /\ admin' = [admin EXCEPT ![g] = login[b]]
  /\ UNCHANGED <<users, disable_signups, invites, magic_links, login, changing>>

AccountsNext ==
  \/ \E name \in Usernames, mail \in Addresses, password \in Passwords :
       \/ DoSetup(name, mail, password)
       \/ DoRegister(name, mail, password)
       \/ \E b \in Browsers, i \in invites : DoAcceptInvite(b, i, mail, name, password)
  \/ \E b \in Browsers :
       \/ \E value \in Settings : DoUpsertConfig(b, value)
       \/ \E mail \in Addresses, creates \in BOOLEAN : DoInviteUser(b, mail, creates)
       \/ \E mail \in Addresses, password \in Passwords : DoPasswordLogin(b, mail, password)
       \/ \E mail \in Addresses : DoLogin(b, mail)
       \/ \E u \in magic_links : DoLoginWithCode(b, u)
       \/ \E old, new \in Passwords : DoSetPassword(b, old, new)
       \/ \E g \in Groups : DoCreateGroup(b, g)
       \/ Logout(b) \/ LoadUser(b)
  \/ \E u \in magic_links : MagicLinkExpires(u)

AccountsSpec == AccountsInit /\ [][AccountsNext]_accountVars

-----------------------------------------------------------------------------

\* A superuser is the first account of the site, whoever completes the set-up
\* when, and in whatever way the others come (do_setup).  It also follows that
\* a site whose first visitor registers before the set-up has none for ever.
SuperuserIsFirst == \A u \in DOMAIN users : users[u].is_superuser => u = 1

\* Registration, invitations and set-up together never give two accounts the
\* same user name or the same address, although do_register leaves addresses
\* to the index and do_accept_invite looks for another spelling of it.
AccountsAreDistinct ==
  \A u, w \in DOMAIN users :
    users[u].username = users[w].username \/ users[u].email = users[w].email => u = w

\* While registration is disabled, an account can be had by invitation only,
\* with the rights of the first invitation sent to that address (up.sql:30).
ClosedMeansInvited ==
  [][disable_signups = "1" /\ Len(users') > Len(users) =>
       \E i \in invites :
         /\ users'[Len(users')].email = i.email
         /\ users'[Len(users')].may_create_resources = i.may_create_resources
         /\ ~ users'[Len(users')].is_superuser]_accountVars

\* A password changes only for somebody who gave the one before: "your actual,
\* current, password" (change_password.rs).
OldPasswordIsCurrent ==
  [][\A b \in Browsers, old, new \in Passwords :
       DoSetPassword(b, old, new) /\ users' # users =>
         old = users[changing[b].id].password]_accountVars
==============================================================================
