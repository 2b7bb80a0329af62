----------------------------- MODULE Membership -----------------------------
(****************************************************************************)
(* Members of the spar series and the requests to become one.  A request is *)
(* compared with members and requests when it is made, and turned into a    *)
(* member later, against nothing but the unique indexes of the schema.      *)
(* A request that is refused, or whose insert fails and panics, has no step.*)
(* Every series takes requests and approves none by itself: that is how     *)
(* do_create_new_spar_series makes them, and no handler changes it.         *)
(****************************************************************************)
EXTENDS FiniteSets

CONSTANTS Series, Names, Emails,
          PlainNames   \* names that validate_username accepts

ASSUME MembershipAssumption == PlainNames \subseteq Names

VARIABLES members,     \* spar_series_members
          requests     \* spar_series_join_requests

vars == <<members, requests>>

\* A row of either table.  Names never change.
Person == [series : Series, name : Names, email : Emails]

SharesData(p, q) == p.name = q.name \/ p.email = q.email

Known(table, p) == \E q \in table : SharesData(p, q)

\* The unique indexes (spar_series_id, name) and (spar_series_id, email).
HasPlaceFor(table, p) == ~ Known({q \in table : q.series = p.series}, p)

-----------------------------------------------------------------------------
(* Handlers with a plausible mistake in each, for mutation testing.         *)

\* do_request2join_spar_series that looks for members only.
RequestToJoinAgain(p) ==
  /\ ~ Known(members, p)
  /\ requests' = requests \cup {p}
  /\ UNCHANGED members

\* approve_join_request that deletes the request if the insert conflicts, too.
ApproveOrIgnore(r) ==
  /\ r \in requests
  /\ members' = IF HasPlaceFor(members, r) THEN members \cup {r} ELSE members
  /\ requests' = requests \ {r}

\* set_member_email over a table without the index on e-mails.
SetEmailUnchecked(m, email) ==
  /\ m \in members
  /\ members' = (members \ {m}) \cup {[m EXCEPT !.email = email]}
  /\ UNCHANGED requests

-----------------------------------------------------------------------------
(* The model.                                                               *)

Init == members = {} /\ requests = {}

\* do_add_member: refused if a member of any series has the name or e-mail.
\* Requests are not looked at.
AddMember(p) ==
  /\ p.name \in PlainNames
  /\ ~ Known(members, p)
  /\ members' = members \cup {p}
  /\ UNCHANGED requests

\* do_request2join_spar_series: refused if a request or a member of any series
\* has the name or e-mail.
RequestToJoin(p) ==
  /\ ~ Known(requests, p)
  /\ ~ Known(members, p)
  /\ requests' = requests \cup {p}
  /\ UNCHANGED members

\* approve_join_request: the insert needs a free place in both indexes.
ApproveJoinRequest(r) ==
  /\ r \in requests
  /\ HasPlaceFor(members, r)
  /\ members' = members \cup {r}
  /\ requests' = requests \ {r}

\* set_member_email: the update needs a free place in the index on e-mails.
SetMemberEmail(m, email) ==
  /\ m \in members
  /\ \A q \in members : q.series = m.series /\ q.email = email => q = m
  /\ members' = (members \ {m}) \cup {[m EXCEPT !.email = email]}
  /\ UNCHANGED requests

Next ==
  \/ \E p \in Person : AddMember(p) \/ RequestToJoin(p)
  \/ \E r \in requests : ApproveJoinRequest(r)
  \/ \E m \in members, email \in Emails : SetMemberEmail(m, email)

Spec == Init /\ [][Next]_vars

-----------------------------------------------------------------------------
(* Safety.                                                                  *)

\* Both tables hold people, each row with the columns and types of the schema.
TypeOK == members \subseteq Person /\ requests \subseteq Person

\* Whichever way people come into a series, and however e-mails change while
\* requests wait, no two members of it share a name or an e-mail address.
MembersAreDistinct ==
  \A p, q \in members : p.series = q.series /\ SharesData(p, q) => p = q

\* What makes approvals independent: no two requests share a name or an e-mail
\* address, whichever series they are for (do_request2join_spar_series).
RequestsAreDistinct == \A p, q \in requests : SharesData(p, q) => p = q

\* Approving one request never takes the place of another: one that could be
\* approved before can be approved after (approve_join_request).
ApprovalsDoNotBlock ==
  [][\A r \in requests : ApproveJoinRequest(r) =>
       \A q \in requests' :
         HasPlaceFor(members, q) => HasPlaceFor(members', q)]_vars

InSeries(s, name) == \E m \in members : m.series = s /\ m.name = name

\* Nobody who asked to join is forgotten: a request is deleted only when there
\* is a member of that series under its name (approve_join_request).
RequestsAreAnswered ==
  [][\A r \in requests \ requests' : InSeries(r.series, r.name)']_vars
==============================================================================
