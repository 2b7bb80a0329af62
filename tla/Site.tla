-------------------------------- MODULE Site --------------------------------
(****************************************************************************)
(* The site around the spars: Accounts and Membership composed.  The two    *)
(* share nothing but the database; what joins them is has_permission, by    *)
(* which an account that created a group creates the series in it and       *)
(* changes their members.                                                   *)
(****************************************************************************)
EXTENDS Accounts, Membership

CONSTANTS GroupOf   \* the group that a series is created in

ASSUME SiteAssumption == GroupOf \in [Series -> Groups]

VARIABLE created    \* table spar_series; a series is its title in its group

siteVars == <<accountVars, vars, created>>

\* Permission::ModifyResourceInGroup: the creator is a group's one member.
MayModify(b, g) == LoggedIn(b) /\ admin[g] = login[b]

\* Whoever may change the members of the series.
Organises(b, s) == s \in created /\ MayModify(b, GroupOf[s])

SiteInit == AccountsInit /\ Init /\ created = {}

\* do_create_new_spar_series: the title is new in its group.
CreateSparSeries(b, s) ==
  /\ MayModify(b, GroupOf[s])
  /\ s \notin created
  /\ created' = created \cup {s}
  /\ UNCHANGED <<accountVars, vars>>

\* The handlers of Membership, each with the series it looks up.
MemberStep ==
  /\ \/ \E p \in Person : p.series \in created /\ RequestToJoin(p)
     \/ \E b \in Browsers :
          \/ \E p \in Person : Organises(b, p.series) /\ AddMember(p)
          \/ \E s \in created, r \in requests : Organises(b, s) /\ ApproveJoinRequest(r)
          \/ \E m \in members, email \in Emails :
               Organises(b, m.series) /\ SetMemberEmail(m, email)
  /\ UNCHANGED <<accountVars, created>>

SiteNext ==
  \/ AccountsNext /\ UNCHANGED <<vars, created>>
  \/ \E b \in Browsers, s \in Series : CreateSparSeries(b, s)
  \/ MemberStep

SiteSpec == SiteInit /\ [][SiteNext]_siteVars
==============================================================================
