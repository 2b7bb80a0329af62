SPECIFICATION SiteSpec
CONSTANTS
  Browsers = {b}
  Passwords = {"p"}
  Usernames = {u1, u2}
  Groups = {g}
  Addresses = {"ada@", "Ada@"}
  Lower <- LowerCase
  Settings = {"0", "1"}
  MaxUsers = 2
  Nobody = Nobody
  NoRow = NoRow
  Series = {s, t}
  Names = {"anna", "cat lee"}
  PlainNames = {"anna"}
  Emails = {e1, e2, e3}
  GroupOf <- OneGroup
SYMMETRY Alike
INVARIANTS
  SuperuserIsFirst
  AccountsAreDistinct
  MembersAreDistinct
PROPERTIES
  ClosedMeansInvited
  ApprovalsDoNotBlock
  RequestsAreAnswered
