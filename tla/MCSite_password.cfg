SPECIFICATION SiteSpec
CONSTANTS
  Browsers = {b, c}
  Passwords = {"p", "q"}
  Usernames = {u1}
  Groups = {g}
  Addresses = {"ada@"}
  Lower <- LowerCase
  Settings = {"0", "1"}
  MaxUsers = 1
  Nobody = Nobody
  NoRow = NoRow
  Series = {}
  Names = {}
  PlainNames = {}
  Emails = {}
  GroupOf <- OneGroup
PROPERTY OldPasswordIsCurrent
