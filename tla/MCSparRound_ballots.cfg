SPECIFICATION Spec
CONSTANTS
  Members = {"ann", "bob", "cat", "dan"}
  Teams = {"og", "oo"}
  Panel = Panel
  NoSignup = NoSignup
  NoPartner = NoPartner
  NoRow = NoRow
  Null = Null
  Spars = {1}
  Drafts = {"d1"}
  SignupForms <- PanelForms
  Edits <- NoEdits
  Sheets = {"x", "y"}
  MaxConfirms = 1
  MaxBallots = 3
INVARIANTS
  UnforcedReadingsAgree
