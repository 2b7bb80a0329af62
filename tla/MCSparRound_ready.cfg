SPECIFICATION SteadySpec
CONSTANTS
  Members = {"ann", "bob", "cat", "dan"}
  Teams = {"og", "oo"}
  Panel = Panel
  NoSignup = NoSignup
  NoPartner = NoPartner
  NoRow = NoRow
  Null = Null
  Spars = {1}
  Drafts = {"d1"}
  SignupForms <- RolelessForms
  Edits <- NoEdits
  Sheets = {"x"}
  MaxConfirms = 0
  MaxBallots = 0
PROPERTIES
  DrawBecomesReady
