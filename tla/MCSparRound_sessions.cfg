SPECIFICATION SteadySpec
CONSTANTS
  Members = {"ann", "bob", "cat", "dan"}
  Teams = {"og", "oo"}
  Panel = Panel
  NoSignup = NoSignup
  NoPartner = NoPartner
  NoRow = NoRow
  Null = Null
  Spars = {1, 2}
  Drafts = {"d1"}
  SignupForms <- RolelessForms
  Edits <- NoEdits
  Sheets = {"x"}
  MaxConfirms = 1
  MaxBallots = 0
INVARIANTS
  OneCurrentSpar
  ReleasedIsClosed
PROPERTIES
  KeepsSessionPromise
  RoledDraftsAreDrawn
