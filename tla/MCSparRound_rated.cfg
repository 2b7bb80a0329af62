SPECIFICATION Spec
CONSTANTS
  Members = {"ann", "bob", "cat"}
  Teams = {"cg", "co"}
  Panel = Panel
  NoSignup = NoSignup
  NoPartner = NoPartner
  NoRow = NoRow
  Null = Null
  Spars = {1}
  Drafts = {"d1"}
  SignupForms <- SessionForms
  Edits <- NoEdits
  Sheets = {"x"}
  MaxConfirms = 1
  MaxBallots = 1
INVARIANTS
  SpeakersAreRated
