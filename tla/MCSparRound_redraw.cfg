SPECIFICATION Spec
CONSTANTS
  Members = {"ann", "bob", "cat"}
  Teams = {"og", "oo"}
  Panel = Panel
  NoSignup = NoSignup
  NoPartner = NoPartner
  NoRow = NoRow
  Null = Null
  Spars = {1}
  Drafts = {d1, d2}
  SignupForms <- OneRoomForms
  Edits <- OneRoomEdits
  Sheets = {"x"}
  MaxConfirms = 2
  MaxBallots = 1
SYMMETRY DraftSymmetry
INVARIANTS
  TypeOK
  NobodyIsDoubleBooked
  PlacedAreSignedUp
  LinksMatchPanels
  BallotsComeFromThePanel
  BallotedRoomsAreFull
  MailGoesToItsJudge
PROPERTIES
  DraftChangesByEditsOnly
