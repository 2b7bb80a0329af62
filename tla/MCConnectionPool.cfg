SPECIFICATION Spec
CONSTANTS
  Requests = {page, join, open, draw, mail}
  DbFirst = {page, join, open}
  Optional = {page}
  Size = 3
INVARIANTS
  NothingLeaks
  OnlyDbFirstBlock
PROPERTY
  EveryRequestEnds
