SPECIFICATION Spec
CONSTANTS
  Handlers = {h1, h2}
  Analyses = {memo1}
  Cited = {{memo1}}
  Comments = {fine}
  NoComment = NoComment
  MaxRows = 1
  MaxPatches = 2
PROPERTIES
  DecisionsAreFinal
CHECK_DEADLOCK FALSE
