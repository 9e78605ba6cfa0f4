\* Two handlers; one failure, crash or redelivery.
SPECIFICATION Spec
CONSTANTS
  None = None
  Limit = 17
  Bodies <- MCBodies
  Heading <- MCHeading
  Stacked = 2
  Handlers = {h1, h2}
  Texts <- MCTexts
  Parts <- MCParts
  OpenAtFirst <- MCOpen
  Discussed = {0, 1}
  Openers = {"open"}
  MaxItems = 2
  MaxActs = 3
  MaxUpsets = 1
SYMMETRY MCSymmetry
INVARIANTS TypeOK NoEcho CommentsShown RowsName MessagesShown RepliesRouted PartsRender
CHECK_DEADLOCK FALSE
