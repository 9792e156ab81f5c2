CONSTANTS
  Docs = {d1}
  MaxMsgs = 1
  HandlerLimit = 4
  Batches = FALSE
  Kinds = {"open", "change"}
SPECIFICATION Spec
INVARIANT AstOnlyUntilReady
CHECK_DEADLOCK FALSE
