CONSTANTS
  Docs = {d1}
  MaxMsgs = 2
  HandlerLimit = 4
  Batches = TRUE
  Kinds = {"open", "change"}
SPECIFICATION Spec
INVARIANT DocsFollowClient
CHECK_DEADLOCK FALSE
