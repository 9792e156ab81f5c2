CONSTANTS
  Docs = {d1}
  MaxMsgs = 3
  HandlerLimit = 4
  Batches = FALSE
  Kinds = {"open", "change"}
SPECIFICATION Spec
INVARIANT RepublishIsFresh
CHECK_DEADLOCK FALSE
