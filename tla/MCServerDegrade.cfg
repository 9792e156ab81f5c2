CONSTANTS
  Docs = {d1}
  MaxMsgs = 5
  HandlerLimit = 4
  Batches = FALSE
  Kinds = {"open", "change", "completion"}
SPECIFICATION Spec
INVARIANT CompletionDegrades
CHECK_DEADLOCK FALSE
