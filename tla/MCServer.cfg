CONSTANTS
  Docs = {d1}
  MaxMsgs = 3
  HandlerLimit = 2
  Batches = FALSE
  Kinds = {"open", "change", "close", "hover", "completion"}
SPECIFICATION FairSpec
INVARIANTS DocsFollowClient NoCoreOnlyFlash HandlerPublishesOneVersion LastHandlerPublishIsFresh
PROPERTIES HandlersPublishInOrder EveryMessageIsHandled
CHECK_DEADLOCK FALSE
