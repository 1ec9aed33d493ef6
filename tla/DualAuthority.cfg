SPECIFICATION FairSpec
CONSTANT Handlers = {h1, h2, h3}
INVARIANTS ApprovalIsOperators UndecidedIsPending
PROPERTIES EveryRequestEnds
