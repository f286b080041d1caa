SPECIFICATION FairSpec
CONSTANTS
  Activities = {a1, a2, a3, a4}
  NoActivity = NoActivity
  MaxCalls = 2
INVARIANTS TypeOK RenderedIsCurrent ResultsGoToStarter NobodyWaitsTwice PendingHasActivity
PROPERTIES WaitEnds UpdateIsDrawn
