SPECIFICATION Spec
CONSTANTS
  Activities = {a1, a2, a3}
  NoActivity = NoActivity
  MaxCalls = 2
PROPERTY WaitIsForOwnRender
