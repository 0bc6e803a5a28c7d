\* What new_service and onbnet.start leave open; tlc -continue shows all four.
SPECIFICATION Spec
CONSTANTS
  Workers = {w1, w2}
  Main = main
  MaxServices = 4
  MaxPosts = 1
INVARIANTS
  StartArrives
  RequestHeard
  NoSharedNumber
  ScriptMayFail
\* a crash is the end
CHECK_DEADLOCK FALSE
