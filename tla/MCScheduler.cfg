SPECIFICATION Spec
CONSTANTS
  Device = {1, 2}
  Job = {1, 2, 3}
  Handler = {h1}
  Loop = loop
  Label = {x}
  Runtime <- MCRuntime
  Ceiling = {1}
  Request <- MCRequest
  Declared <- MCDeclared
  None = None
  MaxChange = 1
INVARIANTS WithinCeiling AnswersHold
PROPERTIES NoOvertaking QueueMoves
CHECK_DEADLOCK FALSE
