SPECIFICATION Spec
CONSTANTS
  Requests = {r1, r2}
  Console = console
INVARIANT CaptureIsOwn
CHECK_DEADLOCK FALSE
