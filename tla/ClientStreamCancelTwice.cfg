SPECIFICATION Spec
CONSTANTS
  Protocol = "rest"
  Owned = TRUE
  Cancellers = {c1, c2}
  MaxChunks = 2
  MaxEvents = 2
INVARIANT QuietAfterCancel
CHECK_DEADLOCK FALSE
