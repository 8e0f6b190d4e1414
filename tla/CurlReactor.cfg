\* The reactor thread ends after Shutdown or a failed epoll_wait.
SPECIFICATION Spec
CONSTANTS
  t1 = t1 t2 = t2 h1 = h1 o1 = o1 o2 = o2
  Transfers = {t1, t2}
  Handles = {h1}
  Owners = {o1, o2}
  NoTransfer = NoTransfer
  HandleOf <- MCHandleOf
  OwnerOf <- MCOwnerOf
  MaxRequests = 2
INVARIANTS NoTransferLost
PROPERTIES ImplementsContract CancelTakesEffect
CHECK_DEADLOCK FALSE
