\* Calls, updates and the clock are bounded: the parts stop.
SPECIFICATION Spec
CONSTANTS Off = Off c1 = c1 c2 = c2 c3 = c3
SYMMETRY Symmetry
INVARIANTS HooksPaired AnswersOwn NeverUntrusted StoreExact SuccessMeansAcknowledged
CHECK_DEADLOCK FALSE
