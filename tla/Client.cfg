\* Streams complete and clients close: the parts stop.
SPECIFICATION Spec
CONSTANTS Off = Off
INVARIANTS QuietAfterCancel CompletedMeansWhole LossReported
PROPERTIES CancelReturns StoppedStreamCompletes PoolDrains
CHECK_DEADLOCK FALSE
