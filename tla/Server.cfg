\* Handlers return, connections close and streams end: the parts stop.
SPECIFICATION Spec
CONSTANTS Off = Off
INVARIANTS WholeMeansWhole  RequestsExact ChunkingIrrelevant BestRouteServes
PROPERTIES HandlersReturn
CHECK_DEADLOCK FALSE
