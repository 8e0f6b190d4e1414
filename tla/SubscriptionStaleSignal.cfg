SPECIFICATION Spec
CONSTANTS
    Tasks = {task}
    States = {working, completed}
    Terminal = {completed}
    Publishers = {p1}
    Sessions = {s1}
    Cancellers = {c1}
    Closer = closer
    NoThread = NoThread
    NoTask = NoTask
    MaxPublish = 1
INVARIANT ClosedAfterTerminal
