SPECIFICATION FairSpec
CONSTANTS
    Tasks = {task}
    States = {working, completed}
    Terminal = {completed}
    Publishers = {p1}
    Sessions = {s1}
    Cancellers = {c1}
    Closer = closer
    NoThread = NoThread
    NoTask = NoTask
    MaxPublish = 2
PROPERTIES CallsReturn StreamProgress
CHECK_DEADLOCK FALSE
