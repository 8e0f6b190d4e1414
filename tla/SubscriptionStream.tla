------------------------- MODULE SubscriptionStream -------------------------
(***************************************************************************)
(* What SubscribeToTask promises its clients, without threads, queues or   *)
(* coroutines: a stream opens with the current task and goes on with the   *)
(* updates published since, one by one and in order; nothing follows a     *)
(* terminal update; a stream ends after a terminal update or once it is    *)
(* stopped, and is aborted only by its transport.                          *)
(***************************************************************************)
EXTENDS Integers, Sequences

CONSTANTS Tasks, States, Terminal, Sessions, NoTask

VARIABLES
    log,       \* per task: the states published so far
    task,      \* per session: the task it follows
    base,      \* per session: the updates published before it opened
    received,  \* per session: what its client has received; 0 = current task
    status,    \* per session: "absent", "open", "ended" or "aborted"
    stopped    \* the sessions told to stop

vars == <<log, task, base, received, status, stopped>>

Init ==
    /\ log = [t \in Tasks |-> <<>>]
    /\ task = [s \in Sessions |-> NoTask]
    /\ base = [s \in Sessions |-> 0]
    /\ received = [s \in Sessions |-> <<>>]
    /\ status = [s \in Sessions |-> "absent"]
    /\ stopped = {}

Publish(t, state) ==
    /\ log' = [log EXCEPT ![t] = Append(@, state)]
    /\ UNCHANGED <<task, base, received, status, stopped>>

Open(s, t) ==
    /\ status[s] = "absent"
    /\ status' = [status EXCEPT ![s] = "open"]
    /\ task' = [task EXCEPT ![s] = t]
    /\ base' = [base EXCEPT ![s] = Len(log[t])]
    /\ UNCHANGED <<log, received, stopped>>

NextUpdate(s) == base[s] + Len(received[s])

SawTerminal(s) ==
    /\ Len(received[s]) > 1
    /\ log[task[s]][NextUpdate(s) - 1] \in Terminal

ReceiveCurrentTask(s) ==
    /\ status[s] = "open"
    /\ received[s] = <<>>
    /\ received' = [received EXCEPT ![s] = <<0>>]
    /\ UNCHANGED <<log, task, base, status, stopped>>

ReceiveUpdate(s) ==
    /\ status[s] = "open"
    /\ received[s] # <<>>
    /\ NextUpdate(s) <= Len(log[task[s]])
    /\ ~SawTerminal(s)
    /\ received' = [received EXCEPT ![s] = Append(@, NextUpdate(s))]
    /\ UNCHANGED <<log, task, base, status, stopped>>

End(s) ==
    /\ status[s] = "open"
    /\ SawTerminal(s) \/ s \in stopped
    /\ status' = [status EXCEPT ![s] = "ended"]
    /\ UNCHANGED <<log, task, base, received, stopped>>

Abort(s) ==
    /\ status[s] = "open"
    /\ status' = [status EXCEPT ![s] = "aborted"]
    /\ stopped' = stopped \cup {s}
    /\ UNCHANGED <<log, task, base, received>>

Stop(S) ==
    /\ stopped' = stopped \cup S
    /\ UNCHANGED <<log, task, base, received, status>>

Progress(s) == ReceiveCurrentTask(s) \/ ReceiveUpdate(s) \/ End(s)

Next ==
    \/ \E t \in Tasks, state \in States : Publish(t, state)
    \/ \E s \in Sessions, t \in Tasks : Open(s, t)
    \/ \E s \in Sessions : Progress(s) \/ Abort(s)
    \/ \E S \in SUBSET Sessions : Stop(S)

Spec == Init /\ [][Next]_vars

FairSpec == Spec /\ \A s \in Sessions : WF_vars(Progress(s))
=============================================================================
