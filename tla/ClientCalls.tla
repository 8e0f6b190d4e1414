---------------------------- MODULE ClientCalls -----------------------------
(***************************************************************************)
(* The methods of A2AClient, called by several threads.  All ten have one  *)
(* shape: check the transport, run every BeforeCall hook, call the         *)
(* transport, run every AfterCall hook.  The hooks run under               *)
(* interceptor_mutex_, which is free while the transport works; an         *)
(* exception of a hook is swallowed, which makes it like any other hook.   *)
(*                                                                         *)
(* Destroy is called when no call is in progress, and hooks do not call    *)
(* back into the client: both would need a lock that the code lacks or has *)
(* already taken.                                                          *)
(***************************************************************************)
EXTENDS Integers, SequencesExt

CONSTANTS Threads, Interceptors,
          MaxCalls  \* bound on the calls

ClientCallsAssumption == MaxCalls \in Nat

Nobody == "nobody"

VARIABLES interceptors,  \* interceptors_
          mutex,         \* who holds interceptor_mutex_
          transport,     \* transport_ is not null
          call,          \* the call each thread is in, or its last one
          calls

vars == <<interceptors, mutex, transport, call, calls>>

(* before and after: the interceptors whose hooks ran, in that order.      *)
Fresh == [pc |-> "idle", before |-> <<>>, left |-> 0, ok |-> TRUE, after |-> <<>>]

Init ==
    /\ interceptors = <<>>
    /\ mutex = Nobody
    /\ transport = TRUE
    /\ call = [t \in Threads |-> Fresh]
    /\ calls = 0

Resting(t) == call[t].pc \in {"idle", "done", "refused"}

(* SendMessage, GetTask, ListTasks, ..., SubscribeTask: to the first lock. *)
Begin(t) ==
    /\ Resting(t)
    /\ calls < MaxCalls /\ calls' = calls + 1
    /\ call' = [call EXCEPT ![t] = [Fresh EXCEPT !.pc = IF transport THEN "before" ELSE "refused"]]
    /\ UNCHANGED <<interceptors, mutex, transport>>

(* The lock of RunBeforeInterceptors. *)
LockBefore(t) ==
    /\ call[t].pc = "before" /\ mutex = Nobody
    /\ mutex' = t
    /\ call' = [call EXCEPT ![t].pc = "before hooks"]
    /\ UNCHANGED <<interceptors, transport, calls>>

(* One round of its loop, or its end. *)
BeforeCall(t) ==
    LET ran == Len(call[t].before) IN
    /\ call[t].pc = "before hooks"
    /\ \/ /\ ran < Len(interceptors)
          /\ call' = [call EXCEPT ![t].before = Append(@, interceptors[ran + 1])]
          /\ UNCHANGED mutex
       \/ /\ ran = Len(interceptors)
          /\ call' = [call EXCEPT ![t].pc = "transport"]
          /\ mutex' = Nobody
    /\ UNCHANGED <<interceptors, transport, calls>>

(* The transport answers. *)
Answer(t, ok) ==
    /\ call[t].pc = "transport"
    /\ call' = [call EXCEPT ![t].pc = "after", ![t].ok = ok]
    /\ UNCHANGED <<interceptors, mutex, transport, calls>>

(* The lock of RunAfterInterceptors; left is the reverse iterator. *)
LockAfter(t) ==
    /\ call[t].pc = "after" /\ mutex = Nobody
    /\ mutex' = t
    /\ call' = [call EXCEPT ![t].pc = "after hooks", ![t].left = Len(interceptors)]
    /\ UNCHANGED <<interceptors, transport, calls>>

(* Mutant: a failed call has nothing to report. *)
AfterCallIfOk(t) ==
    LET left == call[t].left IN
    /\ call[t].pc = "after hooks"
    /\ \/ /\ left > 0 /\ call[t].ok
          /\ call' = [call EXCEPT ![t].after = Append(@, interceptors[left]), ![t].left = @ - 1]
          /\ UNCHANGED mutex
       \/ /\ left = 0 \/ ~call[t].ok
          /\ call' = [call EXCEPT ![t].pc = "done", ![t].left = 0]
          /\ mutex' = Nobody
    /\ UNCHANGED <<interceptors, transport, calls>>

AfterCall(t) ==
    LET left == call[t].left IN
    /\ call[t].pc = "after hooks"
    /\ \/ /\ left > 0
          /\ call' = [call EXCEPT ![t].after = Append(@, interceptors[left]), ![t].left = @ - 1]
          /\ UNCHANGED mutex
       \/ /\ left = 0
          /\ call' = [call EXCEPT ![t].pc = "done"]
          /\ mutex' = Nobody
    /\ UNCHANGED <<interceptors, transport, calls>>

(* Takes the lock, appends and returns: nobody sees it between. *)
AddInterceptor(i) ==
    /\ mutex = Nobody
    /\ ~Contains(interceptors, i)
    /\ interceptors' = Append(interceptors, i)
    /\ UNCHANGED <<mutex, transport, call, calls>>

Destroy ==
    /\ transport /\ \A t \in Threads : Resting(t)
    /\ transport' = FALSE
    /\ UNCHANGED <<interceptors, mutex, call, calls>>

Step(t) == LockBefore(t) \/ BeforeCall(t) \/ (\E ok \in BOOLEAN : Answer(t, ok)) \/ LockAfter(t) \/ AfterCall(t)

Next ==
    \/ \E t \in Threads : Begin(t) \/ Step(t)
    \/ \E i \in Interceptors : AddInterceptor(i)
    \/ Destroy

Spec == Init /\ [][Next]_vars

(* Threads are scheduled and the transport answers (its timeouts); the     *)
(* calls are finite in number, so a free mutex is not taken away for ever. *)
FairSpec == Spec /\ \A t \in Threads : WF_vars(Step(t))

-----------------------------------------------------------------------------
(* Every interceptor that saw BeforeCall of a call sees its AfterCall,     *)
(* once and in reverse order, whether the call succeeded or not and        *)
(* although RunBeforeInterceptors and RunAfterInterceptors lock separately *)
(* and other calls and registrations come in between.                      *)
ClientHooksPaired ==
    \A t \in Threads : call[t].pc = "done" => IsPrefix(call[t].before, Reverse(call[t].after))

=============================================================================
