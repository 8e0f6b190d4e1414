--------------------------- MODULE TaskIdGenerator ---------------------------
(***************************************************************************)
(* UuidV7TaskIdGenerator: threads read the system clock, which may be set  *)
(* back, and then take the mutex to draw a timestamp and a sequence        *)
(* number.  An id is its timestamp and sequence, which lead the text of    *)
(* the UUID; the random bits behind them are left out, so an equal pair is *)
(* a pair of ids whose order is left to chance.  The sequence has          *)
(* kSequenceMask + 1 values and starts a millisecond below                 *)
(* kInitialSequenceMask + 1.                                               *)
(***************************************************************************)
EXTENDS Integers, Sequences, FiniteSets

CONSTANTS
    Threads,
    MaxMs,              \* bound of the clock
    MaxIds,             \* bound: calls that take the mutex
    SequenceCount,         \* kSequenceMask + 1
    InitialSequences    \* kInitialSequenceMask + 1

ASSUME GeneratorAssumption ==
    /\ MaxMs \in Nat /\ MaxIds \in Nat
    /\ SequenceCount \in Nat /\ InitialSequences \in 1..SequenceCount

VARIABLES
    clock,              \* the system clock
    call,               \* per thread: the time it read, 0: no call
    last_timestamp_ms_, sequence_,
    ids,                \* the ids drawn, in the order of the mutex
    overflows           \* the milliseconds in which a call failed

vars == <<clock, call, last_timestamp_ms_, sequence_, ids, overflows>>

(* The text of an id is ordered as this pair: six bytes of time, then the    *)
(* sequence in hexadecimal digits of fixed width.                            *)
Id(ms, sequence) == <<ms, sequence>>

Init ==
    /\ clock = 1 /\ call = [t \in Threads |-> 0]
    /\ last_timestamp_ms_ = 0 /\ sequence_ = 0
    /\ ids = <<>> /\ overflows = <<>>

(* Time passes, or the clock is set back. *)
Tick ==
    /\ clock' \in 1..MaxMs
    /\ UNCHANGED <<call, last_timestamp_ms_, sequence_, ids, overflows>>

(* The random bytes and the clock are read before the mutex is taken.       *)
(* FillSecureRandomBytes may fail; the call then changes nothing.            *)
ReadClock(t) ==
    /\ call[t] = 0 /\ Len(ids) + Len(overflows) < MaxIds
    /\ call' = [call EXCEPT ![t] = clock]
    /\ UNCHANGED <<clock, last_timestamp_ms_, sequence_, ids, overflows>>

effective_ms(t) == IF call[t] > last_timestamp_ms_ THEN call[t] ELSE last_timestamp_ms_

InitialSequence == 0..(InitialSequences - 1)

NewMillisecond(t) ==
    /\ call[t] # 0 /\ effective_ms(t) > last_timestamp_ms_
    /\ last_timestamp_ms_' = effective_ms(t) /\ sequence_' \in InitialSequence
    /\ ids' = Append(ids, Id(effective_ms(t), sequence_'))
    /\ call' = [call EXCEPT ![t] = 0]
    /\ UNCHANGED <<clock, overflows>>

(* Mutant: the overflow is not noticed. *)
SameMillisecondWrapping(t) ==
    /\ call[t] # 0 /\ effective_ms(t) <= last_timestamp_ms_
    /\ sequence_' = (sequence_ + 1) % SequenceCount
    /\ ids' = Append(ids, Id(effective_ms(t), sequence_'))
    /\ call' = [call EXCEPT ![t] = 0]
    /\ UNCHANGED <<clock, last_timestamp_ms_, overflows>>

(* The sequence stays at zero when it overflows. *)
SameMillisecond(t) ==
    /\ call[t] # 0 /\ effective_ms(t) <= last_timestamp_ms_
    /\ sequence_' = (sequence_ + 1) % SequenceCount
    /\ IF sequence_' = 0 THEN overflows' = Append(overflows, <<last_timestamp_ms_, Len(ids)>>) /\ UNCHANGED ids
       ELSE ids' = Append(ids, Id(effective_ms(t), sequence_')) /\ UNCHANGED overflows
    /\ call' = [call EXCEPT ![t] = 0]
    /\ UNCHANGED <<clock, last_timestamp_ms_>>

Next ==
    \/ Tick
    \/ \E t \in Threads : ReadClock(t) \/ NewMillisecond(t) \/ SameMillisecond(t)

Spec == Init /\ [][Next]_vars

-----------------------------------------------------------------------------
Precedes(a, b) == a[1] < b[1] \/ (a[1] = b[1] /\ a[2] < b[2])

TypeOK ==
    /\ clock \in 1..MaxMs /\ call \in [Threads -> 0..MaxMs]
    /\ last_timestamp_ms_ \in 0..MaxMs /\ sequence_ \in 0..(SequenceCount - 1)
    /\ ids # <<>> => last_timestamp_ms_ = ids[Len(ids)][1]

OverflowedBefore(i) == \E k \in DOMAIN overflows : overflows[k][1] = ids[i][1] /\ overflows[k][2] < i

(* Until the sequence of a millisecond overflows, ids grow in the order in   *)
(* which they are drawn, between threads too, though each read its clock     *)
(* before the mutex and the clock may have been set back.                    *)
IncreasingUntilOverflow ==
    \A i \in 1..(Len(ids) - 1) : OverflowedBefore(i + 1) \/ Precedes(ids[i], ids[i + 1])

(* A call fails only after a millisecond has given out the ids its sequence  *)
(* has above the initial range: kInitialSequenceMask keeps that many.        *)
FailsOnlyWhenFull ==
    \A i \in DOMAIN overflows :
      Cardinality({j \in 1..overflows[i][2] : ids[j][1] = overflows[i][1]}) >= SequenceCount - InitialSequences

(* The order the generator's tests expect of the ids of successive calls. *)
Increasing == \A i \in 1..(Len(ids) - 1) : Precedes(ids[i], ids[i + 1])
=============================================================================
