------------------------ MODULE TaskIdGeneratorProofs ------------------------
(***************************************************************************)
(* For any number of threads, any clock and any width of the sequence, the *)
(* ids of UuidV7TaskIdGenerator grow in the order they are drawn until the *)
(* sequence of their millisecond has overflowed.                           *)
(***************************************************************************)
EXTENDS TaskIdGenerator, TLAPS

USE ZenonT(5), SMTT(20)

OverflowedIn(ms) == \E k \in DOMAIN overflows : overflows[k][1] = ms

Typed ==
    /\ clock \in Nat /\ call \in [Threads -> Nat]
    /\ last_timestamp_ms_ \in Nat /\ sequence_ \in 0..(SequenceCount - 1)
    /\ ids \in Seq(Nat \X Nat) /\ overflows \in Seq(Nat \X Nat)

(* The last id is where the generator stands, unless its millisecond has     *)
(* overflowed since, and an overflow is recorded with the ids before it.     *)
Standing ==
    /\ \A k \in DOMAIN overflows : overflows[k][2] <= Len(ids)
    /\ ids # <<>> =>
         /\ ids[Len(ids)][1] = last_timestamp_ms_
         /\ ids[Len(ids)][2] = sequence_ \/ OverflowedIn(last_timestamp_ms_)

IInv == Typed /\ Standing /\ IncreasingUntilOverflow

(* Counting up within the width of the sequence. *)
LEMMA NextSequence ==
    ASSUME NEW n \in Nat, NEW a \in 0..(n - 1)
    PROVE  /\ (a + 1) % n \in 0..(n - 1)
           /\ (a + 1) % n # 0 => (a + 1) % n = a + 1
<1>1. CASE a + 1 = n
  BY <1>1
<1>2. CASE a + 1 < n
  BY <1>2
<1> QED BY <1>1, <1>2

(* The effective time is never before the last one, as max makes it. *)
LEMMA EffectiveMs ==
    ASSUME Typed, NEW t \in Threads
    PROVE  /\ effective_ms(t) \in Nat
           /\ effective_ms(t) >= last_timestamp_ms_
BY DEF Typed, effective_ms

(* An id drawn at or after the last one keeps the order. *)
LEMMA DrawKeepsOrder ==
    ASSUME Typed, Standing, IncreasingUntilOverflow,
           NEW ms \in Nat, NEW seq \in Nat,
           ids' = Append(ids, <<ms, seq>>), overflows' = overflows,
           ms > last_timestamp_ms_ \/ (ms = last_timestamp_ms_ /\ seq = sequence_ + 1)
    PROVE  IncreasingUntilOverflow'
<1>0. /\ last_timestamp_ms_ \in Nat /\ sequence_ \in Nat
      /\ \A k \in DOMAIN overflows : overflows[k][2] \in Nat
  BY DEF Typed
<1>1. /\ Len(ids') = Len(ids) + 1
      /\ \A i \in 1..Len(ids) : ids'[i] = ids[i]
      /\ ids'[Len(ids) + 1] = <<ms, seq>>
      /\ Len(ids) \in Nat
  BY DEF Typed
<1>2. \A i \in 1..Len(ids) : ids[i][1] \in Nat /\ ids[i][2] \in Nat
  BY DEF Typed
<1> SUFFICES ASSUME NEW i \in 1..(Len(ids') - 1)
             PROVE  OverflowedBefore(i + 1)' \/ Precedes(ids[i], ids[i + 1])'
  BY DEF IncreasingUntilOverflow
<1>3. i \in 1..Len(ids)
  BY <1>1
<1>4. CASE i < Len(ids)
  <2>1. i \in 1..(Len(ids) - 1) /\ i + 1 \in 1..Len(ids)
    BY <1>1, <1>3, <1>4
  <2>2. OverflowedBefore(i + 1) \/ Precedes(ids[i], ids[i + 1])
    BY <2>1 DEF IncreasingUntilOverflow
  <2>3. ids'[i] = ids[i] /\ ids'[i + 1] = ids[i + 1]
    BY <1>1, <1>3, <2>1
  <2>4. CASE OverflowedBefore(i + 1)
    BY <2>3, <2>4 DEF OverflowedBefore
  <2>5. CASE Precedes(ids[i], ids[i + 1])
    BY <2>3, <2>5 DEF Precedes
  <2> QED BY <2>2, <2>4, <2>5
<1>5. CASE i = Len(ids)
  <2>1. ids # <<>> /\ ids'[i] = ids[i] /\ ids'[i + 1] = <<ms, seq>>
    BY <1>1, <1>3, <1>5
  <2>2. ids[i][1] = last_timestamp_ms_ /\ ids[i][1] \in Nat /\ ids[i][2] \in Nat
    BY <1>2, <1>3, <1>5, <2>1 DEF Standing
  <2>3. CASE ms > last_timestamp_ms_
    BY <2>1, <2>2, <2>3 DEF Precedes
  <2>4. CASE ms = last_timestamp_ms_ /\ seq = sequence_ + 1
    <3>1. CASE ids[i][2] = sequence_
      BY <1>0, <2>1, <2>2, <2>4, <3>1 DEF Precedes
    <3>2. CASE OverflowedIn(last_timestamp_ms_)
      <4>1. PICK k \in DOMAIN overflows : overflows[k][1] = last_timestamp_ms_
        BY <3>2 DEF OverflowedIn
      <4>2. overflows[k][2] <= Len(ids) /\ overflows[k][2] \in Nat
        BY <1>0, <4>1 DEF Standing
      <4>3. overflows[k][2] < i + 1
        BY <1>1, <1>5, <4>2
      <4>4. overflows'[k][1] = ids'[i + 1][1]
        BY <2>1, <2>4, <4>1
      <4> QED BY <4>1, <4>3, <4>4 DEF OverflowedBefore
    <3> QED BY <1>5, <2>1, <3>1, <3>2 DEF Standing
  <2> QED BY <2>3, <2>4
<1> QED BY <1>1, <1>3, <1>4, <1>5

(* The generator stands at the id it drew last. *)
LEMMA DrawKeepsStanding ==
    ASSUME Typed, Standing, NEW ms \in Nat, NEW seq \in Nat,
           ids' = Append(ids, <<ms, seq>>), overflows' = overflows,
           last_timestamp_ms_' = ms, sequence_' = seq
    PROVE  Standing'
<1> USE DEF Typed
<1>1. Len(ids') = Len(ids) + 1 /\ ids'[Len(ids) + 1] = <<ms, seq>> /\ Len(ids) \in Nat
  OBVIOUS
<1>2. \A k \in DOMAIN overflows : overflows[k][2] \in Nat /\ overflows[k][2] <= Len(ids)
  BY DEF Standing
<1>3. \A k \in DOMAIN overflows' : overflows'[k][2] <= Len(ids')
  BY <1>1, <1>2
<1>4. ids'[Len(ids')][1] = ms /\ ids'[Len(ids')][2] = seq
  BY <1>1
<1> QED BY <1>3, <1>4 DEF Standing

LEMMA InitIInv == Init => IInv
<1> SUFFICES ASSUME Init PROVE IInv
  OBVIOUS
<1>1. SequenceCount \in Nat /\ SequenceCount >= 1
  BY GeneratorAssumption
<1>2. Typed
  BY <1>1 DEF Init, Typed
<1>3. Standing
  BY DEF Init, Standing
<1>4. IncreasingUntilOverflow
  BY DEF Init, IncreasingUntilOverflow
<1> QED BY <1>2, <1>3, <1>4 DEF IInv

(* A call that starts a millisecond. *)
LEMMA NewMillisecondKeeps ==
    ASSUME IInv, NEW t \in Threads, NewMillisecond(t)
    PROVE  IInv'
<1> DEFINE ms == effective_ms(t)
<1>1. Typed /\ Standing /\ IncreasingUntilOverflow
  BY DEF IInv
<1>2. ms \in Nat /\ ms > last_timestamp_ms_
  BY <1>1, EffectiveMs DEF NewMillisecond
<1>3. sequence_' \in 0..(SequenceCount - 1) /\ sequence_' \in Nat
  BY GeneratorAssumption DEF NewMillisecond, InitialSequence
<1>4. /\ ids' = Append(ids, <<ms, sequence_'>>) /\ overflows' = overflows
      /\ last_timestamp_ms_' = ms /\ clock' = clock /\ call' = [call EXCEPT ![t] = 0]
  BY DEF NewMillisecond, Id
<1> HIDE DEF ms
<1>5. Typed'
  BY <1>1, <1>2, <1>3, <1>4 DEF Typed
<1>6. Standing'
  BY <1>1, <1>2, <1>3, <1>4, DrawKeepsStanding
<1>7. IncreasingUntilOverflow'
  BY <1>1, <1>2, <1>3, <1>4, DrawKeepsOrder
<1> QED BY <1>5, <1>6, <1>7 DEF IInv

(* A call within the last millisecond, which may overflow. *)
LEMMA SameMillisecondKeeps ==
    ASSUME IInv, NEW t \in Threads, SameMillisecond(t)
    PROVE  IInv'
<1> DEFINE ms == effective_ms(t)
<1>1. Typed /\ Standing /\ IncreasingUntilOverflow
  BY DEF IInv
<1>2. ms = last_timestamp_ms_ /\ ms \in Nat
  BY <1>1, EffectiveMs DEF SameMillisecond, Typed
<1>3. /\ sequence_' \in 0..(SequenceCount - 1) /\ sequence_' \in Nat
      /\ sequence_' # 0 => sequence_' = sequence_ + 1
  <2>1. SequenceCount \in Nat /\ sequence_ \in 0..(SequenceCount - 1)
    BY <1>1, GeneratorAssumption DEF Typed
  <2>2. sequence_' = (sequence_ + 1) % SequenceCount
    BY DEF SameMillisecond
  <2> DEFINE next == (sequence_ + 1) % SequenceCount
  <2>3. next \in 0..(SequenceCount - 1) /\ (next # 0 => next = sequence_ + 1)
    BY <2>1, NextSequence
  <2>4. sequence_' = next
    BY <2>2
  <2> HIDE DEF next
  <2> QED BY <2>1, <2>3, <2>4
<1>4. last_timestamp_ms_' = last_timestamp_ms_ /\ clock' = clock /\ call' = [call EXCEPT ![t] = 0]
  BY DEF SameMillisecond
<1>5. CASE sequence_' # 0
  <2>1. ids' = Append(ids, <<ms, sequence_'>>) /\ overflows' = overflows
    BY <1>5 DEF SameMillisecond, Id
  <2> HIDE DEF ms
  <2>2. Typed'
    BY <1>1, <1>2, <1>3, <1>4, <2>1 DEF Typed
  <2>3. Standing'
    BY <1>1, <1>2, <1>3, <1>4, <2>1, DrawKeepsStanding
  <2>4. IncreasingUntilOverflow'
    BY <1>1, <1>2, <1>3, <1>5, <2>1, DrawKeepsOrder
  <2> QED BY <2>2, <2>3, <2>4 DEF IInv
<1>6. CASE sequence_' = 0
  <2>1. ids' = ids /\ overflows' = Append(overflows, <<last_timestamp_ms_, Len(ids)>>)
    BY <1>6 DEF SameMillisecond
  <2>2. Typed'
    BY <1>1, <1>3, <1>4, <2>1 DEF Typed
  <2>3. /\ Len(overflows') = Len(overflows) + 1 /\ Len(overflows) \in Nat
        /\ DOMAIN overflows = 1..Len(overflows) /\ DOMAIN overflows' = 1..(Len(overflows) + 1)
        /\ \A k \in DOMAIN overflows : k \in DOMAIN overflows' /\ overflows'[k] = overflows[k]
        /\ overflows'[Len(overflows) + 1] = <<last_timestamp_ms_, Len(ids)>>
    BY <1>1, <2>1 DEF Typed
  <2>4. OverflowedIn(last_timestamp_ms_)'
    BY <1>4, <2>3 DEF OverflowedIn
  <2>5. Len(ids) \in Nat /\ \A k \in DOMAIN overflows' : overflows'[k][2] <= Len(ids')
    <3>1. Len(ids) \in Nat
      BY <1>1 DEF Typed
    <3>2. SUFFICES ASSUME NEW k \in DOMAIN overflows' PROVE overflows'[k][2] <= Len(ids')
      BY <3>1
    <3>3. CASE k \in DOMAIN overflows
      BY <1>1, <2>1, <2>3, <3>3 DEF Standing
    <3>4. CASE k = Len(overflows) + 1
      BY <2>1, <2>3, <3>1, <3>4
    <3> QED BY <2>3, <3>3, <3>4
  <2>6. Standing'
    BY <1>1, <1>4, <2>1, <2>4, <2>5 DEF Standing
  <2>7. IncreasingUntilOverflow'
    <3> SUFFICES ASSUME NEW i \in 1..(Len(ids) - 1)
                 PROVE  OverflowedBefore(i + 1)' \/ Precedes(ids[i], ids[i + 1])'
      BY <2>1 DEF IncreasingUntilOverflow
    <3>1. CASE OverflowedBefore(i + 1)
      BY <2>1, <2>3, <3>1 DEF OverflowedBefore
    <3>2. CASE Precedes(ids[i], ids[i + 1])
      BY <2>1, <3>2 DEF Precedes
    <3> QED BY <1>1, <3>1, <3>2 DEF IncreasingUntilOverflow
  <2> QED BY <2>2, <2>6, <2>7 DEF IInv
<1> QED BY <1>5, <1>6

LEMMA NextIInv == IInv /\ [Next]_vars => IInv'
<1> SUFFICES ASSUME IInv, [Next]_vars PROVE IInv'
  OBVIOUS
<1>1. CASE Tick
  <2>1. UNCHANGED <<call, last_timestamp_ms_, sequence_, ids, overflows>> /\ clock' \in Nat
    BY <1>1, GeneratorAssumption DEF Tick
  <2> QED BY <2>1 DEF IInv, Typed, Standing, OverflowedIn, IncreasingUntilOverflow, OverflowedBefore, Precedes
<1>2. ASSUME NEW t \in Threads, ReadClock(t) PROVE IInv'
  <2>1. UNCHANGED <<clock, last_timestamp_ms_, sequence_, ids, overflows>> /\ call' = [call EXCEPT ![t] = clock]
    BY <1>2 DEF ReadClock
  <2>2. Typed'
    BY <2>1 DEF IInv, Typed
  <2> QED BY <2>1, <2>2 DEF IInv, Standing, OverflowedIn, IncreasingUntilOverflow, OverflowedBefore, Precedes
<1>3. CASE UNCHANGED vars
  BY <1>3 DEF IInv, Typed, Standing, OverflowedIn, IncreasingUntilOverflow, OverflowedBefore, Precedes, vars
<1> QED BY <1>1, <1>2, <1>3, NewMillisecondKeeps, SameMillisecondKeeps DEF Next

(* Ids grow in the order in which they are drawn until the sequence of their *)
(* millisecond has overflowed, for every number of threads and every clock:  *)
(* GenerateTaskId may read its time before the mutex.                        *)
THEOREM IdsIncrease == Spec => []IncreasingUntilOverflow
<1>1. IInv => IncreasingUntilOverflow
  BY DEF IInv
<1> QED BY <1>1, InitIInv, NextIInv, PTL DEF Spec
=============================================================================
