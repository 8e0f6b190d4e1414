--------------------------- MODULE RevisionedStore --------------------------
(***************************************************************************)
(* What a durable TaskStore promises of its rows, every operation being a  *)
(* single step: a write replaces the task, a revision-checked write        *)
(* changes the state of the task it was computed from, an append adds one  *)
(* message to its history and a cancellation cancels a task that is not    *)
(* terminal, each under the next revision.  Nothing else changes a row     *)
(* until it is removed.                                                    *)
(***************************************************************************)
EXTENDS Integers, Sequences

CONSTANTS Ids, Written, Terminal, Canceled, Messages, NoRow

VARIABLE table

Init == table = [i \in Ids |-> NoRow]

Changes(i, new) == table' = [table EXCEPT ![i] = new]

(* created tells a task stored again after its removal from the one before *)
Create(i) ==
    /\ table[i] = NoRow
    /\ table'[i] # NoRow
    /\ table'[i].revision = 1 /\ table'[i].history = <<>> /\ table'[i].state \in Written
    /\ Changes(i, table'[i])

Replace(i) ==
    /\ table[i] # NoRow
    /\ \E state \in Written :
         Changes(i, [table[i] EXCEPT !.state = state, !.history = <<>>, !.revision = @ + 1])

Revise(i) ==
    /\ table[i] # NoRow
    /\ \E state \in Written : Changes(i, [table[i] EXCEPT !.state = state, !.revision = @ + 1])

AppendMessage(i) ==
    /\ table[i] # NoRow
    /\ \E m \in Messages : Changes(i, [table[i] EXCEPT !.history = Append(@, m), !.revision = @ + 1])

Cancel(i) ==
    /\ table[i] # NoRow /\ table[i].state \notin Terminal
    /\ Changes(i, [table[i] EXCEPT !.state = Canceled, !.revision = @ + 1])

Remove(i) == table[i] # NoRow /\ Changes(i, NoRow)

Next == \E i \in Ids : Create(i) \/ Replace(i) \/ Revise(i) \/ AppendMessage(i) \/ Cancel(i) \/ Remove(i)

Spec == Init /\ [][Next]_table
=============================================================================
