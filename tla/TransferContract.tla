-------------------------- MODULE TransferContract --------------------------
(***************************************************************************)
(* What a streaming HTTP request may rely on when it hands a transfer to a *)
(* CurlStreamReactor: the transfer is completed at most once, with one     *)
(* result, and it is aborted only if somebody asked for that.              *)
(***************************************************************************)
CONSTANTS Transfers

VARIABLES result,      \* what on_complete was told of each transfer
          revoked      \* the transfers somebody has asked to abort

contractVars == <<result, revoked>>

Results == {"ok", "error", "failed_init", "aborted"}

TypeOK == /\ result \in [Transfers -> Results \cup {"idle", "pending"}]
          /\ revoked \subseteq Transfers

Init == /\ result = [t \in Transfers |-> "idle"]
        /\ revoked = {}

(* A transfer is handed over; a reactor that is shutting down may refuse   *)
(* it in the same step.                                                    *)
Accept(t) == /\ result[t] = "idle"
             /\ result' = [result EXCEPT ![t] = "pending"]
             /\ UNCHANGED revoked

Refuse(t) == /\ result[t] = "idle"
             /\ t \in revoked
             /\ result' = [result EXCEPT ![t] = "aborted"]
             /\ UNCHANGED revoked

(* One step of the reactor may complete several transfers at once.         *)
Finish(S) == /\ S # {}
             /\ \A t \in S : result[t] = "pending"
             /\ \E r \in [S -> Results] :
                  /\ \A t \in S : r[t] = "aborted" => t \in revoked
                  /\ result' = [t \in Transfers |->
                                  IF t \in S THEN r[t] ELSE result[t]]
             /\ UNCHANGED revoked

(* Somebody cancels transfers, by name, by owner or by shutting down; a    *)
(* request that comes after the shutdown aborts its transfer on the spot.  *)
Revoke(S) == /\ revoked' = revoked \cup S
             /\ \/ UNCHANGED result
                \/ \E t \in S : /\ result[t] = "pending"
                                /\ result' = [result EXCEPT ![t] = "aborted"]

Next == \/ \E t \in Transfers : Accept(t) \/ Refuse(t)
        \/ \E S \in SUBSET Transfers : Finish(S) \/ Revoke(S)

Spec == Init /\ [][Next]_contractVars
=============================================================================
