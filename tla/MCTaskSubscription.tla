------------------------- MODULE MCTaskSubscription -------------------------
(***************************************************************************)
(* Small instances of TaskSubscription, and the stream that it implements  *)
(* for the client of one subscription.                                     *)
(***************************************************************************)
EXTENDS TaskSubscription

(* The stream a client sees.  A coroutine cut by a stale signal counts as  *)
(* stopped, which the service is not entitled to: see ClosedAfterTerminal. *)
Stream == INSTANCE SubscriptionStream WITH
    received <- delivered,
    status <- [s \in Sessions |-> IF pc[s] = "absent" THEN "absent" ELSE outcome[s]],
    stopped <- {s \in Sessions : shutdown \/ cancelled[s] \/ s \in cut}

(* Subscribe, PublishTaskUpdated, Cancel, Shutdown and the transport loop  *)
(* together implement the stream promised to a client: every step is one   *)
(* of its steps or invisible.                                              *)
ImplementsStream == Stream!Spec

(* A client with a working transport always receives its next update, or   *)
(* the end of its stream.                                                  *)
StreamProgress == Stream!FairSpec
=============================================================================
