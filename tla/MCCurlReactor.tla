--------------------------- MODULE MCCurlReactor ---------------------------
(* Two transfers, of two clients, that use one easy handle after another.   *)
EXTENDS CurlReactor, TLC
CONSTANTS t1, t2, h1, o1, o2
MCHandleOf == t1 :> h1 @@ t2 :> h1
MCOwnerOf == t1 :> o1 @@ t2 :> o2
=============================================================================
