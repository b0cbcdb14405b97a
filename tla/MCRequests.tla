----------------------------- MODULE MCRequests -----------------------------
(***************************************************************************)
(* Small instances of Requests for TLC.                                    *)
(***************************************************************************)
EXTENDS Requests, TLC

CONSTANTS p, q, s

\* The first request makes two calls, the second one.
Calls21 == [r \in Request |-> IF r = p THEN 2 ELSE 1]
=============================================================================
