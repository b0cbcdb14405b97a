---------------------------- MODULE MCHttpStore ----------------------------
(***************************************************************************)
(* Small instances of HttpStore for TLC: who writes what.                  *)
(***************************************************************************)
EXTENDS HttpStore, TLC

CONSTANTS t1, t2, s, r, v, w, x

\* Every task writes everything.
Anything == [t \in Tasks |-> Subjects]

\* A single writer among readers.
OneWriter == [t \in Tasks |-> IF t = t1 THEN Subjects ELSE {}]
=============================================================================
