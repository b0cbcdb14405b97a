------------------------------- MODULE Queues -------------------------------
(***************************************************************************)
(* Sequences that lose some of their elements.                             *)
(***************************************************************************)
EXTENDS Integers, Sequences

\* The elements of q at the positions `at`, in their order: what SelectSeq gives
\* for a test of positions, as a recursive function that can be reasoned about.
Kept(q, at) ==
  LET kept[n \in 0 .. Len(q)] ==
        IF n = 0 THEN <<>>
        ELSE IF n \in at THEN Append(kept[n - 1], q[n]) ELSE kept[n - 1]
  IN  kept[Len(q)]
=============================================================================
