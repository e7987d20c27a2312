-------------------------- MODULE MCReferenceWorker --------------------------
(* Two workers and two rows.  The second one waits for the first one, and  *)
(* in half of the initial states it never rehydrates and keeps coming      *)
(* back; a batch is one row, so that it can stand in the way of the other. *)
EXTENDS ReferenceWorker

CONSTANTS o1, o2

MCChain == [o \in Operations |-> IF o = o1 THEN None ELSE o1]
=============================================================================
