----------------------------- MODULE MCSession -----------------------------
(***************************************************************************)
(* Session on a small instance.                                            *)
(***************************************************************************)
EXTENDS Session

(* The wall clock moves forward by a short or a long gap. *)
ShortOrLong == {1, 3}
=============================================================================
