---------------------------- MODULE MCTimeTravel ----------------------------
(***************************************************************************)
(* TimeTravel on small instances: two findings, the second ranked first    *)
(* when they are equally severe, and a buffer that fills up.               *)
(***************************************************************************)
EXTENDS TimeTravel

CONSTANTS leak, loss, host

Rules == <<loss, leak, host>>

(* ss succeeds with some of the problems, fails outright, or fails half    *)
(* way once it has listed a socket that leaks.                             *)
SomeAnswers ==
  {[err |-> FALSE, listed |-> p] : p \in S!Problems}
    \cup {[err |-> TRUE, listed |-> None], [err |-> TRUE, listed |-> [id \in {leak} |-> 2]]}

(* The clock moves forward between polls. *)
OneTick == {1}
=============================================================================
