---------------------------- MODULE MCNavigation ----------------------------
(***************************************************************************)
(* Navigation with three connections, two of them under one key and one of *)
(* these listening, and two sort modes: one that keeps its order from poll *)
(* to poll, as by address, and one that may change it, as by rate.         *)
(***************************************************************************)
EXTENDS Navigation, SequencesExt

CONSTANTS a, b, c, q, e, x

TwinKey == [conn \in {a, b, c} |-> IF conn = c THEN b ELSE conn]

(* q selects two of them; e has no term, as "()". *)
SomeQueries == [query \in {q, e} |-> IF query = q THEN {a, b} ELSE {a, b, c}]

ByAddress == <<a, b, c>>

Stable(C) == LET in(conn) == conn \in C IN SelectSeq(ByAddress, in)

(* a is among the connections unless there are none; b and c come and go. *)
(* By rate they come in the order of their addresses or the other way.     *)
SomeSnapshots ==
  UNION {{<<Stable(C), order>> : order \in {Stable(C), Reverse(Stable(C))}} :
           C \in {C \in SUBSET {a, b, c} : C = {} \/ a \in C}}

(* Detail is reached with Enter. *)
SomeTabs == <<"findings", "live", "socket">>
=============================================================================
