------------------------------ MODULE MCEvents ------------------------------
(***************************************************************************)
(* Events over three connections that come and go, with the signals that   *)
(* make an onset and those that do not.                                    *)
(***************************************************************************)
EXTENDS Events

Sample(k, signals) == [key |-> k, signals |-> signals]
Sig(t, sev) == [type |-> t, sev |-> sev]

SomeSnapshots == {
  <<>>,
  <<Sample(1, <<>>), Sample(2, <<Sig("LOSS", 0), Sig("DROPS", 1)>>)>>,
  <<Sample(1, <<Sig("LOSS", 1)>>), Sample(2, <<Sig("DROPS", 2)>>), Sample(3, <<Sig("LOSS", 2)>>)>>,
  <<Sample(2, <<Sig("LOSS", 1), Sig("DROPS", 1)>>), Sample(3, <<Sig("LOSS", 2)>>)>>,
  <<Sample(1, <<Sig("DROPS", 2)>>), Sample(3, <<Sig("LOSS", 0)>>)>>}
=============================================================================
