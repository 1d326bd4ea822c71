------------------------------ MODULE MCBuffer ------------------------------
(***************************************************************************)
(* Buffer on a small instance.  With two polls more than fit the ring      *)
(* wraps twice, and the demoted slot is at times on the other side of the  *)
(* wrap.                                                                   *)
(***************************************************************************)
EXTENDS Buffer

CONSTANTS a, b, t

(* Both sockets have the same addresses: a four-tuple reused after a close *)
(* (open in different polls), or SO_REUSEPORT (open together).             *)
SharedTuple == [s \in {a, b} |-> t]
=============================================================================
