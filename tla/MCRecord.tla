------------------------------ MODULE MCRecord ------------------------------
(***************************************************************************)
(* Record on small instances: settings that change back and forth, with    *)
(* and without a number of polls to stop at.                               *)
(***************************************************************************)
EXTENDS Record

CONSTANTS before, after
=============================================================================
