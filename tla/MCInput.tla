------------------------------ MODULE MCInput ------------------------------
(***************************************************************************)
(* Two parts of the UI that are alone in their modules: the text of the    *)
(* filter prompt, and reverse DNS for what is on screen.  They share no    *)
(* state, so a behaviour is of one or of the other.                        *)
(***************************************************************************)
EXTENDS Filter, Resolver

Init == FilterInit /\ ResolverInit

Untouched == ~enabled /\ cache = {} /\ inflight = {}

Next ==
  \/ Untouched /\ Type /\ UNCHANGED resolverVars
  \/ text = <<>> /\ ResolverNext /\ UNCHANGED text

Spec == Init /\ [][Next]_<<text, resolverVars>> /\ ResolverFairness
=============================================================================
