-------------------------------- MODULE Sift ---------------------------------
(***************************************************************************)
(* Taking every occurrence of an entry out of a stack (filter), said by    *)
(* counting positions and not by recursion, so that it can be reasoned     *)
(* about; MCPlayQueue compares it with Remove of the community modules.    *)
(***************************************************************************)
EXTENDS Naturals, FiniteSets

\* The j-th of the positions in kept.
Nth(kept, j) == CHOOSE k \in kept : Cardinality({l \in kept : l <= k}) = j

\* The entries of s other than e, in their order.
Sifted(s, e) ==
    LET kept == {k \in DOMAIN s : s[k] # e}
    IN  [j \in 1 .. Cardinality(kept) |-> s[Nth(kept, j)]]
==============================================================================
