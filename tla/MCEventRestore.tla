-------------------------- MODULE MCEventRestore --------------------------
(* A small instance of EventRestore for TLC: an event with two snapshots,   *)
(* one of them to upgrade and one that is broken.                           *)
EXTENDS EventRestore, TLC

SomeStock ==
    {[at |-> 1, tier |-> 1, changes |-> {}, schema |-> "old"],
     [at |-> 2, tier |-> 1, changes |-> {}, schema |-> "broken"]}

Symmetry == Permutations(Writer)
=============================================================================
