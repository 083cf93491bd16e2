-------------------------- MODULE MCAccountCommands --------------------------
(***************************************************************************)
(* Small instances of AccountCommands: one account exists, with one unit   *)
(* on it, and the other ids are free.                                      *)
(***************************************************************************)
EXTENDS AccountCommands, TLC

CONSTANTS h1, h2, s1, s2, i1, i2, i3

OneAccount ==
    [i \in Ids |->
        IF i = i1 THEN <<[type |-> "AccountCreated", amount |-> 1]>> ELSE <<>>]

(* One front end alone, or one call of each.                               *)
MCDeployments == {Handlers, Services} \cup {{h, s} : h \in Handlers, s \in Services}

SmallAmounts == {-1, 1}

FreeIds == Permutations(Ids \ {i1})
Symmetry == Permutations(Handlers) \cup Permutations(Services) \cup FreeIds
=============================================================================
