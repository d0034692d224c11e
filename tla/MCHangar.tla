------------------------------- MODULE MCHangar -------------------------------
(***************************************************************************)
(* A small instance of Hangar: a catalog with one item of each kind.       *)
(***************************************************************************)
EXTENDS Hangar

CONSTANTS hero, agent, gun, scope, emblem

Kind == [slot |-> "other", isSell |-> TRUE, cashType |-> 0, pointPrice |-> 0, salePrice |-> 0,
         cashPrice |-> 0, useTime |-> 0, isMerge |-> FALSE, function |-> 0]

\* A starter and a rented hero of the same side, a weapon that is crafted for a time,
\* a part that fits it, and a stack that pays for an emblem or a recipe.
SmallCatalog ==
    (hero   :> [Kind EXCEPT !.slot = "characterATC", !.isSell = FALSE]) @@
    (agent  :> [Kind EXCEPT !.slot = "characterATC", !.useTime = 1]) @@
    (gun    :> [Kind EXCEPT !.slot = "weapon", !.isSell = FALSE, !.useTime = 1]) @@
    (scope  :> [Kind EXCEPT !.slot = "customPart", !.pointPrice = 2, !.salePrice = 1]) @@
    (emblem :> [Kind EXCEPT !.cashType = 1, !.cashPrice = 1, !.isMerge = TRUE, !.function = 1901])

SmallFits    == {<<gun, scope>>}
SmallStarter == <<hero>>
SmallStart   == [point |-> 1, cash |-> 1]
SmallRecipes == {[need |-> (emblem :> 1), output |-> gun, price |-> 0]}

Symmetry == Permutations(Session)

\* Keep is the library's SelectSeq, written so that it can be reasoned about.
ASSUME KeepSelects ==
    \A n \in 0 .. 4, S \in SUBSET {1, 2, 3} : \A rows \in [1 .. n -> {1, 2, 3}] :
        Keep(rows, {i \in DOMAIN rows : rows[i] \in S}) = SelectSeq(rows, LAMBDA r : r \in S)
=============================================================================
