----------------------------- MODULE MCOrderDesk -----------------------------
(***************************************************************************)
(* Two stations for TLC, with two drinks and, where recipes are edited, a  *)
(* set meal whose recipe holds both.  The sequences of the instance are    *)
(* written here, because a configuration file cannot hold them.            *)
(***************************************************************************)
EXTENDS OrderDesk, TLC

CONSTANTS cola, soda, meal

MCDishes == {cola, soda}
MCById == <<cola, soda>>
MCMenu == {cola, soda, meal}
MCMenuById == <<cola, soda, meal>>
MCLine(d) == [dish |-> d, quantity |-> 1]
\* A waiter lists the items in any order.
MCCarts == {<<MCLine(cola)>>, <<MCLine(soda), MCLine(cola)>>}
MCRoundOfDrinks == {<<MCLine(soda), MCLine(cola)>>}
MCMovements == {[kind |-> "purchase", pieces |-> 1]}
MCRecipes == {<<soda, cola>>}

Symmetry == Permutations(Sessions)

=============================================================================
