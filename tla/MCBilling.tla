------------------------------ MODULE MCBilling ------------------------------
(***************************************************************************)
(* Bills of two lines for TLC.  15% of 70, 80 and 150 is a tie, a whole    *)
(* number and a tie again: 0.7*(15/100)*100 is 10.5 in binary fractions    *)
(* and is rounded up as the database does, 1.5*(15/100)*100 falls short of *)
(* 22.5.  A configuration file cannot hold the pair.                       *)
(***************************************************************************)
EXTENDS Billing

MCTiesLost == {<<150, 1500>>}

=============================================================================
