------------------------------ MODULE MCJobQueue ------------------------------
(***************************************************************************)
(* Instances of JobQueue for TLC.                                          *)
(***************************************************************************)
EXTENDS JobQueue

\* least(900, 5 * 2^attempts) seconds in ticks, where a lease of 120 seconds is
\* SecondsPerTick * Lease seconds; a started tick counts.
SecondsPerTick == 120 \div Lease
MCBackoff ==
  [a \in 0..MaxAttempts |->
     LET seconds == IF 5 * 2^a < 900 THEN 5 * 2^a ELSE 900
     IN  (seconds + SecondsPerTick - 1) \div SecondsPerTick]

=============================================================================
