------------------------------- MODULE Tally -------------------------------
(***************************************************************************)
(* Sums of natural numbers over a finite set.  Reservations, trade totals   *)
(* and event counts are all of the form SUM_{x in S} f[x].  The sum is      *)
(* written as the number of pairs <<x, k>> with k in 1..f[x]: the theorems  *)
(* about finite sets then give every law of sums the proofs need, with no   *)
(* recursion.                                                               *)
(***************************************************************************)
EXTENDS Naturals, FiniteSets

\* The units that make up the sum of f over S.
Units(f, S) == UNION {{x} \X (1..f[x]) : x \in S}

\* SUM_{x in S} f[x], for a finite S and f[x] in Nat.
Tally(f, S) == Cardinality(Units(f, S))

=============================================================================
