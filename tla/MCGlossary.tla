----------------------------- MODULE MCGlossary -----------------------------
(* The SQL term comes before the metadata term in the alphabet, and after  *)
(* it in the order of copying.                                             *)
EXTENDS Glossary, TLC

MCSymmetry == Permutations(Workers)
MCRank == [t \in Terms |-> 4 - t]
=============================================================================
