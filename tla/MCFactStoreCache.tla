-------------------------- MODULE MCFactStoreCache --------------------------
(***************************************************************************)
(* Instances of FactStoreCache.  Repositories, commits and options are      *)
(* interchangeable in the safety properties; runs are not, since nothing    *)
(* but their identity tells their temporary files apart.                    *)
(***************************************************************************)
EXTENDS FactStoreCache, TLC

Symmetry == Permutations(Repos) \cup Permutations(Shas) \cup Permutations(Variants)
=============================================================================
