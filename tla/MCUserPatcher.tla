---------------------------- MODULE MCUserPatcher ----------------------------
(***************************************************************************)
(* Instances of UserPatcher: interchangeable threads and requests.         *)
(***************************************************************************)
EXTENDS UserPatcher, TLC

Symmetry == Permutations(Threads) \cup Permutations(Requests)

==============================================================================
