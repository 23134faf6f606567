---------------------------- MODULE MCLookupPatch ----------------------------
(* A six-byte image in a nine-byte memory, and patches that differ in what   *)
(* makes the scan hard: repeated and overlapping occurrences, a replacement  *)
(* that brings the pattern back, a pattern longer than the image, no limit   *)
(* on the number of changes, a kext that is not loaded.                      *)
EXTENDS LookupPatch

Lookup(f, r, n) == [find |-> f, replace |-> r, count |-> n, loaded |-> TRUE]

MCPatches ==
  {Lookup(<<0, 1>>, <<1, 1>>, n) : n \in {1, 2}} \union
  {Lookup(<<1, 1>>, <<0, 0>>, n) : n \in {0, 2}} \union
  {Lookup(<<0, 1>>, <<0, 0>>, 2), Lookup(<<1>>, <<0>>, 3),
   Lookup(<<1, 0, 1, 0, 1, 0, 1>>, <<0, 0, 0, 0, 0, 0, 0>>, 1),
   [Lookup(<<0>>, <<1>>, 1) EXCEPT !.loaded = FALSE]}

==============================================================================
