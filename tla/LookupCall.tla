------------------------------ MODULE LookupCall ------------------------------
(***************************************************************************)
(* What a caller of KernelPatcher::applyLookupPatch may rely on: the call  *)
(* returns at once, with a code and the bytes it leaves.  Addresses are    *)
(* integers; the running image of the kext is the range Image inside the   *)
(* larger memory Addr, so that a write outside the image is something a    *)
(* call could do.  Module LookupPatch is the call as it is coded.          *)
(***************************************************************************)
EXTENDS Integers, Sequences, FiniteSets

CONSTANTS
  Byte,         \* byte values
  Top,          \* the last address of memory
  KextAddress,  \* getRunningPosition: where the image starts
  KextSize,     \* getRunningPosition: its size
  Patches,      \* the lookup patches tried
  Starts,       \* startingAddress arguments (0: none given)
  MaxSizes      \* maxSize arguments (0: none given)

Addr  == 0 .. Top
Image == KextAddress .. KextAddress + KextSize - 1

\* KernelPatcher::LookupPatch; loaded is kext->loadIndex != Unloaded, and size
\* is the common length of the two byte strings.
PatchRecord == [find : Seq(Byte), replace : Seq(Byte), count : Nat, loaded : BOOLEAN]
size(p) == Len(p.find)

ASSUME ImageAssumption ==
  /\ Top \in Nat /\ KextAddress \in Nat /\ KextSize \in Nat
  /\ KextAddress + KextSize - 1 <= Top
ASSUME PatchesAssumption ==
  /\ Patches \subseteq PatchRecord
  /\ \A p \in Patches : size(p) > 0 /\ Len(p.replace) = size(p)
ASSUME ArgumentsAssumption == Starts \subseteq Nat /\ MaxSizes \subseteq Nat

VARIABLES
  memory,          \* the bytes of memory
  original,        \* the bytes before the call
  patch, startingAddress, maxSize,   \* the arguments
  phase,           \* "call" until the call has returned, then "done"
  status           \* KernelPatcher::code

callVars  == <<memory, original, patch, startingAddress, maxSize, phase, status>>
arguments == <<original, patch, startingAddress, maxSize>>

\* memcmp(at, patch->find, patch->size) == 0, with bytes m in memory.
FoundAt(m, at, p) == \A k \in 1 .. size(p) : m[at + k - 1] = p.find[k]

\* The end of the searched range.
Limit ==
  LET kextEnd == KextAddress + KextSize
  IN  IF maxSize > 0 /\ kextEnd > startingAddress + maxSize
      THEN startingAddress + maxSize ELSE kextEnd

\* The addresses the reference considers for an occurrence: every one from
\* which the whole pattern lies in the searched range.
Candidates ==
  {a \in Image : startingAddress <= a /\ a + size(patch) <= Limit}

Occurrences == {a \in Candidates : FoundAt(original, a, patch)}

\* Writing the replacement leaves no occurrence that starts inside it.
Settles(p) ==
  \A k \in 1 .. size(p) :
    SubSeq(p.replace, k, size(p)) # SubSeq(p.find, 1, size(p) - k + 1)

\* The original bytes with the replacement written at each address of S.
WithReplaced(S) ==
  [a \in Addr |->
     LET hit == {s \in S : a \in s .. s + size(patch) - 1}
     IN  IF hit = {} THEN original[a]
         ELSE patch.replace[a - (CHOOSE s \in hit : TRUE) + 1]]

Disjoint(S) ==
  \A s, t \in S : s # t => s + size(patch) <= t \/ t + size(patch) <= s

\* a lies in a pattern at one of S.
Within(a, S) == \E s \in S : s <= a /\ a < s + size(patch)

\* S are the first separate occurrences, as many as the patch asks for; fewer only
\* if there are no more, save at the very end of the range, the one position the
\* scan's "<" leaves out; and all of them for a count of 0.
FirstOnes(S) ==
  /\ Disjoint(S)
  /\ patch.count # 0 => Cardinality(S) <= patch.count
  /\ \A s \in S, a \in Occurrences : a < s => Within(a, S)
  /\ Cardinality(S) # patch.count =>
       \A a \in Occurrences : Within(a, S) \/ a = Limit - size(patch)

CallInit ==
  /\ memory \in [Addr -> Byte] /\ original = memory
  /\ patch \in Patches /\ startingAddress \in Starts /\ maxSize \in MaxSizes
  /\ phase = "call" /\ status = "NoError"

Returns(code) ==
  phase = "call" /\ phase' = "done" /\ status' = code /\ UNCHANGED arguments

\* The kext is not loaded, or kernel writing cannot be turned on.
CallRefused ==
  /\ Returns(IF patch.loaded THEN "MemoryProtection" ELSE "MemoryIssue")
  /\ UNCHANGED memory

\* The first occurrences are replaced and nothing else is; too few are an error, and
\* so is kernel writing that cannot be turned off again.
CallPatched ==
  /\ patch.loaded /\ Settles(patch)
  /\ \E S \in SUBSET Occurrences :
       /\ FirstOnes(S) /\ memory' = WithReplaced(S)
       /\ \/ Returns(IF Cardinality(S) # patch.count THEN "MemoryIssue" ELSE "NoError")
          \/ Returns("MemoryProtection")

\* A replacement that brings the pattern back: the bytes written lie in the range.
CallUnsettled ==
  /\ patch.loaded /\ ~Settles(patch)
  /\ \E code \in {"NoError", "MemoryIssue", "MemoryProtection"} : Returns(code)
  /\ memory' \in [Addr -> Byte]
  /\ \A a \in Addr : memory'[a] # memory[a] =>
       a \in Image /\ startingAddress <= a /\ a < Limit

CallNext == CallRefused \/ CallPatched \/ CallUnsettled

CallSpec == CallInit /\ [][CallNext]_callVars
==============================================================================
