------------------------- MODULE KextPatchingProofs -------------------------
(***************************************************************************)
(* Proofs about what Kryptonite does to a kext: the find/replace that its  *)
(* byte patches are made of (LookupPatch), and the patches of a kext with  *)
(* the error code they share (KextPatching).                               *)
(***************************************************************************)
EXTENDS LookupPatch, KextPatching, FiniteSetTheorems, TLAPS

------------------------------------------------------------------------------
(* applyLookupPatch, for every memory, image, patch and search range.       *)

\* Where the scan may stand while it runs: at or above both lower bounds, and
\* inside the outer loop not past endingAddress, which leaves room for one
\* whole pattern.
ScanInv ==
  phase \in {"next", "scan"} =>
    /\ KextAddress <= currentAddress /\ startingAddress <= currentAddress
    /\ endingAddress = Limit - size(patch)
    /\ phase = "scan" => currentAddress <= endingAddress

LEMMA LimitInt ==
  ASSUME LookupTypeOK
  PROVE  Limit \in Int /\ size(patch) \in Nat /\ size(patch) > 0
           /\ Limit <= KextAddress + KextSize
BY ImageAssumption, PatchesAssumption DEF LookupTypeOK, Limit, size, PatchRecord

\* Every value stays in its type: the searched range, the bytes of memory and
\* the error code applyLookupPatch leaves.
THEOREM LookupTypeCorrect == LookupSpec => []LookupTypeOK
<1>1. LookupInit => LookupTypeOK
  BY ArgumentsAssumption DEF LookupInit, LookupTypeOK
<1>2. LookupTypeOK /\ [LookupNext]_lookupVars => LookupTypeOK'
  <2> SUFFICES ASSUME LookupTypeOK, [LookupNext]_lookupVars
               PROVE  LookupTypeOK'
    OBVIOUS
  <2>0. Limit \in Int /\ size(patch) \in Nat
    BY LimitInt
  <2>1. CASE Reject
    BY <2>1 DEF Reject, LookupTypeOK, arguments
  <2>2. CASE StartScan
    BY <2>0, <2>2, ImageAssumption DEF StartScan, LookupTypeOK, arguments
  <2>3. CASE NextOccurrence
    BY <2>3 DEF NextOccurrence, LookupTypeOK, arguments
  <2>4. CASE ScanByte
    BY <2>4 DEF ScanByte, LookupTypeOK, arguments
  <2>5. CASE Replace
    <3>1. \A a \in Addr : a \in currentAddress .. currentAddress + size(patch) - 1
                            => patch.replace[a - currentAddress + 1] \in Byte
      BY <2>0, PatchesAssumption DEF LookupTypeOK, PatchRecord, size, Addr
    <3>2. Replaced(memory, currentAddress, patch) \in [Addr -> Byte]
      BY <3>1 DEF Replaced, LookupTypeOK
    <3> QED BY <2>5, <3>2 DEF Replace, LookupTypeOK, arguments
  <2>6. CASE Exhausted
    BY <2>6 DEF Exhausted, LookupTypeOK, arguments
  <2>7. CASE Finish
    BY <2>7 DEF Finish, LookupTypeOK, arguments
  <2>8. CASE UNCHANGED lookupVars
    BY <2>8 DEF lookupVars, LookupTypeOK
  <2> QED BY <2>1, <2>2, <2>3, <2>4, <2>5, <2>6, <2>7, <2>8 DEF LookupNext
<1> QED BY <1>1, <1>2, PTL DEF LookupSpec

\* A step that changes no argument leaves the searched range alone.
LEMMA RangeFixed ==
  ASSUME LookupTypeOK, [LookupNext]_lookupVars
  PROVE  /\ UNCHANGED arguments /\ Limit' = Limit /\ size(patch)' = size(patch)
         /\ Limit \in Int /\ size(patch) \in Nat /\ size(patch) > 0
         /\ Limit <= KextAddress + KextSize
<1>1. UNCHANGED arguments
  BY DEF LookupNext, lookupVars, arguments, Reject, StartScan, NextOccurrence,
     ScanByte, Replace,
    Exhausted, Finish
<1>. QED BY <1>1, LimitInt DEF arguments, Limit

LEMMA ScanInvStep ==
  ASSUME LookupTypeOK, ScanInv, [LookupNext]_lookupVars PROVE ScanInv'
<1>. USE RangeFixed DEF ScanInv, arguments
<1>1. CASE Reject
  BY <1>1 DEF Reject
<1>2. CASE StartScan
  <2>1. phase' # "scan" /\ endingAddress' = Limit' - size(patch)'
    BY <1>2 DEF StartScan
  <2>2. KextAddress <= currentAddress' /\ startingAddress' <= currentAddress'
    BY <1>2, ImageAssumption DEF StartScan, LookupTypeOK
  <2>. QED BY <2>1, <2>2
<1>3. CASE NextOccurrence
  BY <1>3 DEF NextOccurrence, More, LookupTypeOK
<1>4. CASE ScanByte
  <2>1. currentAddress < endingAddress
    BY <1>4 DEF ScanByte, Searching
  <2>. QED BY <1>4, <2>1, ImageAssumption DEF ScanByte, LookupTypeOK
<1>5. CASE Replace
  BY <1>5 DEF Replace
<1>6. CASE Exhausted
  BY <1>6 DEF Exhausted
<1>7. CASE Finish
  BY <1>7 DEF Finish
<1>8. CASE UNCHANGED lookupVars
  BY <1>8 DEF lookupVars
<1>. QED BY <1>1, <1>2, <1>3, <1>4, <1>5, <1>6, <1>7, <1>8 DEF LookupNext

\* The lookup never writes outside the range it was given: not outside the
\* kext's image, not below startingAddress, not beyond maxSize.
THEOREM LookupWritesInRange == LookupSpec => []WritesInRange
<1>1. LookupInit => ScanInv /\ WritesInRange
  BY DEF LookupInit, ScanInv, WritesInRange
<1>2. LookupTypeOK /\ ScanInv /\ WritesInRange /\ [LookupNext]_lookupVars => WritesInRange'
  <2> SUFFICES ASSUME LookupTypeOK, ScanInv, WritesInRange, [LookupNext]_lookupVars
               PROVE  WritesInRange'
    OBVIOUS
  <2>0. /\ UNCHANGED arguments /\ Limit' = Limit /\ Limit \in Int
        /\ size(patch) \in Nat /\ size(patch) > 0
        /\ Limit <= KextAddress + KextSize
    BY RangeFixed
  <2>1. CASE Replace
    <3>1. /\ KextAddress <= currentAddress /\ startingAddress <= currentAddress
          /\ currentAddress + size(patch) <= Limit
      BY <2>0, <2>1, ImageAssumption DEF Replace, ScanInv, LookupTypeOK
    <3>2. ASSUME NEW a \in Addr, memory'[a] # original'[a]
          PROVE  a \in Image /\ startingAddress' <= a /\ a < Limit'
      <4>1. a \in Int /\ currentAddress \in Int /\ startingAddress \in Int
              /\ KextAddress \in Int /\ KextSize \in Int
        BY ImageAssumption DEF Addr, LookupTypeOK
      <4>2. startingAddress' = startingAddress /\ original' = original
        BY <2>0 DEF arguments
      <4>3. CASE a \in currentAddress .. currentAddress + size(patch) - 1
        BY <2>0, <3>1, <4>1, <4>2, <4>3 DEF Image
      <4>4. CASE a \notin currentAddress .. currentAddress + size(patch) - 1
        <5>1. memory'[a] = memory[a]
          BY <2>1, <4>4 DEF Replace, Replaced
        <5> QED BY <2>0, <3>2, <4>2, <5>1 DEF WritesInRange
      <4> QED BY <4>3, <4>4
    <3> QED BY <3>2 DEF WritesInRange
  <2>2. CASE ~Replace
    <3>1. memory' = memory
      BY <2>2 DEF LookupNext, lookupVars, Reject, StartScan, NextOccurrence, ScanByte,
         Exhausted,
        Finish
    <3> QED BY <2>0, <3>1 DEF WritesInRange, arguments
  <2> QED BY <2>1, <2>2
<1>3. LookupTypeOK /\ ScanInv /\ [LookupNext]_lookupVars => ScanInv'
  BY ScanInvStep
<1> QED BY <1>1, <1>2, <1>3, LookupTypeCorrect, PTL DEF LookupSpec

------------------------------------------------------------------------------
(* What the bytes hold after some occurrences have been replaced.            *)

\* The addresses a pattern at s covers.
Covers(s, a) == s <= a /\ a < s + size(patch)

\* memory is the original with the replacement written at each address of S.
Holds(S) ==
  \A a \in Addr :
    /\ \A s \in S : Covers(s, a) => memory[a] = patch.replace[a - s + 1]
    /\ (\A s \in S : ~Covers(s, a)) => memory[a] = original[a]

\* S are the occurrences replaced so far: none beyond where the scan stands, and
\* every occurrence it has passed starts in one of them.
IsReplaced(S) ==
  /\ S \in SUBSET Occurrences /\ IsFiniteSet(S) /\ Cardinality(S) = changes
  /\ Disjoint(S) /\ Holds(S)
  /\ \A s \in S : s <= currentAddress
  /\ \A a \in Occurrences : a < currentAddress => \E s \in S : Covers(s, a)

\* How the two loops count: a pass without a change is the last one.
LoopInv ==
  /\ phase = "call" =>
       /\ currentAddress = 0 /\ changes = 0 /\ i = 0
       /\ memory = original /\ status = "NoError"
  /\ phase \in {"next", "scan", "finish"} =>
       /\ endingAddress = Limit - size(patch) /\ status = "NoError" /\ patch.loaded
       /\ i = changes \/ currentAddress >= endingAddress
       /\ changes <= i /\ (patch.count # 0 => i <= patch.count)
  /\ phase = "scan" => i < patch.count \/ patch.count = 0
  /\ phase = "finish" => ~More
  /\ phase = "done" /\ status = "NoError" => changes = patch.count
  /\ phase = "done" /\ status = "MemoryIssue" /\ patch.loaded =>
       currentAddress >= Limit - size(patch) /\ changes # patch.count
  /\ phase = "done" /\ patch.count # 0 => changes <= patch.count
  /\ phase = "done" /\ ~patch.loaded => changes = 0

LookupInv ==
  LoopInv /\ (phase # "call" /\ Settles(patch) => \E S : IsReplaced(S))

LEMMA PatchFacts ==
  ASSUME LookupTypeOK
  PROVE  /\ size(patch) \in Nat /\ size(patch) > 0
         /\ patch.find \in Seq(Byte) /\ patch.replace \in Seq(Byte)
         /\ Len(patch.find) = size(patch) /\ Len(patch.replace) = size(patch)
         /\ patch.count \in Nat
BY PatchesAssumption DEF LookupTypeOK, PatchRecord, size

\* A pattern with its occurrence in memory lies inside memory.
LEMMA CandidateFacts ==
  ASSUME LookupTypeOK, NEW a \in Candidates
  PROVE  /\ a \in Int /\ KextAddress <= a /\ startingAddress <= a
         /\ a + size(patch) <= Limit
         /\ \A b \in Int : Covers(a, b) => b \in Addr
<1>1. Limit \in Int /\ size(patch) \in Nat /\ Limit <= KextAddress + KextSize
  BY LimitInt
<1>2. a \in Image /\ startingAddress <= a /\ a + size(patch) <= Limit
  BY DEF Candidates
<1>. QED BY <1>1, <1>2, ImageAssumption DEF Image, Addr, Covers

\* What a sequence of bytes is from its k-th on.
LEMMA TailFacts ==
  ASSUME NEW q \in Seq(Byte), NEW k \in 1 .. Len(q)
  PROVE  /\ SubSeq(q, k, Len(q)) \in Seq(Byte)
         /\ Len(SubSeq(q, k, Len(q))) = Len(q) - k + 1
         /\ \A j \in 1 .. Len(q) - k + 1 : SubSeq(q, k, Len(q))[j] = q[k + j - 1]
<1>1. \A j \in 1 .. Len(q) - k + 1 : j + k - 1 \in 1 .. Len(q)
  OBVIOUS
<1>. QED BY <1>1

\* Where a replacement that settles was written no occurrence starts.
LEMMA SettledAt ==
  ASSUME LookupTypeOK, Settles(patch), NEW s \in Int, NEW a \in Int, Covers(s, a),
         \A b \in Int : Covers(s, b) /\ a <= b => memory[b] = patch.replace[b - s + 1]
  PROVE  ~FoundAt(memory, a, patch)
<1>. SUFFICES ASSUME FoundAt(memory, a, patch) PROVE FALSE
  OBVIOUS
<1>. DEFINE k == a - s + 1
            n == size(patch)
            rest == SubSeq(patch.replace, k, n)
            head == SubSeq(patch.find, 1, n - k + 1)
<1>1. k \in 1 .. n /\ n \in Nat
  BY PatchFacts DEF Covers
<1>2. /\ rest \in Seq(Byte) /\ Len(rest) = n - k + 1
      /\ \A j \in 1 .. n - k + 1 : rest[j] = patch.replace[k + j - 1]
  BY <1>1, PatchFacts, TailFacts
<1>3. /\ head \in Seq(Byte) /\ Len(head) = n - k + 1
      /\ \A j \in 1 .. n - k + 1 : head[j] = patch.find[j]
  BY <1>1, PatchFacts, SMTT(30)
<1>4. ASSUME NEW j \in 1 .. n - k + 1 PROVE rest[j] = head[j]
  <2>1. a + j - 1 \in Int /\ Covers(s, a + j - 1) /\ a <= a + j - 1 /\ j \in 1 .. n
    BY <1>1 DEF Covers
  <2>2. memory[a + j - 1] = patch.replace[(a + j - 1) - s + 1]
    BY <2>1
  <2>3. (a + j - 1) - s + 1 = k + j - 1
    BY <1>1
  <2>4. memory[a + j - 1] = patch.find[j]
    BY <2>1 DEF FoundAt
  <2>. QED BY <1>2, <1>3, <2>2, <2>3, <2>4, Zenon
<1>5. rest = head
  <2>. HIDE DEF rest, head, k, n
  <2>. QED BY <1>2, <1>3, <1>4
<1>. QED BY <1>1, <1>5 DEF Settles

\* A replaced occurrence is not found again, nor is a pattern that starts in it.
LEMMA ReplacedNotFound ==
  ASSUME LookupTypeOK, Settles(patch), NEW S \in SUBSET Occurrences, Holds(S),
         NEW s \in S, NEW a \in Int, Covers(s, a)
  PROVE  ~FoundAt(memory, a, patch)
<1>1. s \in Candidates
  BY DEF Occurrences
<1>2. s \in Int /\ \A b \in Int : Covers(s, b) => b \in Addr
  BY <1>1, CandidateFacts
<1>3. \A b \in Int : Covers(s, b) /\ a <= b => memory[b] = patch.replace[b - s + 1]
  BY <1>2, Zenon DEF Holds
<1>. QED BY <1>2, <1>3, SettledAt

\* A step that changes no argument changes no candidate and no occurrence.
LEMMA ArgsFixed ==
  ASSUME UNCHANGED arguments
  PROVE  /\ Limit' = Limit /\ size(patch)' = size(patch) /\ patch' = patch
         /\ Candidates' = Candidates /\ Occurrences' = Occurrences
         /\ \A S : Disjoint(S)' = Disjoint(S)
         /\ \A s, a : Covers(s, a)' = Covers(s, a)
         /\ Settles(patch)' = Settles(patch)
BY Zenon DEF arguments, Limit, Candidates, Occurrences, Disjoint, Covers, FoundAt,
   Settles, size

LEMMA LoopStep ==
  ASSUME LookupTypeOK, ScanInv, LoopInv, [LookupNext]_lookupVars PROVE LoopInv'
<1>. USE DEF LoopInv
<1>0. Limit \in Int /\ size(patch) \in Nat /\ patch.count \in Nat
  BY LimitInt, PatchFacts, Zenon
<1>1. CASE Reject
  <2>1. Limit' = Limit /\ patch' = patch /\ ~patch.loaded
    BY <1>1, ArgsFixed, Zenon DEF Reject
  <2>2. /\ phase' = "done" /\ status' = "MemoryIssue" /\ changes' = 0
        /\ currentAddress' = currentAddress
    BY <1>1, Zenon DEF Reject
  <2>. QED BY <1>0, <2>1, <2>2
<1>2. CASE StartScan
  <2>1. Limit' = Limit /\ patch' = patch
    BY <1>2, ArgsFixed DEF StartScan
  <2>2. phase' \in {"next", "done"} /\ (phase' = "done" => status' = "MemoryProtection")
    BY <1>2, Zenon DEF StartScan
  <2>3. phase' = "next" => status' = "NoError"
    BY <1>2, Zenon DEF StartScan
  <2>4. /\ endingAddress' = Limit - size(patch) /\ i' = 0 /\ changes' = 0
        /\ patch.loaded
    BY <1>2, Zenon DEF StartScan
  <2>. QED BY <1>0, <2>1, <2>2, <2>3, <2>4, SMTT(30)
<1>3. CASE NextOccurrence
  <2>1. Limit' = Limit /\ patch' = patch
    BY <1>3, ArgsFixed, Zenon DEF NextOccurrence
  <2>. QED BY <1>0, <1>3, <2>1, Zenon DEF NextOccurrence, More
<1>4. CASE ScanByte
  <2>1. Limit' = Limit /\ patch' = patch
    BY <1>4, ArgsFixed, Zenon DEF ScanByte
  <2>. QED BY <1>0, <1>4, <2>1 DEF ScanByte, Searching, LookupTypeOK
<1>5. CASE Replace
  <2>1. Limit' = Limit /\ patch' = patch
    BY <1>5, ArgsFixed, Zenon DEF Replace
  <2>2. currentAddress < endingAddress
    BY <1>5 DEF Replace, ScanInv, LookupTypeOK
  <2>. QED BY <1>0, <1>5, <2>1, <2>2 DEF Replace, LookupTypeOK
<1>6. CASE Exhausted
  <2>1. Limit' = Limit /\ patch' = patch
    BY <1>6, ArgsFixed, Zenon DEF Exhausted
  <2>. QED BY <1>0, <1>6, <2>1, SMTT(30) DEF Exhausted, LookupTypeOK
<1>7. CASE Finish
  <2>1. Limit' = Limit /\ patch' = patch
    BY <1>7, ArgsFixed, Zenon DEF Finish
  <2>2. status' = "NoError" => changes = patch.count
    BY <1>7, Zenon DEF Finish
  <2>3. status' = "MemoryIssue" => changes # patch.count
    BY <1>7, Zenon DEF Finish
  <2>4. changes # patch.count => currentAddress >= endingAddress
    BY <1>0, <1>7 DEF Finish, More, LookupTypeOK
  <2>5. /\ patch.count # 0 => changes <= patch.count
        /\ patch.loaded /\ endingAddress = Limit - size(patch)
    BY <1>0, <1>7 DEF Finish, LookupTypeOK
  <2>6. phase' = "done" /\ changes' = changes /\ currentAddress' = currentAddress
    BY <1>7, Zenon DEF Finish
  <2>. QED BY <2>1, <2>2, <2>3, <2>4, <2>5, <2>6, Zenon
<1>8. CASE UNCHANGED lookupVars
  <2>1. Limit' = Limit /\ patch' = patch
    BY <1>8, ArgsFixed, Zenon DEF lookupVars, arguments
  <2>2. More' = More
    BY <1>8 DEF lookupVars, More
  <2>. QED BY <1>8, <2>1, <2>2, Zenon DEF lookupVars
<1>. QED BY <1>1, <1>2, <1>3, <1>4, <1>5, <1>6, <1>7, <1>8, Zenon DEF LookupNext

\* An occurrence of the original that is not found any more starts in one that
\* was replaced.
LEMMA GoneIsCovered ==
  ASSUME LookupTypeOK, NEW S, IsReplaced(S), NEW a \in Occurrences, a >= currentAddress,
         ~FoundAt(memory, a, patch)
  PROVE  \E s \in S : Covers(s, a)
<1>1. a \in Candidates /\ FoundAt(original, a, patch)
  BY Zenon DEF Occurrences
<1>2. PICK k \in 1 .. size(patch) : memory[a + k - 1] # patch.find[k]
  BY Zenon DEF FoundAt
<1>3. original[a + k - 1] = patch.find[k]
  BY <1>1, <1>2 DEF FoundAt
<1>4. a \in Int /\ size(patch) \in Nat /\ a + k - 1 \in Addr
  <2>1. a \in Int /\ size(patch) \in Nat
    BY <1>1, CandidateFacts, PatchFacts
  <2>2. a + k - 1 \in Int /\ Covers(a, a + k - 1)
    BY <2>1 DEF Covers
  <2>. QED BY <1>1, <2>1, <2>2, CandidateFacts, Zenon
<1>5. PICK s \in S : Covers(s, a + k - 1)
  BY <1>2, <1>3, <1>4, Zenon DEF IsReplaced, Holds
<1>6. s \in Int /\ s <= currentAddress
  BY CandidateFacts, Zenon DEF IsReplaced, Occurrences
<1>7. Covers(s, a)
  BY <1>2, <1>4, <1>5, <1>6 DEF Covers, LookupTypeOK
<1>. QED BY <1>7

\* Replacing at the scan's position adds one more occurrence, separate from those
\* replaced before.
LEMMA ReplaceAdds ==
  ASSUME LookupTypeOK, ScanInv, Settles(patch), NEW S, IsReplaced(S), Replace
  PROVE  \E T : IsReplaced(T)'
<1>0. PICK c : c = currentAddress
  OBVIOUS
<1>. DEFINE T == S \union {c}
<1>1. /\ UNCHANGED arguments /\ currentAddress' = c /\ changes' = changes + 1
      /\ memory' = Replaced(memory, c, patch) /\ phase = "scan" /\ ~Searching
      /\ c # endingAddress
  BY <1>0, Zenon DEF Replace
<1>2. /\ Limit' = Limit /\ size(patch)' = size(patch) /\ patch' = patch
      /\ Candidates' = Candidates /\ Occurrences' = Occurrences
      /\ Disjoint(T)' = Disjoint(T)
      /\ \A s, a : Covers(s, a)' = Covers(s, a)
  BY <1>1, ArgsFixed, Zenon
<1>3. size(patch) \in Nat /\ size(patch) > 0 /\ Limit \in Int /\ c \in Int
        /\ Limit <= KextAddress + KextSize
  BY <1>0, LimitInt DEF LookupTypeOK
<1>4. c < endingAddress /\ FoundAt(memory, c, patch)
  BY <1>0, <1>1 DEF ScanInv, Searching, LookupTypeOK
<1>5. c \in Candidates
  BY <1>0, <1>1, <1>3, <1>4, ImageAssumption DEF ScanInv, Candidates, Image, LookupTypeOK
<1>6. ASSUME NEW s \in S PROVE s \in Int /\ s + size(patch) <= c
  <2>1. s \in Int /\ s <= c
    BY <1>0, CandidateFacts, Zenon DEF IsReplaced, Occurrences
  <2>2. ~Covers(s, c)
    BY <1>3, <1>4, ReplacedNotFound, Zenon DEF IsReplaced
  <2>. QED BY <1>3, <2>1, <2>2 DEF Covers
<1>7. c \in Occurrences
  <2>1. ASSUME NEW k \in 1 .. size(patch) PROVE original[c + k - 1] = patch.find[k]
    <3>1. c + k - 1 \in Int /\ c + k - 1 \in Addr
      BY <1>3, <1>5, CandidateFacts DEF Covers
    <3>2. \A s \in S : ~Covers(s, c + k - 1)
      BY <1>3, <1>6 DEF Covers
    <3>3. memory[c + k - 1] = original[c + k - 1]
      BY <3>1, <3>2, Zenon DEF IsReplaced, Holds
    <3>. QED BY <1>4, <3>3 DEF FoundAt
  <2>. QED BY <1>5, <2>1, Zenon DEF Occurrences, FoundAt
<1>8. IsFiniteSet(T) /\ Cardinality(T) = changes + 1
  <2>1. c \notin S
    BY <1>3, <1>6
  <2>. QED BY <2>1, FS_AddElement DEF IsReplaced
<1>9. Disjoint(T)
  BY <1>6, Zenon DEF Disjoint, IsReplaced
<1>10. Holds(T)'
  <2>1. ASSUME NEW a \in Addr
        PROVE  /\ \A s \in T : Covers(s, a) => memory'[a] = patch.replace[a - s + 1]
               /\ (\A s \in T : ~Covers(s, a)) => memory'[a] = original[a]
    <3>0. a \in Int /\ original' = original
      BY <1>1, ImageAssumption DEF Addr, arguments
    <3>1. CASE Covers(c, a)
      <4>1. memory'[a] = patch.replace[a - c + 1]
        BY <1>1, <1>3, <3>0, <3>1 DEF Replaced, Covers
      <4>2. \A s \in S : ~Covers(s, a)
        BY <1>3, <1>6, <3>0, <3>1 DEF Covers
      <4>. QED BY <3>1, <4>1, <4>2, Zenon
    <3>2. CASE ~Covers(c, a)
      <4>1. memory'[a] = memory[a]
        BY <1>1, <1>3, <3>0, <3>2 DEF Replaced, Covers
      <4>. QED BY <3>2, <4>1, Zenon DEF IsReplaced, Holds
    <3>. QED BY <3>1, <3>2, Zenon
  <2>. QED BY <1>1, <1>2, <2>1, Zenon DEF Holds, arguments
<1>11. \A s \in T : s <= c
  BY <1>0, <1>3 DEF IsReplaced
<1>12. \A a \in Occurrences : a < c => \E s \in T : Covers(s, a)
  BY <1>0 DEF IsReplaced
<1>13. T \in SUBSET Occurrences
  BY <1>7, Zenon DEF IsReplaced
<1>. HIDE DEF T
<1>14. IsReplaced(T)'
  BY <1>1, <1>2, <1>8, <1>9, <1>10, <1>11, <1>12, <1>13, ZenonT(40) DEF IsReplaced
<1>. QED BY <1>14

LEMMA ReplacedStep ==
  ASSUME LookupTypeOK, ScanInv, LoopInv, [LookupNext]_lookupVars, Settles(patch)',
         phase # "call" /\ Settles(patch) => \E S : IsReplaced(S),
         phase' # "call"
  PROVE  \E S : IsReplaced(S)'
<1>0. UNCHANGED arguments
  BY Zenon DEF LookupNext, lookupVars, arguments, Reject, StartScan, NextOccurrence,
     ScanByte, Replace,
    Exhausted, Finish
<1>1. /\ Settles(patch) /\ Occurrences' = Occurrences
      /\ \A S : Disjoint(S)' = Disjoint(S)
      /\ \A s, a : Covers(s, a)' = Covers(s, a)
  BY <1>0, ArgsFixed
<1>2. CASE phase = "call"
  <2>1. memory' = original /\ changes' = 0
    <3>1. CASE Reject
      BY <1>2, <3>1, Zenon DEF Reject, LoopInv
    <3>2. CASE StartScan
      BY <1>2, <3>2, Zenon DEF StartScan, LoopInv
    <3>. QED BY <1>2, <3>1, <3>2, Zenon DEF LookupNext, NextOccurrence, ScanByte, Replace,
           Exhausted, Finish, lookupVars
  <2>2. currentAddress' \in {0, KextAddress, startingAddress}
    <3>1. CASE Reject
      BY <1>2, <3>1, Zenon DEF Reject, LoopInv
    <3>2. CASE StartScan
      BY <1>2, <3>2, Zenon DEF StartScan
    <3>. QED BY <1>2, <3>1, <3>2, Zenon DEF LookupNext, NextOccurrence, ScanByte, Replace,
           Exhausted, Finish, lookupVars
  <2>3. \A a \in Occurrences : ~(a < currentAddress')
    <3>. SUFFICES ASSUME NEW a \in Occurrences PROVE ~(a < currentAddress')
      OBVIOUS
    <3>1. a \in Int /\ KextAddress <= a /\ startingAddress <= a
      BY CandidateFacts, Zenon DEF Occurrences
    <3>. QED BY <2>2, <3>1, ImageAssumption DEF LookupTypeOK
  <2>4. IsReplaced({})'
    BY <1>0, <2>1, <2>3, <1>1, FS_EmptySet, Zenon DEF IsReplaced, Holds, Disjoint, arguments
  <2>. QED BY <2>4, Zenon
<1>3. CASE phase # "call" /\ Replace
  <2>1. PICK S : IsReplaced(S)
    BY <1>1, <1>3
  <2>. QED BY <1>1, <1>3, <2>1, ReplaceAdds, Zenon
<1>4. CASE phase # "call" /\ ScanByte
  <2>1. PICK S : IsReplaced(S)
    BY <1>1, <1>4
  <2>2. /\ memory' = memory /\ changes' = changes /\ original' = original
        /\ patch' = patch /\ currentAddress' = currentAddress + 1
        /\ ~FoundAt(memory, currentAddress, patch) /\ currentAddress \in Nat
    BY <1>4, Zenon DEF ScanByte, Searching, arguments, LookupTypeOK
  <2>3. \A s \in S : s \in Int
    BY <2>1, CandidateFacts, Zenon DEF IsReplaced, Occurrences
  <2>4. \A s \in S : s <= currentAddress'
    BY <2>1, <2>2, <2>3 DEF IsReplaced
  <2>5. ASSUME NEW a \in Occurrences, a < currentAddress'
        PROVE  \E s \in S : Covers(s, a)
    <3>1. a \in Int
      BY CandidateFacts, Zenon DEF Occurrences
    <3>2. CASE a < currentAddress
      BY <2>1, <3>2, Zenon DEF IsReplaced
    <3>3. CASE a = currentAddress
      BY <2>1, <2>2, <3>3, GoneIsCovered
    <3>. QED BY <2>2, <2>5, <3>1, <3>2, <3>3
  <2>6. Holds(S)'
    BY <1>1, <2>1, <2>2, Zenon DEF IsReplaced, Holds
  <2>7. IsReplaced(S)'
    BY <1>1, <2>1, <2>2, <2>4, <2>5, <2>6, Zenon DEF IsReplaced
  <2>. QED BY <2>7, Zenon
<1>5. CASE phase # "call" /\ ~Replace /\ ~ScanByte
  <2>1. PICK S : IsReplaced(S)
    BY <1>1, <1>5, Zenon
  <2>2. UNCHANGED <<memory, changes, currentAddress>>
    BY <1>5, Zenon DEF LookupNext, lookupVars, Reject, StartScan, NextOccurrence,
       Exhausted, Finish
  <2>3. Holds(S)'
    BY <1>0, <1>1, <2>1, <2>2, Zenon DEF IsReplaced, Holds, arguments
  <2>4. IsReplaced(S)'
    BY <1>1, <2>1, <2>2, <2>3 DEF IsReplaced
  <2>. QED BY <2>4
<1>. QED BY <1>2, <1>3, <1>4, <1>5, Zenon

\* The scan keeps account of what it replaced, in every behaviour.
LEMMA LookupInvariant == LookupSpec => [](LookupTypeOK /\ ScanInv /\ LookupInv)
<1>1. LookupInit => ScanInv /\ LookupInv
  BY DEF LookupInit, ScanInv, LookupInv, LoopInv
<1>2. LookupTypeOK /\ ScanInv /\ LookupInv /\ [LookupNext]_lookupVars => LookupInv'
  <2>. SUFFICES ASSUME LookupTypeOK, ScanInv, LookupInv, [LookupNext]_lookupVars PROVE LookupInv'
    OBVIOUS
  <2>1. LoopInv'
    BY LoopStep DEF LookupInv
  <2>2. ASSUME phase' # "call", Settles(patch)' PROVE \E S : IsReplaced(S)'
    BY <2>2, ReplacedStep DEF LookupInv
  <2>. QED BY <2>1, <2>2 DEF LookupInv
<1>3. LookupTypeOK /\ ScanInv /\ [LookupNext]_lookupVars => ScanInv'
  BY ScanInvStep
<1>. QED BY <1>1, <1>2, <1>3, LookupTypeCorrect, PTL DEF LookupSpec

\* The bytes the scan leaves are the original ones with the replacements written.
LEMMA WrittenBytes ==
  ASSUME LookupTypeOK, NEW S, IsReplaced(S) PROVE memory = WithReplaced(S)
<1>1. ASSUME NEW a \in Addr PROVE memory[a] = WithReplaced(S)[a]
  <2>. DEFINE hit == {s \in S : a \in s .. s + size(patch) - 1}
  <2>0. a \in Int /\ size(patch) \in Nat /\ \A s \in S : s \in Int
    BY CandidateFacts, PatchFacts, ImageAssumption
      DEF IsReplaced, Occurrences, Addr
  <2>1. WithReplaced(S)[a] = IF hit = {} THEN original[a]
                             ELSE patch.replace[a - (CHOOSE s \in hit : TRUE) + 1]
    BY Zenon DEF WithReplaced
  <2>2. \A s \in S : s \in hit <=> Covers(s, a)
    BY <2>0 DEF Covers
  <2>3. CASE hit = {}
    BY <2>1, <2>2, <2>3, Zenon DEF IsReplaced, Holds
  <2>4. CASE hit # {}
    <3>1. PICK t : t = CHOOSE s \in hit : TRUE
      OBVIOUS
    <3>2. t \in hit
      BY <2>4, <3>1, Zenon
    <3>3. t \in S /\ Covers(t, a)
      BY <2>2, <3>2, Zenon
    <3>4. memory[a] = patch.replace[a - t + 1]
      BY <3>3, Zenon DEF IsReplaced, Holds
    <3>. QED BY <2>1, <2>4, <3>1, <3>4
  <2>. QED BY <2>3, <2>4, Zenon
<1>2. memory \in [Addr -> Byte] /\ DOMAIN WithReplaced(S) = Addr
  BY Zenon DEF LookupTypeOK, WithReplaced
<1>3. WithReplaced(S) = [a \in Addr |-> WithReplaced(S)[a]]
  BY DEF WithReplaced
<1>. DEFINE w == WithReplaced(S)
<1>. HIDE DEF w
<1>4. memory = w
  BY <1>1, <1>2, <1>3 DEF w
<1>. QED BY <1>4 DEF w

\* A call that reports success has replaced as many separate occurrences of the
\* original bytes as the patch asks for, and nothing else, for every patch whose
\* replacement does not bring the pattern back.
THEOREM SuccessExact == LookupSpec => []SuccessIsExact
<1>1. LookupTypeOK /\ LookupInv => SuccessIsExact
  <2>. SUFFICES ASSUME LookupTypeOK, LookupInv, phase = "done", status = "NoError", Settles(patch)
                PROVE  \E S \in SUBSET Occurrences :
                         /\ Cardinality(S) = patch.count /\ Disjoint(S)
                         /\ memory = WithReplaced(S)
    BY DEF SuccessIsExact
  <2>1. PICK S : IsReplaced(S)
    BY Zenon DEF LookupInv
  <2>2. Cardinality(S) = patch.count
    BY <2>1, Zenon DEF LookupInv, LoopInv, IsReplaced
  <2>3. memory = WithReplaced(S)
    BY <2>1, WrittenBytes
  <2>. QED BY <2>1, <2>2, <2>3, Zenon DEF IsReplaced
<1>. QED BY <1>1, LookupInvariant, PTL

\* A call that reports too few changes has left an occurrence of the original bytes
\* in place only at the last position of the range, for every patch whose
\* replacement does not bring the pattern back.
THEOREM FailureExhaustive == LookupSpec => [](Settles(patch) => FailureIsExhaustive)
<1>1. LookupTypeOK /\ LookupInv => (Settles(patch) => FailureIsExhaustive)
  <2>. SUFFICES ASSUME LookupTypeOK, LookupInv, Settles(patch), phase = "done",
                       status = "MemoryIssue", patch.loaded,
                       NEW a \in Occurrences, FoundAt(memory, a, patch)
                PROVE  a = Limit - size(patch)
    BY DEF FailureIsExhaustive
  <2>1. PICK S : IsReplaced(S)
    BY Zenon DEF LookupInv
  <2>2. a \in Int /\ a + size(patch) <= Limit /\ Limit \in Int /\ size(patch) \in Nat
    BY CandidateFacts, LimitInt, Zenon DEF Occurrences
  <2>3. ~(a < currentAddress)
    BY <2>1, <2>2, ReplacedNotFound, Zenon DEF IsReplaced
  <2>4. currentAddress >= Limit - size(patch)
    BY Zenon DEF LookupInv, LoopInv
  <2>. QED BY <2>2, <2>3, <2>4 DEF LookupTypeOK
<1>. QED BY <1>1, LookupInvariant, PTL

------------------------------------------------------------------------------
(* The two loops implement the call LookupCall describes.                    *)

\* The call is about the same range, the same occurrences and the same patch.
LEMMA SameArguments ==
  /\ Call!Occurrences = Occurrences /\ Call!Settles(patch) = Settles(patch)
  /\ Call!Limit = Limit
  /\ \A S : /\ Call!FirstOnes(S) = FirstOnes(S) /\ Call!WithReplaced(S) = WithReplaced(S)
            /\ Call!Cardinality(S) = Cardinality(S)
<1>1. Call!Occurrences = Occurrences /\ Call!Limit = Limit
  BY Zenon DEF Call!Occurrences, Occurrences, Call!Candidates, Candidates, Call!Limit,
    Limit, Call!Image, Image, Call!FoundAt, FoundAt, Call!size, size
<1>2. Call!Settles(patch) = Settles(patch)
  BY Zenon DEF Call!Settles, Settles, Call!size, size
<1>3. ASSUME NEW S PROVE Call!FirstOnes(S) = FirstOnes(S)
  <2>1. Call!Disjoint(S) = Disjoint(S)
    BY Zenon DEF Call!Disjoint, Disjoint, Call!size, size
  <2>2. \A a : Call!Within(a, S) = Within(a, S)
    BY Zenon DEF Call!Within, Within, Call!size, size
  <2>3. Call!Cardinality(S) = Cardinality(S)
    BY Zenon DEF Call!Cardinality, Cardinality
  <2>4. Call!size(patch) = size(patch)
    BY Zenon DEF Call!size, size
  <2>. QED BY <1>1, <2>1, <2>2, <2>3, <2>4, Zenon DEF Call!FirstOnes, FirstOnes
<1>4. ASSUME NEW S PROVE Call!WithReplaced(S) = WithReplaced(S)
  BY Zenon DEF Call!WithReplaced, WithReplaced, Call!Addr, Addr, Call!size, size
<1>5. \A S : Call!Cardinality(S) = Cardinality(S)
  BY Zenon DEF Call!Cardinality, Cardinality
<1>. QED BY <1>1, <1>2, <1>3, <1>4, <1>5, Zenon

\* When the loops are over, what they replaced is what the call promises: they went
\* through the occurrences in order and stopped early only for the count.
LEMMA FinishedFirst ==
  ASSUME LookupTypeOK, LoopInv, phase = "finish", NEW S, IsReplaced(S)
  PROVE  FirstOnes(S)
<1>0. /\ size(patch) \in Nat /\ Limit \in Int /\ patch.count \in Nat
      /\ currentAddress \in Nat /\ i \in Nat /\ changes \in Nat
      /\ endingAddress = Limit - size(patch)
      /\ i = changes \/ currentAddress >= endingAddress
      /\ changes <= i /\ (patch.count # 0 => i <= patch.count) /\ ~More
  BY LimitInt, PatchFacts, Zenon DEF LoopInv, LookupTypeOK
<1>1. Cardinality(S) = changes /\ Disjoint(S)
  BY Zenon DEF IsReplaced
<1>2. \A a : Within(a, S) <=> \E s \in S : Covers(s, a)
  BY Zenon DEF Within, Covers
<1>3. \A a \in Occurrences : a \in Int /\ a + size(patch) <= Limit
  BY CandidateFacts, Zenon DEF Occurrences
<1>4. patch.count # 0 => changes <= patch.count
  BY <1>0
<1>5. ASSUME NEW s \in S, NEW a \in Occurrences, a < s PROVE Within(a, S)
  <2>1. s \in Occurrences /\ s <= currentAddress
    BY Zenon DEF IsReplaced
  <2>2. a < currentAddress
    BY <1>0, <1>3, <1>5, <2>1
  <2>. QED BY <1>2, <2>2, Zenon DEF IsReplaced
<1>6. ASSUME changes # patch.count, NEW a \in Occurrences
      PROVE  Within(a, S) \/ a = Limit - size(patch)
  <2>1. currentAddress >= Limit - size(patch)
    BY <1>0, <1>6 DEF More
  <2>2. a < currentAddress \/ a = Limit - size(patch)
    BY <1>0, <1>3, <2>1
  <2>. QED BY <1>2, <2>2, Zenon DEF IsReplaced
<1>. QED BY <1>1, <1>4, <1>5, <1>6, Zenon DEF FirstOnes

\* Every step of the loops is the return of the call or no step of it.
LEMMA CallStep ==
  ASSUME LookupTypeOK, LookupTypeOK', LookupInv, WritesInRange', [LookupNext]_lookupVars
  PROVE  [Call!CallNext]_(Call!callVars)
<1>0. UNCHANGED arguments
  BY RangeFixed
<1>1. CASE phase' # "done" \/ UNCHANGED lookupVars
  <2>1. phase # "done" \/ UNCHANGED lookupVars
    BY <1>1, Zenon DEF LookupNext, Reject, StartScan, NextOccurrence, ScanByte, Replace,
      Exhausted, Finish
  <2>2. UNCHANGED status \/ UNCHANGED lookupVars
    BY <1>1, Zenon DEF LookupNext, Reject, StartScan, NextOccurrence, ScanByte, Replace,
      Exhausted, Finish
  <2>. QED BY <1>0, <1>1, <2>1, <2>2, Zenon DEF Call!callVars, Seen, arguments, lookupVars
<1>2. CASE phase = "call" /\ phase' = "done"
  <2>1. /\ memory' = memory /\ memory = original
        /\ status' = IF patch.loaded THEN "MemoryProtection" ELSE "MemoryIssue"
    <3>1. memory = original
      BY <1>2, Zenon DEF LookupInv, LoopInv
    <3>2. CASE Reject
      BY <3>1, <3>2, Zenon DEF Reject
    <3>3. CASE StartScan
      BY <1>2, <3>1, <3>3, Zenon DEF StartScan
    <3>. QED BY <1>2, <3>2, <3>3, Zenon DEF LookupNext, NextOccurrence, ScanByte, Replace,
           Exhausted, Finish, lookupVars
  <2>2. Seen' = Seen
    BY <1>2, <2>1, Zenon DEF Seen
  <2>3. Call!CallRefused
    BY <1>0, <1>2, <2>1, <2>2, Zenon DEF Call!CallRefused, Call!Returns, Call!arguments,
      arguments
  <2>. QED BY <2>3, Zenon DEF Call!CallNext
<1>3. CASE Finish
  <2>1. /\ phase = "finish" /\ phase' = "done" /\ memory' = memory /\ patch.loaded
        /\ Seen' = memory /\ Seen = original
        /\ \/ status' = IF changes # patch.count THEN "MemoryIssue" ELSE "NoError"
           \/ status' = "MemoryProtection"
    BY <1>3, Zenon DEF Finish, Seen, LookupInv, LoopInv
  <2>2. \A c : status' = c => Call!Returns(c)
    BY <1>0, <2>1, Zenon DEF Call!Returns, Call!arguments, arguments
  <2>3. CASE Settles(patch)
    <3>1. PICK S : IsReplaced(S)
      BY <2>1, <2>3, Zenon DEF LookupInv
    <3>2. S \in SUBSET Occurrences /\ Cardinality(S) = changes
      BY <3>1, Zenon DEF IsReplaced
    <3>3. FirstOnes(S) /\ memory = WithReplaced(S)
      BY <2>1, <3>1, FinishedFirst, WrittenBytes, Zenon DEF LookupInv
    <3>4. Call!CallPatched
      BY <2>1, <2>2, <2>3, <3>2, <3>3, SameArguments, Zenon DEF Call!CallPatched
    <3>. QED BY <3>4, Zenon DEF Call!CallNext
  <2>4. CASE ~Settles(patch)
    <3>1. status' \in {"NoError", "MemoryIssue", "MemoryProtection"}
      BY Zenon DEF LookupTypeOK
    <3>2. memory \in [Addr -> Byte]
      BY Zenon DEF LookupTypeOK
    <3>3. \A a \in Addr : memory[a] # original[a] =>
            a \in Image /\ startingAddress <= a /\ a < Limit
      BY <1>0, <2>1, ArgsFixed, Zenon DEF WritesInRange, arguments
    <3>4. Call!CallUnsettled
      BY <2>1, <2>2, <2>4, <3>1, <3>2, <3>3, SameArguments, Zenon
        DEF Call!CallUnsettled, Call!Addr, Addr, Call!Image, Image
    <3>. QED BY <3>4, Zenon DEF Call!CallNext
  <2>. QED BY <2>3, <2>4, Zenon
<1>. QED BY <1>1, <1>2, <1>3, Zenon DEF LookupNext, Reject, StartScan, NextOccurrence,
       ScanByte, Replace, Exhausted

\* applyLookupPatch implements the one-step call, for every memory, image, search
\* range and patch: the byte-by-byte scan and its two loop conditions replace the
\* first occurrences, in order and as many as asked for, and the code tells.
THEOREM LookupRefinesCall == LookupSpec => CallRefined
<1>1. LookupInit => Call!CallInit
  BY Zenon DEF LookupInit, Call!CallInit, Seen, Call!Addr, Addr
<1>2. /\ LookupTypeOK /\ LookupTypeOK' /\ LookupInv /\ WritesInRange'
      /\ [LookupNext]_lookupVars
      => [Call!CallNext]_(Call!callVars)
  BY CallStep
<1>. QED BY <1>1, <1>2, LookupInvariant, LookupWritesInRange, PTL
       DEF LookupSpec, CallRefined, Call!CallSpec

\* How the call ends for the patch that asked for it: the occurrences written, and
\* the error code it shares with the other patches.
CallOutcome ==
  [written |-> changes, code |-> IF status = "NoError" THEN code ELSE Error(status)]

\* KextPatching lets a lookup end in the ways applyLookupPatch, as it is coded, can
\* end: for every count a patch asks for and whatever code the earlier patches left,
\* ApplyLookupPatch has an outcome with those writes and that code.
THEOREM OutcomesAreKnown ==
  LookupSpec =>
    [](phase = "done" /\ patch.count = op.count /\ op.count # 0 =>
         \E found \in 0 .. op.count : CallOutcome \in LookupOutcomes(found))
<1>1. ASSUME LookupTypeOK, LookupInv, phase = "done", patch.count = op.count, op.count # 0
      PROVE  \E found \in 0 .. op.count : CallOutcome \in LookupOutcomes(found)
  <2>1. /\ changes \in Nat /\ op.count \in Nat /\ changes <= op.count
        /\ status \in {"NoError", "MemoryIssue", "MemoryProtection"}
        /\ status = "NoError" => changes = op.count
        /\ status = "MemoryIssue" => changes # op.count
    BY <1>1, PatchFacts DEF LookupTypeOK, LookupInv, LoopInv
  <2>2. changes \in 0 .. op.count
    BY <2>1
  <2>3. CallOutcome \in LookupOutcomes(changes)
    BY <2>1, Zenon DEF CallOutcome, LookupOutcomes
  <2>. QED BY <2>2, <2>3, Zenon
<1>. QED BY <1>1, LookupInvariant, PTL

------------------------------------------------------------------------------
(* The operations of the patches.                                            *)

\* The occurrences an operation asks for, by its name.
CountOf(name) == IF name \in {"masks", "bits"} THEN 2
                 ELSE IF name = "BITS_PER_COMPONENT" THEN 0 ELSE 1

\* What the proofs use of an operation.
Proper(o) ==
  /\ o.kind \in {"lookup", "route", "fallback", "walk", "bits"}
  /\ o.count = CountOf(o.name) /\ o.count \in Nat
  /\ o.name \notin {"Lilu", "plugin"}
  /\ o.kind \in {"route", "fallback"} => o.count = 1
  /\ o.name = "bits" <=> o.kind = "bits"

ProperOps(q) ==
  /\ q \in Seq({q[n] : n \in 1 .. Len(q)})
  /\ \A n \in 1 .. Len(q) : Proper(q[n])

LEMMA ShortPatches ==
  /\ \A a : Proper(a) => ProperOps(<<a>>)
  /\ \A a, b : Proper(a) /\ Proper(b) => ProperOps(<<a, b>>)
  /\ \A a, b, c : Proper(a) /\ Proper(b) /\ Proper(c) => ProperOps(<<a, b, c>>)
<1>1. \A a : Proper(a) => ProperOps(<<a>>)
  BY DEF ProperOps
<1>2. \A a, b : Proper(a) /\ Proper(b) => ProperOps(<<a, b>>)
  BY DEF ProperOps
<1>3. ASSUME NEW a, NEW b, NEW c, Proper(a), Proper(b), Proper(c)
      PROVE  ProperOps(<<a, b, c>>)
  <2>. DEFINE q == <<a, b, c>>
  <2>1. Len(q) = 3 /\ q[1] = a /\ q[2] = b /\ q[3] = c
    OBVIOUS
  <2>2. q \in Seq({a, b, c}) /\ {q[n] : n \in 1 .. 3} = {a, b, c}
    OBVIOUS
  <2>3. \A n \in 1 .. 3 : n = 1 \/ n = 2 \/ n = 3
    OBVIOUS
  <2>. HIDE DEF q
  <2>4. ProperOps(q)
    BY <1>3, <2>1, <2>2, <2>3, Zenon DEF ProperOps
  <2>. QED BY <2>4 DEF q
<1>. QED BY <1>1, <1>2, <1>3

LEMMA ProperPatches ==
  \A p \in PatchNames : ProperOps(Patch[p].ops)
<1>1. /\ \A name : name \notin {"masks", "bits", "BITS_PER_COMPONENT", "Lilu", "plugin"} =>
           Proper(Lookup(name, 1)) /\ Proper(Route(name)) /\ Proper(Fallback(name))
  BY Zenon DEF Proper, CountOf, Lookup, Route, Fallback
<1>2. \A p \in DOMAIN AGDCPatches : ProperOps(AGDCPatches[p].ops)
  BY <1>1, ShortPatches DEF AGDCPatches
<1>3. \A p \in DOMAIN AMDRoutes : ProperOps(AMDRoutes[p].ops)
  <2>1. /\ AMDRoutes["bypassAMDProjectSelection"].ops = <<Route("findProjectByPartNumber")>>
        /\ AMDRoutes["skipAMDVRAMTest"].ops = <<Route("TestVRAM")>>
        /\ AMDRoutes["stabiliseAMDAccelConfig"].ops = <<Route("populateAccelConfig")>>
        /\ AMDRoutes["relaxAMDSharedUserClientOutputSizing"].ops = <<Route("getTargetAndMethodForIndex")>>
        /\ AMDRoutes["relaxIOAccelSharedUserClientOutputSizing"].ops = <<Route("IOAccel getTargetAndMethodForIndex")>>
        /\ AMDRoutes["validateAMDDetailedTiming"].ops = <<Route("notifyLinkChange")>>
        /\ AMDRoutes["relaxAMDFramebufferTimingValidation"].ops = <<Route("validateDetailedTiming")>>
    BY Zenon DEF AMDRoutes
  <2>2. DOMAIN AMDRoutes =
          {"bypassAMDProjectSelection",
           "skipAMDVRAMTest",
           "stabiliseAMDAccelConfig",
           "relaxAMDSharedUserClientOutputSizing",
           "relaxIOAccelSharedUserClientOutputSizing",
           "validateAMDDetailedTiming",
           "relaxAMDFramebufferTimingValidation"}
    BY DEF AMDRoutes
  <2>. QED BY <1>1, <2>1, <2>2, ShortPatches, Zenon
<1>4. \A p \in DOMAIN AMDLookups : ProperOps(AMDLookups[p].ops)
  <2>1. ProperOps(AMDLookups["forceAMD24BitOutput"].ops)
    <3>. DEFINE a == [kind |-> "walk", name |-> "BITS_PER_COMPONENT", count |-> 0]
                b == Lookup("masks", 2)
                c == [kind |-> "bits", name |-> "bits", count |-> 2]
    <3>1. AMDLookups["forceAMD24BitOutput"].ops = <<a, b, c>>
      BY Zenon DEF AMDLookups
    <3>2. Proper(a)
      BY DEF Proper, CountOf
    <3>3. Proper(b)
      BY DEF Proper, CountOf, Lookup
    <3>4. Proper(c)
      BY DEF Proper, CountOf
    <3>. HIDE DEF a, b, c
    <3>. QED BY <3>1, <3>2, <3>3, <3>4, ShortPatches, Zenon
  <2>2. ProperOps(AMDLookups["guardAMDIOSurfacePlaneInfo"].ops)
    BY <1>1, ShortPatches, Zenon DEF AMDLookups
  <2>3. DOMAIN AMDLookups = {"forceAMD24BitOutput", "guardAMDIOSurfacePlaneInfo"}
    BY DEF AMDLookups
  <2>. QED BY <2>1, <2>2, <2>3, Zenon
<1>5. \A p \in DOMAIN OtherPatches : ProperOps(OtherPatches[p].ops)
  <2>1. /\ OtherPatches["bypassPCITunnelled"].ops = <<Lookup("tunnelled", 1)>>
        /\ OtherPatches["relaxGraphicsDevicePolicy"].ops = <<Lookup("vit9696", 1), Lookup("pikera", 1)>>
        /\ OtherPatches["bypassIOPCITunnelCompatible"].ops = <<Lookup("iopci", 1)>>
        /\ OtherPatches["updateMuxControlNVRAMVar"].ops = <<Lookup("mux", 1)>>
        /\ OtherPatches["routeThunderboltEnumeration"].ops = <<Route("shouldSkipEnumeration")>>
        /\ OtherPatches["applySequoiaPatch"].ops = <<Lookup("sequoia", 1)>>
    BY Zenon DEF OtherPatches
  <2>2. DOMAIN OtherPatches =
          {"bypassPCITunnelled",
           "relaxGraphicsDevicePolicy",
           "bypassIOPCITunnelCompatible",
           "updateMuxControlNVRAMVar",
           "routeThunderboltEnumeration",
           "applySequoiaPatch"}
    BY Zenon DEF OtherPatches
  <2>. QED BY <1>1, <2>1, <2>2, ShortPatches, Zenon
<1>. QED BY <1>2, <1>3, <1>4, <1>5, Zenon DEF PatchNames, Patch

\* Every operation of a patch is proper, and an operation's name tells how many
\* occurrences it asks for.
LEMMA OperationFacts ==
  /\ \A o \in Operations : Proper(o) /\ Wanted(o.name) = o.count
  /\ \A p \in PatchNames : Patch[p].ops \in Seq(Operations)
<1>1. \A o \in Operations : Proper(o)
  BY ProperPatches, Zenon DEF Operations, ProperOps
<1>2. ASSUME NEW o \in Operations PROVE Wanted(o.name) = o.count
  <2>. DEFINE w == CHOOSE x \in Operations : x.name = o.name
  <2>1. w \in Operations /\ w.name = o.name
    OBVIOUS
  <2>2. w.count = CountOf(w.name) /\ o.count = CountOf(o.name)
    BY <1>1, <2>1, Zenon DEF Proper
  <2>. QED BY <2>1, <2>2, Zenon DEF Wanted
<1>3. ASSUME NEW p \in PatchNames PROVE Patch[p].ops \in Seq(Operations)
  <2>1. ProperOps(Patch[p].ops)
    BY ProperPatches, Zenon
  <2>2. \A n \in 1 .. Len(Patch[p].ops) : Patch[p].ops[n] \in Operations
    BY DEF Operations
  <2>. DEFINE q == Patch[p].ops
  <2>3. q \in Seq({q[n] : n \in 1 .. Len(q)}) /\ {q[n] : n \in 1 .. Len(q)} \subseteq Operations
    BY <2>1, <2>2, Zenon DEF ProperOps
  <2>. HIDE DEF q
  <2>4. q \in Seq(Operations)
    BY <2>3
  <2>. QED BY <2>4 DEF q
<1>. QED BY <1>1, <1>2, <1>3

\* The patches of a kext are patches of the table.
LEMMA PatchesOfFacts == \A k : PatchesOf(k) \in Seq(PatchNames)
<1>. DEFINE some == {"unblockLegacyThunderbolt", "bypassPCITunnelled", "applySequoiaPatch",
              "relaxGraphicsDevicePolicy", "disableIntelFramebufferAGDC",
              "forceIntelFramebufferOnlineDisplays", "skipAMDVRAMTest",
              "validateAMDDetailedTiming", "stabiliseAMDAccelConfig",
              "guardAMDIOSurfacePlaneInfo", "bypassAMDProjectSelection",
              "relaxAMDFramebufferTimingValidation", "forceAMD24BitOutput",
              "updateMuxControlNVRAMVar", "routeThunderboltEnumeration",
              "bypassIOPCITunnelCompatible"}
<1>1. some \subseteq PatchNames
  BY Zenon DEF PatchNames, AGDCPatches, AMDRoutes, AMDLookups, OtherPatches
<1>2. ASSUME NEW k PROVE PatchesOf(k) \in Seq(some)
  <2>1. CASE k = "AppleGPUWrangler"
    BY <2>1 DEF PatchesOf
  <2>2. CASE k = "IOGraphicsFamily"
    BY <2>2 DEF PatchesOf
  <2>3. CASE k = "AppleGraphicsDevicePolicy"
    BY <2>3 DEF PatchesOf
  <2>4. CASE k = "AppleIntelFramebufferCapri"
    BY <2>4 DEF PatchesOf
  <2>5. CASE k = "AMDSupport"
    BY <2>5 DEF PatchesOf
  <2>6. CASE k = "AMDRadeonX4000"
    BY <2>6 DEF PatchesOf
  <2>7. CASE k = "AMD9500Controller"
    BY <2>7 DEF PatchesOf
  <2>8. CASE k = "AMDFramebuffer"
    BY <2>8 DEF PatchesOf
  <2>9. CASE k = "AppleMuxControl"
    BY <2>9 DEF PatchesOf
  <2>10. CASE k = "IOThunderboltFamily"
    BY <2>10 DEF PatchesOf
  <2>11. CASE k = "IOPCIFamily"
    BY <2>11 DEF PatchesOf
  <2>12. CASE k \notin {"AppleGPUWrangler", "IOGraphicsFamily",
                        "AppleGraphicsDevicePolicy", "AppleIntelFramebufferCapri",
                        "AMDSupport", "AMDRadeonX4000", "AMD9500Controller",
                        "AMDFramebuffer", "AppleMuxControl", "IOThunderboltFamily",
                        "IOPCIFamily"}
    BY <2>12 DEF PatchesOf
  <2>. QED BY <2>1, <2>2, <2>3, <2>4, <2>5, <2>6, <2>7, <2>8, <2>9, <2>10, <2>11, <2>12, SMTT(30)
<1>. HIDE DEF some
<1>. QED BY <1>1, <1>2

------------------------------------------------------------------------------
(* The shared error code and the log.                                        *)

\* Who leaves an error in the code before the callback.
Foreign == {"Lilu", "plugin"}

LEMMA InheritedFacts ==
  /\ NoError \notin Inherited /\ NoError.error = "NoError" /\ NoError.by = "nobody"
  /\ \A c \in Inherited : c.by \in Foreign /\ c.error # "NoError"
<1>1. \A c \in Inherited : c.by \in Foreign /\ c.error # "NoError"
  BY DEF Inherited, Foreign
<1>2. NoError.error = "NoError" /\ NoError.by = "nobody"
  BY DEF NoError
<1>. QED BY <1>1, <1>2, Zenon

PatchingTypes ==
  /\ processed \in Seq(Kexts) /\ patches \in Seq(PatchNames)
  /\ ops \in Seq(Operations) /\ busy \in BOOLEAN /\ (busy => processed # <<>>)

LEMMA PatchingTypesInductive ==
  ASSUME PatchingTypes, [PatchingNext]_patchingVars PROVE PatchingTypes'
<1>. USE DEF PatchingTypes
<1>1. CASE Start
  BY <1>1, Zenon DEF Start
<1>7. CASE OthersRun
  BY <1>7, Zenon DEF OthersRun, config
<1>2. ASSUME NEW k \in Kexts, ProcessKext(k) PROVE PatchingTypes'
  BY <1>2, PatchesOfFacts DEF ProcessKext
<1>3. CASE CallPatch
  <2>1. Patch[Head(patches)].ops \in Seq(Operations)
    BY <1>3, OperationFacts DEF CallPatch
  <2>. QED BY <1>3, <2>1 DEF CallPatch, config
<1>4. CASE KextDone
  BY <1>4, Zenon DEF KextDone, config
<1>5. CASE ApplyLookupPatch \/ FallbackNotNeeded \/ ApplyRoutingPatch
           \/ WalkBitsPerComponent \/ ApplyBitsPatch
  <2>1. /\ ops # <<>> /\ ops' = Tail(ops)
        /\ UNCHANGED <<processed, patches, busy>>
    BY <1>5, Zenon DEF ApplyLookupPatch, FallbackNotNeeded, ApplyRoutingPatch,
      WalkBitsPerComponent, ApplyBitsPatch, config
  <2>. QED BY <2>1
<1>6. CASE UNCHANGED patchingVars
  BY <1>6, Zenon DEF patchingVars
<1>. QED BY <1>1, <1>2, <1>3, <1>4, <1>5, <1>6, <1>7, Zenon DEF PatchingNext

\* What carrying out the current operation logs, e, and what it leaves: the
\* code is clear whatever happened, another's error is blamed only if the code
\* held one, and what is not logged as failed was done in full.
Logs(e) ==
  /\ busy /\ ops # <<>> /\ UNCHANGED <<processed, busy>>
  /\ e.op = Key(op) /\ reports' = reports \union {e} /\ code' = NoError
  /\ e.failed => e.blame \in {op.name, "nobody", "Lilu", "plugin"}
  /\ e.blame \in Foreign => code \in Inherited
  /\ ~e.failed => [op |-> Key(op), count |-> op.count] \in done'
  /\ done \subseteq done'

CodeTypes == code \in {NoError} \union Inherited

LEMMA ReportLogs ==
  ASSUME CodeTypes, NEW ok \in BOOLEAN, NEW c, Report(ok, c),
         c \in {code, NoError} \/ \E e : e # "NoError" /\ c = Error(e),
         op.name \notin Foreign, busy, ops # <<>>, UNCHANGED <<processed, busy>>,
         ok /\ c.error = "NoError" => [op |-> Key(op), count |-> op.count] \in done',
         done \subseteq done'
  PROVE  \E e : Logs(e)
<1>. DEFINE failed == ~ok \/ c.error # "NoError"
            e == Entry(failed, c)
<1>1. reports' = reports \union {e} /\ code' = (IF failed THEN NoError ELSE c)
  BY Zenon DEF Report
<1>2. \/ c = NoError
      \/ c = code /\ code \in Inherited
      \/ c.error # "NoError" /\ c.by = op.name
  BY DEF CodeTypes, Error
<1>3. /\ c.by \in {op.name, "nobody", "Lilu", "plugin"}
      /\ c.error = "NoError" => c = NoError
  BY <1>2, InheritedFacts DEF Foreign
<1>4. c.by \in Foreign => code \in Inherited
  <2>1. "nobody" \notin Foreign
    BY DEF Foreign
  <2>. QED BY <1>2, <2>1, InheritedFacts, Zenon
<1>5. e.op = Key(op) /\ e.failed = failed /\ e.blame = c.by
  BY Zenon DEF Entry
<1>. HIDE DEF e
<1>6. code' = NoError
  BY <1>1, <1>3
<1>7. Logs(e)
  BY <1>1, <1>3, <1>4, <1>5, <1>6, Zenon DEF Logs
<1>. QED BY <1>7, Zenon

LEMMA OpFacts ==
  ASSUME PatchingTypes, ops # <<>>
  PROVE  op \in Operations /\ Proper(op) /\ Wanted(op.name) = op.count
<1>1. op \in Operations
  BY DEF PatchingTypes, op
<1>. QED BY <1>1, OperationFacts, Zenon

LEMMA LookupLogs ==
  ASSUME CodeTypes, PatchingTypes, busy, ops # <<>>, UNCHANGED <<processed, busy>>,
         NEW found, NEW outcome \in LookupOutcomes(found), LookupEnds(outcome)
  PROVE  \E e : Logs(e)
<1>1. op.name \notin Foreign
  BY OpFacts, Zenon DEF Proper, Foreign
<1>2. outcome.code = code \/ \E e : e # "NoError" /\ outcome.code = Error(e)
  BY DEF LookupOutcomes
<1>3. outcome.code.error = "NoError" => outcome.written = op.count
  BY DEF LookupOutcomes, Error
<1>4. done' = done \union {[op |-> Key(op), count |-> outcome.written]}
      /\ Report(TRUE, outcome.code)
  BY Zenon DEF LookupEnds
<1>5. outcome.code.error = "NoError" => [op |-> Key(op), count |-> op.count] \in done'
  BY <1>3, <1>4
<1>. QED BY <1>1, <1>2, <1>4, <1>5, ReportLogs, Zenon

\* Every operation that is reported logs as Logs says.
LEMMA OperationLogs ==
  ASSUME CodeTypes, PatchingTypes,
         ApplyLookupPatch \/ ApplyRoutingPatch \/ ApplyBitsPatch
  PROVE  \E e : Logs(e)
<1>1. CASE ApplyLookupPatch
  <2>1. busy /\ ops # <<>> /\ UNCHANGED <<processed, busy>>
    BY <1>1 DEF ApplyLookupPatch, config
  <2>2. \E found : \E outcome \in LookupOutcomes(found) : LookupEnds(outcome)
    BY <1>1, Zenon DEF ApplyLookupPatch
  <2>. QED BY <2>1, <2>2, LookupLogs, Zenon
<1>2. CASE ApplyBitsPatch
  <2>1. busy /\ ops # <<>> /\ UNCHANGED <<processed, busy>>
    BY <1>2 DEF ApplyBitsPatch, config
  <2>2. \E found : \E outcome \in LookupOutcomes(found) : LookupEnds(outcome)
    BY <1>2, Zenon DEF ApplyBitsPatch
  <2>. QED BY <2>1, <2>2, LookupLogs, ZenonT(40)
<1>3. CASE ApplyRoutingPatch
  <2>1. /\ busy /\ ops # <<>> /\ UNCHANGED <<processed, busy>>
        /\ op.kind \in {"route", "fallback"}
    BY <1>3, Zenon DEF ApplyRoutingPatch, config
  <2>2. op.name \notin Foreign /\ op.count = 1
    BY <2>1, OpFacts DEF Proper, Foreign
  <2>3. \/ Report(FALSE, NoError) /\ done' = done
        \/ Report(TRUE, Error("DisasmFailure")) /\ done' = done
        \/ Report(TRUE, Error("MemoryProtection")) /\ done' = done
        \/ /\ done' = done \union {[op |-> Key(op), count |-> 1]}
           /\ \E c \in {code, NoError} : Report(TRUE, c)
    BY <1>3, Zenon DEF ApplyRoutingPatch
  <2>4. CASE Report(FALSE, NoError) /\ done' = done
    BY <2>1, <2>2, <2>4, ReportLogs, Zenon
  <2>5. ASSUME NEW x \in {"DisasmFailure", "MemoryProtection"},
               Report(TRUE, Error(x)), done' = done
        PROVE  \E e : Logs(e)
    <3>1. Error(x).error # "NoError" /\ x # "NoError"
      BY <2>5 DEF Error
    <3>. QED BY <2>1, <2>2, <2>5, <3>1, ReportLogs, Zenon
  <2>6. CASE /\ done' = done \union {[op |-> Key(op), count |-> 1]}
             /\ \E c \in {code, NoError} : Report(TRUE, c)
    BY <2>1, <2>2, <2>6, ReportLogs, Zenon
  <2>. QED BY <2>3, <2>4, <2>5, <2>6, Zenon
<1>. QED BY <1>1, <1>2, <1>3, Zenon

\* The log: it tells only of kexts handed over; another's error is pending in the
\* callback only before the first operation of the kext is logged; and what the
\* theorems below say of it.
LogInv ==
  /\ CodeTypes
  /\ \A r \in reports : \E n \in 1 .. Len(processed) : processed[n] = r.op[1]
  /\ busy /\ code \in Inherited => \A r \in reports : r.op[1] # kext
  /\ AppliedIsDone /\ ErrorsStayLocal

\* A logged operation keeps the invariant.
LEMMA LogsKeep ==
  ASSUME PatchingTypes, LogInv, NEW e, Logs(e) PROVE LogInv'
<1>1. /\ kext' = kext /\ reports' = reports \union {e} /\ code' = NoError
      /\ processed' = processed /\ busy' = busy /\ busy
      /\ e.op[1] = kext /\ e.op[2] = op.name
  BY DEF Logs, kext, Key
<1>2. \A r \in reports' : \E n \in 1 .. Len(processed) : processed[n] = r.op[1]
  <2>1. Len(processed) \in 1 .. Len(processed)
    BY <1>1 DEF PatchingTypes
  <2>. QED BY <1>1, <2>1, Zenon DEF LogInv, kext
<1>3. NoError \notin Inherited
  BY InheritedFacts, Zenon
<1>4. AppliedIsDone'
  <2>1. ~e.failed => [op |-> e.op, count |-> Wanted(e.op[2])] \in done'
    BY <1>1, OpFacts, Zenon DEF Logs
  <2>. QED BY <1>1, <2>1, Zenon DEF AppliedIsDone, LogInv, Logs
<1>5. ErrorsStayLocal'
  <2>1. \A r \in reports' :
          r.failed => r.blame \in {r.op[2], "nobody", "Lilu", "plugin"}
    BY <1>1, Zenon DEF LogInv, ErrorsStayLocal, Logs
  <2>2. e.blame \in Foreign => \A r \in reports : r.op[1] # kext
    BY <1>1, Zenon DEF LogInv, Logs
  <2>3. ASSUME NEW r \in reports', NEW s \in reports', r.blame \in Foreign,
               s.blame \in Foreign, r.op[1] = s.op[1]
        PROVE  r = s
    BY <1>1, <2>2, <2>3, Zenon DEF LogInv, ErrorsStayLocal, Foreign
  <2>. QED BY <1>1, <2>1, <2>3, Zenon DEF ErrorsStayLocal, Foreign
<1>. QED BY <1>1, <1>2, <1>3, <1>4, <1>5, Zenon DEF LogInv, CodeTypes

\* Steps that log nothing keep it too, if they set no error in the callback.
LEMMA LogFrame ==
  ASSUME LogInv, UNCHANGED <<processed, reports, done>>, CodeTypes',
         busy' => busy /\ code' \in {code, NoError}
  PROVE  LogInv'
<1>1. NoError \notin Inherited
  BY InheritedFacts, Zenon
<1>2. AppliedIsDone' /\ kext' = kext
  BY Zenon DEF LogInv, AppliedIsDone, kext
<1>3. ErrorsStayLocal'
  <2>1. code'.by \in {"nobody", "Lilu", "plugin"}
    BY InheritedFacts DEF CodeTypes, Foreign
  <2>. QED BY <2>1, Zenon DEF LogInv, ErrorsStayLocal
<1>4. busy' /\ code' \in Inherited => \A r \in reports : r.op[1] # kext
  BY <1>1, Zenon DEF LogInv
<1>. QED BY <1>2, <1>3, <1>4, Zenon DEF LogInv

LEMMA LogInductive ==
  ASSUME PatchingTypes, LogInv, [PatchingNext]_patchingVars PROVE LogInv'
<1>0. CodeTypes
  BY Zenon DEF LogInv
<1>. DEFINE calm == /\ UNCHANGED <<processed, reports, done>> /\ CodeTypes'
                    /\ busy' => busy /\ code' \in {code, NoError}
<1>1. CASE Start
  <2>1. calm
    BY <1>0, <1>1, Zenon DEF Start, CodeTypes
  <2>. QED BY <2>1, LogFrame, Zenon
<1>9. CASE OthersRun
  <2>1. calm
    BY <1>9, Zenon DEF OthersRun, config, CodeTypes
  <2>. QED BY <2>1, LogFrame, Zenon
<1>2. ASSUME NEW k \in Kexts, ProcessKext(k) PROVE LogInv'
  <2>1. /\ processed' = Append(processed, k) /\ Len(processed') = Len(processed) + 1
        /\ processed'[Len(processed')] = k /\ Len(processed) \in Nat
        /\ \A n \in 1 .. Len(processed) : processed'[n] = processed[n] /\ processed[n] # k
    BY <1>2 DEF ProcessKext, PatchingTypes
  <2>2. \A r \in reports : r.op[1] # k
    BY <2>1, Zenon DEF LogInv
  <2>3. \A r \in reports : \E n \in 1 .. Len(processed') : processed'[n] = r.op[1]
    BY <2>1 DEF LogInv
  <2>4. /\ UNCHANGED <<reports, done>> /\ busy' = TRUE
        /\ code' = code /\ kext' = k
    BY <1>2, <2>1, Zenon DEF ProcessKext, kext
  <2>5. AppliedIsDone' /\ ErrorsStayLocal'
    BY <2>4, Zenon DEF LogInv, AppliedIsDone, ErrorsStayLocal
  <2>. QED BY <1>0, <2>2, <2>3, <2>4, <2>5, Zenon DEF LogInv, CodeTypes
<1>3. CASE CallPatch
  <2>1. calm
    BY <1>0, <1>3, Zenon DEF CallPatch, config, CodeTypes
  <2>. QED BY <2>1, LogFrame, Zenon
<1>4. CASE KextDone
  <2>1. calm
    BY <1>4, Zenon DEF KextDone, config, CodeTypes
  <2>. QED BY <2>1, LogFrame, Zenon
<1>5. CASE FallbackNotNeeded
  <2>1. calm
    BY <1>0, <1>5, Zenon DEF FallbackNotNeeded, config, CodeTypes
  <2>. QED BY <2>1, LogFrame, Zenon
<1>6. CASE WalkBitsPerComponent
  <2>1. calm
    BY <1>0, <1>6, Zenon DEF WalkBitsPerComponent, config, CodeTypes
  <2>. QED BY <2>1, LogFrame, Zenon
<1>7. CASE ApplyLookupPatch \/ ApplyRoutingPatch \/ ApplyBitsPatch
  <2>1. PICK e : Logs(e)
    BY <1>7, OperationLogs, Zenon DEF LogInv
  <2>. QED BY <2>1, LogsKeep, Zenon
<1>8. CASE UNCHANGED patchingVars
  <2>1. calm
    BY <1>0, <1>8, Zenon DEF patchingVars, CodeTypes
  <2>. QED BY <2>1, LogFrame, Zenon
<1>. QED BY <1>1, <1>2, <1>3, <1>4, <1>5, <1>6, <1>7, <1>8, <1>9, Zenon DEF PatchingNext

------------------------------------------------------------------------------
(* Patching switched off.                                                    *)

Off == {"kryprobe", "kryskipall"} \cap args.flags # {}

OffInv == Off => ops = <<>> /\ done = {} /\ org = {} /\ tens = 1 .. Tables

\* Every patch tests for probe mode and for kryskipall.
Tests(g) == "kryprobe" \in g.skips /\ "kryskipall" \in g.skips

LEMMA EveryPatchTests == \A p \in PatchNames : Tests(Patch[p].gate)
<1>1. \A v, n, s : "kryprobe" \in s /\ "kryskipall" \in s => Tests(Gate(v, n, s))
  BY Zenon DEF Tests, Gate
<1>2. /\ \A t : "kryprobe" \in shouldSkipPatch(t) /\ "kryskipall" \in shouldSkipPatch(t)
      /\ "kryprobe" \in {"kryprobe", "kryskipall"}
      /\ "kryskipall" \in {"kryprobe", "kryskipall"}
  BY DEF shouldSkipPatch
<1>3. Tests(shouldSkipAMDCompatibilityPatch)
  BY <1>1, <1>2, Zenon DEF shouldSkipAMDCompatibilityPatch
<1>4. \A p \in DOMAIN AGDCPatches : Tests(AGDCPatches[p].gate)
  <2>1. /\ Tests(AGDCPatches["unblockLegacyThunderbolt"].gate)
        /\ Tests(AGDCPatches["disableIntelFramebufferAGDC"].gate)
        /\ Tests(AGDCPatches["forceIntelFramebufferOnlineDisplays"].gate)
    BY <1>1, <1>2, Zenon DEF AGDCPatches
  <2>2. DOMAIN AGDCPatches =
          {"unblockLegacyThunderbolt", "disableIntelFramebufferAGDC",
           "forceIntelFramebufferOnlineDisplays"}
    BY DEF AGDCPatches
  <2>. QED BY <2>1, <2>2, Zenon
<1>5. \A p \in DOMAIN AMDRoutes : Tests(AMDRoutes[p].gate)
  <2>1. /\ Tests(AMDRoutes["bypassAMDProjectSelection"].gate)
        /\ Tests(AMDRoutes["skipAMDVRAMTest"].gate)
        /\ Tests(AMDRoutes["stabiliseAMDAccelConfig"].gate)
    BY <1>3, Zenon DEF AMDRoutes
  <2>2. /\ Tests(AMDRoutes["relaxAMDSharedUserClientOutputSizing"].gate)
        /\ Tests(AMDRoutes["relaxIOAccelSharedUserClientOutputSizing"].gate)
        /\ Tests(AMDRoutes["validateAMDDetailedTiming"].gate)
        /\ Tests(AMDRoutes["relaxAMDFramebufferTimingValidation"].gate)
    BY <1>1, <1>2, Zenon DEF AMDRoutes
  <2>3. DOMAIN AMDRoutes =
          {"bypassAMDProjectSelection", "skipAMDVRAMTest", "stabiliseAMDAccelConfig",
           "relaxAMDSharedUserClientOutputSizing",
           "relaxIOAccelSharedUserClientOutputSizing",
           "validateAMDDetailedTiming", "relaxAMDFramebufferTimingValidation"}
    BY DEF AMDRoutes
  <2>. QED BY <2>1, <2>2, <2>3, Zenon
<1>6. \A p \in DOMAIN AMDLookups : Tests(AMDLookups[p].gate)
  <2>1. /\ Tests(AMDLookups["forceAMD24BitOutput"].gate)
        /\ Tests(AMDLookups["guardAMDIOSurfacePlaneInfo"].gate)
    BY <1>1, <1>2, Zenon DEF AMDLookups
  <2>2. DOMAIN AMDLookups = {"forceAMD24BitOutput", "guardAMDIOSurfacePlaneInfo"}
    BY DEF AMDLookups
  <2>. QED BY <2>1, <2>2, Zenon
<1>7. \A p \in DOMAIN OtherPatches : Tests(OtherPatches[p].gate)
  <2>1. /\ Tests(OtherPatches["bypassPCITunnelled"].gate)
        /\ Tests(OtherPatches["relaxGraphicsDevicePolicy"].gate)
        /\ Tests(OtherPatches["bypassIOPCITunnelCompatible"].gate)
    BY <1>1, <1>2, Zenon DEF OtherPatches
  <2>2. /\ Tests(OtherPatches["updateMuxControlNVRAMVar"].gate)
        /\ Tests(OtherPatches["routeThunderboltEnumeration"].gate)
        /\ Tests(OtherPatches["applySequoiaPatch"].gate)
    BY <1>1, <1>2, Zenon DEF OtherPatches
  <2>3. DOMAIN OtherPatches =
          {"bypassPCITunnelled", "relaxGraphicsDevicePolicy",
           "bypassIOPCITunnelCompatible", "updateMuxControlNVRAMVar",
           "routeThunderboltEnumeration", "applySequoiaPatch"}
    BY Zenon DEF OtherPatches
  <2>. QED BY <2>1, <2>2, <2>3, Zenon
<1>. QED BY <1>4, <1>5, <1>6, <1>7, Zenon DEF PatchNames, Patch

LEMMA OffInductive ==
  ASSUME PatchingTypes, OffInv, [PatchingNext]_patchingVars PROVE OffInv'
<1>. USE DEF OffInv, Off
<1>1. CASE Start
  BY <1>1, Zenon DEF Start
<1>7. CASE OthersRun
  BY <1>7, Zenon DEF OthersRun, config
<1>2. ASSUME NEW k \in Kexts, ProcessKext(k) PROVE OffInv'
  BY <1>2, Zenon DEF ProcessKext
<1>3. CASE CallPatch
  <2>1. Head(patches) \in PatchNames
    BY <1>3 DEF CallPatch, PatchingTypes
  <2>2. Off => Skipped(Head(patches))
    BY <2>1, EveryPatchTests, Zenon DEF Skipped, Tests
  <2>. QED BY <1>3, <2>2, Zenon DEF CallPatch, config
<1>4. CASE KextDone
  BY <1>4, Zenon DEF KextDone, config
<1>5. CASE ApplyLookupPatch \/ FallbackNotNeeded \/ ApplyRoutingPatch
           \/ WalkBitsPerComponent \/ ApplyBitsPatch
  <2>1. ops # <<>> /\ args' = args
    BY <1>5, Zenon DEF ApplyLookupPatch, FallbackNotNeeded, ApplyRoutingPatch,
      WalkBitsPerComponent, ApplyBitsPatch, config
  <2>. QED BY <2>1
<1>6. CASE UNCHANGED patchingVars
  BY <1>6 DEF patchingVars
<1>. QED BY <1>1, <1>2, <1>3, <1>4, <1>5, <1>6, <1>7, Zenon DEF PatchingNext

------------------------------------------------------------------------------
(* The depth tables.                                                         *)

\* A set of numbers that is not empty has a least member.
LEMMA LeastMember ==
  ASSUME NEW T \in SUBSET Nat, T # {}
  PROVE  \E m \in T : \A k \in T : m <= k
<1>1. PICK m \in T : \A k \in T : ~(<<k, m>> \in OpToRel(<, Nat))
  BY NatLessThanWellFounded, WFMin, Zenon
<1>2. ASSUME NEW k \in T PROVE ~(k < m)
  BY <1>1, Zenon DEF OpToRel
<1>. QED BY <1>2

\* The two tables bitsFind asks for, or all if there are fewer.
Found(S) == IF Cardinality(S) < 2 THEN Cardinality(S) ELSE 2

Beyond(S, n) == {t \in S : Cardinality({u \in S : u < t}) >= n}

\* Writing the first tables found leaves that many fewer.
LEMMA FirstWritten ==
  ASSUME NEW S \in SUBSET Nat, IsFiniteSet(S)
  PROVE  /\ IsFiniteSet(Beyond(S, Found(S))) /\ Cardinality(S) \in Nat
         /\ Cardinality(Beyond(S, Found(S))) <= Cardinality(S) - Found(S)
<1>0. Cardinality(S) \in Nat
  BY FS_CardinalityType, Zenon
<1>1. CASE S = {}
  <2>1. Beyond(S, Found(S)) = {} /\ Cardinality(S) = 0
    BY <1>1, FS_EmptySet, Zenon DEF Beyond
  <2>. QED BY <2>1, FS_EmptySet DEF Found
<1>2. CASE S # {}
  <2>1. PICK m \in S : \A k \in S : m <= k
    BY <1>2, LeastMember, Zenon
  <2>2. IsFiniteSet(S \ {m}) /\ Cardinality(S \ {m}) = Cardinality(S) - 1
    BY FS_RemoveElement
  <2>3. {u \in S : u < m} = {}
    <3>1. \A u \in S : ~(u < m)
      BY <2>1
    <3>. QED BY <3>1, Zenon
  <2>4. Cardinality({u \in S : u < m}) = 0
    BY <2>3, FS_EmptySet, Zenon
  <2>5. CASE S \ {m} = {}
    <3>0. Cardinality(S \ {m}) = 0
      BY <2>5, FS_EmptySet, Zenon
    <3>1. Cardinality(S) = 1 /\ Found(S) = 1
      BY <1>0, <2>2, <3>0 DEF Found
    <3>2. Beyond(S, 1) = {}
      <4>1. \A t \in S : t = m
        BY <2>5, Zenon
      <4>2. ~(Cardinality({u \in S : u < m}) >= 1)
        BY <2>4
      <4>. QED BY <4>1, <4>2, Zenon DEF Beyond
    <3>. QED BY <3>1, <3>2, FS_EmptySet
  <2>6. CASE S \ {m} # {}
    <3>1. S \ {m} \in SUBSET Nat
      OBVIOUS
    <3>2. PICK q \in S \ {m} : \A k \in S \ {m} : q <= k
      BY <2>6, <3>1, LeastMember, Zenon
    <3>3. {u \in S : u < q} = {m}
      <4>1. \A u \in S : u < q <=> u = m
        BY <2>1, <3>2
      <4>. QED BY <4>1, Zenon
    <3>4. Cardinality({u \in S : u < q}) = 1
      BY <3>3, FS_Singleton, Zenon
    <3>5. IsFiniteSet((S \ {m}) \ {q}) /\ Cardinality((S \ {m}) \ {q}) = Cardinality(S) - 2
      <4>1. /\ IsFiniteSet((S \ {m}) \ {q})
            /\ Cardinality((S \ {m}) \ {q}) = Cardinality(S \ {m}) - 1
        BY <2>2, <3>2, FS_RemoveElement, Zenon
      <4>. QED BY <1>0, <2>2, <4>1
    <3>6. Cardinality(S) >= 2 /\ Found(S) = 2
      BY <1>0, <3>5, FS_CardinalityType DEF Found
    <3>7. m \notin Beyond(S, 2) /\ q \notin Beyond(S, 2)
      BY <2>4, <3>4 DEF Beyond
    <3>8. Beyond(S, 2) \subseteq (S \ {m}) \ {q}
      BY <3>7, Zenon DEF Beyond
    <3>9. IsFiniteSet(Beyond(S, 2))
          /\ Cardinality(Beyond(S, 2)) <= Cardinality((S \ {m}) \ {q})
      BY <3>5, <3>8, FS_Subset
    <3>. QED BY <1>0, <3>5, <3>6, <3>9
  <2>. QED BY <2>5, <2>6
<1>. QED BY <1>1, <1>2, Zenon

\* The tables that may still hold 10 after bitsFind.
Rest == IF Tables < 2 THEN 0 ELSE Tables - 2

TablesInv == tens \subseteq 1 .. Tables /\ DepthTablesClamped

LEMMA TensFacts ==
  ASSUME NEW S \in SUBSET (1 .. Tables)
  PROVE  IsFiniteSet(S) /\ Cardinality(S) \in Nat /\ Cardinality(S) <= Tables
<1>1. IsFiniteSet(1 .. Tables) /\ Cardinality(1 .. Tables) = Tables
  BY TablesAssumption, FS_Interval, SMTT(30)
<1>. QED BY <1>1, FS_Subset, FS_CardinalityType, Zenon

\* Fewer tables hold 10 later on, and only bitsFind is logged under that name.
LEMMA ClampedFrame ==
  ASSUME TablesInv, tens' \subseteq tens,
         \A r \in reports' : r \in reports \/ r.op[2] # "bits"
  PROVE  TablesInv'
<1>1. tens' \subseteq 1 .. Tables /\ Cardinality(tens') \in Nat
      /\ Cardinality(tens) \in Nat /\ Cardinality(tens') <= Cardinality(tens)
  BY TensFacts, FS_Subset, Zenon DEF TablesInv
<1>. QED BY <1>1, TablesAssumption DEF TablesInv, DepthTablesClamped

LEMMA TablesInductive ==
  ASSUME PatchingTypes, TablesInv, [PatchingNext]_patchingVars PROVE TablesInv'
<1>1. CASE Start \/ OthersRun \/ CallPatch \/ KextDone \/ FallbackNotNeeded
           \/ \E k \in Kexts : ProcessKext(k)
  <2>1. UNCHANGED <<tens, reports>>
    BY <1>1, Zenon DEF Start, OthersRun, CallPatch, KextDone, FallbackNotNeeded,
      ProcessKext
  <2>. QED BY <2>1, ClampedFrame
<1>2. CASE WalkBitsPerComponent
  BY <1>2, ClampedFrame, Zenon DEF WalkBitsPerComponent
<1>3. CASE ApplyLookupPatch \/ ApplyRoutingPatch
  <2>1. /\ tens' = tens /\ ops # <<>> /\ op.kind \in {"lookup", "route", "fallback"}
        /\ \E failed, c : reports' = reports \union {Entry(failed, c)}
    BY <1>3, Zenon DEF ApplyLookupPatch, ApplyRoutingPatch, LookupEnds, Report
  <2>2. op.name # "bits"
    BY <2>1, OpFacts, Zenon DEF Proper
  <2>3. \A r \in reports' : r \in reports \/ r.op[2] # "bits"
    BY <2>1, <2>2 DEF Entry, Key
  <2>. QED BY <2>1, <2>3, ClampedFrame
<1>4. CASE ApplyBitsPatch
  <2>1. ops # <<>> /\ op.kind = "bits"
    BY <1>4, Zenon DEF ApplyBitsPatch
  <2>2. op.count = 2
    BY <2>1, OpFacts, Zenon DEF Proper, CountOf
  <2>3. PICK outcome \in LookupOutcomes(Found(tens)) :
          LookupEnds(outcome) /\ tens' = Beyond(tens, outcome.written)
    BY <1>4, <2>2 DEF ApplyBitsPatch, Found, Beyond, AfterFirst
  <2>4. PICK failed : reports' = reports \union {Entry(failed, outcome.code)}
    BY <2>3, Zenon DEF LookupEnds, Report
  <2>5. tens' \subseteq tens
    BY <2>3, Zenon DEF Beyond
  <2>6. CASE outcome.code.error = "MemoryProtection"
    <3>1. tens' \subseteq 1 .. Tables /\ Cardinality(tens') \in Nat
          /\ Cardinality(tens) \in Nat /\ Cardinality(tens') <= Cardinality(tens)
      BY <2>5, TensFacts, FS_Subset, Zenon DEF TablesInv
    <3>2. Entry(failed, outcome.code).error = "MemoryProtection"
      BY <2>6, Zenon DEF Entry
    <3>. QED BY <2>4, <3>1, <3>2, TablesAssumption, SMTT(30) DEF TablesInv, DepthTablesClamped
  <2>7. CASE outcome.code.error # "MemoryProtection"
    <3>1. outcome.written = Found(tens)
      BY <2>3, <2>7 DEF LookupOutcomes, Error
    <3>2. tens \in SUBSET Nat /\ IsFiniteSet(tens) /\ Cardinality(tens) <= Tables
          /\ Cardinality(tens) \in Nat
      BY TensFacts DEF TablesInv
    <3>3. Cardinality(tens') <= Cardinality(tens) - Found(tens)
      BY <2>3, <3>1, <3>2, FirstWritten, Zenon
    <3>4. Cardinality(tens') \in Nat
      BY <2>5, TensFacts, Zenon DEF TablesInv
    <3>5. Cardinality(tens') <= Rest
      BY <3>2, <3>3, <3>4, TablesAssumption DEF Found, Rest
    <3>. QED BY <2>5, <3>5, ZenonT(30) DEF TablesInv, DepthTablesClamped, Rest
  <2>. QED BY <2>6, <2>7, Zenon
<1>5. CASE UNCHANGED patchingVars
  BY <1>5, ClampedFrame, Zenon DEF patchingVars
<1>. QED BY <1>1, <1>2, <1>3, <1>4, <1>5, Zenon DEF PatchingNext

------------------------------------------------------------------------------
LEMMA InitPatching ==
  PatchingInit => PatchingTypes /\ LogInv /\ OffInv /\ TablesInv
<1>. SUFFICES ASSUME PatchingInit PROVE PatchingTypes /\ LogInv /\ OffInv /\ TablesInv
  OBVIOUS
<1>. USE DEF PatchingInit
<1>1. PatchingTypes
  <2>1. \A S : <<>> \in Seq(S)
    OBVIOUS
  <2>. QED BY <2>1, Zenon DEF PatchingTypes
<1>2. LogInv
  BY Zenon DEF LogInv, CodeTypes, AppliedIsDone, ErrorsStayLocal, NoError
<1>3. OffInv
  BY Zenon DEF OffInv
<1>4. TablesInv
  BY DEF TablesInv, DepthTablesClamped
<1>. QED BY <1>1, <1>2, <1>3, <1>4, Zenon

LEMMA PatchingInductive ==
  PatchingTypes /\ LogInv /\ OffInv /\ TablesInv /\ [PatchingNext]_patchingVars
    => (PatchingTypes /\ LogInv /\ OffInv /\ TablesInv)'
BY PatchingTypesInductive, LogInductive, OffInductive, TablesInductive, Zenon

\* What is logged as applied was carried out in full, for every kernel, set of
\* boot arguments and order of kexts.
THEOREM AppliedInFull == PatchingSpec => []AppliedIsDone
<1>1. LogInv => AppliedIsDone
  BY Zenon DEF LogInv
<1>. QED BY <1>1, InitPatching, PatchingInductive, PTL DEF PatchingSpec

\* No patch answers for the error of another, one that Lilu or another plug-in
\* left is charged at most once a kext, and Kryptonite leaves none of its own.
THEOREM ErrorsAreLocal == PatchingSpec => []ErrorsStayLocal
<1>1. LogInv => ErrorsStayLocal
  BY DEF LogInv
<1>. QED BY <1>1, InitPatching, PatchingInductive, PTL DEF PatchingSpec

\* In probe mode or with every patch skipped nothing is written.
THEOREM OffWritesNothing == PatchingSpec => []SwitchedOffWritesNothing
<1>1. OffInv => SwitchedOffWritesNothing
  BY DEF OffInv, Off, SwitchedOffWritesNothing
<1>. QED BY <1>1, InitPatching, PatchingInductive, PTL DEF PatchingSpec

\* The two ways of clamping the depth tables add up, however many there are.
THEOREM TablesClamped == PatchingSpec => []DepthTablesClamped
<1>1. TablesInv => DepthTablesClamped
  BY DEF TablesInv
<1>. QED BY <1>1, InitPatching, PatchingInductive, PTL DEF PatchingSpec
==============================================================================
