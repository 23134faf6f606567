----------------------------- MODULE LookupPatch -----------------------------
(***************************************************************************)
(* Lilu's find/replace patch on a loaded kext, KernelPatcher::             *)
(* applyLookupPatch, the way all of Kryptonite's byte patches reach kernel *)
(* memory, as it is coded; what it promises is module LookupCall.          *)
(*                                                                         *)
(* The scan runs with preemption disabled and nothing else writes the      *)
(* image, so replacing one occurrence is one step.  A patch of the kernel  *)
(* itself (patch->kext == nullptr) has no known end; Kryptonite makes none *)
(* and it is left out.                                                     *)
(***************************************************************************)
EXTENDS LookupCall

VARIABLES currentAddress, endingAddress, i, changes

lookupVars == <<memory, original, patch, startingAddress, maxSize, phase,
                currentAddress, endingAddress, i, changes, status>>

\* The bytes m with the replacement written at an address.
Replaced(m, at, p) ==
  [a \in Addr |-> IF a \in at .. at + size(p) - 1 THEN p.replace[a - at + 1]
                                                  ELSE m[a]]

LookupInit ==
  /\ memory \in [Addr -> Byte] /\ original = memory
  /\ patch \in Patches /\ startingAddress \in Starts /\ maxSize \in MaxSizes
  /\ phase = "call" /\ status = "NoError"
  /\ currentAddress = 0 /\ endingAddress = 0 /\ i = 0 /\ changes = 0

\* The patch names a kext that is not loaded.
Reject ==
  /\ phase = "call" /\ ~patch.loaded
  /\ status' = "MemoryIssue" /\ phase' = "done"
  /\ UNCHANGED <<memory, arguments, currentAddress, endingAddress, i, changes>>

\* Mutant of StartScan: one address too many is searched.
StartScanPastEnd ==
  /\ phase = "call" /\ patch.loaded
  /\ currentAddress' = IF KextAddress < startingAddress THEN startingAddress
                                                        ELSE KextAddress
  /\ endingAddress' = Limit - size(patch) + 2
  /\ \/ phase' = "next" /\ status' = status
     \/ phase' = "done" /\ status' = "MemoryProtection"
  /\ UNCHANGED <<memory, arguments, i, changes>>

\* Mutant of StartScan: the size is rounded up.
StartScanShort ==
  /\ phase = "call" /\ patch.loaded
  /\ currentAddress' = IF KextAddress < startingAddress THEN startingAddress
                                                        ELSE KextAddress
  /\ endingAddress' = Limit - size(patch) - 1
  /\ \/ phase' = "next" /\ status' = status
     \/ phase' = "done" /\ status' = "MemoryProtection"
  /\ UNCHANGED <<memory, arguments, i, changes>>

\* setKernelWriting(true) fails, or the scan starts.
StartScan ==
  /\ phase = "call" /\ patch.loaded
  /\ currentAddress' = IF KextAddress < startingAddress THEN startingAddress
                                                        ELSE KextAddress
  /\ endingAddress' = Limit - size(patch)
  /\ \/ phase' = "next" /\ status' = status
     \/ phase' = "done" /\ status' = "MemoryProtection"
  /\ UNCHANGED <<memory, arguments, i, changes>>

\* The condition of the outer loop.
More == currentAddress < endingAddress /\ (i < patch.count \/ patch.count = 0)

NextOccurrence ==
  /\ phase = "next" /\ phase' = IF More THEN "scan" ELSE "finish"
  /\ UNCHANGED <<memory, arguments, currentAddress, endingAddress, i, changes, status>>

\* The condition of the inner loop.
Searching ==
  currentAddress < endingAddress /\ ~FoundAt(memory, currentAddress, patch)

ScanByte ==
  /\ phase = "scan" /\ Searching
  /\ currentAddress' = currentAddress + 1
  /\ UNCHANGED <<memory, arguments, phase, endingAddress, i, changes, status>>

\* The scan stopped before endingAddress: an occurrence.
Replace ==
  /\ phase = "scan" /\ ~Searching /\ currentAddress # endingAddress
  /\ memory' = Replaced(memory, currentAddress, patch)
  /\ changes' = changes + 1 /\ i' = i + 1 /\ phase' = "next"
  /\ UNCHANGED <<arguments, currentAddress, endingAddress, status>>

\* The scan stopped at endingAddress: nothing is written.
Exhausted ==
  /\ phase = "scan" /\ ~Searching /\ currentAddress = endingAddress
  /\ i' = i + 1 /\ phase' = "next"
  /\ UNCHANGED <<memory, arguments, currentAddress, endingAddress, changes, status>>

\* Mutant of Finish: the loop's passes are compared instead of its changes.
FinishCountsPasses ==
  /\ phase = "finish" /\ phase' = "done"
  /\ \/ status' = IF i # patch.count THEN "MemoryIssue" ELSE status
     \/ status' = "MemoryProtection"
  /\ UNCHANGED <<memory, arguments, currentAddress, endingAddress, i, changes>>

\* setKernelWriting(false) fails, or the number of changes is compared.
Finish ==
  /\ phase = "finish" /\ phase' = "done"
  /\ \/ status' = IF changes # patch.count THEN "MemoryIssue" ELSE status
     \/ status' = "MemoryProtection"
  /\ UNCHANGED <<memory, arguments, currentAddress, endingAddress, i, changes>>

LookupNext == Reject \/ StartScan \/ NextOccurrence \/ ScanByte \/ Replace
                \/ Exhausted \/ Finish

LookupSpec == LookupInit /\ [][LookupNext]_lookupVars

------------------------------------------------------------------------------
LookupTypeOK ==
  /\ memory \in [Addr -> Byte] /\ original \in [Addr -> Byte]
  /\ patch \in Patches /\ startingAddress \in Nat /\ maxSize \in Nat
  /\ phase \in {"call", "next", "scan", "finish", "done"}
  /\ currentAddress \in Nat /\ endingAddress \in Int
  /\ i \in Nat /\ changes \in Nat
  /\ status \in {"NoError", "MemoryIssue", "MemoryProtection"}

\* applyLookupPatch writes only bytes of the kext's running image, and only at
\* or above startingAddress and inside maxSize where the caller gave them.
WritesInRange ==
  \A a \in Addr : memory[a] # original[a] =>
    a \in Image /\ startingAddress <= a /\ a < Limit

\* A call that reports success replaced exactly patch->count separate
\* occurrences of the original bytes and changed nothing else, for every patch
\* whose replacement does not bring the pattern back.
SuccessIsExact ==
  phase = "done" /\ status = "NoError" /\ Settles(patch) =>
    \E S \in SUBSET Occurrences :
      /\ Cardinality(S) = patch.count /\ Disjoint(S)
      /\ memory = WithReplaced(S)

\* A call that reports too few changes has replaced every occurrence it could: one
\* of the original bytes that is still there lies at the very end of the searched
\* range, the one position the scan's "<" leaves out.
FailureIsExhaustive ==
  phase = "done" /\ status = "MemoryIssue" /\ patch.loaded =>
    \A a \in Occurrences : FoundAt(memory, a, patch) => a = Limit - size(patch)

\* What the caller of applyLookupPatch sees: it waits in the call until all is
\* written.  Other processors could see the bytes in between, of which the promise
\* of LookupCall says nothing.
Seen == IF phase = "done" THEN memory ELSE original

Call == INSTANCE LookupCall WITH
          memory <- Seen,
          phase  <- IF phase = "done" THEN "done" ELSE "call"

\* The two loops implement the call: whatever the bytes, the search range and the
\* patch, it returns with a code that tells what was done, the first occurrences
\* replaced and no other byte changed.
CallRefined == Call!CallSpec
==============================================================================
