---------------------------- MODULE MetalThrottle ----------------------------
(***************************************************************************)
(* The Metal compiler throttle of an offline Sequoia volume: the patch     *)
(* script, run by itself, by the full or by the plist-only wrapper, and    *)
(* the script that reverts it.  One operator runs them one after another;  *)
(* any command may fail or be cut, which under set -e ends the run.  A     *)
(* Metal binary is the set of its patched entry points and the set its     *)
(* signature covers; the XPC service's plist is original or patched.       *)
(***************************************************************************)
EXTENDS Integers, Sequences

CONSTANTS Points,       \* the last of the patched entry points 1, 2, ...
          MaxPatchRuns  \* bound: script runs

ASSUME PointsAssumption == Points \in Nat \ {0}
ASSUME RunsAssumption == MaxPatchRuns \in Nat

VARIABLES bin, plist, seal, cache,  \* the volume: Metal, the plist, what the XPC bundle's
                                    \* signature covers, what the dyld cache was built from
          expected,   \* the entry points whose bytes the script knows
          archive,    \* metal_patch_backup_*, oldest first
          stash,      \* contents of metal_patch_before_revert_*
          snapshot,   \* what the last bless froze
          script, pc, \* the running script and its next command
          from,       \* the backup a revert restores
          point,      \* the next entry point to patch
          cutShort,   \* some run ended early
          patchRuns

volume == <<bin, plist, seal, cache>>
copies == <<archive, stash>>
local == <<script, pc, from, point, cutShort>>
throttleVars == <<volume, expected, copies, snapshot, local, patchRuns>>

Binary(pts, sig) == [pts |-> pts, sig |-> sig, is |-> "whole"]
Torn == [pts |-> {}, sig |-> {}, is |-> "torn"]
Absent == [pts |-> {}, sig |-> {}, is |-> "absent"]
\* Apple's signature covers no patched point and differs from any ad-hoc one
Apple == {0}
OriginalBin == Binary({}, Apple)
AllPoints == 1..Points

ThrottleInit ==
    /\ bin = OriginalBin /\ plist = "original" /\ seal = "original" /\ cache = OriginalBin
    /\ expected \in SUBSET AllPoints
    /\ archive = <<>>
    /\ stash = [bins |-> {}, plists |-> {}]
    /\ snapshot = [by |-> "none", bin |-> OriginalBin, plist |-> "original",
                   seal |-> "original", cache |-> OriginalBin]
    /\ script = "none" /\ pc = "idle" /\ from = 0 /\ point = 0
    /\ cutShort = FALSE /\ patchRuns = 0

GoOn(label) == pc' = label /\ UNCHANGED <<script, from, point, cutShort>>
End == script' = "none" /\ pc' = "idle" /\ from' = 0 /\ point' = 0
Done == End /\ UNCHANGED cutShort
Abort == End /\ cutShort' = TRUE

\* All entry points carry the patch; a torn copy is taken for clean
Throttled(b) == b.is = "whole" /\ b.pts = AllPoints

\* A command fails or the run is cut: the run ends where it is
StopRun ==
    /\ pc # "idle"
    /\ Abort
    /\ UNCHANGED <<volume, expected, copies, snapshot, patchRuns>>

(***************************************************************************)
(* patch_mtl_compiler_throttle.sh: "full" and "plist" are its wrappers,    *)
(* "bare" and "bareplist" are the script alone, without and with           *)
(* KRY_MTL_PLIST_ONLY.                                                     *)
(***************************************************************************)

PatchScripts == {"full", "plist", "bare", "bareplist"}
PlistOnly == script \in {"plist", "bareplist"}

\* The script is done; a wrapper goes on
Patched(label) == IF script \in {"full", "plist"} THEN GoOn(label) ELSE Done

\* Line 60: refuses a fully throttled binary before any backup is made
StartPatch(s) ==
    /\ pc = "idle" /\ patchRuns < MaxPatchRuns
    /\ bin.is # "absent" /\ plist # "absent"
    /\ ~Throttled(bin)
    /\ script' = s /\ pc' = "backupplist"
    /\ patchRuns' = patchRuns + 1
    /\ UNCHANGED <<volume, expected, copies, snapshot, from, point, cutShort>>

\* Line 89; a copy that is cut leaves a torn file and ends the run
BackupPlist ==
    /\ pc = "backupplist"
    /\ \/ archive' = Append(archive, [plist |-> plist, bin |-> Absent]) /\ GoOn("backupbin")
       \/ archive' = Append(archive, [plist |-> "torn", bin |-> Absent]) /\ Abort
    /\ UNCHANGED <<volume, expected, stash, snapshot, patchRuns>>

\* Line 90
BackupBin ==
    /\ pc = "backupbin"
    /\ LET n == Len(archive)
       IN  \/ archive' = [archive EXCEPT ![n] = [@ EXCEPT !.bin = bin]] /\ GoOn("patchplist")
           \/ archive' = [archive EXCEPT ![n] = [@ EXCEPT !.bin = Torn]] /\ Abort
    /\ UNCHANGED <<volume, expected, stash, snapshot, patchRuns>>

\* Line 94; plutil does not accept a torn plist
PatchPlist ==
    /\ pc = "patchplist"
    /\ plist \in {"original", "patched"}
    /\ plist' = "patched"
    /\ pc' = IF PlistOnly THEN "signxpc" ELSE "points"
    /\ point' = 1
    /\ UNCHANGED <<bin, seal, cache, expected, copies, snapshot, script, from, cutShort, patchRuns>>

\* Mutation: the last entry point is forgotten
MutPatchPoint ==
    /\ pc = "points"
    /\ \/ /\ point < Points
          /\ bin' = IF point \in expected /\ bin.is = "whole"
                    THEN Binary(bin.pts \cup {point}, bin.sig) ELSE bin
          /\ point' = point + 1
          /\ UNCHANGED <<script, pc, from, cutShort>>
       \/ point >= Points /\ GoOn("signxpc") /\ UNCHANGED bin
    /\ UNCHANGED <<plist, seal, cache, expected, copies, snapshot, patchRuns>>

\* Lines 122-135: one entry point at a time; unexpected bytes are skipped and
\* the run goes on
PatchPoint ==
    /\ pc = "points"
    /\ \/ /\ point <= Points
          /\ bin' = IF point \in expected /\ bin.is = "whole"
                    THEN Binary(bin.pts \cup {point}, bin.sig) ELSE bin
          /\ point' = point + 1
          /\ UNCHANGED <<script, pc, from, cutShort>>
       \/ point > Points /\ GoOn("signxpc") /\ UNCHANGED bin
    /\ UNCHANGED <<plist, seal, cache, expected, copies, snapshot, patchRuns>>

\* Line 152
SignXpc ==
    /\ pc = "signxpc"
    /\ seal' = plist
    /\ IF PlistOnly THEN Patched("bless") ELSE GoOn("signbin")
    /\ UNCHANGED <<bin, plist, cache, expected, copies, snapshot, patchRuns>>

\* Line 154; codesign does not accept a torn binary
SignBin ==
    /\ pc = "signbin"
    /\ bin.is = "whole"
    /\ bin' = Binary(bin.pts, bin.pts)
    /\ Patched("refresh")
    /\ UNCHANGED <<plist, seal, cache, expected, copies, snapshot, patchRuns>>

(***************************************************************************)
(* revert_sequoia_mtl_compiler_throttle.sh: "revert" finds its backup,     *)
(* "revertfrom" is given one.                                              *)
(***************************************************************************)

Reverts == {"revert", "revertfrom"}
Usable(b) == archive[b].bin.is # "absent" /\ ~Throttled(archive[b].bin)

\* latest_clean_backup_dir
Latest(b) == Usable(b) /\ \A c \in DOMAIN archive : c > b => ~Usable(c)

\* Lines 132-147: the volume's files and the backup's must exist
StartRevert(s, b) ==
    /\ pc = "idle" /\ patchRuns < MaxPatchRuns
    /\ bin.is # "absent" /\ plist # "absent"
    /\ IF s = "revert" THEN Latest(b) ELSE Usable(b)
    /\ script' = s /\ pc' = "stashbin" /\ from' = b
    /\ patchRuns' = patchRuns + 1
    /\ UNCHANGED <<volume, expected, copies, snapshot, point, cutShort>>

\* Mutation: the current binary is not copied before it is replaced
MutStashBin ==
    /\ pc = "stashbin"
    /\ GoOn("stashplist")
    /\ UNCHANGED <<volume, expected, copies, snapshot, patchRuns>>

\* backup_current_files
StashBin ==
    /\ pc = "stashbin"
    /\ \/ stash' = [stash EXCEPT !.bins = @ \cup {bin}] /\ GoOn("stashplist")
       \/ stash' = [stash EXCEPT !.bins = @ \cup {Torn}] /\ Abort
    /\ UNCHANGED <<volume, expected, archive, snapshot, patchRuns>>

StashPlist ==
    /\ pc = "stashplist"
    /\ \/ stash' = [stash EXCEPT !.plists = @ \cup {plist}] /\ GoOn("removebin")
       \/ stash' = [stash EXCEPT !.plists = @ \cup {"torn"}] /\ Abort
    /\ UNCHANGED <<volume, expected, archive, snapshot, patchRuns>>

\* restore_file removes before it copies
RemoveBin ==
    /\ pc = "removebin"
    /\ bin' = Absent /\ GoOn("copybin")
    /\ UNCHANGED <<plist, seal, cache, expected, copies, snapshot, patchRuns>>

CopyBin ==
    /\ pc = "copybin"
    /\ \/ bin' = archive[from].bin /\ GoOn("removeplist")
       \/ bin' = Torn /\ Abort
    /\ UNCHANGED <<plist, seal, cache, expected, copies, snapshot, patchRuns>>

RemovePlist ==
    /\ pc = "removeplist"
    /\ plist' = "absent" /\ GoOn("copyplist")
    /\ UNCHANGED <<bin, seal, cache, expected, copies, snapshot, patchRuns>>

CopyPlist ==
    /\ pc = "copyplist"
    /\ \/ plist' = archive[from].plist /\ GoOn("refresh")
       \/ plist' = "torn" /\ Abort
    /\ UNCHANGED <<bin, seal, cache, expected, copies, snapshot, patchRuns>>

(***************************************************************************)
(* The end of the full wrapper and of the revert; the plist-only wrapper   *)
(* blesses without refreshing the cache.                                   *)
(***************************************************************************)

\* Mutation: the cache is not rebuilt
MutRefresh ==
    /\ pc = "refresh" /\ GoOn("bless")
    /\ UNCHANGED <<volume, expected, copies, snapshot, patchRuns>>

Refresh ==
    /\ pc = "refresh"
    /\ cache' = bin /\ GoOn("bless")
    /\ UNCHANGED <<bin, plist, seal, expected, copies, snapshot, patchRuns>>

Bless ==
    /\ pc = "bless"
    /\ snapshot' = [by |-> script, bin |-> bin, plist |-> plist, seal |-> seal,
                    cache |-> cache]
    /\ Done
    /\ UNCHANGED <<volume, expected, copies, patchRuns>>

ThrottleNext ==
    \/ \E s \in PatchScripts : StartPatch(s)
    \/ BackupPlist \/ BackupBin \/ PatchPlist \/ PatchPoint \/ SignXpc \/ SignBin
    \/ \E s \in Reverts, b \in DOMAIN archive : StartRevert(s, b)
    \/ StashBin \/ StashPlist \/ RemoveBin \/ CopyBin \/ RemovePlist \/ CopyPlist
    \/ Refresh \/ Bless \/ StopRun

ThrottleSpec == ThrottleInit /\ [][ThrottleNext]_throttleVars

(***************************************************************************)
(* Properties.                                                             *)
(***************************************************************************)

BinCopied ==
    OriginalBin \in stash.bins \/ \E b \in DOMAIN archive : archive[b].bin = OriginalBin
PlistCopied ==
    "original" \in stash.plists \/ \E b \in DOMAIN archive : archive[b].plist = "original"

(***************************************************************************)
(* An intact original binary and an intact original plist exist at every   *)
(* moment, in place, in some backup or in a copy a revert made of what it  *)
(* replaced, whatever runs were cut and in whatever order they ran.        *)
(***************************************************************************)
OriginalMetalKept ==
    /\ bin = OriginalBin \/ BinCopied
    /\ plist = "original" \/ PlistCopied

(***************************************************************************)
(* The snapshot of a completed full run is consistent: the binary is       *)
(* signed as it is, the XPC bundle's seal covers the patched plist and the *)
(* dyld cache was built from this binary, also when it resumes work that   *)
(* an earlier run left half done.                                          *)
(***************************************************************************)
FullSnapshotConsistent ==
    snapshot.by = "full" =>
        /\ snapshot.bin.sig = snapshot.bin.pts
        /\ snapshot.plist = "patched" /\ snapshot.seal = "patched"
        /\ snapshot.cache = snapshot.bin

(***************************************************************************)
(* The revert brings the original binary back, unless an earlier run was   *)
(* cut or the script met bytes it does not know and left the binary half   *)
(* patched: then a later patch run takes that binary for clean and backs   *)
(* it up.                                                                  *)
(***************************************************************************)
RevertRestoresBinary ==
    snapshot.by \in Reverts /\ ~cutShort /\ expected = AllPoints =>
        snapshot.bin = OriginalBin /\ snapshot.cache = OriginalBin

(***************************************************************************)
(* "Restore the original Metal.framework binary and MTLCompilerService     *)
(* Info.plist from the latest backup": with no run cut and every byte as   *)
(* expected, an automatic revert blesses the original plist.               *)
(***************************************************************************)
RevertRestoresPlist ==
    snapshot.by = "revert" /\ ~cutShort /\ expected = AllPoints =>
        snapshot.plist = "original"

==============================================================================
