----------------------------- MODULE ToolProofs -----------------------------
(***************************************************************************)
(* The safety properties of the scripts that edit the EFI and the Metal    *)
(* binary: EfiConfig for any terminals, jobs and initial entries, and      *)
(* MetalThrottle for any number of entry points, each for any number of    *)
(* script runs.                                                            *)
(***************************************************************************)
EXTENDS EfiConfig, MetalThrottle, NaturalsInduction, WellFoundedInduction, TLAPS

(***************************************************************************)
(* MetalThrottle                                                           *)
(***************************************************************************)

Bins == [pts : SUBSET Int, sig : SUBSET Int, is : {"whole", "torn", "absent"}]
Plists == {"original", "patched", "torn", "absent"}
Labels == {"idle", "backupplist", "backupbin", "patchplist", "points", "signxpc", "signbin",
           "stashbin", "stashplist", "removebin", "copybin", "removeplist", "copyplist",
           "refresh", "bless"}
Backup == [plist : Plists, bin : Bins]
Scripts == PatchScripts \cup Reverts \cup {"none"}

Types ==
    /\ bin \in Bins /\ plist \in Plists /\ seal \in Plists /\ cache \in Bins
    /\ archive \in Seq(Backup)
    /\ stash \in [bins : SUBSET Bins, plists : SUBSET Plists]
    /\ script \in Scripts /\ pc \in Labels /\ from \in Nat /\ point \in Nat
    /\ pc = "backupbin" => Len(archive) > 0 /\ archive[Len(archive)].bin = Absent
    /\ script \in Reverts => from \in DOMAIN archive

\* What runs at which label
LabelScripts ==
    /\ pc = "idle" <=> script = "none"
    /\ pc \in {"stashbin", "stashplist", "removebin", "copybin", "removeplist", "copyplist"}
        => script \in Reverts
    /\ pc \in {"backupplist", "backupbin", "patchplist", "signxpc"} => script \in PatchScripts
    /\ pc \in {"points", "signbin"} => script \in {"full", "bare"}
    /\ pc = "refresh" => script \in {"full"} \cup Reverts
    /\ pc = "bless" => script \in {"full", "plist"} \cup Reverts

\* From where on the volume's files are no longer needed as originals
Kept ==
    /\ OriginalMetalKept
    /\ pc \in {"backupbin", "patchplist", "points", "signxpc", "signbin", "removebin",
               "copybin", "removeplist", "copyplist"} => PlistCopied
    /\ pc \in {"patchplist", "points", "signxpc", "signbin", "stashplist", "removebin",
               "copybin"} => BinCopied

\* What a full run has reached
Full ==
    /\ FullSnapshotConsistent
    /\ pc \in {"points", "signxpc", "signbin"} => plist = "patched"
    /\ pc = "signbin" => seal = "patched"
    /\ script = "full" /\ pc \in {"refresh", "bless"} =>
        plist = "patched" /\ seal = "patched" /\ bin.sig = bin.pts
    /\ script = "full" /\ pc = "bless" => cache = bin

\* Without cuts and surprises a binary is untouched or has every point patched
CleanNow ==
    /\ \A b \in DOMAIN archive :
           \/ archive[b].bin = OriginalBin
           \/ archive[b].bin = Absent /\ b = Len(archive) /\ pc = "backupbin"
    /\ pc \in {"backupplist", "backupbin", "patchplist"} => bin = OriginalBin
    /\ pc = "idle" => bin = OriginalBin \/ Throttled(bin)
    /\ pc = "points" => /\ bin.is = "whole"
                        /\ point \in 1..(Points + 1)
                        /\ bin.pts = 1..(point - 1)
    /\ pc = "signxpc" => IF PlistOnly THEN bin = OriginalBin ELSE Throttled(bin)
    /\ pc = "signbin" => Throttled(bin)
    /\ pc \in {"refresh", "bless"} =>
           IF script = "full" THEN Throttled(bin) ELSE bin = OriginalBin
    /\ pc \in {"removeplist", "copyplist"} => bin = OriginalBin
    /\ pc = "bless" /\ script \in Reverts => cache = OriginalBin
    /\ snapshot.by \in Reverts => snapshot.bin = OriginalBin /\ snapshot.cache = OriginalBin
Clean == ~cutShort /\ expected = AllPoints => CleanNow

IInv == Types /\ LabelScripts /\ Kept /\ Full /\ Clean

\* The initial state satisfies the invariant
LEMMA InitIInv == ThrottleInit => IInv
<1> SUFFICES ASSUME ThrottleInit PROVE IInv
  OBVIOUS
<1> USE DEF ThrottleInit, OriginalBin, Binary, Apple, Scripts, PatchScripts, Reverts
<1>1. Types
  BY DEF Types, Bins, Plists, Labels
<1>2. LabelScripts
  BY DEF LabelScripts
<1>3. Kept
  BY DEF Kept, OriginalMetalKept
<1>4. Full
  BY DEF Full, FullSnapshotConsistent
<1>5. Clean
  BY DEF Clean, CleanNow
<1> QED
  BY <1>1, <1>2, <1>3, <1>4, <1>5 DEF IInv

\* Completing a backup keeps the others
LEMMA Completed ==
    ASSUME NEW x \in Bins, archive \in Seq(Backup), Len(archive) > 0,
           archive' = [archive EXCEPT ![Len(archive)] = [@ EXCEPT !.bin = x]]
    PROVE /\ archive' \in Seq(Backup) /\ DOMAIN archive' = DOMAIN archive
          /\ Len(archive') = Len(archive)
          /\ \A b \in DOMAIN archive : archive'[b].plist = archive[b].plist
          /\ \A b \in DOMAIN archive \ {Len(archive)} : archive'[b] = archive[b]
          /\ archive'[Len(archive)].bin = x
<1> DEFINE n == Len(archive)
           e == [archive[n] EXCEPT !.bin = x]
<1>1. n \in 1..Len(archive) /\ DOMAIN archive = 1..Len(archive) /\ archive[n] \in Backup
  OBVIOUS
<1>2. e \in Backup /\ e.plist = archive[n].plist /\ e.bin = x
  BY <1>1 DEF Backup
<1>3. archive' = [archive EXCEPT ![n] = e]
  OBVIOUS
<1> HIDE DEF e, n
<1>4. archive' \in Seq(Backup) /\ Len(archive') = Len(archive)
  <2>1. [archive EXCEPT ![n] = e] \in Seq(Backup) /\ Len([archive EXCEPT ![n] = e]) = Len(archive)
    BY <1>1, <1>2
  <2> QED
    BY <2>1, <1>3
<1>5. \A b \in DOMAIN archive : archive'[b] = IF b = n THEN e ELSE archive[b]
  BY <1>3
<1> QED
  BY <1>1, <1>2, <1>4, <1>5 DEF n

\* A new backup keeps the others
LEMMA Appended ==
    ASSUME NEW p \in Plists, NEW x \in Bins, archive \in Seq(Backup),
           archive' = Append(archive, [plist |-> p, bin |-> x])
    PROVE /\ archive' \in Seq(Backup) /\ Len(archive') = Len(archive) + 1
          /\ DOMAIN archive \subseteq DOMAIN archive' /\ Len(archive') \in DOMAIN archive'
          /\ \A b \in DOMAIN archive' : b \in DOMAIN archive \/ b = Len(archive')
          /\ \A b \in DOMAIN archive : archive'[b] = archive[b]
          /\ archive'[Len(archive')] = [plist |-> p, bin |-> x]
<1> DEFINE e == [plist |-> p, bin |-> x]
<1>1. e \in Backup
  BY DEF Backup
<1> HIDE DEF e
<1>2. archive' = Append(archive, e)
  BY DEF e
<1>3. e = [plist |-> p, bin |-> x]
  BY DEF e
<1>4. /\ Append(archive, e) \in Seq(Backup)
      /\ Len(Append(archive, e)) = Len(archive) + 1
      /\ \A i \in 1..Len(archive) : Append(archive, e)[i] = archive[i]
      /\ Append(archive, e)[Len(archive) + 1] = e
  BY <1>1
<1>5. Len(archive) \in Nat /\ DOMAIN archive = 1..Len(archive) /\ DOMAIN archive' = 1..Len(archive')
  BY <1>2, <1>4
<1> QED
  BY <1>2, <1>3, <1>4, <1>5

\* A backup holds two files
LEMMA BackupFiles ==
    ASSUME archive \in Seq(Backup), NEW b \in DOMAIN archive
    PROVE archive[b].bin \in Bins /\ archive[b].plist \in Plists
<1>1. archive[b] \in Backup
  OBVIOUS
<1> QED
  BY <1>1 DEF Backup

\* Absent and torn files are files
LEMMA FileTypes ==
    Absent \in Bins /\ Torn \in Bins /\ OriginalBin \in Bins /\ Absent # OriginalBin
BY SMTT(30) DEF Absent, Torn, OriginalBin, Binary, Apple, Bins

\* Every step keeps the types
LEMMA TypesStep ==
    ASSUME Types, LabelScripts, [ThrottleNext]_throttleVars
    PROVE Types'
<1> USE DEF Types, LabelScripts, Labels, Scripts, PatchScripts, Reverts, PlistOnly,
            GoOn, End, Abort, Done, volume, copies
<1>1. ASSUME NEW s \in PatchScripts, StartPatch(s) PROVE Types'
  BY <1>1, Zenon DEF StartPatch
<1>2. ASSUME NEW s \in Reverts, NEW b \in DOMAIN archive, StartRevert(s, b) PROVE Types'
  BY <1>2 DEF StartRevert
<1>3. CASE BackupPlist
  <2>1. \E p \in Plists : archive' = Append(archive, [plist |-> p, bin |-> Absent])
    BY <1>3, Zenon DEF BackupPlist, Plists
  <2>2. archive' \in Seq(Backup) /\ Len(archive') > 0 /\ archive'[Len(archive')].bin = Absent
    BY <2>1, FileTypes, Appended
  <2> QED
    BY <1>3, <2>2 DEF BackupPlist
<1>4. CASE BackupBin
  <2>1. \E x \in Bins : archive' = [archive EXCEPT ![Len(archive)] = [@ EXCEPT !.bin = x]]
    BY <1>4, FileTypes, Zenon DEF BackupBin
  <2>2. archive' \in Seq(Backup)
    BY <1>4, <2>1, Completed, Zenon DEF BackupBin
  <2> QED
    BY <1>4, <2>2 DEF BackupBin
<1>5. CASE PatchPlist
  BY <1>5, Zenon DEF PatchPlist, Plists
<1>6. CASE PatchPoint
  BY <1>6, PointsAssumption DEF PatchPoint, Bins, Binary
<1>7. CASE SignXpc
  BY <1>7 DEF SignXpc, Patched
<1>8. CASE SignBin
  BY <1>8 DEF SignBin, Patched, Bins, Binary
<1>9. CASE StashBin
  BY <1>9, FileTypes DEF StashBin
<1>10. CASE StashPlist
  BY <1>10 DEF StashPlist, Plists
<1>11. CASE RemoveBin
  BY <1>11, FileTypes, Zenon DEF RemoveBin
<1>12. CASE CopyBin
  BY <1>12, BackupFiles, FileTypes DEF CopyBin
<1>13. CASE RemovePlist
  BY <1>13 DEF RemovePlist, Plists
<1>14. CASE CopyPlist
  BY <1>14, BackupFiles, FileTypes DEF Plists, CopyPlist
<1>15. CASE Refresh
  BY <1>15, Zenon DEF Refresh
<1>16. CASE Bless
  BY <1>16 DEF Bless
<1>17. CASE StopRun
  BY <1>17, Zenon DEF StopRun
<1>18. CASE UNCHANGED throttleVars
  BY <1>18, Zenon DEF throttleVars, local
<1>19. QED
  BY <1>1, <1>2, <1>3, <1>4, <1>5, <1>6, <1>7, <1>8, <1>9,
     <1>10, <1>11, <1>12, <1>13, <1>14, <1>15, <1>16, <1>17, <1>18 DEF ThrottleNext

\* Every step keeps scripts and labels together
LEMMA PlacesStep ==
    ASSUME Types, LabelScripts, [ThrottleNext]_throttleVars
    PROVE LabelScripts'
<1> USE DEF LabelScripts, Types, Labels, Scripts, PatchScripts, Reverts, PlistOnly,
            GoOn, End, Abort, Done, volume, copies
<1>1. ASSUME NEW s \in PatchScripts, StartPatch(s) PROVE LabelScripts'
  BY <1>1, Zenon DEF StartPatch
<1>2. ASSUME NEW s \in Reverts, NEW b \in DOMAIN archive, StartRevert(s, b) PROVE LabelScripts'
  BY <1>2, Zenon DEF StartRevert
<1>3. CASE BackupPlist
  BY <1>3 DEF BackupPlist
<1>4. CASE BackupBin
  BY <1>4 DEF BackupBin
<1>5. CASE PatchPlist
  BY <1>5, Zenon DEF PatchPlist
<1>6. CASE PatchPoint
  BY <1>6, Zenon DEF PatchPoint
<1>7. CASE SignXpc
  BY <1>7 DEF SignXpc, Patched
<1>8. CASE SignBin
  BY <1>8 DEF SignBin, Patched
<1>9. CASE StashBin
  BY <1>9 DEF StashBin
<1>10. CASE StashPlist
  BY <1>10 DEF StashPlist
<1>11. CASE RemoveBin
  BY <1>11, Zenon DEF RemoveBin
<1>12. CASE CopyBin
  BY <1>12 DEF CopyBin
<1>13. CASE RemovePlist
  BY <1>13, Zenon DEF RemovePlist
<1>14. CASE CopyPlist
  BY <1>14 DEF CopyPlist
<1>15. CASE Refresh
  BY <1>15, Zenon DEF Refresh
<1>16. CASE Bless
  BY <1>16 DEF Bless
<1>17. CASE StopRun
  BY <1>17, Zenon DEF StopRun
<1>18. CASE UNCHANGED throttleVars
  BY <1>18 DEF throttleVars, local
<1>19. QED
  BY <1>1, <1>2, <1>3, <1>4, <1>5, <1>6, <1>7, <1>8, <1>9,
     <1>10, <1>11, <1>12, <1>13, <1>14, <1>15, <1>16, <1>17, <1>18 DEF ThrottleNext

\* Copies that do not change are still there
LEMMA CopiesSame ==
    ASSUME UNCHANGED <<archive, stash>>
    PROVE (BinCopied <=> BinCopied') /\ (PlistCopied <=> PlistCopied')
BY Zenon DEF BinCopied, PlistCopied

\* Every step keeps the originals
LEMMA KeptStep ==
    ASSUME Types, LabelScripts, Kept, [ThrottleNext]_throttleVars
    PROVE Kept'
<1> USE DEF Kept, OriginalMetalKept, LabelScripts, GoOn, End, Abort, Done, volume, copies
<1>1. ASSUME NEW s \in PatchScripts, StartPatch(s) PROVE Kept'
  BY <1>1, CopiesSame DEF StartPatch
<1>2. ASSUME NEW s \in Reverts, NEW b \in DOMAIN archive, StartRevert(s, b) PROVE Kept'
  BY <1>2, CopiesSame DEF StartRevert
<1>3. CASE BackupPlist
  <2> DEFINE p == IF pc' = "backupbin" THEN plist ELSE "torn"
  <2>1. archive' = Append(archive, [plist |-> p, bin |-> Absent])
    BY <1>3 DEF BackupPlist
  <2>2. p \in Plists /\ Absent \in Bins /\ archive \in Seq(Backup)
    BY FileTypes, Zenon DEF Types, Plists
  <2> HIDE DEF p
  <2>3. /\ DOMAIN archive \subseteq DOMAIN archive' /\ Len(archive') \in DOMAIN archive'
        /\ \A b \in DOMAIN archive : archive'[b] = archive[b]
        /\ archive'[Len(archive')] = [plist |-> p, bin |-> Absent]
    BY <2>1, <2>2, Appended
  <2>4. UNCHANGED <<bin, plist, stash>> /\ pc' \in {"backupbin", "idle"}
    BY <1>3, Zenon DEF BackupPlist
  <2>5. (BinCopied => BinCopied') /\ (PlistCopied => PlistCopied')
    BY <2>3, <2>4, Zenon DEF BinCopied, PlistCopied
  <2>6. p = "original" => PlistCopied'
    BY <2>3 DEF PlistCopied
  <2>7. pc' = "backupbin" => PlistCopied'
    BY <2>5, <2>6 DEF p
  <2>8. OriginalMetalKept'
    BY <2>4, <2>5
  <2> QED
    BY <2>4, <2>7, <2>8
<1>4. CASE BackupBin
  <2>1. PICK x \in Bins :
            /\ archive' = [archive EXCEPT ![Len(archive)] = [@ EXCEPT !.bin = x]]
            /\ pc' = "patchplist" => x = bin
    <3>1. CASE /\ archive' = [archive EXCEPT ![Len(archive)] = [@ EXCEPT !.bin = bin]]
               /\ pc' = "patchplist"
      BY <3>1, Zenon DEF Types
    <3>2. CASE /\ archive' = [archive EXCEPT ![Len(archive)] = [@ EXCEPT !.bin = Torn]]
               /\ pc' = "idle"
      BY <3>2, FileTypes, Zenon
    <3> QED
      BY <1>4, <3>1, <3>2 DEF BackupBin
  <2>2. /\ DOMAIN archive' = DOMAIN archive /\ Len(archive) \in DOMAIN archive
        /\ \A b \in DOMAIN archive : archive'[b].plist = archive[b].plist
        /\ \A b \in DOMAIN archive \ {Len(archive)} : archive'[b] = archive[b]
        /\ archive'[Len(archive)].bin = x
    BY <1>4, <2>1, Completed DEF Types, BackupBin
  <2>3. UNCHANGED <<bin, plist, stash>> /\ pc = "backupbin"
    BY <1>4 DEF BackupBin
  <2>4. PlistCopied'
    BY <2>2, <2>3, Zenon DEF PlistCopied
  <2>5. bin = OriginalBin \/ BinCopied'
    BY <2>2, <2>3, FileTypes, Zenon DEF BinCopied, Types
  <2>6. x = OriginalBin => BinCopied'
    BY <2>2 DEF BinCopied
  <2>7. pc' \in {"patchplist", "idle"}
    BY <1>4 DEF BackupBin
  <2> QED
    BY <2>1, <2>3, <2>4, <2>5, <2>6, <2>7
<1>5. CASE PatchPlist
  BY <1>5, CopiesSame, Zenon DEF PatchPlist
<1>6. CASE PatchPoint
  BY <1>6, CopiesSame DEF PatchPoint
<1>7. CASE SignXpc
  BY <1>7, CopiesSame, Zenon DEF SignXpc, Patched
<1>8. CASE SignBin
  BY <1>8, CopiesSame DEF SignBin, Patched
<1>9. CASE StashBin
  <2>1. stash.bins \subseteq stash'.bins /\ stash'.plists = stash.plists
    BY <1>9 DEF StashBin, Types
  <2>2. (BinCopied => BinCopied') /\ (PlistCopied => PlistCopied')
    BY <1>9, <2>1 DEF StashBin, BinCopied, PlistCopied
  <2>3. pc' = "stashplist" /\ bin = OriginalBin => BinCopied'
    BY <1>9 DEF StashBin, BinCopied, Types
  <2> QED
    BY <1>9, <2>2, <2>3 DEF StashBin
<1>10. CASE StashPlist
  <2>1. stash.plists \subseteq stash'.plists /\ stash'.bins = stash.bins
    BY <1>10 DEF StashPlist, Types
  <2>2. (BinCopied => BinCopied') /\ (PlistCopied => PlistCopied')
    BY <1>10, <2>1 DEF StashPlist, BinCopied, PlistCopied
  <2>3. pc' = "removebin" /\ plist = "original" => PlistCopied'
    BY <1>10, Zenon DEF StashPlist, PlistCopied, Types
  <2> QED
    BY <1>10, <2>2, <2>3 DEF StashPlist
<1>11. CASE RemoveBin
  BY <1>11, CopiesSame, Zenon DEF RemoveBin
<1>12. CASE CopyBin
  BY <1>12, CopiesSame DEF CopyBin
<1>13. CASE RemovePlist
  BY <1>13, CopiesSame, Zenon DEF RemovePlist
<1>14. CASE CopyPlist
  BY <1>14, CopiesSame DEF CopyPlist
<1>15. CASE Refresh
  BY <1>15, CopiesSame, Zenon DEF Refresh
<1>16. CASE Bless
  BY <1>16, CopiesSame, Zenon DEF Bless
<1>17. CASE StopRun
  BY <1>17, CopiesSame, Zenon DEF StopRun
<1>18. CASE UNCHANGED throttleVars
  BY CopiesSame, <1>18, ZenonT(30) DEF throttleVars, local
<1>19. QED
  BY <1>1, <1>2, <1>3, <1>4, <1>5, <1>6, <1>7, <1>8, <1>9,
     <1>10, <1>11, <1>12, <1>13, <1>14, <1>15, <1>16, <1>17, <1>18 DEF ThrottleNext

\* Every step keeps a full run consistent
LEMMA FullStep ==
    ASSUME Types, LabelScripts, Full, [ThrottleNext]_throttleVars
    PROVE Full'
<1> USE DEF Full, FullSnapshotConsistent, LabelScripts, PlistOnly, Reverts,
            PatchScripts, GoOn, End, Abort, Done, volume, copies
<1>1. ASSUME NEW s \in PatchScripts, StartPatch(s) PROVE Full'
  BY <1>1, Zenon DEF StartPatch
<1>2. ASSUME NEW s \in Reverts, NEW b \in DOMAIN archive, StartRevert(s, b) PROVE Full'
  BY <1>2, Zenon DEF StartRevert
<1>3. CASE BackupPlist
  BY <1>3 DEF BackupPlist
<1>4. CASE BackupBin
  BY <1>4, Zenon DEF BackupBin
<1>5. CASE PatchPlist
  BY <1>5, Zenon DEF PatchPlist
<1>6. CASE PatchPoint
  BY <1>6, Zenon DEF PatchPoint
<1>7. CASE SignXpc
  BY <1>7, Zenon DEF SignXpc, Patched
<1>8. CASE SignBin
  BY <1>8 DEF SignBin, Patched, Binary
<1>9. CASE StashBin
  BY <1>9 DEF StashBin
<1>10. CASE StashPlist
  BY <1>10, Zenon DEF StashPlist
<1>11. CASE RemoveBin
  BY <1>11, Zenon DEF RemoveBin
<1>12. CASE CopyBin
  BY <1>12, Zenon DEF CopyBin
<1>13. CASE RemovePlist
  BY <1>13, Zenon DEF RemovePlist
<1>14. CASE CopyPlist
  BY <1>14, Zenon DEF CopyPlist
<1>15. CASE Refresh
  BY <1>15, Zenon DEF Refresh
<1>16. CASE Bless
  BY <1>16, Zenon DEF Bless
<1>17. CASE StopRun
  BY <1>17, Zenon DEF StopRun
<1>18. CASE UNCHANGED throttleVars
  BY <1>18 DEF throttleVars, local
<1>19. QED
  BY <1>1, <1>2, <1>3, <1>4, <1>5, <1>6, <1>7, <1>8, <1>9,
     <1>10, <1>11, <1>12, <1>13, <1>14, <1>15, <1>16, <1>17, <1>18 DEF ThrottleNext

\* Every uncut step keeps binaries untouched or wholly patched
LEMMA CleanStep ==
    ASSUME Types, LabelScripts, CleanNow, expected = AllPoints, ~cutShort', [ThrottleNext]_throttleVars
    PROVE CleanNow'
<1> USE DEF CleanNow, LabelScripts, PlistOnly, Reverts, PatchScripts, GoOn, End, Abort,
            Done, volume, copies
<1>1. ASSUME NEW s \in PatchScripts, StartPatch(s) PROVE CleanNow'
  BY <1>1, Zenon DEF StartPatch, Throttled
<1>2. ASSUME NEW s \in Reverts, NEW b \in DOMAIN archive, StartRevert(s, b) PROVE CleanNow'
  BY <1>2, Zenon DEF StartRevert, Throttled
<1>3. CASE BackupPlist
  <2>1. /\ archive' = Append(archive, [plist |-> plist, bin |-> Absent])
        /\ pc = "backupplist" /\ pc' = "backupbin" /\ UNCHANGED <<bin, snapshot>>
    BY <1>3, Zenon DEF BackupPlist
  <2>2. plist \in Plists /\ Absent \in Bins /\ archive \in Seq(Backup)
    BY FileTypes, Zenon DEF Types
  <2>3. /\ \A b \in DOMAIN archive' : b \in DOMAIN archive \/ b = Len(archive')
        /\ \A b \in DOMAIN archive : archive'[b] = archive[b]
        /\ archive'[Len(archive')] = [plist |-> plist, bin |-> Absent]
    BY <2>1, <2>2, Appended, Zenon
  <2>4. \A b \in DOMAIN archive' : \/ archive'[b].bin = OriginalBin
                                   \/ archive'[b].bin = Absent /\ b = Len(archive')
    BY <2>1, <2>3
  <2> QED
    BY <2>1, <2>4, Zenon
<1>4. CASE BackupBin
  <2>1. /\ archive' = [archive EXCEPT ![Len(archive)] = [@ EXCEPT !.bin = bin]]
        /\ pc = "backupbin" /\ pc' = "patchplist" /\ UNCHANGED <<bin, snapshot>>
    BY <1>4 DEF BackupBin
  <2>2. bin \in Bins /\ archive \in Seq(Backup) /\ Len(archive) > 0
    BY <2>1 DEF Types
  <2>3. /\ DOMAIN archive' = DOMAIN archive
        /\ \A b \in DOMAIN archive \ {Len(archive)} : archive'[b] = archive[b]
        /\ archive'[Len(archive)].bin = bin
    BY <2>1, <2>2, Completed
  <2>4. \A b \in DOMAIN archive' : archive'[b].bin = OriginalBin
    BY <2>1, <2>3, Zenon
  <2> QED
    BY <2>1, <2>4
<1>5. CASE PatchPlist
  <2>1. /\ pc = "patchplist" /\ bin = OriginalBin /\ point' = 1
        /\ pc' = IF PlistOnly THEN "signxpc" ELSE "points"
        /\ UNCHANGED <<bin, archive, snapshot, script>>
    BY <1>5 DEF PatchPlist
  <2>2. bin'.is = "whole" /\ bin'.pts = {}
    BY <2>1, Zenon DEF OriginalBin, Binary
  <2>3. {} = 1..(1 - 1) /\ 1 \in 1..(Points + 1)
    BY PointsAssumption
  <2>4. pc' = "points" => bin'.is = "whole" /\ point' \in 1..(Points + 1) /\ bin'.pts = 1..(point' - 1)
    BY <2>1, <2>2, <2>3, Zenon
  <2>5. pc' = "signxpc" => PlistOnly' /\ bin' = OriginalBin
    BY <2>1, Zenon
  <2>6. \A b \in DOMAIN archive' : archive'[b].bin = OriginalBin
    BY <2>1, Zenon
  <2> QED
    BY <2>1, <2>4, <2>5, <2>6, Zenon
<1>6. CASE PatchPoint
  <2> USE PointsAssumption
  <2>1. CASE point <= Points
    <3>1. bin.is = "whole" /\ point \in 1..Points /\ bin.pts = 1..(point - 1)
      BY <1>6, <2>1 DEF PatchPoint
    <3>2. bin' = Binary(bin.pts \cup {point}, bin.sig) /\ point' = point + 1
      BY <1>6, <2>1, <3>1 DEF PatchPoint, AllPoints
    <3>3. bin'.is = "whole" /\ bin'.pts = bin.pts \cup {point}
      BY <3>2, Zenon DEF Binary
    <3>4. bin'.pts = 1..(point' - 1) /\ point' \in 1..(Points + 1)
      <4>1. 1..point = 1..(point - 1) \cup {point} /\ point' - 1 = point
        BY <3>1, <3>2
      <4>2. bin'.pts = 1..(point' - 1)
        BY <3>1, <3>3, <4>1, Zenon
      <4> QED
        BY <3>1, <3>2, <4>2
    <3>5. UNCHANGED <<archive, snapshot, script, pc, cache>> /\ pc = "points"
      BY <1>6, <2>1 DEF PatchPoint, Types
    <3> QED
      BY <3>3, <3>4, <3>5, Zenon
  <2>2. CASE point > Points
    <3>1. pc = "points" /\ pc' = "signxpc" /\ UNCHANGED <<bin, archive, snapshot, script>>
      BY <1>6, <2>2 DEF PatchPoint, Types
    <3>2. point = Points + 1 /\ bin.is = "whole" /\ bin.pts = 1..Points
      BY <2>2, <3>1
    <3> QED
      BY <3>1, <3>2, Zenon DEF Throttled, AllPoints
  <2> QED
    BY <2>1, <2>2 DEF Types
<1>7. CASE SignXpc
  BY <1>7, Zenon DEF SignXpc, Patched, Throttled
<1>8. CASE SignBin
  BY <1>8 DEF SignBin, Patched, Throttled, Binary
<1>9. CASE StashBin
  BY <1>9 DEF StashBin, Throttled
<1>10. CASE StashPlist
  BY <1>10, Zenon DEF StashPlist, Throttled
<1>11. CASE RemoveBin
  BY <1>11, Zenon DEF RemoveBin, Throttled
<1>12. CASE CopyBin
  BY <1>12, FileTypes, Zenon DEF CopyBin, Types
<1>13. CASE RemovePlist
  BY <1>13, Zenon DEF RemovePlist, Throttled
<1>14. CASE CopyPlist
  BY <1>14, Zenon DEF CopyPlist, Throttled
<1>15. CASE Refresh
  BY <1>15, Zenon DEF Refresh, Throttled
<1>16. CASE Bless
  BY <1>16, Zenon DEF Bless, Throttled
<1>17. CASE StopRun
  BY <1>17, Zenon DEF StopRun
<1>18. CASE UNCHANGED throttleVars
  BY <1>18 DEF throttleVars, local
<1>19. QED
  BY <1>1, <1>2, <1>3, <1>4, <1>5, <1>6, <1>7, <1>8, <1>9, Zenon,
     <1>10, <1>11, <1>12, <1>13, <1>14, <1>15, <1>16, <1>17, <1>18 DEF ThrottleNext

\* The invariant is inductive
LEMMA NextIInv == IInv /\ [ThrottleNext]_throttleVars => IInv'
<1> SUFFICES ASSUME IInv, [ThrottleNext]_throttleVars PROVE IInv'
  OBVIOUS
<1>1. Types' /\ LabelScripts' /\ Kept' /\ Full'
  BY TypesStep, PlacesStep, KeptStep, FullStep, Zenon DEF IInv
<1>2. (~cutShort' => ~cutShort) /\ expected' = expected
  BY DEF ThrottleNext, throttleVars, local, volume, copies, StartPatch, BackupPlist,
     BackupBin, PatchPlist,
         PatchPoint, SignXpc, SignBin, StartRevert, StashBin, StashPlist, RemoveBin, CopyBin,
         RemovePlist, CopyPlist, Refresh, Bless, StopRun, Patched, GoOn, End, Abort, Done
<1>3. Clean'
  BY <1>2, CleanStep DEF IInv, Clean, AllPoints
<1> QED
  BY <1>1, <1>3 DEF IInv

\* The invariant holds throughout
LEMMA Inductive == ThrottleSpec => []IInv
BY InitIInv, NextIInv, PTL DEF ThrottleSpec

(***************************************************************************)
(* An original binary and an original plist survive every sequence of      *)
(* patch and revert runs, cut anywhere.                                    *)
(***************************************************************************)
THEOREM OriginalsSurvive == ThrottleSpec => []OriginalMetalKept
<1>1. IInv => OriginalMetalKept
  BY Zenon DEF IInv, Kept
<1> QED
  BY <1>1, Inductive, PTL

(***************************************************************************)
(* A completed full run blesses a consistent volume.                       *)
(***************************************************************************)
THEOREM FullIsConsistent == ThrottleSpec => []FullSnapshotConsistent
<1>1. IInv => FullSnapshotConsistent
  BY Zenon DEF IInv, Full
<1> QED
  BY <1>1, Inductive, PTL

(***************************************************************************)
(* Without cuts and unknown bytes a revert blesses the original binary.    *)
(***************************************************************************)
THEOREM BinaryComesBack == ThrottleSpec => []RevertRestoresBinary
<1>1. IInv => RevertRestoresBinary
  BY DEF IInv, Clean, CleanNow, RevertRestoresBinary
<1> QED
  BY <1>1, Inductive, PTL

(***************************************************************************)
(* EfiConfig                                                               *)
(***************************************************************************)

\* A copy of the user's boot-args exists, unless copies were overwritten.
ArgsCopied ==
  clobbered = TRUE \/ \E b \in backups : b.bootArgs = original.bootArgs

\* Where the scripts can be.
Places == {"idle", "step", "delete", "add", "backup", "copying", "install",
           "installing", "verify"}
PlacesOK == at \in [Sessions -> Places]

\* A script past its cp relies on the copy: either its own, or the one that was
\* there when the entry had already changed.
ArgsInv ==
  /\ PlacesOK
  /\ bootArgs = original.bootArgs \/ ArgsCopied
  /\ \A s \in Sessions : at[s] \in {"delete", "add"} => ArgsCopied

\* Every step leaves each script at one of its places.
LEMMA PlacesInductive ==
  ASSUME PlacesOK, [Next]_vars PROVE PlacesOK'
<1>1. ASSUME Next PROVE PlacesOK'
  <2>1. CASE Tick
    BY <2>1, Zenon DEF Tick, PlacesOK
  <2>2. ASSUME NEW s \in Sessions, NEW job \in Jobs, Launch(s, job) PROVE PlacesOK'
    BY <2>2 DEF Launch, PlacesOK, Places
  <2>3. ASSUME NEW s \in Sessions, Act(s) PROVE PlacesOK'
    BY <2>3, Zenon DEF Act, PlacesOK, Places, ReadBootArgs, RunOverlay, NothingToRemove,
      BackupConfig, DeleteEntry, AddEntry, StampKext, BackupKext, InstallKext, VerifyKext,
      Stop, Advance, Exit, Goto
  <2>. QED BY <1>1, <2>1, <2>2, <2>3, Zenon DEF Next
<1>2. CASE UNCHANGED vars
  BY <1>2, Zenon DEF vars, PlacesOK
<1>. QED BY <1>1, <1>2

\* A step that writes neither the entry nor a copy, and takes no script past cp.
LEMMA ArgsFrame ==
  ASSUME ArgsInv, PlacesOK', UNCHANGED <<bootArgs, backups, original, clobbered>>,
         \A s \in Sessions :
           at'[s] \in {"delete", "add"} => at[s] \in {"delete", "add"}
  PROVE  ArgsInv'
BY DEF ArgsInv, ArgsCopied

LEMMA ArgsInductive ==
  ASSUME ArgsInv, [Next]_vars PROVE ArgsInv'
<1>0. PlacesOK /\ PlacesOK'
  BY PlacesInductive, Zenon DEF ArgsInv
<1>1. ASSUME Next PROVE ArgsInv'
  <2>1. CASE Tick
    BY <1>0, <2>1, ArgsFrame DEF Tick
  <2>2. ASSUME NEW s \in Sessions, NEW job \in Jobs, Launch(s, job) PROVE ArgsInv'
    BY <1>0, <2>2, ArgsFrame, Zenon DEF Launch, PlacesOK
  <2>3. ASSUME NEW s \in Sessions, Act(s) PROVE ArgsInv'
    <3>1. CASE ReadBootArgs(s)
      BY <1>0, <3>1, ArgsFrame, Zenon DEF ReadBootArgs, Advance, PlacesOK
    <3>2. CASE RunOverlay(s)
      BY <1>0, <3>2, ArgsFrame, Zenon DEF RunOverlay, Advance, PlacesOK
    <3>3. CASE NothingToRemove(s)
      BY <1>0, <3>3, ArgsFrame, Zenon DEF NothingToRemove, Exit, PlacesOK
    <3>4. CASE BackupConfig(s)
      <4>1. PICK key : /\ backups' = {b \in backups : b.key # key}
                             \union {[key |-> key, bootArgs |-> bootArgs]}
                       /\ clobbered' = (clobbered \/ \E b \in backups : b.key = key)
        BY <3>4, Zenon DEF BackupConfig
      <4>2. bootArgs' = bootArgs /\ original' = original
        BY <3>4 DEF BackupConfig
      <4>3. ArgsCopied'
        <5>1. CASE bootArgs = original.bootArgs
          <6>1. [key |-> key, bootArgs |-> bootArgs] \in backups'
            BY <4>1
          <6>. QED BY <4>2, <5>1, <6>1, Zenon DEF ArgsCopied
        <5>2. CASE clobbered = TRUE
          BY <4>1, <5>2, Zenon DEF ArgsCopied
        <5>3. ASSUME NEW b \in backups, b.bootArgs = original.bootArgs
              PROVE  ArgsCopied'
          <6>1. CASE b.key = key
            BY <4>1, <6>1, Zenon DEF ArgsCopied
          <6>2. CASE b.key # key
            BY <4>1, <4>2, <5>3, <6>2, Zenon DEF ArgsCopied
          <6>. QED BY <6>1, <6>2
        <5>. QED BY <5>1, <5>2, <5>3, Zenon DEF ArgsInv, ArgsCopied
      <4>. QED BY <1>0, <4>3 DEF ArgsInv
    <3>5. CASE DeleteEntry(s)
      <4>1. at[s] = "delete" /\ UNCHANGED <<backups, original, clobbered>>
        BY <3>5, Zenon DEF DeleteEntry
      <4>2. ArgsCopied'
        BY <4>1, Zenon DEF ArgsInv, ArgsCopied
      <4>. QED BY <1>0, <4>2 DEF ArgsInv
    <3>6. CASE AddEntry(s)
      <4>1. at[s] = "add" /\ UNCHANGED <<backups, original, clobbered>>
        BY <3>6, Zenon DEF AddEntry
      <4>2. ArgsCopied'
        BY <4>1, Zenon DEF ArgsInv, ArgsCopied
      <4>. QED BY <1>0, <4>2 DEF ArgsInv
    <3>7. CASE BackupKext(s)
      <4>1. UNCHANGED <<bootArgs, backups, original, clobbered>>
        BY <3>7, Zenon DEF BackupKext
      <4>2. \A t \in Sessions : at'[t] \in {"delete", "add"} => at'[t] = at[t]
        BY <1>0, <3>7, Zenon DEF BackupKext, Goto, PlacesOK
      <4>. QED BY <1>0, <4>1, <4>2, ArgsFrame, Zenon
    <3>11. CASE StampKext(s)
      BY <1>0, <3>11, ArgsFrame, Zenon DEF StampKext, Goto, PlacesOK
    <3>8. CASE InstallKext(s)
      BY <1>0, <3>8, ArgsFrame, Zenon DEF InstallKext, Goto, PlacesOK
    <3>9. CASE VerifyKext(s)
      BY <1>0, <3>9, ArgsFrame, Zenon DEF VerifyKext, Advance, Exit, PlacesOK
    <3>10. CASE Stop(s)
      BY <1>0, <3>10, ArgsFrame, Zenon DEF Stop, Exit, PlacesOK
    <3>. QED BY <2>3, <3>1, <3>2, <3>3, <3>4, <3>5, <3>6, <3>7, <3>8, <3>9, <3>10, <3>11,
             Zenon DEF Act
  <2>. QED BY <1>1, <2>1, <2>2, <2>3, Zenon DEF Next
<1>2. CASE UNCHANGED vars
  BY <1>0, <1>2, ArgsFrame DEF vars
<1>. QED BY <1>1, <1>2

\* Whatever scripts run, together or one after the other, and wherever they are
\* stopped, the user's boot-args are the entry or in a copy of the config.
THEOREM OriginalArgsAlwaysKept == Spec => []OriginalArgsKept
<1>1. Init => ArgsInv
  BY DEF Init, ArgsInv, PlacesOK, Places
<1>2. ArgsInv /\ [Next]_vars => ArgsInv'
  BY ArgsInductive
<1>3. ArgsInv => OriginalArgsKept
  BY Zenon DEF ArgsInv, ArgsCopied, OriginalArgsKept
<1>. QED BY <1>1, <1>2, <1>3, PTL DEF Spec

------------------------------------------------------------------------------
KextStates == {"absent", "old", "torn", "build"}

KextTypes ==
  /\ PlacesOK /\ now \in Nat /\ kext \in KextStates /\ original.kext \in {"absent", "old"}
  /\ copy \in [Sessions -> [time : Nat, seen : KextStates]]

LEMMA KextTypesInductive ==
  ASSUME KextTypes, [Next]_vars PROVE KextTypes'
<1>0. PlacesOK'
  BY PlacesInductive, Zenon DEF KextTypes
<1>1. ASSUME UNCHANGED <<now, kext, original, copy>> PROVE KextTypes'
  BY <1>0, <1>1, Zenon DEF KextTypes
<1>2. ASSUME Next PROVE KextTypes'
  <2>1. CASE Tick
    BY <1>0, <2>1 DEF Tick, KextTypes
  <2>2. ASSUME NEW s \in Sessions, NEW job \in Jobs, Launch(s, job) PROVE KextTypes'
    BY <1>1, <2>2, Zenon DEF Launch
  <2>3. ASSUME NEW s \in Sessions, Act(s) PROVE KextTypes'
    <3>1. CASE ReadBootArgs(s) \/ RunOverlay(s) \/ NothingToRemove(s) \/ BackupConfig(s)
               \/ DeleteEntry(s) \/ AddEntry(s) \/ VerifyKext(s) \/ Stop(s)
      BY <1>1, <3>1, Zenon DEF ReadBootArgs, RunOverlay, NothingToRemove, BackupConfig,
        DeleteEntry, AddEntry, VerifyKext, Stop
    <3>2. CASE StampKext(s)
      BY <1>0, <3>2 DEF StampKext, KextTypes
    <3>3. CASE BackupKext(s)
      <4>1. UNCHANGED <<now, kext, original>>
            /\ (copy' = copy \/ copy' = [copy EXCEPT ![s].seen = kext])
        BY <3>3, Zenon DEF BackupKext
      <4>. QED BY <1>0, <4>1 DEF KextTypes
    <3>4. CASE InstallKext(s)
      <4>1. kext' \in KextStates /\ UNCHANGED <<now, original, copy>>
        BY <3>4, Zenon DEF InstallKext, KextStates
      <4>. QED BY <1>0, <4>1, Zenon DEF KextTypes
    <3>. QED BY <2>3, <3>1, <3>2, <3>3, <3>4, Zenon DEF Act
  <2>. QED BY <1>2, <2>1, <2>2, <2>3, Zenon DEF Next
<1>3. CASE UNCHANGED vars
  BY <1>1, <1>3, Zenon DEF vars
<1>. QED BY <1>2, <1>3

\* A complete copy of the user's kext exists, unless copies were merged, or there
\* was no kext.
KextCopied ==
  \/ merged = TRUE \/ original.kext = "absent"
  \/ \E b \in kextBackups : b.kext = original.kext

\* The directory a session copies into is its own, and unfinished.
OwnCopies ==
  /\ \A s \in Sessions : at[s] = "copying" =>
       /\ \E b \in kextBackups : b.time = copy[s].time
       /\ \A b \in kextBackups : b.time = copy[s].time => b.kext = "torn"
  /\ \A s, t \in Sessions :
       at[s] = "copying" /\ at[t] = "copying" /\ s # t => copy[s].time # copy[t].time

\* A script that has made its copy and goes on to install relies on it; one that
\* is still copying saw the user's kext if that is still in place.
KextInv ==
  /\ kext = original.kext \/ KextCopied
  /\ \A s \in Sessions : at[s] \in {"install", "installing"} => KextCopied
  /\ \A s \in Sessions :
       at[s] = "copying" /\ kext = original.kext => copy[s].seen = kext
  /\ merged = TRUE \/ OwnCopies

\* Where session t is and what it copies, as far as the invariant tells.
SamePlace(t) ==
  /\ at'[t] \in {"install", "installing"} => at[t] \in {"install", "installing"}
  /\ at'[t] = "copying" => at[t] = "copying" /\ copy'[t] = copy[t]

\* A step that writes neither the kext nor a copy of it.
LEMMA KextFrame ==
  ASSUME KextInv, UNCHANGED <<kext, kextBackups, merged, original>>,
         \A t \in Sessions : SamePlace(t)
  PROVE  KextInv'
<1>1. KextCopied' = KextCopied
  BY Zenon DEF KextCopied
<1>2. ASSUME OwnCopies PROVE OwnCopies'
  <2>1. ASSUME NEW s \in Sessions, at'[s] = "copying"
        PROVE  /\ \E b \in kextBackups : b.time = copy'[s].time
               /\ \A b \in kextBackups : b.time = copy'[s].time => b.kext = "torn"
    <3>1. at[s] = "copying" /\ copy'[s] = copy[s]
      BY <2>1, Zenon DEF SamePlace
    <3>. QED BY <1>2, <3>1, Zenon DEF OwnCopies
  <2>2. ASSUME NEW s \in Sessions, NEW t \in Sessions,
               at'[s] = "copying", at'[t] = "copying", s # t
        PROVE  copy'[s].time # copy'[t].time
    <3>1. /\ at[s] = "copying" /\ copy'[s] = copy[s]
          /\ at[t] = "copying" /\ copy'[t] = copy[t]
      BY <2>2, Zenon DEF SamePlace
    <3>. QED BY <1>2, <2>2, <3>1, Zenon DEF OwnCopies
  <2>. QED BY <2>1, <2>2, Zenon DEF OwnCopies
<1>3. \A t \in Sessions : at'[t] \in {"install", "installing"} => KextCopied
  BY Zenon DEF SamePlace, KextInv
<1>4. \A t \in Sessions :
        at'[t] = "copying" /\ kext = original.kext => copy'[t].seen = kext
  BY Zenon DEF SamePlace, KextInv
<1>. QED BY <1>1, <1>2, <1>3, <1>4, Zenon DEF KextInv

LEMMA WithCopyFacts ==
  \A s, c :
         /\ \A b \in kextBackups : b.time # copy[s].time => b \in WithCopy(s, c)
         /\ \A b \in WithCopy(s, c) :
              b \in kextBackups \/ (b.time = copy[s].time /\ b.kext = c)
         /\ \E b \in WithCopy(s, c) : b.time = copy[s].time /\ b.kext = c
<1>. TAKE s, c
<1>. DEFINE e == [time |-> copy[s].time, kext |-> c]
<1>1. e.time = copy[s].time /\ e.kext = c
  BY Zenon
<1>2. WithCopy(s, c) = {b \in kextBackups : b.time # copy[s].time} \union {e}
  BY Zenon DEF WithCopy
<1>. HIDE DEF e
<1>. QED BY <1>1, <1>2, Zenon

\* The copy begins: over another one it is merged.
LEMMA CopyBegins ==
  ASSUME KextTypes, KextInv, NEW s \in Sessions, UNCHANGED <<kext, original>>,
         Goto(s, "copying"), copy' = [copy EXCEPT ![s].seen = kext],
         merged' = (merged \/ \E b \in kextBackups : b.time = copy[s].time),
         kextBackups' = WithCopy(s, "torn")
  PROVE  KextInv'
<1>1. /\ at'[s] = "copying" /\ \A t \in Sessions \ {s} : at'[t] = at[t]
      /\ copy'[s].seen = kext /\ copy'[s].time = copy[s].time
      /\ \A t \in Sessions \ {s} : copy'[t] = copy[t]
  BY DEF Goto, KextTypes, PlacesOK
<1>2. /\ \A b \in kextBackups : b.time # copy[s].time => b \in kextBackups'
      /\ \A b \in kextBackups' :
           b \in kextBackups \/ (b.time = copy[s].time /\ b.kext = "torn")
      /\ \E b \in kextBackups' : b.time = copy[s].time
  BY WithCopyFacts, Zenon
<1>3. KextCopied => KextCopied'
  BY <1>2, Zenon DEF KextCopied
<1>4. ASSUME merged' # TRUE PROVE OwnCopies'
  <2>1. merged # TRUE /\ \A b \in kextBackups : b.time # copy[s].time
    BY <1>4, Zenon
  <2>2. OwnCopies
    BY <2>1, Zenon DEF KextInv
  <2>3. \A t \in Sessions \ {s} :
          at[t] = "copying" => copy[t].time # copy[s].time
    BY <2>1, <2>2, Zenon DEF OwnCopies
  <2>4. ASSUME NEW t \in Sessions, at'[t] = "copying"
        PROVE  /\ \E b \in kextBackups' : b.time = copy'[t].time
               /\ \A b \in kextBackups' : b.time = copy'[t].time => b.kext = "torn"
    <3>1. CASE t = s
      BY <1>1, <1>2, <2>1, <3>1, Zenon
    <3>2. CASE t # s
      <4>1. at[t] = "copying" /\ copy'[t] = copy[t] /\ copy[t].time # copy[s].time
        BY <1>1, <2>3, <2>4, <3>2, Zenon
      <4>. QED BY <1>2, <2>2, <4>1, Zenon DEF OwnCopies
    <3>. QED BY <3>1, <3>2, Zenon
  <2>5. ASSUME NEW t \in Sessions, NEW u \in Sessions, at'[t] = "copying",
               at'[u] = "copying", t # u
        PROVE  copy'[t].time # copy'[u].time
    <3>1. \A v \in Sessions : copy'[v].time = copy[v].time
      BY <1>1, Zenon
    <3>2. CASE t = s
      <4>1. u # s /\ at[u] = "copying" /\ copy[u].time # copy[s].time
        BY <1>1, <2>3, <2>5, <3>2, Zenon
      <4>2. copy'[t].time = copy[s].time /\ copy'[u].time = copy[u].time
        BY <3>1, <3>2, Zenon
      <4>. QED BY <4>1, <4>2, Zenon
    <3>3. CASE u = s
      <4>1. t # s /\ at[t] = "copying" /\ copy[t].time # copy[s].time
        BY <1>1, <2>3, <2>5, <3>3, Zenon
      <4>2. copy'[t].time = copy[t].time /\ copy'[u].time = copy[s].time
        BY <3>1, <3>3, Zenon
      <4>. QED BY <4>1, <4>2, Zenon
    <3>4. CASE t # s /\ u # s
      <4>1. at[t] = "copying" /\ at[u] = "copying"
        BY <1>1, <2>5, <3>4, Zenon
      <4>. QED BY <2>2, <2>5, <3>1, <4>1, Zenon DEF OwnCopies
    <3>. QED BY <3>2, <3>3, <3>4, Zenon
  <2>. QED BY <2>4, <2>5, Zenon DEF OwnCopies
<1>5. \A t \in Sessions : at'[t] \in {"install", "installing"} => KextCopied
  BY <1>1 DEF KextInv
<1>6. \A t \in Sessions :
        at'[t] = "copying" /\ kext = original.kext => copy'[t].seen = kext
  BY <1>1, Zenon DEF KextInv
<1>. QED BY <1>3, <1>4, <1>5, <1>6, Zenon DEF KextInv

\* The copy is done: it is whole if the user's kext is still in place.
LEMMA CopyEnds ==
  ASSUME KextTypes, KextInv, NEW s \in Sessions, at[s] = "copying",
         UNCHANGED <<kext, original, copy, merged>>, Goto(s, "install"),
         NEW c \in Copied(s), kextBackups' = WithCopy(s, c)
  PROVE  KextInv'
<1>1. at'[s] = "install" /\ \A t \in Sessions \ {s} : at'[t] = at[t]
  BY Zenon DEF Goto, KextTypes, PlacesOK
<1>2. /\ \A b \in kextBackups : b.time # copy[s].time => b \in kextBackups'
      /\ \A b \in kextBackups' : b \in kextBackups \/ b.time = copy[s].time
      /\ \E b \in kextBackups' : b.kext = c
  <2>1. PICK d : d = c
    OBVIOUS
  <2>2. kextBackups' = WithCopy(s, d)
    BY <2>1
  <2>3. PICK S : S = WithCopy(s, d)
    OBVIOUS
  <2>4. /\ \A b \in kextBackups : b.time # copy[s].time => b \in S
        /\ \A b \in S : b \in kextBackups \/ (b.time = copy[s].time /\ b.kext = d)
        /\ \E b \in S : b.time = copy[s].time /\ b.kext = d
    BY <2>3, WithCopyFacts, Zenon
  <2>. QED BY <2>1, <2>2, <2>3, <2>4, Zenon
<1>3. CASE merged = TRUE
  BY <1>1, <1>3 DEF KextInv, KextCopied
<1>4. CASE merged # TRUE
  <2>1. OwnCopies /\ c = IF kext = copy[s].seen THEN kext ELSE "torn"
    BY <1>4, Zenon DEF KextInv, Copied
  <2>2. original.kext # "torn"
    BY DEF KextTypes
  <2>3. KextCopied'
    <3>1. CASE kext = original.kext
      <4>1. c = original.kext
        BY <2>1, <3>1, Zenon DEF KextInv
      <4>. QED BY <1>2, <4>1, Zenon DEF KextCopied
    <3>2. CASE original.kext = "absent"
      BY <3>2, Zenon DEF KextCopied
    <3>3. ASSUME NEW b \in kextBackups, b.kext = original.kext PROVE KextCopied'
      <4>1. b.time # copy[s].time
        BY <2>1, <2>2, <3>3, Zenon DEF OwnCopies
      <4>. QED BY <1>2, <3>3, <4>1, Zenon DEF KextCopied
    <3>. QED BY <1>4, <3>1, <3>2, <3>3, Zenon DEF KextInv, KextCopied
  <2>4. \A t \in Sessions : at'[t] = "copying" =>
          at[t] = "copying" /\ t # s /\ copy[t].time # copy[s].time
    BY <1>1, <2>1 DEF OwnCopies
  <2>5. OwnCopies'
    <3>1. ASSUME NEW t \in Sessions, at'[t] = "copying"
          PROVE  /\ \E b \in kextBackups' : b.time = copy[t].time
                 /\ \A b \in kextBackups' : b.time = copy[t].time => b.kext = "torn"
      BY <1>2, <2>1, <2>4, <3>1, Zenon DEF OwnCopies
    <3>2. \A t, u \in Sessions :
            at'[t] = "copying" /\ at'[u] = "copying" /\ t # u => copy[t].time # copy[u].time
      BY <2>1, <2>4, Zenon DEF OwnCopies
    <3>. QED BY <3>1, <3>2, Zenon DEF OwnCopies
  <2>6. \A t \in Sessions :
          at'[t] = "copying" /\ kext = original.kext => copy[t].seen = kext
    BY <2>4, Zenon DEF KextInv
  <2>. QED BY <2>3, <2>5, <2>6, Zenon DEF KextInv
<1>. QED BY <1>3, <1>4

LEMMA KextInductive ==
  ASSUME KextTypes, KextInv, [Next]_vars PROVE KextInv'
<1>0. PlacesOK
  BY Zenon DEF KextTypes
<1>1. ASSUME Next PROVE KextInv'
  <2>1. CASE Tick
    BY <2>1, KextFrame, Zenon DEF Tick, SamePlace
  <2>2. ASSUME NEW s \in Sessions, NEW job \in Jobs, Launch(s, job) PROVE KextInv'
    <3>1. \A t \in Sessions : SamePlace(t)
      BY <1>0, <2>2, Zenon DEF Launch, PlacesOK, SamePlace
    <3>. QED BY <2>2, <3>1, KextFrame, Zenon DEF Launch
  <2>3. ASSUME NEW s \in Sessions, Act(s) PROVE KextInv'
    <3>1. CASE ReadBootArgs(s) \/ RunOverlay(s) \/ NothingToRemove(s) \/ BackupConfig(s)
               \/ DeleteEntry(s) \/ AddEntry(s) \/ VerifyKext(s) \/ Stop(s)
      <4>1. UNCHANGED <<kext, kextBackups, merged, original, copy>>
        BY <3>1, Zenon DEF ReadBootArgs, RunOverlay, NothingToRemove, BackupConfig,
          DeleteEntry, AddEntry, VerifyKext, Stop
      <4>2. \A t \in Sessions : at'[t] \in {"copying", "install", "installing"} => at'[t] = at[t]
        BY <1>0, <3>1, Zenon DEF ReadBootArgs, RunOverlay, NothingToRemove, BackupConfig,
          DeleteEntry, AddEntry, VerifyKext, Stop, Advance, Exit, Goto, PlacesOK
      <4>3. \A t \in Sessions : SamePlace(t)
        BY <4>1, <4>2, Zenon DEF SamePlace
      <4>. QED BY <4>1, <4>3, KextFrame, Zenon
    <3>2. CASE StampKext(s)
      <4>1. UNCHANGED <<kext, kextBackups, merged, original>>
        BY <3>2, Zenon DEF StampKext
      <4>2. /\ at'[s] = "backup" /\ \A t \in Sessions \ {s} : at'[t] = at[t]
            /\ \A t \in Sessions \ {s} : copy'[t] = copy[t]
        BY <3>2 DEF StampKext, Goto, KextTypes, PlacesOK
      <4>3. \A t \in Sessions : SamePlace(t)
        BY <4>2, Zenon DEF SamePlace
      <4>. QED BY <4>1, <4>3, KextFrame, Zenon
    <3>3. CASE BackupKext(s)
      <4>0. UNCHANGED <<kext, original>>
        BY <3>3, Zenon DEF BackupKext
      <4>1. CASE kext = "absent" /\ Goto(s, "install") /\ UNCHANGED <<kextBackups, copy, merged>>
        <5>1. KextCopied
          BY <4>1, Zenon DEF KextInv, KextCopied
        <5>2. KextCopied' = KextCopied
          BY <4>0, <4>1, Zenon DEF KextCopied
        <5>3. \A t \in Sessions : at'[t] = "copying" => at[t] = "copying"
          BY <1>0, <4>1, Zenon DEF Goto, PlacesOK
        <5>4. OwnCopies => OwnCopies'
          BY <4>1, <5>3, Zenon DEF OwnCopies
        <5>. QED BY <4>0, <4>1, <5>1, <5>2, <5>3, <5>4, Zenon DEF KextInv
      <4>2. CASE /\ Goto(s, "copying") /\ copy' = [copy EXCEPT ![s].seen = kext]
                 /\ merged' = (merged \/ \E b \in kextBackups : b.time = copy[s].time)
                 /\ kextBackups' = WithCopy(s, "torn")
        BY <4>0, <4>2, CopyBegins, Zenon
      <4>3. CASE /\ at[s] = "copying" /\ Goto(s, "install") /\ UNCHANGED <<copy, merged>>
                 /\ \E c \in Copied(s) : kextBackups' = WithCopy(s, c)
        BY <4>0, <4>3, CopyEnds, Zenon
      <4>. QED BY <3>3, <4>1, <4>2, <4>3, Zenon DEF BackupKext
    <3>4. CASE InstallKext(s)
      <4>1. at[s] \in {"install", "installing"}
              /\ UNCHANGED <<kextBackups, original, merged, copy>>
        BY <3>4, Zenon DEF InstallKext
      <4>2. KextCopied'
        BY <4>1, Zenon DEF KextInv, KextCopied
      <4>3. kext' # original'.kext
        BY <3>4 DEF InstallKext, KextTypes
      <4>4. \A t \in Sessions : at'[t] = "copying" => at[t] = "copying"
        BY <1>0, <3>4, Zenon DEF InstallKext, Goto, PlacesOK
      <4>5. OwnCopies => OwnCopies'
        BY <4>1, <4>4, Zenon DEF OwnCopies
      <4>. QED BY <4>1, <4>2, <4>3, <4>5, Zenon DEF KextInv
    <3>. QED BY <2>3, <3>1, <3>2, <3>3, <3>4, Zenon DEF Act
  <2>. QED BY <1>1, <2>1, <2>2, <2>3, Zenon DEF Next
<1>2. CASE UNCHANGED vars
  BY <1>2, KextFrame, Zenon DEF vars, SamePlace
<1>. QED BY <1>1, <1>2

\* The kext that was installed before any script survives every update, stopped
\* halfway or not, unless two of them started within one second: it is in place or
\* has a complete copy, however the copying of one and the installing of another
\* interleave.
THEOREM OriginalKextAlwaysKept == Spec => []OriginalKextKept
<1>1. Init => KextTypes /\ KextInv
  BY DEF Init, KextTypes, KextStates, KextInv, OwnCopies, PlacesOK, Places
<1>2. KextTypes /\ KextInv /\ [Next]_vars => (KextTypes /\ KextInv)'
  BY KextTypesInductive, KextInductive
<1>3. KextInv => OriginalKextKept
  BY DEF KextInv, KextCopied, OriginalKextKept
<1>. QED BY <1>1, <1>2, <1>3, PTL DEF Spec

------------------------------------------------------------------------------
\* The entry is missing only for a reason.
EntryInv ==
  /\ PlacesOK
  /\ bootArgs = Missing =>
       \/ original.bootArgs = Missing \/ cut = TRUE
       \/ \E s \in Sessions : at[s] = "add"

\* An entry that is there, even an empty one, is not a missing one.
LEMMA PresentIsNotMissing == \A args : Present(args) # Missing
BY Zenon DEF Present, Missing

LEMMA EntryInductive ==
  ASSUME EntryInv, [Next]_vars PROVE EntryInv'
<1>0. PlacesOK /\ PlacesOK'
  BY PlacesInductive, Zenon DEF EntryInv
<1>1. ASSUME UNCHANGED <<bootArgs, original>>, cut = TRUE => cut' = TRUE,
             \A s \in Sessions : at[s] = "add" => at'[s] = "add"
      PROVE  EntryInv'
  BY <1>0, <1>1 DEF EntryInv
<1>2. ASSUME Next PROVE EntryInv'
  <2>1. CASE Tick
    BY <1>1, <2>1, Zenon DEF Tick
  <2>2. ASSUME NEW s \in Sessions, NEW job \in Jobs, Launch(s, job) PROVE EntryInv'
    BY <1>0, <1>1, <2>2, Zenon DEF Launch, PlacesOK
  <2>3. ASSUME NEW s \in Sessions, Act(s) PROVE EntryInv'
    <3>1. CASE ReadBootArgs(s) \/ RunOverlay(s) \/ NothingToRemove(s)
      BY <1>0, <1>1, <3>1, Zenon DEF ReadBootArgs, RunOverlay, NothingToRemove, Next1,
        Advance, Exit, PlacesOK
    <3>2. CASE BackupConfig(s)
      BY <1>0, <1>1, <3>2, Zenon DEF BackupConfig, Next1, Goto, PlacesOK
    <3>3. CASE DeleteEntry(s)
      <4>1. at'[s] = "add"
        BY <1>0, <3>3, Zenon DEF DeleteEntry, Goto, PlacesOK
      <4>. QED BY <1>0, <4>1, Zenon DEF EntryInv
    <3>4. CASE AddEntry(s)
      <4>1. bootArgs' # Missing
        <5>1. CASE bootArgs = Missing
          BY <3>4, <5>1, PresentIsNotMissing, Zenon DEF AddEntry
        <5>2. CASE bootArgs # Missing
          BY <3>4, <5>2 DEF AddEntry
        <5>. QED BY <5>1, <5>2, Zenon
      <4>. QED BY <1>0, <4>1 DEF EntryInv
    <3>5. CASE StampKext(s) \/ BackupKext(s)
      <4>1. UNCHANGED <<bootArgs, original, cut>>
        BY <3>5, Zenon DEF StampKext, BackupKext
      <4>2. \A t \in Sessions : at[t] = "add" => at'[t] = "add"
        BY <1>0, <3>5, Zenon DEF StampKext, BackupKext, Next1, Goto, PlacesOK
      <4>. QED BY <1>1, <4>1, <4>2, Zenon
    <3>6. CASE InstallKext(s) \/ VerifyKext(s)
      BY <1>0, <1>1, <3>6, Zenon DEF InstallKext, VerifyKext, Goto, Advance, Exit, PlacesOK
    <3>7. CASE Stop(s)
      <4>1. CASE at[s] = "add"
        <5>1. cut' = TRUE
          BY <3>7, <4>1, Zenon DEF Stop
        <5>. QED BY <1>0, <5>1 DEF EntryInv
      <4>2. CASE at[s] # "add"
        <5>1. cut = TRUE => cut' = TRUE
          BY <3>7, Zenon DEF Stop
        <5>2. \A t \in Sessions : at[t] = "add" => at'[t] = "add"
          BY <1>0, <3>7, <4>2, Zenon DEF Stop, Exit, PlacesOK
        <5>3. UNCHANGED <<bootArgs, original>>
          BY <3>7 DEF Stop
        <5>. QED BY <1>1, <5>1, <5>2, <5>3, Zenon
      <4>. QED BY <4>1, <4>2, Zenon
    <3>. QED BY <2>3, <3>1, <3>2, <3>3, <3>4, <3>5, <3>6, <3>7 DEF Act
  <2>. QED BY <1>2, <2>1, <2>2, <2>3 DEF Next
<1>3. CASE UNCHANGED vars
  BY <1>1, <1>3, Zenon DEF vars
<1>. QED BY <1>2, <1>3

\* The boot-args entry a user had goes missing only while a script is between
\* its Delete and its Add, or because one was stopped there.
THEOREM EntryMissingOnlyIfCut == Spec => []MissingOnlyIfCut
<1>1. Init => EntryInv
  BY DEF Init, EntryInv, PlacesOK, Places
<1>2. EntryInv /\ [Next]_vars => EntryInv'
  BY EntryInductive
<1>3. EntryInv => MissingOnlyIfCut
  BY DEF EntryInv, MissingOnlyIfCut
<1>. QED BY <1>1, <1>2, <1>3, PTL DEF Spec

------------------------------------------------------------------------------
\* A set of numbers that is not empty has a least member.
LEMMA LeastMember ==
  ASSUME NEW T \in SUBSET Nat, T # {}
  PROVE  \E m \in T : \A k \in T : m <= k
<1>1. PICK m \in T : \A k \in T : ~(<<k, m>> \in OpToRel(<, Nat))
  BY NatLessThanWellFounded, WFMin, Zenon
<1>2. ASSUME NEW k \in T PROVE ~(k < m)
  BY <1>1, Zenon DEF OpToRel
<1>. QED BY <1>2

\* What is kept of the first n tokens of cur, when f tells it of fewer.
KeptOf(gone, cur1, f, n) ==
  IF n = 0 THEN <<>>
  ELSE IF cur1[n] \in gone THEN f[n - 1] ELSE Append(f[n - 1], cur1[n])

\* f tells what is kept of the first tokens, up to m.
Keeps(A, gone, cur1, f, m) ==
  f \in [0 .. m -> Seq(A)] /\ \A n \in 0 .. m : f[n] = KeptOf(gone, cur1, f, n)

\* Without keeps tokens of the list only.
NoMore(A, q, cur1) ==
  q \in Seq(A) /\ \A i \in 1 .. Len(q) : \E j \in 1 .. Len(cur1) : q[i] = cur1[j]

LEMMA KeepsAll ==
  ASSUME NEW A, NEW gone, NEW cur1 \in Seq(A)
  PROVE  \E f : Keeps(A, gone, cur1, f, Len(cur1))
<1>. DEFINE N == Len(cur1)
            None == {m \in 0 .. N : ~ \E f : Keeps(A, gone, cur1, f, m)}
<1>0. N \in Nat
  OBVIOUS
<1>1. SUFFICES ASSUME None # {} PROVE FALSE
  BY <1>0
<1>2. PICK m \in None : \A k \in None : m <= k
  <2>1. None \in SUBSET Nat
    BY <1>0
  <2>. HIDE DEF None
  <2>. QED BY <1>1, <2>1, LeastMember
<1>3. m \in 0 .. N /\ ~ \E f : Keeps(A, gone, cur1, f, m)
  BY <1>2
<1>. HIDE DEF None
<1>4. CASE m = 0
  <2>1. Keeps(A, gone, cur1, [n \in 0 .. 0 |-> <<>>], 0)
    BY DEF Keeps, KeptOf
  <2>. QED BY <1>3, <1>4, <2>1
<1>5. CASE m # 0
  <2>1. m - 1 \in 0 .. N /\ m - 1 \notin None
    BY <1>0, <1>2, <1>3, <1>5
  <2>2. PICK f : Keeps(A, gone, cur1, f, m - 1)
    BY <2>1, Zenon DEF None
  <2>. DEFINE g == [n \in 0 .. m |-> IF n = m THEN KeptOf(gone, cur1, f, m) ELSE f[n]]
  <2>3. f[m - 1] \in Seq(A) /\ cur1[m] \in A
    BY <1>0, <1>3, <1>5, <2>2 DEF Keeps
  <2>4. KeptOf(gone, cur1, f, m) \in Seq(A)
    BY <1>5, <2>3 DEF KeptOf
  <2>5. g \in [0 .. m -> Seq(A)]
    <3>1. \A n \in 0 .. m : n # m => f[n] \in Seq(A)
      BY <1>0, <1>3, <2>2 DEF Keeps
    <3>. QED BY <2>4, <3>1, Zenon
  <2>6. ASSUME NEW n \in 0 .. m PROVE g[n] = KeptOf(gone, cur1, g, n)
    <3>1. n # 0 => n - 1 \in 0 .. m /\ n - 1 # m
      BY <1>0, <1>3
    <3>2. KeptOf(gone, cur1, g, n) = KeptOf(gone, cur1, f, n)
      BY <3>1, Zenon DEF KeptOf
    <3>3. n # m => f[n] = KeptOf(gone, cur1, f, n)
      BY <1>0, <1>3, <2>2 DEF Keeps
    <3>. QED BY <3>2, <3>3, Zenon
  <2>. HIDE DEF g
  <2>7. Keeps(A, gone, cur1, g, m)
    BY <2>5, <2>6, Zenon DEF Keeps
  <2>. QED BY <1>3, <2>7
<1>. QED BY <1>4, <1>5

\* Without keeps tokens of the list only.
LEMMA WithoutAddsNothing ==
  ASSUME NEW A, NEW gone, NEW cur1 \in Seq(A)
  PROVE  NoMore(A, Without(gone, cur1), cur1)
<1>. DEFINE F(f) == [n \in 0 .. Len(cur1) |->
                      IF n = 0 THEN <<>>
                      ELSE IF cur1[n] \in gone THEN f[n - 1]
                           ELSE Append(f[n - 1], cur1[n])]
            kept == CHOOSE g : g = F(g)
<1>1. Without(gone, cur1) = kept[Len(cur1)]
  BY Zenon DEF Without
<1>2. PICK f : Keeps(A, gone, cur1, f, Len(cur1))
  BY KeepsAll, Zenon
<1>3. f = F(f)
  BY <1>2, Zenon DEF Keeps, KeptOf
<1>4. kept = F(kept)
  BY <1>3, Zenon
<1>. DEFINE N == Len(cur1)
            More == {n \in 0 .. N : ~NoMore(A, kept[n], cur1)}
<1>5. /\ 0 \in 0 .. N /\ N \in 0 .. N /\ N \in Nat
      /\ \A n \in 0 .. N : n # 0 => n - 1 \in 0 .. N /\ n - 1 < n /\ n \in 1 .. N
  OBVIOUS
<1>6. /\ kept[0] = <<>>
      /\ \A n \in 0 .. N : n # 0 =>
           kept[n] = IF cur1[n] \in gone THEN kept[n - 1] ELSE Append(kept[n - 1], cur1[n])
  BY <1>4, <1>5, Zenon
<1>. HIDE DEF kept
<1>7. SUFFICES ASSUME More # {} PROVE FALSE
  BY <1>1, <1>5, Zenon
<1>8. PICK n \in More : \A k \in More : n <= k
  <2>1. More \in SUBSET Nat
    BY <1>5
  <2>. HIDE DEF More
  <2>. QED BY <1>7, <2>1, LeastMember, Zenon
<1>9. n \in 0 .. N /\ ~NoMore(A, kept[n], cur1)
  BY <1>8, Zenon
<1>10. n # 0
  <2>1. NoMore(A, <<>>, cur1)
    BY DEF NoMore
  <2>. QED BY <1>6, <1>9, <2>1, Zenon
<1>11. NoMore(A, kept[n - 1], cur1)
  <2>1. n - 1 \in 0 .. N /\ ~(n <= n - 1)
    BY <1>5, <1>9, <1>10
  <2>. QED BY <1>8, <2>1, Zenon
<1>12. n \in 1 .. Len(cur1) /\ cur1[n] \in A
  BY <1>5, <1>9, <1>10
<1>13. ASSUME NEW q, NoMore(A, q, cur1) PROVE NoMore(A, Append(q, cur1[n]), cur1)
  <2>1. q \in Seq(A)
    BY <1>13, Zenon DEF NoMore
  <2>2. /\ Append(q, cur1[n]) \in Seq(A) /\ Len(Append(q, cur1[n])) = Len(q) + 1
        /\ \A i \in 1 .. Len(q) : Append(q, cur1[n])[i] = q[i]
        /\ Append(q, cur1[n])[Len(q) + 1] = cur1[n]
    BY <1>12, <2>1
  <2>3. \A i \in 1 .. Len(q) + 1 : i \in 1 .. Len(q) \/ i = Len(q) + 1
    BY <2>1
  <2>. QED BY <1>12, <1>13, <2>2, <2>3, Zenon DEF NoMore
<1>. QED BY <1>6, <1>9, <1>10, <1>11, <1>13, Zenon

------------------------------------------------------------------------------
\* A sequence over some set is a list.
LEMMA Lists ==
  /\ \A A : \A q \in Seq(A) : IsList(q)
  /\ \A q : IsList(q) => Len(q) \in Nat
<1>1. ASSUME NEW A, NEW q \in Seq(A) PROVE IsList(q)
  BY DEF IsList
<1>2. ASSUME NEW q, IsList(q) PROVE Len(q) \in Nat
  BY <1>2 DEF IsList
<1>. QED BY <1>1, <1>2

\* A list with one more token, and the tail of a list.
LEMMA ListFacts ==
  ASSUME NEW q, IsList(q)
  PROVE  /\ \A x : /\ IsList(Append(q, x)) /\ Len(Append(q, x)) = Len(q) + 1
                   /\ \A n \in 1 .. Len(q) : Append(q, x)[n] = q[n]
                   /\ Append(q, x)[Len(q) + 1] = x
         /\ q # <<>> => /\ IsList(Tail(q)) /\ Len(Tail(q)) = Len(q) - 1 /\ Len(q) >= 1
                        /\ Head(q) = q[1]
                        /\ \A n \in 1 .. Len(q) - 1 : Tail(q)[n] = q[n + 1]
<1>. DEFINE A == {q[n] : n \in 1 .. Len(q)}
<1>1. q \in Seq(A)
  BY DEF IsList
<1>. HIDE DEF A
<1>2. ASSUME NEW x
      PROVE  /\ IsList(Append(q, x)) /\ Len(Append(q, x)) = Len(q) + 1
             /\ \A n \in 1 .. Len(q) : Append(q, x)[n] = q[n]
             /\ Append(q, x)[Len(q) + 1] = x
  <2>1. q \in Seq(A \cup {x}) /\ x \in A \cup {x}
    BY <1>1
  <2>. DEFINE B == A \cup {x}
  <2>. HIDE DEF B
  <2>2. q \in Seq(B) /\ x \in B
    BY <2>1, Zenon DEF B
  <2>3. /\ Append(q, x) \in Seq(B) /\ Len(Append(q, x)) = Len(q) + 1
        /\ \A n \in 1 .. Len(q) : Append(q, x)[n] = q[n]
        /\ Append(q, x)[Len(q) + 1] = x
    BY <2>2
  <2>. QED BY <2>3, Lists, Zenon
<1>3. ASSUME q # <<>>
      PROVE  /\ IsList(Tail(q)) /\ Len(Tail(q)) = Len(q) - 1 /\ Len(q) >= 1
             /\ Head(q) = q[1]
             /\ \A n \in 1 .. Len(q) - 1 : Tail(q)[n] = q[n + 1]
  <2>1. /\ Tail(q) \in Seq(A) /\ Len(Tail(q)) = Len(q) - 1 /\ Len(q) >= 1
        /\ Head(q) = q[1]
        /\ \A n \in 1 .. Len(q) - 1 : Tail(q)[n] = q[n + 1]
    BY <1>1, <1>3
  <2>. QED BY <2>1, Lists, Zenon
<1>. QED BY <1>2, <1>3, Zenon

LEMMA ConcatFacts ==
  ASSUME NEW q, IsList(q), NEW r, IsList(r)
  PROVE  IsList(q \o r) /\ (Holds(q \o r) => Holds(q) \/ Holds(r))
<1>. DEFINE A == {q[n] : n \in 1 .. Len(q)}
            B == {r[n] : n \in 1 .. Len(r)}
            C == A \cup B
<1>1. q \in Seq(C) /\ r \in Seq(C)
  <2>1. q \in Seq(A) /\ r \in Seq(B)
    BY Zenon DEF IsList
  <2>. HIDE DEF A, B
  <2>. QED BY <2>1
<1>. HIDE DEF C
<1>2. /\ q \o r \in Seq(C) /\ Len(q \o r) = Len(q) + Len(r)
      /\ \A n \in 1 .. Len(q) + Len(r) :
           (q \o r)[n] = IF n <= Len(q) THEN q[n] ELSE r[n - Len(q)]
  BY <1>1
<1>3. \A n \in 1 .. Len(q) + Len(r) :
        \/ n \in 1 .. Len(q) /\ n <= Len(q)
        \/ n - Len(q) \in 1 .. Len(r) /\ ~(n <= Len(q))
  BY <1>1
<1>. QED BY <1>2, <1>3, Lists, Zenon DEF Holds

------------------------------------------------------------------------------
\* The steps of the scripts.
AnEdit(e) ==
  /\ e.do = "edit" /\ IsList(e.args)
  /\ e.how \in {"set", "remove", "disable", "amfi", "exact"}
AStep(e) == e \in {Read, Overlay, Kext} \/ AnEdit(e)

\* An edit that writes the new argument whatever the script has read.
Brings(e) == e.do = "edit" /\ e.how \in {"set", "exact"} /\ Holds(e.args)

\* A list of steps; in it, the kext comes before its argument.
StepList(q)  == IsList(q) /\ \A n \in 1 .. Len(q) : AStep(q[n])
KextFirst(q) ==
  \A n \in 1 .. Len(q) : Brings(q[n]) => \E k \in 1 .. (n - 1) : q[k].do = "kext"

\* What a list of arguments may hold after an edit.
LEMMA NewArgsFacts ==
  ASSUME NEW e, AnEdit(e), NEW c, IsList(c)
  PROVE  /\ IsList(NewArgs(e, c))
         /\ Holds(NewArgs(e, c)) => Holds(c) \/ Brings(e)
<1>0. /\ IsList(e.args) /\ e.do = "edit"
      /\ e.how \in {"set", "remove", "disable", "amfi", "exact"}
  BY Zenon DEF AnEdit
<1>1. ASSUME NEW gone
      PROVE  IsList(Without(gone, c)) /\ (Holds(Without(gone, c)) => Holds(c))
  <2>. DEFINE A == {c[n] : n \in 1 .. Len(c)}
  <2>1. c \in Seq(A)
    BY Zenon DEF IsList
  <2>. HIDE DEF A
  <2>2. NoMore(A, Without(gone, c), c)
    BY <2>1, WithoutAddsNothing, Zenon
  <2>. QED BY <2>2, Lists, Zenon DEF NoMore, Holds
<1>2. Amfi # NewArg
  <2>1. Amfi.name # NewArg.name
    BY DEF Amfi, NewArg, Token
  <2>. QED BY <2>1, Zenon
<1>3. CASE e.how = "set"
  <2>1. NewArgs(e, c) = SetArgs(e.args, c)
    BY <1>3, Zenon DEF NewArgs
  <2>2. NewArgs(e, c) = e.args \/ NewArgs(e, c) = c \o e.args
    BY <2>1, Zenon DEF SetArgs
  <2>3. IsList(c \o e.args) /\ (Holds(c \o e.args) => Holds(c) \/ Holds(e.args))
    BY <1>0, ConcatFacts, Zenon
  <2>. QED BY <1>0, <1>3, <2>2, <2>3, Zenon DEF Brings
<1>4. CASE e.how = "remove"
  BY <1>1, <1>4, Zenon DEF NewArgs
<1>5. CASE e.how = "disable"
  BY <1>1, <1>5, Zenon DEF NewArgs
<1>6. CASE e.how = "amfi"
  <2>. DEFINE w == Without(AmfiIn(c), c)
  <2>1. NewArgs(e, c) = Append(w, Amfi)
    BY <1>6, Zenon DEF NewArgs
  <2>2. IsList(w) /\ (Holds(w) => Holds(c))
    BY <1>1, Zenon
  <2>. HIDE DEF w
  <2>3. /\ IsList(Append(w, Amfi)) /\ Len(Append(w, Amfi)) = Len(w) + 1
        /\ \A i \in 1 .. Len(w) : Append(w, Amfi)[i] = w[i]
        /\ Append(w, Amfi)[Len(w) + 1] = Amfi
    BY <2>2, ListFacts, Zenon
  <2>4. \A i \in 1 .. Len(w) + 1 : i \in 1 .. Len(w) \/ i = Len(w) + 1
    BY <2>2, Lists
  <2>. QED BY <1>2, <2>1, <2>2, <2>3, <2>4, Zenon DEF Holds
<1>7. CASE e.how = "exact"
  BY <1>0, <1>7, Zenon DEF NewArgs, Brings
<1>. QED BY <1>0, <1>3, <1>4, <1>5, <1>6, <1>7, Zenon

\* The arguments of a profile.
LEMMA ProfileFacts ==
  ASSUME NEW p, NEW x
  PROVE  /\ AnEdit(Edit("exact", Profile(p), x))
         /\ Brings(Edit("exact", Profile(p), x)) => p = "amdshmvar"
<1>1. IsList(Profile(p))
  <2>1. \A a, b : <<a, b>> \in Seq({a, b})
    OBVIOUS
  <2>. QED BY <2>1, Lists, Zenon DEF Profile
<1>2. Holds(Profile(p)) => p = "amdshmvar"
  <2>1. /\ Len(Profile(p)) = 2 /\ Profile(p)[1] = Token("keepsyms", "1")
        /\ Profile(p)[2] = Token(p, "1")
    BY DEF Profile
  <2>2. \A n \in 1 .. 2 : n = 1 \/ n = 2
    OBVIOUS
  <2>3. Token("keepsyms", "1").name # NewArg.name /\ Token(p, "1").name = p
          /\ NewArg.name = "amdshmvar"
    BY DEF Token, NewArg
  <2>. QED BY <2>1, <2>2, <2>3, Zenon DEF Holds
<1>3. /\ Edit("exact", Profile(p), x).how = "exact" /\ Edit("exact", Profile(p), x).do = "edit"
      /\ Edit("exact", Profile(p), x).args = Profile(p)
  BY Zenon DEF Edit
<1>. QED BY <1>1, <1>2, <1>3, Zenon DEF Brings, AnEdit

\* A script that can be run is a list of steps with the kext first.
StepsOK(q)  == StepList(q) /\ q # <<>> /\ KextFirst(q)
Harmless(e) == AStep(e) /\ ~Brings(e)

LEMMA ShortLists ==
  /\ \A a : Harmless(a) => StepsOK(<<a>>)
  /\ \A a, b : Harmless(a) /\ Harmless(b) => StepsOK(<<a, b>>)
  /\ \A a, b, c : Harmless(a) /\ Harmless(b) /\ Harmless(c) => StepsOK(<<a, b, c>>)
<1>1. ASSUME NEW a, Harmless(a) PROVE StepsOK(<<a>>)
  <2>. DEFINE q == <<a>>
  <2>1. q \in Seq({a}) /\ q # <<>> /\ Len(q) = 1 /\ q[1] = a /\ \A n \in 1 .. 1 : n = 1
    OBVIOUS
  <2>. HIDE DEF q
  <2>2. StepsOK(q)
    BY <1>1, <2>1, Lists, Zenon DEF StepsOK, KextFirst, Harmless, StepList
  <2>. QED BY <2>2 DEF q
<1>2. ASSUME NEW a, NEW b, Harmless(a), Harmless(b) PROVE StepsOK(<<a, b>>)
  <2>. DEFINE q == <<a, b>>
  <2>1. /\ q \in Seq({a, b}) /\ q # <<>> /\ Len(q) = 2 /\ q[1] = a /\ q[2] = b
        /\ \A n \in 1 .. 2 : n = 1 \/ n = 2
    OBVIOUS
  <2>. HIDE DEF q
  <2>2. StepsOK(q)
    BY <1>2, <2>1, Lists, Zenon DEF StepsOK, KextFirst, Harmless, StepList
  <2>. QED BY <2>2, Zenon DEF q
<1>3. ASSUME NEW a, NEW b, NEW c, Harmless(a), Harmless(b), Harmless(c)
      PROVE  StepsOK(<<a, b, c>>)
  <2>. DEFINE q == <<a, b, c>>
  <2>1. /\ q \in Seq({a, b, c}) /\ q # <<>> /\ Len(q) = 3
        /\ q[1] = a /\ q[2] = b /\ q[3] = c
        /\ \A n \in 1 .. 3 : n = 1 \/ n = 2 \/ n = 3
    OBVIOUS
  <2>. HIDE DEF q
  <2>2. StepsOK(q)
    BY <1>3, <2>1, Lists, Zenon DEF StepsOK, KextFirst, Harmless, StepList
  <2>. QED BY <2>2 DEF q
<1>. QED BY <1>1, <1>2, <1>3, Zenon

\* Scripts that call scripts.
LEMMA Chains ==
  /\ \A a, b : Harmless(a) /\ Harmless(b) => StepsOK(<<a>> \o <<b>>)
  /\ \A a, b, d : Harmless(a) /\ Harmless(b) /\ AStep(d) =>
       StepsOK(((<<a>> \o <<b>>) \o <<Kext>>) \o <<d>>)
<1>1. ASSUME NEW a, NEW b, Harmless(a), Harmless(b) PROVE StepsOK(<<a>> \o <<b>>)
  <2>. DEFINE q == <<a>> \o <<b>>
  <2>1. /\ q \in Seq({a, b}) /\ Len(q) = 2 /\ q # <<>> /\ q[1] = a /\ q[2] = b
        /\ \A n \in 1 .. 2 : n = 1 \/ n = 2
    OBVIOUS
  <2>. HIDE DEF q
  <2>2. StepsOK(q)
    BY <1>1, <2>1, Lists, Zenon DEF StepsOK, KextFirst, Harmless, StepList
  <2>. QED BY <2>2 DEF q
<1>2. ASSUME NEW a, NEW b, NEW d, Harmless(a), Harmless(b), AStep(d)
      PROVE  StepsOK(((<<a>> \o <<b>>) \o <<Kext>>) \o <<d>>)
  <2>. DEFINE k == Kext
              q == ((<<a>> \o <<b>>) \o <<k>>) \o <<d>>
  <2>2. AStep(k) /\ ~Brings(k) /\ k.do = "kext"
    BY DEF AStep, Kext, Brings
  <2>. HIDE DEF k
  <2>1. /\ q \in Seq({a, b, k, d}) /\ q # <<>> /\ Len(q) = 4
        /\ q[1] = a /\ q[2] = b /\ q[3] = k /\ q[4] = d
    OBVIOUS
  <2>0. /\ \A n \in 1 .. 4 : n = 1 \/ n = 2 \/ n = 3 \/ n = 4
        /\ 3 \in 1 .. (4 - 1)
    OBVIOUS
  <2>. HIDE DEF q
  <2>3. IsList(q) /\ \A n \in 1 .. 4 : AStep(q[n])
    BY <1>2, <2>0, <2>1, <2>2, Lists, Zenon DEF Harmless
  <2>4. KextFirst(q)
    BY <1>2, <2>0, <2>1, <2>2, Zenon DEF KextFirst, Harmless
  <2>5. StepsOK(q)
    BY <2>1, <2>3, <2>4, Zenon DEF StepsOK, StepList
  <2>. QED BY <2>5, Zenon DEF q, k
<1>. QED BY <1>1, <1>2, Zenon

LEMMA ScriptsOK ==
  ASSUME GivenByPrepare, NEW job \in Jobs
  PROVE  StepsOK(Steps(job))
<1>1. Harmless(Read) /\ Harmless(Overlay) /\ Harmless(Kext)
  BY DEF Harmless, AStep, Brings, Read, Overlay, Kext
<1>2. \A p, x :
        /\ AStep(Edit("exact", Profile(p), x))
        /\ p # "amdshmvar" => Harmless(Edit("exact", Profile(p), x))
  BY ProfileFacts, Zenon DEF Harmless, AStep
<1>3. ASSUME NEW how \in {"remove", "disable", "amfi"}, NEW q, IsList(q), NEW x
      PROVE  Harmless(Edit(how, q, x))
  <2>1. Edit(how, q, x).how = how /\ Edit(how, q, x).do = "edit" /\ Edit(how, q, x).args = q
    BY Zenon DEF Edit
  <2>2. how \notin {"set", "exact"}
    OBVIOUS
  <2>. QED BY <1>3, <2>1, <2>2, Zenon DEF Harmless, AStep, AnEdit, Brings
<1>4. ASSUME NEW q, NEW x, IsList(q), ~Holds(q) PROVE Harmless(Edit("set", q, x))
  <2>1. Edit("set", q, x).how = "set" /\ Edit("set", q, x).do = "edit"
          /\ Edit("set", q, x).args = q
    BY Zenon DEF Edit
  <2>. QED BY <1>4, <2>1, Zenon DEF Harmless, AStep, AnEdit, Brings
<1>0. IsList(<<>>) /\ \A a : IsList(<<a>>)
  <2>1. <<>> \in Seq({}) /\ \A a : <<a>> \in Seq({a})
    OBVIOUS
  <2>. QED BY <2>1, Lists, Zenon
<1>5. CASE job.script = "disable_efi_amfi_lv_validation"
  <2>1. Steps(job) = <<Read, Edit("disable", <<>>, "remove-boot-arg")>>
    BY <1>5, Zenon DEF Steps, disable_efi_amfi_lv_validation
  <2>. QED BY <1>0, <1>1, <1>3, <2>1, ShortLists, Zenon
<1>6. CASE job.script = "update_efi_kryptonite_kext"
  <2>1. Steps(job) = <<Kext>>
    BY <1>6, Zenon DEF Steps, update_efi_kryptonite_kext
  <2>. QED BY <1>1, <2>1, ShortLists, Zenon
<1>7. CASE job.script = "prepare_amfi"
  <2>1. Steps(job) = <<Read, Overlay, Edit("amfi", <<>>, "bootargs")>>
    BY <1>7, Zenon DEF Steps, prepare_amfi
  <2>. QED BY <1>0, <1>1, <1>3, <2>1, ShortLists, Zenon
<1>8. CASE job.script = "set_efi_boot_args" /\ IsList(job.args) /\ ~Holds(job.args)
  <2>1. Steps(job) = <<Read, Edit("set", job.args, "bootargs")>>
    BY <1>8, Zenon DEF Steps, set_efi_boot_args
  <2>. QED BY <1>1, <1>4, <1>8, <2>1, ShortLists, Zenon
<1>9. CASE job.script = "remove_efi_boot_arg"
  <2>1. Steps(job) = <<Read, Edit("remove", <<job.args[1]>>, "remove-boot-arg")>>
    BY <1>9, Zenon DEF Steps, remove_efi_boot_arg
  <2>. QED BY <1>0, <1>1, <1>3, <2>1, ShortLists, Zenon
<1>10. CASE job.script = "set_efi_boot_args_profile" /\ job.profile # "amdshmvar"
  <2>1. Steps(job) = <<Edit("exact", Profile(job.profile), job.profile)>>
    BY <1>10, Zenon DEF Steps, Exact
  <2>. QED BY <1>2, <1>10, <2>1, ShortLists, Zenon
<1>11. CASE job.script = "prepare_baseline" /\ job.profile # "amdshmvar"
  <2>. DEFINE b == Edit("exact", Profile(job.profile), job.profile)
  <2>1. Steps(job) = <<Overlay>> \o <<b>>
    BY <1>11, Zenon DEF Steps, prepare_baseline, Exact
  <2>2. Harmless(b)
    BY <1>2, <1>11
  <2>. HIDE DEF b
  <2>. QED BY <1>1, <2>1, <2>2, Chains, Zenon
<1>12. CASE job.script = "prepare_validation"
  <2>. DEFINE a == Overlay
              b == Edit("exact", Profile("no_igfxagdc"), "no_igfxagdc")
              d == Edit("exact", Profile(job.profile), job.profile)
  <2>1. Steps(job) = ((<<a>> \o <<b>>) \o <<Kext>>) \o <<d>>
    BY <1>12, Zenon DEF Steps, prepare_validation, prepare_baseline, Exact,
      update_efi_kryptonite_kext
  <2>2. Harmless(a) /\ Harmless(b) /\ AStep(d)
    BY <1>1, <1>2, Zenon
  <2>. HIDE DEF a, b, d
  <2>. QED BY <2>1, <2>2, Chains, Zenon
<1>. QED BY <1>5, <1>6, <1>7, <1>8, <1>9, <1>10, <1>11, <1>12, Zenon DEF GivenByPrepare

------------------------------------------------------------------------------
\* Of a script with the arguments c in hand, the steps q to go, at a: a script
\* past the start of a step is in that step.
ListsOK(c, q, a) ==
  /\ IsList(c) /\ StepList(q)
  /\ a # "idle" => q # <<>>
  /\ a \in {"delete", "add"} => AnEdit(q[1])
  /\ a \in {"backup", "copying", "install", "installing", "verify"} => q[1] = Kext

ListInv ==
  /\ bootArgs = Missing \/ bootArgs = Present(Tokens(bootArgs))
  /\ IsList(Tokens(bootArgs))
  /\ DOMAIN cur = Sessions /\ DOMAIN steps = Sessions
  /\ \A s \in Sessions : ListsOK(cur[s], steps[s], at[s])

\* As long as the kext is the old one, nothing that was read holds the new
\* argument, and in the steps that are left the kext comes before it.
CarriesNot(c, q, a) ==
  ~Holds(c) /\ KextFirst(q) /\ a \notin {"installing", "verify"}

CarryInv ==
  \/ NewKext
  \/ /\ ~Holds(Tokens(bootArgs))
     /\ \A s \in Sessions : CarriesNot(cur[s], steps[s], at[s])

NewArgInv == PlacesOK /\ ListInv /\ CarryInv

\* The steps that are left once one is done.
LEMMA TailFacts ==
  ASSUME NEW q, StepList(q), q # <<>>
  PROVE  /\ StepList(Tail(q)) /\ Head(q) = q[1] /\ AStep(q[1])
         /\ KextFirst(q) /\ q[1].do # "kext" => KextFirst(Tail(q))
<1>. DEFINE r == Tail(q)
<1>1. IsList(q) /\ \A n \in 1 .. Len(q) : AStep(q[n])
  BY Zenon DEF StepList
<1>2. /\ IsList(r) /\ Len(r) = Len(q) - 1 /\ Len(q) >= 1 /\ Head(q) = q[1]
      /\ \A n \in 1 .. Len(q) - 1 : r[n] = q[n + 1]
  BY <1>1, ListFacts
<1>3. Len(q) \in Nat
  BY <1>1, Lists
<1>. HIDE DEF r
<1>4. \A n \in 1 .. Len(r) : n + 1 \in 1 .. Len(q) /\ r[n] = q[n + 1]
  BY <1>2, <1>3
<1>5. ASSUME KextFirst(q), q[1].do # "kext" PROVE KextFirst(r)
  <2>. SUFFICES ASSUME NEW n \in 1 .. Len(r), Brings(r[n])
                PROVE  \E k \in 1 .. (n - 1) : r[k].do = "kext"
    BY Zenon DEF KextFirst
  <2>1. PICK k \in 1 .. ((n + 1) - 1) : q[k].do = "kext"
    BY <1>4, <1>5, Zenon DEF KextFirst
  <2>2. k # 1
    BY <1>5, <2>1, Zenon
  <2>3. k - 1 \in 1 .. (n - 1) /\ k - 1 \in 1 .. Len(r) /\ (k - 1) + 1 = k
    BY <1>2, <1>3, <2>1, <2>2
  <2>4. r[k - 1] = q[k]
    BY <1>4, <2>3
  <2>. QED BY <2>1, <2>3, <2>4, Zenon
<1>6. 1 \in 1 .. Len(q)
  BY <1>2, <1>3
<1>. QED BY <1>1, <1>2, <1>4, <1>5, <1>6 DEF StepList, r

\* A script ends: it has no steps left.
LEMMA NoStepsFacts == StepList(<<>>) /\ KextFirst(<<>>) /\ IsList(<<>>) /\ ~Holds(<<>>)
<1>1. <<>> \in Seq({}) /\ 1 .. Len(<<>>) = {}
  BY SMTT(30)
<1>. QED BY <1>1, Lists, Zenon DEF StepList, KextFirst, Holds

\* What a step of the script in session s leaves of its list.
LEMMA AdvanceFacts ==
  ASSUME PlacesOK, ListInv, NEW s \in Sessions, at[s] # "idle", Advance(s)
  PROVE  /\ DOMAIN steps' = Sessions /\ at'[s] \in {"idle", "step"}
         /\ \A c : IsList(c) => ListsOK(c, steps'[s], at'[s])
         /\ KextFirst(steps[s]) /\ steps[s][1].do # "kext" => KextFirst(steps'[s])
         /\ \A t \in Sessions \ {s} : steps'[t] = steps[t] /\ at'[t] = at[t]
<1>1. StepList(steps[s]) /\ steps[s] # <<>>
  BY Zenon DEF ListInv, ListsOK
<1>2. /\ DOMAIN steps' = Sessions /\ steps'[s] = Tail(steps[s])
      /\ at'[s] = IF Tail(steps[s]) = <<>> THEN "idle" ELSE "step"
      /\ \A t \in Sessions \ {s} : steps'[t] = steps[t] /\ at'[t] = at[t]
  BY DEF Advance, ListInv, PlacesOK
<1>3. /\ StepList(Tail(steps[s]))
      /\ KextFirst(steps[s]) /\ steps[s][1].do # "kext" => KextFirst(Tail(steps[s]))
  BY <1>1, TailFacts, Zenon
<1>4. ASSUME NEW c, IsList(c) PROVE ListsOK(c, steps'[s], at'[s])
  BY <1>2, <1>3, <1>4 DEF ListsOK
<1>. QED BY <1>2, <1>3, <1>4

LEMMA ExitFacts ==
  ASSUME PlacesOK, ListInv, NEW s \in Sessions, Exit(s)
  PROVE  /\ DOMAIN steps' = Sessions /\ at'[s] = "idle" /\ KextFirst(steps'[s])
         /\ \A c : IsList(c) => ListsOK(c, steps'[s], at'[s])
         /\ \A t \in Sessions \ {s} : steps'[t] = steps[t] /\ at'[t] = at[t]
<1>1. /\ DOMAIN steps' = Sessions /\ steps'[s] = <<>> /\ at'[s] = "idle"
      /\ \A t \in Sessions \ {s} : steps'[t] = steps[t] /\ at'[t] = at[t]
  BY Zenon DEF Exit, ListInv, PlacesOK
<1>2. \A c : IsList(c) => ListsOK(c, steps'[s], at'[s])
  BY <1>1, NoStepsFacts DEF ListsOK
<1>. QED BY <1>1, <1>2, NoStepsFacts, Zenon

LEMMA GotoFacts ==
  ASSUME PlacesOK, ListInv, NEW s \in Sessions, NEW place, Goto(s, place)
  PROVE  /\ DOMAIN steps' = Sessions /\ at'[s] = place /\ steps' = steps
         /\ \A t \in Sessions \ {s} : at'[t] = at[t]
BY Zenon DEF Goto, ListInv, PlacesOK

\* A session's first step, by its name.
LEMMA HeadFacts ==
  ASSUME PlacesOK, ListInv, NEW s \in Sessions, at[s] # "idle"
  PROVE  /\ step(s) = steps[s][1] /\ AStep(steps[s][1])
         /\ step(s).do = "edit" => AnEdit(steps[s][1])
         /\ step(s).do = "kext" => steps[s][1] = Kext
<1>1. StepList(steps[s]) /\ steps[s] # <<>>
  BY Zenon DEF ListInv, ListsOK
<1>2. step(s) = steps[s][1] /\ AStep(steps[s][1])
  BY <1>1, TailFacts, Zenon DEF step
<1>3. /\ Read.do \notin {"edit", "kext"} /\ Overlay.do \notin {"edit", "kext"}
      /\ Kext.do # "edit" /\ \A e : AnEdit(e) => e.do # "kext"
  BY DEF Read, Overlay, Kext, AnEdit
<1>. QED BY <1>2, <1>3, Zenon DEF AStep

\* The other sessions' lists are as they were.
LEMMA ListFrame ==
  ASSUME ListInv, NEW s \in Sessions,
         bootArgs' = bootArgs \/ bootArgs' = Missing
           \/ \E a : IsList(a) /\ bootArgs' = Present(a),
         DOMAIN cur' = Sessions, DOMAIN steps' = Sessions,
         ListsOK(cur'[s], steps'[s], at'[s]),
         \A t \in Sessions \ {s} :
           cur'[t] = cur[t] /\ steps'[t] = steps[t] /\ at'[t] = at[t]
  PROVE  ListInv'
<1>1. /\ bootArgs' = Missing \/ bootArgs' = Present(Tokens(bootArgs'))
      /\ IsList(Tokens(bootArgs'))
  <2>1. CASE bootArgs' = bootArgs
    BY <2>1, Zenon DEF ListInv
  <2>2. CASE bootArgs' = Missing
    BY <2>2, NoStepsFacts, Zenon DEF Tokens
  <2>3. ASSUME NEW a, IsList(a), bootArgs' = Present(a)
        PROVE  bootArgs' = Present(Tokens(bootArgs')) /\ IsList(Tokens(bootArgs'))
    <3>1. Present(a)[1] = a
      BY DEF Present
    <3>2. Tokens(bootArgs') = a
      BY <2>3, <3>1, PresentIsNotMissing, Zenon DEF Tokens
    <3>. QED BY <2>3, <3>2, Zenon
  <2>. QED BY <2>1, <2>2, <2>3, Zenon
<1>2. \A t \in Sessions : ListsOK(cur'[t], steps'[t], at'[t])
  BY Zenon DEF ListInv
<1>. QED BY <1>1, <1>2, Zenon DEF ListInv, Tokens, Missing

LEMMA ListInductive ==
  ASSUME GivenByPrepare, PlacesOK, ListInv, [Next]_vars
  PROVE  ListInv'
<1>0. /\ DOMAIN cur = Sessions /\ IsList(Tokens(bootArgs))
      /\ \A s \in Sessions : IsList(cur[s]) /\ ListsOK(cur[s], steps[s], at[s])
  BY Zenon DEF ListInv, ListsOK
<1>1. ASSUME Next PROVE ListInv'
  <2>1. CASE Tick
    BY <2>1, Zenon DEF Tick, ListInv
  <2>2. ASSUME NEW s \in Sessions, NEW job \in Jobs, Launch(s, job) PROVE ListInv'
    <3>1. StepsOK(Steps(job))
      BY ScriptsOK, Zenon
    <3>2. /\ bootArgs' = bootArgs /\ DOMAIN cur' = Sessions /\ DOMAIN steps' = Sessions
          /\ cur'[s] = <<>> /\ steps'[s] = Steps(job) /\ at'[s] = "step"
          /\ \A t \in Sessions \ {s} :
               cur'[t] = cur[t] /\ steps'[t] = steps[t] /\ at'[t] = at[t]
      BY <2>2, Zenon DEF Launch, ListInv, PlacesOK
    <3>3. ListsOK(cur'[s], steps'[s], at'[s])
      BY <3>1, <3>2, NoStepsFacts DEF ListsOK, StepsOK
    <3>. QED BY <3>2, <3>3, ListFrame, Zenon
  <2>3. ASSUME NEW s \in Sessions, Act(s) PROVE ListInv'
    <3>0. ASSUME cur' = cur
          PROVE  DOMAIN cur' = Sessions /\ IsList(cur'[s])
                   /\ \A t \in Sessions : cur'[t] = cur[t]
      BY <1>0, <3>0, Zenon
    <3>1. CASE ReadBootArgs(s)
      <4>1. at[s] # "idle" /\ Advance(s) /\ bootArgs' = bootArgs
        BY <3>1, Zenon DEF ReadBootArgs, Next1
      <4>2. /\ DOMAIN cur' = Sessions /\ cur'[s] = Tokens(bootArgs)
            /\ \A t \in Sessions \ {s} : cur'[t] = cur[t]
        BY <1>0, <3>1, Zenon DEF ReadBootArgs
      <4>. QED BY <1>0, <4>1, <4>2, AdvanceFacts, ListFrame, Zenon
    <3>2. CASE RunOverlay(s)
      <4>1. at[s] # "idle" /\ Advance(s) /\ bootArgs' = bootArgs /\ cur' = cur
        BY <3>2 DEF RunOverlay, Next1
      <4>. QED BY <3>0, <4>1, AdvanceFacts, ListFrame, Zenon
    <3>3. CASE NothingToRemove(s)
      <4>1. Exit(s) /\ bootArgs' = bootArgs /\ cur' = cur
        BY <3>3, Zenon DEF NothingToRemove
      <4>. QED BY <3>0, <4>1, ExitFacts, ListFrame, Zenon
    <3>4. CASE BackupConfig(s)
      <4>1. /\ at[s] # "idle" /\ step(s).do = "edit" /\ Goto(s, "delete")
            /\ bootArgs' = bootArgs /\ cur' = cur
        BY <3>4 DEF BackupConfig, Next1
      <4>2. AnEdit(steps[s][1])
        BY <4>1, HeadFacts, Zenon
      <4>3. DOMAIN steps' = Sessions /\ at'[s] = "delete" /\ steps' = steps
              /\ \A t \in Sessions \ {s} : at'[t] = at[t]
        BY <4>1, GotoFacts, Zenon
      <4>4. ListsOK(cur'[s], steps'[s], at'[s])
        BY <1>0, <4>1, <4>2, <4>3 DEF ListsOK
      <4>. QED BY <3>0, <4>1, <4>3, <4>4, ListFrame, ZenonT(30)
    <3>5. CASE DeleteEntry(s)
      <4>1. /\ at[s] = "delete" /\ Goto(s, "add") /\ cur' = cur
            /\ bootArgs' = bootArgs \/ bootArgs' = Missing
        BY <3>5, Zenon DEF DeleteEntry
      <4>3. DOMAIN steps' = Sessions /\ at'[s] = "add" /\ steps' = steps
              /\ \A t \in Sessions \ {s} : at'[t] = at[t]
        BY <4>1, GotoFacts, Zenon
      <4>4. ListsOK(cur'[s], steps'[s], at'[s])
        BY <1>0, <4>1, <4>3 DEF ListsOK
      <4>. QED BY <3>0, <4>1, <4>3, <4>4, ListFrame, Zenon
    <3>6. CASE AddEntry(s)
      <4>1. at[s] = "add" /\ cur' = cur
        BY <3>6, Zenon DEF AddEntry
      <4>2. AnEdit(steps[s][1]) /\ step(s) = steps[s][1]
        <5>1. at[s] # "idle" /\ at[s] \in {"delete", "add"}
          BY <4>1
        <5>. QED BY <1>0, <5>1, HeadFacts, Zenon DEF ListsOK
      <4>3. IsList(NewArgs(step(s), cur[s]))
        BY <1>0, <4>2, NewArgsFacts, Zenon
      <4>4. CASE bootArgs = Missing
        <5>1. bootArgs' = Present(NewArgs(step(s), cur[s])) /\ Advance(s) /\ at[s] # "idle"
          BY <3>6, <4>1, <4>4 DEF AddEntry
        <5>. QED BY <3>0, <4>1, <4>3, <5>1, AdvanceFacts, ListFrame, ZenonT(30)
      <4>5. CASE bootArgs # Missing
        <5>1. bootArgs' = bootArgs /\ Exit(s)
          BY <3>6, <4>5, Zenon DEF AddEntry
        <5>. QED BY <3>0, <4>1, <5>1, ExitFacts, ListFrame, Zenon
      <4>. QED BY <4>4, <4>5, Zenon
    <3>7. CASE StampKext(s) \/ BackupKext(s)
      <4>1. PICK place \in {"backup", "copying", "install"} : Goto(s, place)
        BY <3>7, Zenon DEF StampKext, BackupKext
      <4>2. /\ at[s] # "idle" /\ bootArgs' = bootArgs /\ cur' = cur
            /\ step(s).do = "kext" \/ at[s] \in {"backup", "copying"}
        BY <3>7 DEF StampKext, BackupKext, Next1
      <4>3. steps[s][1] = Kext
        BY <1>0, <4>2, HeadFacts DEF ListsOK
      <4>4. DOMAIN steps' = Sessions /\ at'[s] = place /\ steps' = steps
              /\ \A t \in Sessions \ {s} : at'[t] = at[t]
        BY <4>1, GotoFacts, Zenon
      <4>5. ListsOK(cur'[s], steps'[s], at'[s])
        BY <1>0, <4>1, <4>2, <4>3, <4>4 DEF ListsOK
      <4>. QED BY <3>0, <4>2, <4>4, <4>5, ListFrame, ZenonT(30)
    <3>8. CASE InstallKext(s)
      <4>1. PICK place \in {"installing", "verify"} :
              /\ at[s] \in {"install", "installing"} /\ Goto(s, place)
              /\ bootArgs' = bootArgs /\ cur' = cur
        BY <3>8, Zenon DEF InstallKext
      <4>2. DOMAIN steps' = Sessions /\ at'[s] = place /\ steps' = steps
              /\ \A t \in Sessions \ {s} : at'[t] = at[t]
        BY <4>1, GotoFacts, Zenon
      <4>3. ListsOK(cur'[s], steps'[s], at'[s])
        BY <1>0, <4>1, <4>2, Zenon DEF ListsOK
      <4>. QED BY <3>0, <4>1, <4>2, <4>3, ListFrame, Zenon
    <3>9. CASE VerifyKext(s)
      <4>1. at[s] # "idle" /\ bootArgs' = bootArgs /\ cur' = cur /\ (Advance(s) \/ Exit(s))
        BY <3>9 DEF VerifyKext
      <4>2. CASE Advance(s)
        BY <3>0, <4>1, <4>2, AdvanceFacts, ListFrame, Zenon
      <4>3. CASE Exit(s)
        BY <3>0, <4>1, <4>3, ExitFacts, ListFrame, Zenon
      <4>. QED BY <4>1, <4>2, <4>3, Zenon
    <3>10. CASE Stop(s)
      <4>1. Exit(s) /\ bootArgs' = bootArgs /\ cur' = cur
        BY <3>10, Zenon DEF Stop
      <4>. QED BY <3>0, <4>1, ExitFacts, ListFrame, Zenon
    <3>. QED BY <2>3, <3>1, <3>2, <3>3, <3>4, <3>5, <3>6, <3>7, <3>8, <3>9, <3>10, Zenon
             DEF Act
  <2>. QED BY <1>1, <2>1, <2>2, <2>3, Zenon DEF Next
<1>2. CASE UNCHANGED vars
  BY <1>2, Zenon DEF vars, ListInv
<1>. QED BY <1>1, <1>2

\* A step of one session, while the kext is the old one before and after it.
LEMMA CarryFrame ==
  ASSUME NEW s \in Sessions,
         NewKext => NewKext',
         ~NewKext /\ ~NewKext' =>
           /\ ~Holds(Tokens(bootArgs'))
           /\ CarriesNot(cur'[s], steps'[s], at'[s])
           /\ \A t \in Sessions \ {s} :
                cur'[t] = cur[t] /\ steps'[t] = steps[t] /\ at'[t] = at[t],
         CarryInv
  PROVE  CarryInv'
<1>1. CASE NewKext \/ NewKext'
  BY <1>1, Zenon DEF CarryInv
<1>2. CASE ~NewKext /\ ~NewKext'
  <2>1. \A t \in Sessions : CarriesNot(cur'[t], steps'[t], at'[t])
    BY <1>2, Zenon DEF CarryInv
  <2>2. ~Holds(Tokens(bootArgs'))
    BY <1>2, Zenon
  <2>. QED BY <2>1, <2>2, Zenon DEF CarryInv, Tokens, Missing
<1>. QED BY <1>1, <1>2

LEMMA CarryInductive ==
  ASSUME GivenByPrepare, PlacesOK, ListInv, CarryInv, [Next]_vars
  PROVE  CarryInv'
<1>0. ASSUME ~NewKext
      PROVE  /\ ~Holds(Tokens(bootArgs))
             /\ \A s \in Sessions :
                  /\ ~Holds(cur[s]) /\ KextFirst(steps[s])
                  /\ at[s] \notin {"installing", "verify"}
  BY <1>0, Zenon DEF CarryInv, CarriesNot
<1>1. kext' = kext => (NewKext' <=> NewKext)
  BY Zenon DEF NewKext
<1>2. DOMAIN cur = Sessions
  BY Zenon DEF ListInv
<1>3. ASSUME Next PROVE CarryInv'
  <2>1. CASE Tick
    <3>1. UNCHANGED <<bootArgs, kext, cur, steps, at>>
      BY <2>1 DEF Tick
    <3>. QED BY <3>1, Zenon DEF CarryInv, NewKext
  <2>2. ASSUME NEW s \in Sessions, NEW job \in Jobs, Launch(s, job) PROVE CarryInv'
    <3>1. KextFirst(Steps(job))
      BY ScriptsOK, Zenon DEF StepsOK
    <3>2. /\ bootArgs' = bootArgs /\ kext' = kext
          /\ cur'[s] = <<>> /\ steps'[s] = Steps(job) /\ at'[s] = "step"
          /\ \A t \in Sessions \ {s} :
               cur'[t] = cur[t] /\ steps'[t] = steps[t] /\ at'[t] = at[t]
      BY <2>2, Zenon DEF Launch, ListInv, PlacesOK
    <3>3. CarriesNot(cur'[s], steps'[s], at'[s])
      BY <3>1, <3>2, NoStepsFacts DEF CarriesNot
    <3>. QED BY <1>0, <1>1, <3>2, <3>3, CarryFrame, Zenon
  <2>3. ASSUME NEW s \in Sessions, Act(s) PROVE CarryInv'
    \* The script ends, or goes on with its next step, which is not a kext step.
    <3>0. /\ Exit(s) => at'[s] = "idle" /\ KextFirst(steps'[s])
                          /\ \A t \in Sessions \ {s} : steps'[t] = steps[t] /\ at'[t] = at[t]
          /\ Advance(s) /\ at[s] # "idle" =>
               /\ at'[s] \in {"idle", "step"}
               /\ KextFirst(steps[s]) /\ steps[s][1].do # "kext" => KextFirst(steps'[s])
               /\ \A t \in Sessions \ {s} : steps'[t] = steps[t] /\ at'[t] = at[t]
          /\ \A place : Goto(s, place) =>
               /\ at'[s] = place /\ steps' = steps
               /\ \A t \in Sessions \ {s} : at'[t] = at[t]
      BY AdvanceFacts, ExitFacts, GotoFacts, Zenon
    <3>1. CASE ReadBootArgs(s)
      <4>1. at[s] # "idle" /\ step(s).do = "read" /\ Advance(s) /\ UNCHANGED <<bootArgs, kext>>
        BY <3>1 DEF ReadBootArgs, Next1
      <4>2. /\ cur'[s] = Tokens(bootArgs)
            /\ \A t \in Sessions \ {s} : cur'[t] = cur[t]
        BY <1>2, <3>1, Zenon DEF ReadBootArgs
      <4>3. steps[s][1].do # "kext"
        BY <4>1, HeadFacts
      <4>4. ~NewKext => CarriesNot(cur'[s], steps'[s], at'[s])
        BY <1>0, <3>0, <4>1, <4>2, <4>3, Zenon DEF CarriesNot
      <4>. QED BY <1>0, <1>1, <3>0, <4>1, <4>2, <4>4, CarryFrame, Zenon
    <3>2. CASE RunOverlay(s)
      <4>1. at[s] # "idle" /\ step(s).do = "overlay" /\ Advance(s)
              /\ UNCHANGED <<bootArgs, kext, cur>>
        BY <3>2, Zenon DEF RunOverlay, Next1
      <4>3. steps[s][1].do # "kext"
        BY <4>1, HeadFacts
      <4>4. ~NewKext => CarriesNot(cur'[s], steps'[s], at'[s])
        BY <1>0, <3>0, <4>1, <4>3, Zenon DEF CarriesNot
      <4>. QED BY <1>0, <1>1, <3>0, <4>1, <4>4, CarryFrame, Zenon
    <3>3. CASE NothingToRemove(s) \/ Stop(s)
      <4>1. Exit(s) /\ UNCHANGED <<bootArgs, kext, cur>>
        BY <3>3, Zenon DEF NothingToRemove, Stop
      <4>2. ~NewKext => CarriesNot(cur'[s], steps'[s], at'[s])
        BY <1>0, <3>0, <4>1, Zenon DEF CarriesNot
      <4>. QED BY <1>0, <1>1, <3>0, <4>1, <4>2, CarryFrame, Zenon
    <3>4. CASE BackupConfig(s)
      <4>1. Goto(s, "delete") /\ UNCHANGED <<bootArgs, kext, cur>>
        BY <3>4, Zenon DEF BackupConfig
      <4>2. ~NewKext => CarriesNot(cur'[s], steps'[s], at'[s])
        BY <1>0, <3>0, <4>1 DEF CarriesNot
      <4>. QED BY <1>0, <1>1, <3>0, <4>1, <4>2, CarryFrame, Zenon
    <3>5. CASE DeleteEntry(s)
      <4>1. /\ Goto(s, "add") /\ UNCHANGED <<kext, cur>>
            /\ bootArgs' = bootArgs \/ bootArgs' = Missing
        BY <3>5, Zenon DEF DeleteEntry
      <4>2. ~NewKext => CarriesNot(cur'[s], steps'[s], at'[s])
        BY <1>0, <3>0, <4>1, Zenon DEF CarriesNot
      <4>3. ~NewKext => ~Holds(Tokens(bootArgs'))
        <5>1. ~Holds(Tokens(Missing))
          BY NoStepsFacts, Zenon DEF Tokens
        <5>. QED BY <1>0, <4>1, <5>1, Zenon
      <4>. QED BY <1>1, <3>0, <4>1, <4>2, <4>3, CarryFrame, Zenon
    <3>6. CASE AddEntry(s)
      <4>1. at[s] = "add" /\ at[s] # "idle" /\ UNCHANGED <<kext, cur>>
        BY <3>6, Zenon DEF AddEntry
      <4>2. AnEdit(steps[s][1]) /\ step(s) = steps[s][1] /\ steps[s][1].do # "kext"
        <5>1. at[s] \in {"delete", "add"}
          BY <4>1
        <5>2. AnEdit(steps[s][1]) /\ step(s) = steps[s][1]
          BY <4>1, <5>1, HeadFacts, Zenon DEF ListInv, ListsOK
        <5>. QED BY <5>2, Zenon DEF AnEdit
      <4>3. CASE bootArgs = Missing
        <5>1. bootArgs' = Present(NewArgs(step(s), cur[s])) /\ Advance(s)
          BY <3>6, <4>3, Zenon DEF AddEntry
        <5>2. ~NewKext => ~Brings(steps[s][1])
          <6>. SUFFICES ASSUME ~NewKext, Brings(steps[s][1]) PROVE FALSE
            BY SMTT(30)
          <6>1. KextFirst(steps[s])
            BY <1>0
          <6>2. IsList(steps[s]) /\ steps[s] # <<>>
            BY <4>1, Zenon DEF ListInv, ListsOK, StepList
          <6>3. 1 \in 1 .. Len(steps[s])
            <7>1. Len(steps[s]) >= 1 /\ Len(steps[s]) \in Nat
              BY <6>2, ListFacts, Lists, Zenon
            <7>. QED BY <7>1
          <6>4. 1 .. (1 - 1) = {}
            OBVIOUS
          <6>. QED BY <6>1, <6>3, <6>4, Zenon DEF KextFirst
        <5>3. ~NewKext => ~Holds(NewArgs(step(s), cur[s]))
          <6>1. IsList(cur[s])
            BY Zenon DEF ListInv, ListsOK
          <6>. QED BY <1>0, <4>2, <5>2, <6>1, NewArgsFacts, Zenon
        <5>4. Tokens(bootArgs') = NewArgs(step(s), cur[s])
          <6>1. \A a : Present(a)[1] = a
            BY DEF Present
          <6>. QED BY <5>1, <6>1, PresentIsNotMissing, Zenon DEF Tokens
        <5>5. ~NewKext => CarriesNot(cur'[s], steps'[s], at'[s])
          BY <1>0, <3>0, <4>1, <4>2, <5>1, Zenon DEF CarriesNot
        <5>6. \A t \in Sessions \ {s} :
                 cur'[t] = cur[t] /\ steps'[t] = steps[t] /\ at'[t] = at[t]
          BY <3>0, <4>1, <5>1, Zenon
        <5>. QED BY <1>1, <4>1, <5>3, <5>4, <5>5, <5>6, CarryFrame, Zenon
      <4>4. CASE bootArgs # Missing
        <5>1. bootArgs' = bootArgs /\ Exit(s)
          BY <3>6, <4>4, Zenon DEF AddEntry
        <5>2. ~NewKext => CarriesNot(cur'[s], steps'[s], at'[s])
          BY <1>0, <3>0, <4>1, <5>1, Zenon DEF CarriesNot
        <5>. QED BY <1>0, <1>1, <3>0, <4>1, <5>1, <5>2, CarryFrame, Zenon
      <4>. QED BY <4>3, <4>4, Zenon
    <3>7. CASE StampKext(s) \/ BackupKext(s)
      <4>1. /\ UNCHANGED <<bootArgs, kext, cur>>
            /\ \E place \in {"backup", "copying", "install"} : Goto(s, place)
        BY <3>7, Zenon DEF StampKext, BackupKext
      <4>2. ~NewKext => CarriesNot(cur'[s], steps'[s], at'[s])
        BY <1>0, <3>0, <4>1 DEF CarriesNot
      <4>3. \A t \in Sessions \ {s} :
               cur'[t] = cur[t] /\ steps'[t] = steps[t] /\ at'[t] = at[t]
        BY <3>0, <4>1, Zenon
      <4>. QED BY <1>0, <1>1, <4>1, <4>2, <4>3, CarryFrame, Zenon
    <3>8. CASE InstallKext(s)
      <4>1. NewKext'
        BY <3>8 DEF InstallKext, NewKext
      <4>. QED BY <4>1, Zenon DEF CarryInv
    <3>9. CASE VerifyKext(s)
      <4>1. kext' = kext /\ at[s] = "verify"
        BY <3>9, Zenon DEF VerifyKext
      <4>2. NewKext
        BY <1>0, <4>1, Zenon
      <4>. QED BY <1>1, <4>1, <4>2, Zenon DEF CarryInv
    <3>. QED BY <2>3, <3>1, <3>2, <3>3, <3>4, <3>5, <3>6, <3>7, <3>8, <3>9, Zenon DEF Act
  <2>. QED BY <1>3, <2>1, <2>2, <2>3, Zenon DEF Next
<1>4. CASE UNCHANGED vars
  <2>1. UNCHANGED <<bootArgs, kext, cur, steps, at>>
    BY <1>4 DEF vars
  <2>. QED BY <2>1, Zenon DEF CarryInv, NewKext
<1>. QED BY <1>3, <1>4

\* The argument of a new build is only there with the new kext, whichever
\* scripts run at once, copy each other's arguments and are stopped: as long as
\* it is not given by hand.
THEOREM NewArgsAlwaysNeedNewKext == GivenByPrepare => (Spec => []NewArgsNeedNewKext)
<1>. SUFFICES ASSUME GivenByPrepare PROVE Spec => []NewArgsNeedNewKext
  OBVIOUS
<1>1. Init => NewArgInv
  <2>. SUFFICES ASSUME Init PROVE NewArgInv
    OBVIOUS
  <2>1. PlacesOK
    BY Zenon DEF Init, PlacesOK, Places
  <2>2. /\ DOMAIN cur = Sessions /\ DOMAIN steps = Sessions
        /\ \A s \in Sessions : cur[s] = <<>> /\ steps[s] = <<>> /\ at[s] = "idle"
    BY DEF Init
  <2>3. \A s \in Sessions : ListsOK(cur[s], steps[s], at[s]) /\ CarriesNot(cur[s], steps[s], at[s])
    BY <2>2, NoStepsFacts, Zenon DEF ListsOK, CarriesNot
  <2>4. /\ bootArgs = Missing \/ bootArgs = Present(Tokens(bootArgs))
        /\ IsList(Tokens(bootArgs)) /\ ~Holds(Tokens(bootArgs))
    <3>1. CASE bootArgs = Missing
      BY <3>1, NoStepsFacts, Zenon DEF Tokens
    <3>2. CASE bootArgs # Missing
      BY <3>2, Zenon DEF Init, GivenByPrepare, Tokens
    <3>. QED BY <3>1, <3>2, Zenon
  <2>. QED BY <2>1, <2>2, <2>3, <2>4, Zenon DEF NewArgInv, ListInv, CarryInv
<1>2. NewArgInv /\ [Next]_vars => NewArgInv'
  BY PlacesInductive, ListInductive, CarryInductive, Zenon DEF NewArgInv
<1>3. NewArgInv => NewArgsNeedNewKext
  BY Zenon DEF NewArgInv, CarryInv, NewArgsNeedNewKext
<1>. QED BY <1>1, <1>2, <1>3, PTL DEF Spec
==============================================================================
