----------------------------- MODULE RootOverlay -----------------------------
(***************************************************************************)
(* The root-overlay scripts of src/Installer, which replace graphics       *)
(* bundles on an offline Sequoia system volume, rebuild its kernel         *)
(* collections and bless a new root snapshot.                              *)
(*                                                                         *)
(* Every script runs under "set -euo pipefail": it is a straight sequence  *)
(* of commands, and stops at the first one that fails.  This module runs   *)
(* such sequences, one script after another, each of which may finish,     *)
(* fail or lose power at any command, with that command half done.  The    *)
(* sequences of the individual scripts are in RootScripts.                 *)
(***************************************************************************)
EXTENDS Naturals, Sequences

CONSTANTS
  Items,       \* bundle paths below the target root
  Protected,   \* those below System/Library; the others are staged copies
  Optional,    \* those the volume may lack at first
  Sources,     \* payload roots
  UserOwned,   \* payload roots whose bundles do not belong to root
  Scripts,
  Program,     \* Program[s]: the commands of script s, in order
  Needs,       \* Needs[s]: the items that must exist before s writes anything
  StashNames,  \* StashNames[s]: AUX_STASH_ITEM_NAMES, or the empty sequence
  StashResults, \* the stashes of auxiliary kexts kmutil may leave (external)
  MaxRuns,     \* bound: script runs
  None

\* One command: what it does, the bundle it does it to, and what it copies.
Step == [op : {"save", "saveBinary", "drop", "plist", "patch", "resign", "verify",
               "chown"},
         item : Items, from : {None}]
        \cup [op : {"put"}, item : Items, from : Sources]
        \cup [op : {"stage"}, item : Items, from : Items]
        \cup [op : {"rebuild", "stash", "bless"}, item : {None}, from : {None}]
Runs == 1 .. MaxRuns

\* What there is at a path: which version, and what was done to it.
Marks    == {"partial", "binaryOnly", "userOwned", "auxiliary", "patched",
             "editedSinceSigned"}
Versions == Sources \cup {"original", "absent"}
Bundle   == [ver : Versions, marks : SUBSET Marks]
Absent   == [ver |-> "absent", marks |-> {}]
Original == [ver |-> "original", marks |-> {}]

Exists(b)      == b.ver # "absent"
Whole(b)       == Exists(b) /\ "partial" \notin b.marks
Mark(b, S)     == [b EXCEPT !.marks = @ \cup S]
Unmark(b, S)   == [b EXCEPT !.marks = @ \ S]
Torn(b)        == Mark(b, {"partial"})
SameBits(b, c) == b.ver = c.ver /\ b.marks \ {"userOwned"} = c.marks \ {"userOwned"}

\* ditto keeps the owner a bundle has in the payload.
Payload(src) == [ver |-> src, marks |-> IF src \in UserOwned THEN {"userOwned"} ELSE {}]

\* Commands that make a backup: of the whole bundle, or of its binary alone.
Saves == {"save", "saveBinary"}
\* Commands that change what is at their item's path.
Writes == {"drop", "put", "stage", "plist", "patch", "resign"}

Stash == [dir : {"missing", "present"}, owner : [Items -> {"none", "user", "root"}]]
NoStash == [dir |-> "missing", owner |-> [i \in Items |-> "none"]]

ASSUME ProgramAssumption == Program \in [Scripts -> Seq(Step)]
ASSUME NonEmptyAssumption == \A s \in Scripts : Program[s] # <<>>
ASSUME ItemAssumption ==
  /\ Protected \subseteq Items /\ Optional \subseteq Items
  /\ Needs \in [Scripts -> SUBSET Items]
  /\ StashNames \in [Scripts -> Seq(Items)]
  /\ StashResults \subseteq Stash
  /\ MaxRuns \in Nat
  /\ None \notin Scripts
  /\ "original" \notin Sources /\ "absent" \notin Sources

\* A program backs a system bundle up before it first writes to it, and only once.
SavesFirst(P, system) ==
  \A k \in 1 .. Len(P) :
    /\ P[k].op \in Writes /\ P[k].item \in system =>
         \E j \in 1 .. k - 1 : P[j].op \in Saves /\ P[j].item = P[k].item
    /\ P[k].op \in Saves =>
         \A j \in 1 .. k - 1 : P[j].op \in Saves => P[j].item # P[k].item

\* Once it has copied an item in, it does not remove or copy it again.
CopiesOnce(P) ==
  \A k \in 1 .. Len(P) :
    P[k].op \in {"drop", "put", "stage"} =>
      \A j \in 1 .. k - 1 : P[j].op \in {"put", "stage"} => P[j].item # P[k].item

\* The snapshot is its last command, nothing is written after the kernel collections
\* have been rebuilt, and a program that rebuilds them blesses.
BlessesLast(P) ==
  \A k \in 1 .. Len(P) :
    /\ P[k].op = "bless" => k = Len(P)
    /\ P[k].op \in Writes \cup {"chown"} => \A j \in 1 .. k - 1 : P[j].op # "rebuild"
    /\ P[k].op = "rebuild" => P[Len(P)].op = "bless"

\* Whatever a program that blesses writes to it also copies in, and what it stages
\* it has copied in before.
CopiesWhatItWrites(P) ==
  /\ (\E k \in 1 .. Len(P) : P[k].op = "bless") =>
       \A k \in 1 .. Len(P) : P[k].op \in Writes =>
         \E j \in 1 .. Len(P) : P[j].op \in {"put", "stage"} /\ P[j].item = P[k].item
  /\ \A k \in 1 .. Len(P) : P[k].op = "stage" =>
       \E j \in 1 .. k - 1 : P[j].op = "put" /\ P[j].item = P[k].from

\* Command j signs its bundle, and no later command edits or replaces the bundle's
\* files but a copy from a payload.
SignsLast(P, j) ==
  /\ P[j].op = "resign"
  /\ \A m \in j + 1 .. Len(P) :
       P[m].op \in {"plist", "patch", "stage"} => P[m].item # P[j].item

\* It normalises owners after it has copied, and if it signs at all, it signs each
\* bundle after the last edit.
FinishesBundles(P) ==
  \A k \in 1 .. Len(P) :
    /\ P[k].op \in {"put", "stage"} =>
         \A j \in 1 .. k - 1 : P[j].op = "chown" => P[j].item # P[k].item
    /\ P[k].op \in {"plist", "patch"} /\ (\E j \in 1 .. Len(P) : P[j].op = "resign") =>
         \E j \in k + 1 .. Len(P) : SignsLast(P, j) /\ P[j].item = P[k].item

ASSUME BackupAssumption == \A s \in Scripts : SavesFirst(Program[s], Protected)
ASSUME CopyAssumption   == \A s \in Scripts : CopiesOnce(Program[s])
ASSUME FinishAssumption == \A s \in Scripts : BlessesLast(Program[s])
ASSUME HealAssumption   == \A s \in Scripts : CopiesWhatItWrites(Program[s])
ASSUME BundleAssumption == \A s \in Scripts : FinishesBundles(Program[s])

VARIABLES
  original,  \* what was on the volume at first
  live,      \* the volume as it is now
  backups,   \* RootPatchBackups/<time stamp>-<script>, one directory per run
  kc, kcRun, \* what the kernel collections were built from, and by which run
  stash,     \* StashedExtensions: no directory, or the bundles and their owners
  snap, snapRun, \* the snapshot the volume boots from, and the run that made it
  scriptOf,  \* the script of each run
  run,       \* the current or last run (0: none)
  pc,        \* its next command
  status     \* "idle", "running", "done", "failed", or "noMatch" when the run ended
             \* at a glob without a match

vars == <<original, live, backups, kc, kcRun, stash, snap, snapRun, scriptOf, run,
          pc, status>>
diskVars == <<original, live, backups, kc, kcRun, stash, snap, snapRun>>

script == scriptOf[run]
step   == Program[script][pc]

Init ==
  /\ original \in {[i \in Items |-> IF i \in S THEN Absent ELSE Original] :
                    S \in SUBSET Optional}
  /\ live = original
  /\ backups = [r \in Runs |-> [i \in Items |-> Absent]]
  /\ kc = original /\ kcRun = 0
  /\ stash = NoStash
  /\ snap = original /\ snapRun = 0
  /\ scriptOf = [r \in 0 .. MaxRuns |-> None]
  /\ run = 0
  /\ pc = 1
  /\ status = "idle"

\* The checks before the first write pass, and so do mkdir and remount_target_rw;
\* a run they stop changes nothing.  The backup directory is new: its name holds
\* the time in seconds.
Startable(s) == \A i \in Needs[s] : Exists(live[i])

\* A script starts its run.
StartRun(s) ==
  /\ status # "running"
  /\ run < MaxRuns
  /\ Startable(s)
  /\ run' = run + 1
  /\ scriptOf' = [scriptOf EXCEPT ![run + 1] = s]
  /\ pc' = 1
  /\ status' = "running"
  /\ UNCHANGED diskVars

\* The command at pc is op, and it succeeds.
Command(op) ==
  /\ status = "running"
  /\ pc <= Len(Program[script])
  /\ step.op = op
  /\ pc' = pc + 1
  /\ status' = IF pc = Len(Program[script]) THEN "done" ELSE "running"
  /\ UNCHANGED <<original, scriptOf, run>>

\* What the backup of command c holds.
BackupOf(c) ==
  IF c.op = "saveBinary" THEN Mark(live[c.item], {"binaryOnly"}) ELSE live[c.item]

\* Mutation: every run uses the same backup directory.
SaveOneDirectory ==
  /\ \E op \in Saves : Command(op)
  /\ backups' = IF Exists(live[step.item])
                  THEN [backups EXCEPT ![1][step.item] = BackupOf(step)]
                  ELSE backups
  /\ UNCHANGED <<live, kc, kcRun, stash, snap, snapRun>>

\* ditto of the installed bundle, or cp of its binary, into this run's backup
\* directory.
Save ==
  /\ \E op \in Saves : Command(op)
  /\ backups' = IF Exists(live[step.item])
                  THEN [backups EXCEPT ![run][step.item] = BackupOf(step)]
                  ELSE backups
  /\ UNCHANGED <<live, kc, kcRun, stash, snap, snapRun>>

SetLive(i, b) ==
  /\ live' = [live EXCEPT ![i] = b]
  /\ UNCHANGED <<backups, kc, kcRun, stash, snap, snapRun>>

\* rm -rf.
Drop == Command("drop") /\ SetLive(step.item, Absent)

\* ditto of a payload bundle, with the owner it has there.
Put ==
  /\ Command("put")
  /\ SetLive(step.item, Payload(step.from))

\* ditto of an installed bundle into Library/Extensions.
Stage == Command("stage") /\ SetLive(step.item, live[step.from])

\* set_osbundle_required; the bundle has not been signed since.
SetPlist ==
  /\ Command("plist")
  /\ SetLive(step.item, Mark(live[step.item], {"auxiliary", "editedSinceSigned"}))

\* The perl or python edit of a binary; it stops unless it finds the bytes it expects.
PatchBinary ==
  /\ Command("patch")
  /\ SetLive(step.item, Mark(live[step.item], {"patched", "editedSinceSigned"}))

\* Mutation: a signature that fails does not stop the script.
ResignUnchecked ==
  /\ Command("resign")
  /\ \/ SetLive(step.item, Unmark(live[step.item], {"editedSinceSigned"}))
     \/ UNCHANGED <<live, backups, kc, kcRun, stash, snap, snapRun>>

\* resign_bundle_adhoc.
Resign ==
  /\ Command("resign")
  /\ SetLive(step.item, Unmark(live[step.item], {"editedSinceSigned"}))

\* verify_bundle_signature.
Verify ==
  /\ Command("verify")
  /\ Whole(live[step.item]) /\ "editedSinceSigned" \notin live[step.item].marks
  /\ UNCHANGED <<live, backups, kc, kcRun, stash, snap, snapRun>>

\* normalize_bundle_ownership; a missing bundle is skipped.
Chown ==
  /\ Command("chown")
  /\ SetLive(step.item, Unmark(live[step.item], {"userOwned"}))

\* Mutation: the collections are built from the snapshot, not from the volume.
RebuildFromSnapshot ==
  /\ Command("rebuild")
  /\ kc' = snap /\ kcRun' = run
  /\ stash' \in StashResults
  /\ UNCHANGED <<live, backups, snap, snapRun>>

\* kmutil install --update-all, which may also stash auxiliary kexts (external).
Rebuild ==
  /\ Command("rebuild")
  /\ kc' = live /\ kcRun' = run
  /\ stash' \in StashResults
  /\ UNCHANGED <<live, backups, snap, snapRun>>

\* The first of the names that no stashed bundle matches, or the length plus one.
FirstMiss(names) ==
  CHOOSE n \in 1 .. Len(names) + 1 :
    /\ n <= Len(names) => stash.owner[names[n]] = "none"
    /\ \A m \in 1 .. n - 1 : stash.owner[names[m]] # "none"

ChownStash(names) ==
  stash' = [stash EXCEPT !.owner =
              [i \in Items |-> IF \E m \in 1 .. FirstMiss(names) - 1 : names[m] = i
                                 THEN "root" ELSE @[i]]]

\* normalize_stashed_aux_ownership finds a bundle for every name, or no directory.
NormalizeStash ==
  /\ Command("stash")
  /\ stash.dir = "present" => FirstMiss(StashNames[script]) > Len(StashNames[script])
  /\ IF stash.dir = "present" THEN ChownStash(StashNames[script]) ELSE UNCHANGED stash
  /\ UNCHANGED <<live, backups, kc, kcRun, snap, snapRun>>

\* zsh ends a script at a glob that matches nothing: so does the loop over
\* "${stash_root}"/*/"${name}" when the directory holds no such bundle.
StashGlobFails ==
  /\ status = "running"
  /\ pc <= Len(Program[script])
  /\ step.op = "stash"
  /\ stash.dir = "present"
  /\ FirstMiss(StashNames[script]) <= Len(StashNames[script])
  /\ ChownStash(StashNames[script])
  /\ status' = "noMatch"
  /\ UNCHANGED <<original, live, backups, kc, kcRun, snap, snapRun, scriptOf, run, pc>>

\* bless --create-snapshot.
Bless ==
  /\ Command("bless")
  /\ snap' = live /\ snapRun' = run
  /\ UNCHANGED <<live, backups, kc, kcRun, stash>>

\* Mutation: no "set -e": the script goes on after a copy that failed half way.
AbortContinues ==
  /\ Command("put")
  /\ SetLive(step.item, Torn(Payload(step.from)))

\* The command at pc fails, or the machine goes down: it has had no effect or part
\* of it, and the script ends.
Abort ==
  /\ status = "running"
  /\ pc <= Len(Program[script])
  /\ status' = "failed"
  /\ LET i == step.item IN
     \/ UNCHANGED <<live, backups, kc, kcRun, stash>>
     \/ /\ step.op \in Saves /\ Exists(live[i])
        /\ backups' = [backups EXCEPT ![run][i] = Torn(BackupOf(step))]
        /\ UNCHANGED <<live, kc, kcRun, stash>>
     \/ /\ step.op \in {"drop", "patch"} /\ Exists(live[i])
        /\ live' = [live EXCEPT ![i] = Torn(@)]
        /\ UNCHANGED <<backups, kc, kcRun, stash>>
     \/ /\ step.op = "put"
        /\ live' = [live EXCEPT ![i] = Torn(Payload(step.from))]
        /\ UNCHANGED <<backups, kc, kcRun, stash>>
     \/ /\ step.op = "stage" /\ Exists(live[step.from])
        /\ live' = [live EXCEPT ![i] = Torn(live[step.from])]
        /\ UNCHANGED <<backups, kc, kcRun, stash>>
     \/ /\ step.op = "rebuild"
        /\ kc' = [x \in Items |-> Torn(live[x])] /\ kcRun' = run
        /\ UNCHANGED <<live, backups, stash>>
  /\ UNCHANGED <<original, snap, snapRun, scriptOf, run, pc>>

Execute ==
  \/ Save \/ Drop \/ Put \/ Stage \/ SetPlist \/ PatchBinary \/ Resign \/ Verify
  \/ Chown \/ Rebuild \/ NormalizeStash \/ StashGlobFails \/ Bless

Next == (\E s \in Scripts : StartRun(s)) \/ Execute \/ Abort

Spec == Init /\ [][Next]_vars

-----------------------------------------------------------------------------
(* Properties.                                                             *)

VolumeTypeOK ==
  /\ original \in [Items -> Bundle] /\ live \in [Items -> Bundle]
  /\ backups \in [Runs -> [Items -> Bundle]]
  /\ kc \in [Items -> Bundle] /\ snap \in [Items -> Bundle]
  /\ stash \in Stash
RunTypeOK ==
  /\ run \in 0 .. MaxRuns /\ kcRun \in 0 .. run /\ snapRun \in 0 .. run
  /\ scriptOf \in [0 .. MaxRuns -> Scripts \cup {None}]
  /\ \A r \in 1 .. run : scriptOf[r] \in Scripts
  /\ pc \in Nat
  /\ status \in {"idle", "running", "done", "failed", "noMatch"}
  /\ status = "running" => run # 0 /\ pc \in 1 .. Len(Program[script])

\* The volume, the backups, the collections and the snapshot hold bundles, and the
\* program counter stays within the script that runs.
TypeOK == VolumeTypeOK /\ RunTypeOK

\* A script backs up only the binary of bundle i: the Python patch of AppleGVA.
BinaryOnly(i) ==
  \E s \in Scripts : \E k \in 1 .. Len(Program[s]) :
    Program[s][k].op = "saveBinary" /\ Program[s][k].item = i

\* A backup directory holds bundle i as it was at first, or, where a script saves no
\* more than that, its binary.
InBackup(i) ==
  \E r \in Runs :
    \/ SameBits(backups[r][i], original[i])
    \/ SameBits(backups[r][i], Mark(original[i], {"binaryOnly"})) /\ BinaryOnly(i)

\* Whatever scripts are run, in whatever order, and wherever they fail or lose
\* power: each system bundle that was on the volume before the first of them is
\* still there, or is whole in one of the backup directories.  Of AppleGVA it may be
\* the binary alone: the seal of the framework, which the script signs anew, is in
\* no backup when that script was the first to change it.
OriginalsRecoverable ==
  \A i \in Protected :
    Exists(original[i]) => SameBits(live[i], original[i]) \/ InBackup(i)

\* A snapshot is only ever blessed with every bundle its script copies in whole, in
\* the version of the payload the script names.
SnapshotComplete ==
  snapRun # 0 =>
    \A k \in 1 .. Len(Program[scriptOf[snapRun]]) :
      LET c == Program[scriptOf[snapRun]][k]
      IN c.op = "put" => Whole(snap[c.item]) /\ snap[c.item].ver = c.from

WritesItem(s, i) ==
  \E k \in 1 .. Len(Program[s]) : Program[s][k].op \in Writes /\ Program[s][k].item = i

\* Running a script again until it succeeds heals what its failed runs left: a
\* half-written bundle is only ever blessed if a failed run of another script left it.
TornOnlyFromOthers ==
  \A i \in Items :
    "partial" \in snap[i].marks =>
      \E r \in 1 .. snapRun - 1 :
        /\ scriptOf[r] # scriptOf[snapRun]
        /\ WritesItem(scriptOf[r], i)

Rebuilds(s) == \E k \in 1 .. Len(Program[s]) : Program[s][k].op = "rebuild"

\* A command of the script changes bundle i or its owner.
Touches(s, i) ==
  \E k \in 1 .. Len(Program[s]) :
    Program[s][k].op \in Writes \cup {"chown"} /\ Program[s][k].item = i

\* The runs after the one that built the collections, up to the one that made the
\* snapshot, or the other way round.
RunsBetween == (kcRun + 1 .. snapRun) \cup (snapRun + 1 .. kcRun)

\* When a script that rebuilds the kernel collections has run to its end, they were
\* built from exactly what the volume boots, and the snapshot of such a script never
\* has collections from an earlier run.  A run that ends between rebuild and bless
\* leaves the old snapshot with newer collections, and a script that only blesses a
\* new snapshot with old ones: they then differ in no bundle that the runs in between
\* do not change.
CollectionsMatchSnapshot ==
  /\ status = "done" /\ Rebuilds(script) => kc = snap
  /\ snapRun # 0 /\ Rebuilds(scriptOf[snapRun]) => kcRun >= snapRun
  /\ kcRun = snapRun => kc = snap
  /\ \A i \in Items :
       kc[i] \notin {snap[i], Torn(snap[i])} =>
         \E q \in RunsBetween : Touches(scriptOf[q], i)

EditsSigned(s) ==
  \A k \in 1 .. Len(Program[s]) :
    LET c == Program[s][k]
    IN c.op \in {"plist", "patch"} => "editedSinceSigned" \notin snap[c.item].marks

Resigns(s) == \E k \in 1 .. Len(Program[s]) : Program[s][k].op = "resign"

\* A snapshot is only ever blessed with the script's work on its bundles finished:
\* what it normalises is owned by root, also when the payload had another owner,
\* and a script that re-signs leaves no bundle edited after its signature.
SnapshotFinished ==
  snapRun # 0 =>
    /\ Resigns(scriptOf[snapRun]) => EditsSigned(scriptOf[snapRun])
    /\ \A k \in 1 .. Len(Program[scriptOf[snapRun]]) :
         LET c == Program[scriptOf[snapRun]][k]
         IN c.op = "chown" => "userOwned" \notin snap[c.item].marks
=============================================================================
