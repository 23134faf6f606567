-------------------------- MODULE RootOverlayProofs --------------------------
(* Safety of the root-overlay scripts, for any scripts that keep the       *)
(* discipline RootOverlay assumes of them, any bundles and any number of   *)
(* runs.                                                                   *)
EXTENDS RootOverlay, TLAPS

-----------------------------------------------------------------------------
(* Type correctness.                                                       *)

\* Marking a bundle, removing a mark and copying a payload yield bundles.
LEMMA BundleType ==
  /\ Absent \in Bundle /\ Original \in Bundle
  /\ \A src \in Sources : Payload(src) \in Bundle
  /\ \A b \in Bundle : \A S \in SUBSET Marks :
       Mark(b, S) \in Bundle /\ Unmark(b, S) \in Bundle
  /\ \A b \in Bundle : Torn(b) \in Bundle
<1>1. \A b \in Bundle : \A S \in SUBSET Marks :
        Mark(b, S) \in Bundle /\ Unmark(b, S) \in Bundle
  BY DEF Mark, Unmark, Bundle
<1>2. {"partial"} \in SUBSET Marks
  BY DEF Marks
<1>3. \A b \in Bundle : Torn(b) \in Bundle
  BY <1>1, <1>2 DEF Torn
<1>4. \A src \in Sources : Payload(src) \in Bundle
  BY DEF Payload, Bundle, Versions, Marks
<1> QED
  BY <1>1, <1>3, <1>4 DEF Absent, Original, Bundle, Versions

\* What the command at pc names.
LEMMA StepType ==
  ASSUME RunTypeOK, status = "running"
  PROVE  /\ script \in Scripts /\ run \in Runs
         /\ pc \in 1 .. Len(Program[script]) /\ Len(Program[script]) \in Nat
         /\ step \in Step
         /\ step.op \in Writes \cup Saves \cup {"verify", "chown"} => step.item \in Items
         /\ step.op = "put" => step.from \in Sources
         /\ step.op = "stage" => step.from \in Items
<1>1. script \in Scripts /\ run \in Runs /\ pc \in 1 .. Len(Program[script])
  BY ItemAssumption DEF RunTypeOK, script, Runs
<1>2. Program[script] \in Seq(Step)
  BY <1>1, ProgramAssumption
<1>3. step \in Step /\ Len(Program[script]) \in Nat
  BY <1>1, <1>2 DEF step
<1> HIDE DEF step
<1> QED
  BY <1>1, <1>3 DEF Step, Writes, Saves

\* The initial state is well typed.
LEMMA InitType == Init => TypeOK
<1> SUFFICES ASSUME Init PROVE TypeOK
  OBVIOUS
<1>1. original \in [Items -> Bundle]
  BY BundleType DEF Init
<1>2. [i \in Items |-> Absent] \in [Items -> Bundle]
  BY BundleType
<1>3. NoStash \in Stash
  BY DEF NoStash, Stash
<1>4. VolumeTypeOK
  BY <1>1, <1>2, <1>3 DEF Init, VolumeTypeOK
<1>5. RunTypeOK
  BY ItemAssumption DEF Init, RunTypeOK
<1> QED
  BY <1>4, <1>5 DEF TypeOK

\* A command that succeeds keeps the run well typed.
LEMMA CommandType ==
  ASSUME RunTypeOK, NEW op, Command(op), kcRun' \in 0 .. run, snapRun' \in 0 .. run
  PROVE  RunTypeOK'
<1>1. script \in Scripts /\ pc \in 1 .. Len(Program[script])
      /\ Len(Program[script]) \in Nat /\ run \in Runs
  BY StepType DEF Command
<1>2. script' = script
  BY DEF Command, script
<1>3. status' = "running" => pc' \in 1 .. Len(Program[script])
  BY <1>1 DEF Command
<1> HIDE DEF script
<1> QED
  BY <1>1, <1>2, <1>3 DEF Command, RunTypeOK, Runs

\* Writing a bundle to a path keeps the volume well typed.
LEMMA SetLiveType ==
  ASSUME VolumeTypeOK, NEW i \in Items, NEW b \in Bundle, SetLive(i, b),
         UNCHANGED original
  PROVE  VolumeTypeOK'
BY DEF VolumeTypeOK, SetLive

\* Normalising the owners keeps the stash well typed.
LEMMA ChownStashType ==
  ASSUME stash \in Stash, NEW names, ChownStash(names)
  PROVE  stash' \in Stash
<1> DEFINE o == [i \in Items |-> IF \E m \in 1 .. FirstMiss(names) - 1 : names[m] = i
                                   THEN "root" ELSE stash.owner[i]]
<1>1. o \in [Items -> {"none", "user", "root"}]
  BY DEF Stash
<1>2. stash' = [stash EXCEPT !.owner = o]
  BY DEF ChownStash
<1> HIDE DEF o
<1> QED
  BY <1>1, <1>2 DEF Stash

\* A backup is a bundle.
LEMMA BackupType ==
  ASSUME VolumeTypeOK, step.item \in Items
  PROVE  BackupOf(step) \in Bundle
<1>1. live[step.item] \in Bundle /\ {"binaryOnly"} \in SUBSET Marks
  BY DEF VolumeTypeOK, Marks
<1> QED
  BY <1>1, BundleType DEF BackupOf

\* Every step keeps the state well typed.
LEMMA NextType == TypeOK /\ [Next]_vars => TypeOK'
<1> SUFFICES ASSUME TypeOK, [Next]_vars PROVE TypeOK'
  OBVIOUS
<1> USE DEF TypeOK
<1>1. ASSUME NEW s \in Scripts, StartRun(s) PROVE TypeOK'
  <2>1. VolumeTypeOK'
    BY <1>1 DEF StartRun, diskVars, VolumeTypeOK
  <2>2. run' = run + 1 /\ run + 1 \in 1 .. MaxRuns /\ script' = s
    BY <1>1, ItemAssumption DEF StartRun, RunTypeOK, script
  <2>3. Program[s] \in Seq(Step) /\ Len(Program[s]) \in Nat /\ Program[s] # <<>>
    BY ProgramAssumption, NonEmptyAssumption
  <2>4. pc' \in 1 .. Len(Program[script'])
    BY <1>1, <2>2, <2>3 DEF StartRun
  <2>5. \A r \in 1 .. run + 1 : scriptOf'[r] \in Scripts
    BY <1>1, <2>2, ItemAssumption DEF StartRun, RunTypeOK
  <2>6. RunTypeOK'
    BY <1>1, <2>2, <2>4, <2>5, ItemAssumption DEF StartRun, RunTypeOK, diskVars
  <2> QED
    BY <2>1, <2>6
<1>2. CASE Save
  <2>0. PICK op \in Saves : Command(op)
    BY <1>2, Zenon DEF Save
  <2>1. step.item \in Items /\ run \in Runs
    BY <2>0, StepType DEF Command
  <2>2. backups' \in [Runs -> [Items -> Bundle]]
    <3>1. BackupOf(step) \in Bundle
      BY <2>1, BackupType
    <3> QED
      BY <1>2, <2>1, <3>1, Zenon DEF Save, VolumeTypeOK
  <2>3. VolumeTypeOK'
    BY <1>2, <2>0, <2>2, Zenon DEF Save, Command, VolumeTypeOK
  <2>4. RunTypeOK'
    BY <1>2, <2>0, CommandType, Zenon DEF Save, RunTypeOK
  <2> QED
    BY <2>3, <2>4
<1>3. ASSUME NEW op \in Writes \cup {"chown"}, Command(op),
             NEW b \in Bundle, SetLive(step.item, b)
      PROVE  TypeOK'
  <2>1. step.item \in Items
    BY <1>3, StepType DEF Command
  <2>2. VolumeTypeOK'
    BY <1>3, <2>1, SetLiveType DEF Command
  <2>3. RunTypeOK'
    BY <1>3, CommandType DEF SetLive, RunTypeOK
  <2> QED
    BY <2>2, <2>3
<1>4. status = "running" =>
        /\ step.op \in Writes \cup {"chown"} => live[step.item] \in Bundle
        /\ step.op = "put" => Payload(step.from) \in Bundle
        /\ step.op = "stage" => live[step.from] \in Bundle
  BY StepType, BundleType DEF VolumeTypeOK
<1>5. {"auxiliary", "editedSinceSigned"} \in SUBSET Marks
      /\ {"patched", "editedSinceSigned"} \in SUBSET Marks
      /\ {"editedSinceSigned"} \in SUBSET Marks /\ {"userOwned"} \in SUBSET Marks
  BY DEF Marks
<1>6. CASE Drop
  BY <1>3, <1>6, BundleType DEF Drop, Writes
<1>7. CASE Put
  BY <1>3, <1>4, <1>7 DEF Put, Writes, Command
<1>8. CASE Stage
  BY <1>3, <1>4, <1>8, Zenon DEF Stage, Writes, Command
<1>9. CASE SetPlist
  BY <1>3, <1>4, <1>5, <1>9, BundleType, Zenon DEF SetPlist, Writes, Command
<1>10. CASE PatchBinary
  BY <1>3, <1>4, <1>5, <1>10, BundleType, Zenon DEF PatchBinary, Writes, Command
<1>11. CASE Resign
  BY <1>3, <1>4, <1>5, <1>11, BundleType, Zenon DEF Resign, Writes, Command
<1>12. CASE Chown
  BY <1>3, <1>4, <1>5, <1>12, BundleType, Zenon DEF Chown, Writes, Command
<1>13. CASE Verify
  BY <1>13, CommandType DEF Verify, VolumeTypeOK, RunTypeOK, Command
<1>14. CASE Rebuild
  <2>1. RunTypeOK'
    BY <1>14, CommandType DEF Rebuild, RunTypeOK
  <2>2. VolumeTypeOK'
    BY <1>14, ItemAssumption DEF Rebuild, Command, VolumeTypeOK
  <2> QED
    BY <2>1, <2>2
<1>15. CASE NormalizeStash
  <2>1. RunTypeOK'
    BY <1>15, CommandType DEF NormalizeStash, RunTypeOK
  <2>2. stash' \in Stash
    BY <1>15, ChownStashType DEF NormalizeStash, VolumeTypeOK
  <2>3. VolumeTypeOK'
    BY <1>15, <2>2 DEF NormalizeStash, Command, VolumeTypeOK
  <2> QED
    BY <2>1, <2>3
<1>16. CASE StashGlobFails
  <2>1. RunTypeOK'
    BY <1>16 DEF StashGlobFails, RunTypeOK
  <2>2. stash' \in Stash
    BY <1>16, ChownStashType DEF StashGlobFails, VolumeTypeOK
  <2>3. VolumeTypeOK'
    BY <1>16, <2>2, Zenon DEF StashGlobFails, VolumeTypeOK
  <2> QED
    BY <2>1, <2>3
<1>17. CASE Bless
  <2>1. RunTypeOK'
    BY <1>17, CommandType DEF Bless, RunTypeOK
  <2>2. VolumeTypeOK'
    BY <1>17 DEF Bless, Command, VolumeTypeOK
  <2> QED
    BY <2>1, <2>2
<1>18. CASE Abort
  <2>1. RunTypeOK'
    BY <1>18 DEF Abort, RunTypeOK
  <2>2. status = "running" /\ original' = original /\ snap' = snap
    BY <1>18 DEF Abort
  <2>3. run \in Runs
    BY <2>2, StepType
  <2>4. step.op \in Writes \cup Saves => step.item \in Items
    BY <2>2, StepType, Zenon
  <2>5. live' \in [Items -> Bundle]
    BY <1>4, <1>18, <2>2, <2>4, BundleType, Zenon DEF Abort, VolumeTypeOK, Writes
  <2>6. backups' \in [Runs -> [Items -> Bundle]]
    <3>1. step.op \in Saves => Torn(BackupOf(step)) \in Bundle
      BY <2>4, BackupType, BundleType, Zenon
    <3> QED
      <4>1. \/ backups' = backups
            \/ /\ step.op \in Saves
               /\ backups' = [backups EXCEPT ![run][step.item] = Torn(BackupOf(step))]
        BY <1>18, Zenon DEF Abort
      <4> QED
        BY <2>3, <2>4, <3>1, <4>1 DEF VolumeTypeOK
  <2>7. kc' \in [Items -> Bundle] /\ stash' = stash
    BY <1>18, BundleType DEF Abort, VolumeTypeOK
  <2> QED
    BY <2>1, <2>2, <2>5, <2>6, <2>7, Zenon DEF VolumeTypeOK
<1>19. CASE UNCHANGED vars
  BY <1>19 DEF vars, VolumeTypeOK, RunTypeOK, script
<1> QED
  BY <1>1, <1>2, <1>6, <1>7, <1>8, <1>9, <1>10, <1>11, <1>12, <1>13, <1>14, <1>15,
     <1>16, <1>17, <1>18, <1>19 DEF Next, Execute

\* The volume, the backups, the collections and the snapshot always hold bundles, and
\* no script runs past its last command.
THEOREM TypeCorrect == Spec => []TypeOK
BY InitType, NextType, PTL DEF Spec

-----------------------------------------------------------------------------
(* The originals can be recovered.                                         *)

\* The script that runs has backed item i up, or tried to.
Saved(i) == \E j \in 1 .. pc - 1 :
              Program[script][j].op \in Saves /\ Program[script][j].item = i

\* The inductive invariant: what a script has saved is in some backup, and the run's
\* own directory holds nothing it has not saved, so no backup is ever overwritten.
RecoveryInv ==
  /\ OriginalsRecoverable
  /\ status = "running" =>
       /\ \A i \in Protected : Saved(i) /\ Exists(original[i]) => InBackup(i)
       /\ \A i \in Items : ~Saved(i) => backups[run][i] = Absent
  /\ \A r \in Runs : r > run => \A i \in Items : backups[r][i] = Absent

\* A command adds to the saved items exactly the one it saves.
LEMMA SavedGrows ==
  ASSUME RunTypeOK, NEW op, Command(op)
  PROVE  \A i : Saved(i)' <=> Saved(i) \/ (op \in Saves /\ step.item = i)
<1>1. pc \in 1 .. Len(Program[script]) /\ Len(Program[script]) \in Nat
  BY StepType DEF Command
<1>2. script' = script /\ pc' = pc + 1 /\ step.op = op
  BY DEF Command, script
<1>3. 1 .. pc' - 1 = (1 .. pc - 1) \cup {pc}
  BY <1>1, <1>2
<1> HIDE DEF script
<1> QED
  BY <1>2, <1>3 DEF Saved, step

\* A step that leaves the backups alone, and changes no system bundle that has not
\* been saved except for its owner, preserves the invariant.
LEMMA WriteRecovery ==
  ASSUME TypeOK, TypeOK', RecoveryInv, UNCHANGED <<backups, original, run>>,
         status = "running",
         \A i \in Protected :
            SameBits(live'[i], live[i]) \/ Saved(i),
         status' = "running" => \A i : Saved(i)' <=> Saved(i)
  PROVE  RecoveryInv'
<1>1. Protected \subseteq Items
  BY ItemAssumption, Zenon
<1>2. \A i : InBackup(i)' <=> InBackup(i)
  BY Zenon DEF InBackup, BinaryOnly
<1>3. OriginalsRecoverable'
  <2> SUFFICES ASSUME NEW i \in Protected, Exists(original[i])
               PROVE  SameBits(live'[i], original[i]) \/ InBackup(i)
    BY <1>2, Zenon DEF OriginalsRecoverable
  <2>1. SameBits(live[i], original[i]) \/ InBackup(i)
    BY Zenon DEF RecoveryInv, OriginalsRecoverable
  <2>2. CASE Saved(i)
    BY <2>2, Zenon DEF RecoveryInv
  <2>3. CASE SameBits(live'[i], live[i])
    BY <2>1, <2>3, Zenon DEF SameBits
  <2> QED
    BY <2>2, <2>3, Zenon
<1>4. status' = "running" =>
        /\ \A i \in Protected : Saved(i)' /\ Exists(original'[i]) => InBackup(i)'
        /\ \A i \in Items : ~Saved(i)' => backups'[run'][i] = Absent
  BY <1>2, Zenon DEF RecoveryInv
<1>5. \A r \in Runs : r > run' => \A i \in Items : backups'[r][i] = Absent
  BY DEF RecoveryInv
<1> QED
  BY <1>3, <1>4, <1>5, Zenon DEF RecoveryInv

\* Removing the mark of the owner changes no bit of a bundle.
LEMMA UnownSameBits ==
  ASSUME NEW b \in Bundle
  PROVE  SameBits(Unmark(b, {"userOwned"}), b) /\ SameBits(b, b)
BY DEF SameBits, Unmark, Bundle

\* Bundle b keeps what the scripts save of the original of i.
Keeps(b, i) ==
  \/ SameBits(b, original[i])
  \/ SameBits(b, Mark(original[i], {"binaryOnly"})) /\ BinaryOnly(i)

LEMMA BackupKeeps == \A i : InBackup(i) <=> \E r \in Runs : Keeps(backups[r][i], i)
BY Zenon DEF InBackup, Keeps

\* An absent bundle keeps nothing of one that exists.
LEMMA AbsentNotOriginal ==
  ASSUME NEW i, original[i] \in Bundle, Exists(original[i])
  PROVE  ~Keeps(Absent, i)
<1>1. Mark(original[i], {"binaryOnly"}).ver = original[i].ver
  BY DEF Mark, Bundle
<1> QED
  BY <1>1, Zenon DEF Keeps, Exists, SameBits, Absent

\* The backup of an original keeps it.
LEMMA BackupOfOriginal ==
  ASSUME TypeOK, status = "running", step.op \in Saves, step.item \in Items,
         SameBits(live[step.item], original[step.item])
  PROVE  Keeps(BackupOf(step), step.item)
<1>1. CASE step.op = "save"
  BY <1>1 DEF BackupOf, Keeps
<1>2. CASE step.op = "saveBinary"
  <2>1. live[step.item] \in Bundle /\ original[step.item] \in Bundle
    BY DEF TypeOK, VolumeTypeOK
  <2>2. SameBits(Mark(live[step.item], {"binaryOnly"}),
                 Mark(original[step.item], {"binaryOnly"}))
    BY <2>1 DEF SameBits, Mark, Bundle
  <2>3. BinaryOnly(step.item)
    <3>1. script \in Scripts /\ pc \in 1 .. Len(Program[script])
      BY StepType DEF TypeOK
    <3> QED
      BY <1>2, <3>1, Zenon DEF BinaryOnly, step
  <2> QED
    BY <1>2, <2>2, <2>3, Zenon DEF BackupOf, Keeps
<1> QED
  BY <1>1, <1>2 DEF Saves

\* The backup of a bundle that has not been saved in this run loses no original.
LEMMA FreshBackup ==
  ASSUME TypeOK, RecoveryInv, status = "running", NEW i \in Items, ~Saved(i),
         NEW b, backups' = [backups EXCEPT ![run][i] = b], original' = original,
         NEW x \in Protected, Exists(original[x]), InBackup(x)
  PROVE  InBackup(x)'
<1>1. PICK r \in Runs : Keeps(backups[r][x], x)
  BY BackupKeeps, Zenon
<1>2. run \in Runs /\ x \in Items
  BY StepType, ItemAssumption DEF TypeOK
<1>3. backups[run][i] = Absent
  BY DEF RecoveryInv
<1>4. ~(r = run /\ x = i)
  BY <1>1, <1>2, <1>3, AbsentNotOriginal, Zenon DEF TypeOK, VolumeTypeOK
<1>5. backups'[r][x] = backups[r][x]
  BY <1>2, <1>4, Zenon DEF TypeOK, VolumeTypeOK
<1> QED
  BY <1>1, <1>5, Zenon DEF InBackup, Keeps, BinaryOnly

\* Each item is saved once.
LEMMA SaveOnce ==
  ASSUME RunTypeOK, status = "running", step.op \in Saves
  PROVE  step.item \in Items /\ ~Saved(step.item)
<1>1. script \in Scripts /\ pc \in 1 .. Len(Program[script]) /\ step.item \in Items
  BY StepType, Zenon
<1> QED
  BY <1>1, BackupAssumption DEF SavesFirst, Saved, step

\* A script saves a system bundle before it writes to it.
LEMMA SavedBeforeWrite ==
  ASSUME RunTypeOK, status = "running", step.op \in Writes, step.item \in Protected
  PROVE  Saved(step.item)
<1>1. script \in Scripts /\ pc \in 1 .. Len(Program[script])
  BY StepType, Zenon
<1> QED
  BY <1>1, BackupAssumption DEF SavesFirst, Saved, step

\* The invariant holds at first.
LEMMA InitRecovery == Init => RecoveryInv
<1> SUFFICES ASSUME Init PROVE RecoveryInv
  OBVIOUS
<1>1. TypeOK
  BY InitType, Zenon
<1>2. \A i \in Items : SameBits(live[i], original[i])
  BY <1>1, UnownSameBits, Zenon DEF Init, TypeOK, VolumeTypeOK
<1>3. OriginalsRecoverable
  BY <1>2, ItemAssumption DEF OriginalsRecoverable
<1> QED
  BY <1>3 DEF Init, RecoveryInv

\* Every step preserves it.
LEMMA NextRecovery == TypeOK /\ TypeOK' /\ RecoveryInv /\ [Next]_vars => RecoveryInv'
<1> SUFFICES ASSUME TypeOK, TypeOK', RecoveryInv, [Next]_vars PROVE RecoveryInv'
  OBVIOUS
<1>0. Protected \subseteq Items
  BY ItemAssumption, Zenon
<1>s. \A i \in Items : SameBits(live[i], live[i])
  BY UnownSameBits, Zenon DEF TypeOK, VolumeTypeOK
<1>1. ASSUME NEW s \in Scripts, StartRun(s) PROVE RecoveryInv'
  <2>1. run' = run + 1 /\ run \in 0 .. MaxRuns /\ run + 1 \in Runs /\ MaxRuns \in Nat
    BY <1>1, ItemAssumption DEF StartRun, TypeOK, RunTypeOK, Runs
  <2>2. UNCHANGED <<original, live, backups>> /\ pc' = 1
    BY <1>1, Zenon DEF StartRun, diskVars
  <2>3. OriginalsRecoverable'
    BY <2>2 DEF RecoveryInv, OriginalsRecoverable, InBackup, BinaryOnly
  <2>4. \A i : ~Saved(i)'
    BY <2>2 DEF Saved
  <2>5. \A i \in Items : backups'[run'][i] = Absent
    BY <2>1, <2>2 DEF RecoveryInv
  <2>6. \A r \in Runs : r > run' => \A i \in Items : backups'[r][i] = Absent
    BY <2>1, <2>2 DEF RecoveryInv, Runs
  <2> QED
    BY <2>3, <2>4, <2>5, <2>6, Zenon DEF RecoveryInv
<1>2. CASE Save
  <2>0. PICK i : i = step.item
    OBVIOUS
  <2>1. /\ status = "running" /\ step.op \in Saves /\ Command(step.op)
        /\ UNCHANGED <<original, live, run>>
    BY <1>2, Zenon DEF Save, Command
  <2>2. i \in Items /\ ~Saved(i) /\ run \in Runs
    BY <2>0, <2>1, SaveOnce, StepType DEF TypeOK
  <2>3. \A x : Saved(x)' <=> Saved(x) \/ x = i
    BY <2>0, <2>1, SavedGrows, Zenon DEF TypeOK
  <2>4. \A x \in Protected : Exists(original[x]) /\ InBackup(x) => InBackup(x)'
    <3>1. CASE Exists(live[i])
      BY <1>2, <2>0, <2>1, <2>2, <3>1, FreshBackup, Zenon DEF Save
    <3>2. CASE ~Exists(live[i])
      BY <1>2, <2>0, <2>1, <3>2, Zenon DEF Save, InBackup, BinaryOnly
    <3> QED
      BY <3>1, <3>2
  <2>5. i \in Protected /\ Exists(original[i]) => InBackup(i)'
    <3> SUFFICES ASSUME i \in Protected, Exists(original[i]), ~InBackup(i)
                 PROVE  InBackup(i)'
      BY <2>4
    <3>1. SameBits(live[i], original[i])
      BY Zenon DEF RecoveryInv, OriginalsRecoverable
    <3>2. Exists(live[i])
      BY <3>1, Zenon DEF SameBits, Exists
    <3>3. backups'[run][i] = BackupOf(step)
      BY <1>2, <2>0, <2>2, <3>2, Zenon DEF Save, TypeOK, VolumeTypeOK
    <3> QED
      <4>1. Keeps(BackupOf(step), i)
        BY <2>0, <2>1, <2>2, <3>1, BackupOfOriginal, Zenon
      <4> QED
        BY <2>1, <2>2, <3>3, <4>1, Zenon DEF InBackup, Keeps, BinaryOnly
  <2>6. OriginalsRecoverable'
    BY <2>1, <2>4, Zenon DEF RecoveryInv, OriginalsRecoverable
  <2>7. \A x \in Protected : Saved(x)' /\ Exists(original'[x]) => InBackup(x)'
    BY <2>1, <2>3, <2>4, <2>5, Zenon DEF RecoveryInv
  <2>8. \A x \in Items : x # i => backups'[run][x] = backups[run][x]
    BY <1>2, <2>0, <2>2, Zenon DEF Save, TypeOK, VolumeTypeOK
  <2>9. \A x \in Items : ~Saved(x)' => backups'[run'][x] = Absent
    BY <2>1, <2>3, <2>8 DEF RecoveryInv
  <2>10. \A r \in Runs : r # run => backups'[r] = backups[r]
    BY <1>2, <2>0, <2>2 DEF Save, TypeOK, VolumeTypeOK
  <2>11. \A r \in Runs : r > run => r # run
    BY <2>2 DEF Runs
  <2>12. \A r \in Runs : r > run' => \A x \in Items : backups'[r][x] = Absent
    BY <2>1, <2>10, <2>11, Zenon DEF RecoveryInv
  <2> QED
    BY <2>6, <2>7, <2>9, <2>12 DEF RecoveryInv
<1>3. ASSUME NEW op \in Writes, Command(op), NEW b, SetLive(step.item, b)
      PROVE  RecoveryInv'
  <2>1. status = "running" /\ step.op = op /\ UNCHANGED <<backups, original, run>>
    BY <1>3 DEF Command, SetLive
  <2>2. \A i : Saved(i)' <=> Saved(i)
    BY <1>3, SavedGrows DEF TypeOK, Writes, Saves
  <2>3. \A i \in Items : i # step.item => live'[i] = live[i]
    BY <1>3, Zenon DEF SetLive, TypeOK, VolumeTypeOK
  <2>4. \A i \in Protected : SameBits(live'[i], live[i]) \/ Saved(i)
    BY <1>0, <1>s, <2>1, <2>3, SavedBeforeWrite, Zenon DEF TypeOK
  <2> QED
    BY <2>1, <2>2, <2>4, WriteRecovery
<1>4. CASE Drop \/ Put \/ Stage \/ SetPlist \/ PatchBinary \/ Resign
  BY <1>3, <1>4, Zenon DEF Drop, Put, Stage, SetPlist, PatchBinary, Resign, Writes
<1>5. CASE Chown
  <2>1. status = "running" /\ step.op = "chown" /\ UNCHANGED <<backups, original, run>>
    BY <1>5, Zenon DEF Chown, Command, SetLive
  <2>2. \A i : Saved(i)' <=> Saved(i)
    BY <1>5, SavedGrows DEF Chown, TypeOK, Saves
  <2>3. \A i \in Items : live'[i] = IF i = step.item THEN Unmark(live[i], {"userOwned"})
                                                     ELSE live[i]
    BY <1>5, Zenon DEF Chown, SetLive, TypeOK, VolumeTypeOK
  <2>4. \A i \in Protected : SameBits(live'[i], live[i])
    BY <1>0, <2>3, UnownSameBits DEF TypeOK, VolumeTypeOK
  <2> QED
    BY <2>1, <2>2, <2>4, WriteRecovery
<1>6. CASE Verify \/ Rebuild \/ NormalizeStash \/ Bless
  <2>1. status = "running" /\ UNCHANGED <<live, backups, original, run>>
    BY <1>6, Zenon DEF Verify, Rebuild, NormalizeStash, Bless, Command
  <2>2. \A i : Saved(i)' <=> Saved(i)
    BY <1>6, SavedGrows DEF Verify, Rebuild, NormalizeStash, Bless, TypeOK, Saves
  <2> QED
    BY <1>0, <1>s, <2>1, <2>2, WriteRecovery, Zenon
<1>7. CASE StashGlobFails
  BY <1>0, <1>s, <1>7, WriteRecovery, Zenon DEF StashGlobFails
<1>8. CASE Abort
  <2>1. status = "running" /\ status' = "failed" /\ UNCHANGED <<original, run>>
    BY <1>8, Zenon DEF Abort
  <2>2. CASE backups' = backups
    <3>1. \A i \in Items : live'[i] # live[i] =>
             i = step.item /\ step.op \in Writes
      BY <1>8, Zenon DEF Abort, TypeOK, VolumeTypeOK, Writes
    <3>2. \A i \in Protected : SameBits(live'[i], live[i]) \/ Saved(i)
      BY <1>0, <1>s, <2>1, <3>1, SavedBeforeWrite, Zenon DEF TypeOK
    <3> QED
      BY <2>1, <2>2, <3>2, WriteRecovery, Zenon
  <2>3. CASE /\ step.op \in Saves /\ live' = live
             /\ backups' = [backups EXCEPT ![run][step.item] = Torn(BackupOf(step))]
    <3>1. step.item \in Items /\ ~Saved(step.item) /\ run \in Runs
      BY <2>1, <2>3, SaveOnce, StepType DEF TypeOK
    <3>2. \A x \in Protected : Exists(original[x]) /\ InBackup(x) => InBackup(x)'
      BY <2>1, <2>3, <3>1, FreshBackup, Zenon
    <3>3. OriginalsRecoverable'
      BY <2>1, <2>3, <3>2, Zenon DEF RecoveryInv, OriginalsRecoverable
    <3>4. \A r \in Runs : r # run => backups'[r] = backups[r]
      BY <2>3, <3>1, Zenon DEF TypeOK, VolumeTypeOK
    <3>5. \A r \in Runs : r > run => r # run
      BY <3>1 DEF Runs
    <3>6. \A r \in Runs : r > run' => \A x \in Items : backups'[r][x] = Absent
      BY <2>1, <3>4, <3>5, Zenon DEF RecoveryInv
    <3> QED
      BY <2>1, <3>3, <3>6 DEF RecoveryInv
  <2> QED
    BY <1>8, <2>2, <2>3, Zenon DEF Abort
<1>9. CASE UNCHANGED vars
  BY <1>9, Zenon DEF vars, RecoveryInv, OriginalsRecoverable, InBackup, BinaryOnly,
     Saved, script
<1> QED
  BY <1>1, <1>2, <1>4, <1>5, <1>6, <1>7, <1>8, <1>9 DEF Next, Execute

\* Whatever scripts run, in whatever order, and wherever they fail: each system
\* bundle is still the one that was there at first, or is whole in a backup, but for
\* a bundle of which a script saves the binary alone.
THEOREM OriginalsAlwaysRecoverable == Spec => []OriginalsRecoverable
<1>1. TypeOK /\ RecoveryInv /\ [Next]_vars => (TypeOK /\ RecoveryInv)'
  BY NextType, NextRecovery
<1>2. Init => TypeOK /\ RecoveryInv
  BY InitType, InitRecovery
<1>3. RecoveryInv => OriginalsRecoverable
  BY Zenon DEF RecoveryInv
<1> QED
  BY <1>1, <1>2, <1>3, PTL DEF Spec

-----------------------------------------------------------------------------
(* What a snapshot holds.                                                  *)

\* Bundle b is whole and is the one command c copies in.
Copied(b, c) == Whole(b) /\ b.ver = c.from

\* What CollectionsMatchSnapshot says of the runs that rebuilt and blessed.
RebuiltFirst ==
  /\ status = "done" /\ Rebuilds(script) => kcRun = run /\ snapRun = run
  /\ snapRun # 0 /\ Rebuilds(scriptOf[snapRun]) => kcRun >= snapRun
  /\ kcRun = snapRun => kc = snap

\* The inductive invariant: while a script runs, what it has copied in so far is
\* whole on the volume; once it has rebuilt the collections they match the volume;
\* and it has not blessed anything yet.
SnapshotInv ==
  /\ SnapshotComplete
  /\ RebuiltFirst
  /\ status = "running" =>
       /\ snapRun # run
       /\ kcRun = run => \E j \in 1 .. pc - 1 : Program[script][j].op = "rebuild"
       /\ \A j \in 1 .. pc - 1 :
            LET c == Program[script][j]
            IN /\ c.op = "put" => Copied(live[c.item], c)
               /\ c.op = "rebuild" => kcRun = run /\ kc = live

\* A step that does not bless keeps what the last snapshot is known to hold.
LEMMA SnapshotKept ==
  ASSUME TypeOK, SnapshotInv, UNCHANGED <<snap, snapRun>>,
         snapRun # 0 => scriptOf'[snapRun] = scriptOf[snapRun],
         \/ UNCHANGED <<kc, kcRun>>
         \/ kcRun' = run /\ snapRun # run,
         status' # "done" \/ ~Rebuilds(script)'
  PROVE  SnapshotComplete' /\ RebuiltFirst'
<1>1. SnapshotComplete'
  BY DEF SnapshotInv, SnapshotComplete
<1>2. run >= snapRun
  BY DEF TypeOK, RunTypeOK
<1>3. RebuiltFirst'
  BY <1>2, Zenon DEF SnapshotInv, RebuiltFirst, Rebuilds
<1> QED
  BY <1>1, <1>3, Zenon

\* A script that rebuilds is done with bless only.
LEMMA DoneByBless ==
  ASSUME RunTypeOK, NEW op, Command(op), op # "bless"
  PROVE  status' # "done" \/ ~Rebuilds(script)'
<1>1. /\ script \in Scripts /\ pc \in 1 .. Len(Program[script]) /\ step.op = op
      /\ script' = script
  BY StepType DEF Command, script
<1>2. status' = "done" => pc = Len(Program[script])
  BY DEF Command
<1>3. pc = Len(Program[script]) => ~Rebuilds(script)
  BY <1>1, FinishAssumption, Zenon DEF BlessesLast, Rebuilds, step
<1>4. Rebuilds(script)' = Rebuilds(script)
  BY <1>1, Zenon DEF Rebuilds
<1> QED
  BY <1>2, <1>3, <1>4, Zenon

\* Changing marks other than "partial" leaves a bundle whole.
LEMMA MarkCopied ==
  ASSUME NEW b \in Bundle, NEW c, Copied(b, c)
  PROVE  /\ Copied(Unmark(b, {"userOwned"}), c)
         /\ Copied(Unmark(b, {"editedSinceSigned"}), c)
         /\ Copied(Mark(b, {"patched", "editedSinceSigned"}), c)
         /\ Copied(Mark(b, {"auxiliary", "editedSinceSigned"}), c)
BY DEF Copied, Whole, Exists, Mark, Unmark, Bundle

\* A payload that is copied in whole is the one the command names.
LEMMA PayloadCopied ==
  ASSUME NEW c, c.from \in Sources
  PROVE  Copied(Payload(c.from), c)
BY ItemAssumption, Zenon DEF Copied, Whole, Exists, Payload

\* A script never copies over what it has copied in, and writes nothing after the
\* rebuild.
LEMMA NoOverwrite ==
  ASSUME RunTypeOK, status = "running", NEW j \in 1 .. pc - 1
  PROVE  LET c == Program[script][j]
         IN /\ c.op = "put" /\ step.op \in {"drop", "put", "stage"} => c.item # step.item
            /\ step.op \in Writes \cup {"chown"} => c.op # "rebuild"
<1>1. script \in Scripts /\ pc \in 1 .. Len(Program[script])
  BY StepType, Zenon
<1> QED
  BY <1>1, CopyAssumption, FinishAssumption DEF CopiesOnce, BlessesLast, step

\* While a script still writes, this run has not touched the collections.
LEMMA NotRebuiltYet ==
  ASSUME TypeOK, SnapshotInv, status = "running", step.op \in Writes \cup {"chown"}
  PROVE  kcRun # run
BY NoOverwrite, Zenon DEF TypeOK, SnapshotInv

\* The commands before pc' are those before pc and the one at pc.
LEMMA CommandsSoFar ==
  ASSUME RunTypeOK, NEW op, Command(op)
  PROVE  /\ 1 .. pc' - 1 = (1 .. pc - 1) \cup {pc}
         /\ script' = script /\ step = Program[script][pc] /\ step.op = op
BY StepType DEF Command, script, step

\* The commands before pc name bundles of the volume.
LEMMA EarlierItems ==
  ASSUME RunTypeOK, status = "running", NEW j \in 1 .. pc - 1,
         Program[script][j].op = "put"
  PROVE  Program[script][j].item \in Items
<1>1. script \in Scripts /\ j \in 1 .. Len(Program[script])
  BY StepType
<1>2. Program[script][j] \in Step
  BY <1>1, ProgramAssumption
<1> QED
  BY <1>2 DEF Step

\* The invariant holds at first.
LEMMA InitSnapshot == Init => SnapshotInv
BY DEF Init, SnapshotInv, SnapshotComplete, RebuiltFirst

\* Every step preserves it.
LEMMA NextSnapshot == TypeOK /\ SnapshotInv /\ [Next]_vars => SnapshotInv'
<1> SUFFICES ASSUME TypeOK, SnapshotInv, [Next]_vars PROVE SnapshotInv'
  OBVIOUS
<1>1. ASSUME NEW s \in Scripts, StartRun(s) PROVE SnapshotInv'
  <2>1. UNCHANGED <<snap, snapRun, kc, kcRun>> /\ pc' = 1 /\ run' = run + 1
    BY <1>1, Zenon DEF StartRun, diskVars
  <2>2. snapRun \in 0 .. run /\ run \in 0 .. MaxRuns
    BY Zenon DEF TypeOK, RunTypeOK
  <2>3. scriptOf'[snapRun] = scriptOf[snapRun] /\ snapRun # run + 1
    BY <1>1, <2>2, ItemAssumption DEF StartRun, TypeOK, RunTypeOK
  <2>4. SnapshotComplete' /\ RebuiltFirst'
    <3>1. status' # "done"
      BY <1>1 DEF StartRun
    <3> QED
      BY <2>1, <2>3, <3>1, SnapshotKept, Zenon
  <2>5. kcRun' # run'
    BY <2>1 DEF TypeOK, RunTypeOK
  <2> QED
    BY <2>1, <2>3, <2>4, <2>5 DEF SnapshotInv
<1>2. ASSUME NEW op \in Writes \cup {"chown"}, Command(op), NEW b,
             SetLive(step.item, b),
             op = "put" => b = Payload(step.from),
             op \in {"plist", "patch", "resign", "chown"} =>
                \A c : Copied(live[step.item], c) => Copied(b, c)
      PROVE  SnapshotInv'
  <2>0. status = "running" /\ step.item \in Items /\ pc \in Nat
    BY <1>2, StepType DEF Command, TypeOK
  <2>1. UNCHANGED <<snap, snapRun, kc, kcRun, scriptOf, run>>
    BY <1>2 DEF Command, SetLive
  <2>2. SnapshotComplete' /\ RebuiltFirst'
    <3>1. op # "bless"
      BY <1>2, Zenon DEF Writes
    <3> QED
      BY <1>2, <2>1, <3>1, DoneByBless, SnapshotKept, Zenon DEF TypeOK
  <2>3. \A i \in Items : live'[i] = IF i = step.item THEN b ELSE live[i]
    BY <1>2, Zenon DEF SetLive, TypeOK, VolumeTypeOK
  <2>4. ASSUME NEW j \in 1 .. pc - 1
        PROVE  LET c == Program[script][j]
               IN (c.op = "put" => Copied(live'[c.item], c)) /\ c.op # "rebuild"
    <3>1. Program[script][j].op # "rebuild"
      BY <1>2, <2>0, <2>4, NoOverwrite, Zenon DEF TypeOK, Command
    <3>2. ASSUME Program[script][j].op = "put"
          PROVE  Copied(live'[Program[script][j].item], Program[script][j])
      <4> DEFINE c == Program[script][j]
      <4>1. Copied(live[c.item], c)
        BY <2>0, <2>4, <3>2, Zenon DEF SnapshotInv
      <4>2. c.item \in Items
        BY <2>0, <2>4, <3>2, EarlierItems, Zenon DEF TypeOK
      <4>3. CASE c.item # step.item
        BY <2>3, <4>1, <4>2, <4>3, Zenon
      <4>4. CASE c.item = step.item
        <5>1. op \notin {"drop", "put", "stage"}
          BY <1>2, <2>0, <2>4, <3>2, <4>4, NoOverwrite DEF TypeOK, Command
        <5>2. op \in {"plist", "patch", "resign", "chown"}
          BY <5>1, Zenon DEF Writes
        <5> QED
          BY <1>2, <2>3, <4>1, <4>2, <4>4, <5>2, Zenon
      <4> QED
        BY <4>3, <4>4, Zenon
    <3> QED
      BY <3>1, <3>2, Zenon
  <2>5. step.op = "put" => Copied(live'[step.item], step)
    BY <1>2, <2>0, <2>3, StepType, PayloadCopied, Zenon DEF Command, TypeOK
  <2>6. step.op # "rebuild"
    BY <1>2, Zenon DEF Command, Writes
  <2>7. /\ 1 .. pc' - 1 = (1 .. pc - 1) \cup {pc}
        /\ script' = script /\ step = Program[script][pc]
    BY <1>2, CommandsSoFar, Zenon DEF TypeOK
  <2>8. \A j \in 1 .. pc' - 1 :
          LET c == Program[script'][j]
          IN (c.op = "put" => Copied(live'[c.item], c)) /\ c.op # "rebuild"
    <3> HIDE DEF script, step
    <3> QED
      BY <2>4, <2>5, <2>6, <2>7, Zenon
  <2>9. snapRun' # run' /\ kcRun' # run'
    BY <1>2, <2>0, <2>1, NotRebuiltYet, Zenon DEF SnapshotInv, Command
  <2> QED
    BY <2>2, <2>8, <2>9, Zenon DEF SnapshotInv
<1>3. CASE Drop \/ Put \/ Stage
  BY <1>2, <1>3 DEF Drop, Put, Stage, Writes
<1>4. CASE SetPlist \/ PatchBinary \/ Resign \/ Chown
  <2>1. status = "running" /\ step.op \in Writes \cup {"chown"}
    BY <1>4, Zenon DEF SetPlist, PatchBinary, Resign, Chown, Command, Writes
  <2>2. live[step.item] \in Bundle
    BY <2>1, StepType, Zenon DEF TypeOK, VolumeTypeOK
  <2>3. CASE SetPlist
    BY <1>2, <2>2, <2>3, MarkCopied DEF SetPlist, Writes
  <2>4. CASE PatchBinary
    BY <1>2, <2>2, <2>4, MarkCopied DEF PatchBinary, Writes
  <2>5. CASE Resign
    BY <1>2, <2>2, <2>5, MarkCopied DEF Resign, Writes
  <2>6. CASE Chown
    BY <1>2, <2>2, <2>6, MarkCopied DEF Chown, Writes
  <2> QED
    BY <1>4, <2>3, <2>4, <2>5, <2>6, Zenon
<1>5. ASSUME NEW op, Command(op), UNCHANGED <<live, snap, snapRun>>,
             op \notin {"put", "bless"},
             IF op = "rebuild" THEN kc' = live /\ kcRun' = run
                               ELSE UNCHANGED <<kc, kcRun>>
      PROVE  SnapshotInv'
  <2>1. status = "running" /\ UNCHANGED <<scriptOf, run>> /\ snapRun # run
    BY <1>5 DEF Command, SnapshotInv
  <2>2. SnapshotComplete' /\ RebuiltFirst'
    BY <1>5, <2>1, DoneByBless, SnapshotKept, Zenon DEF TypeOK
  <2>3. /\ 1 .. pc' - 1 = (1 .. pc - 1) \cup {pc}
        /\ script' = script /\ step = Program[script][pc] /\ step.op = op
    BY <1>5, CommandsSoFar, Zenon DEF TypeOK
  <2>4. \A j \in 1 .. pc - 1 :
          LET c == Program[script][j]
          IN /\ c.op = "put" => Copied(live'[c.item], c)
             /\ c.op = "rebuild" => kcRun' = run' /\ kc' = live'
    BY <1>5, <2>1, Zenon DEF SnapshotInv
  <2>5. step.op # "put" /\ (step.op = "rebuild" => kcRun' = run' /\ kc' = live')
    BY <1>5, <2>1, <2>3, Zenon
  <2>6. \A j \in 1 .. pc' - 1 :
          LET c == Program[script'][j]
          IN /\ c.op = "put" => Copied(live'[c.item], c)
             /\ c.op = "rebuild" => kcRun' = run' /\ kc' = live'
    <3> HIDE DEF script, step
    <3> QED
      BY <2>3, <2>4, <2>5, Zenon
  <2>7. kcRun' = run' => \E j \in 1 .. pc' - 1 : Program[script'][j].op = "rebuild"
    <3>1. kcRun = run => \E j \in 1 .. pc - 1 : Program[script][j].op = "rebuild"
      BY <2>1, Zenon DEF SnapshotInv
    <3>2. kcRun' = run' => step.op = "rebuild" \/ kcRun = run
      BY <1>5, <2>1, <2>3, Zenon
    <3> HIDE DEF script, step
    <3> QED
      BY <2>3, <3>1, <3>2, Zenon
  <2> QED
    BY <1>5, <2>1, <2>2, <2>6, <2>7, Zenon DEF SnapshotInv
<1>6. CASE Save \/ Verify \/ Rebuild \/ NormalizeStash
  <2>1. CASE Save
    BY <1>5, <2>1 DEF Save, Saves
  <2> QED
    BY <1>5, <1>6, <2>1, Zenon DEF Verify, Rebuild, NormalizeStash
<1>7. CASE StashGlobFails
  <2>1. UNCHANGED <<snap, snapRun, scriptOf, kc, kcRun>> /\ status' = "noMatch"
    BY <1>7, Zenon DEF StashGlobFails
  <2> QED
    BY <2>1, SnapshotKept, Zenon DEF SnapshotInv
<1>8. CASE Bless
  <2>1. /\ status = "running" /\ step.op = "bless" /\ UNCHANGED <<scriptOf, run, kc, kcRun>>
        /\ snap' = live /\ snapRun' = run
    BY <1>8, Zenon DEF Bless, Command
  <2>2. /\ script \in Scripts /\ run \in Runs /\ pc \in 1 .. Len(Program[script])
        /\ Len(Program[script]) \in Nat /\ scriptOf'[snapRun'] = script
    BY <2>1, StepType, Zenon DEF TypeOK, script
  <2>3. pc = Len(Program[script])
    BY <2>1, <2>2, FinishAssumption DEF BlessesLast, step
  <2>4. \A j \in 1 .. Len(Program[script]) :
          j \in 1 .. pc - 1 \/ Program[script][j].op = "bless"
    BY <2>1, <2>2, <2>3 DEF step
  <2>5. \A j \in 1 .. Len(Program[script]) :
          LET c == Program[script][j]
          IN /\ c.op = "put" => Copied(live[c.item], c)
             /\ c.op = "rebuild" => kcRun = run /\ kc = live
    BY <2>1, <2>4, Zenon DEF SnapshotInv
  <2>6. SnapshotComplete'
    BY <2>1, <2>2, <2>5 DEF SnapshotComplete, Copied
  <2>7. RebuiltFirst'
    <3>1. Rebuilds(script) => kcRun = run /\ kc = live
      BY <2>5 DEF Rebuilds
    <3>2. kcRun = run => kc = live
      <4>1. \A j \in 1 .. pc - 1 : j \in 1 .. Len(Program[script])
        BY <2>2
      <4> QED
        BY <2>1, <2>5, <4>1, Zenon DEF SnapshotInv
    <3>3. run >= run /\ script' = script
      BY <2>1, <2>2 DEF Runs, script
    <3> HIDE DEF script
    <3>4. Rebuilds(script)' = Rebuilds(script)
      BY <3>3, Zenon DEF Rebuilds
    <3> QED
      BY <2>1, <2>2, <3>1, <3>2, <3>3, <3>4, Zenon DEF RebuiltFirst, Rebuilds
  <2>8. status' = "done"
    BY <1>8, <2>3, Zenon DEF Bless, Command
  <2> QED
    BY <2>6, <2>7, <2>8 DEF SnapshotInv
<1>9. CASE Abort
  <2>1. /\ status = "running" /\ status' = "failed" /\ UNCHANGED <<snap, snapRun, scriptOf>>
        /\ UNCHANGED <<kc, kcRun>> \/ kcRun' = run
    BY <1>9, Zenon DEF Abort
  <2>2. snapRun # run
    BY <2>1, Zenon DEF SnapshotInv
  <2> QED
    BY <2>1, <2>2, SnapshotKept, Zenon DEF SnapshotInv
<1>10. CASE UNCHANGED vars
  BY <1>10, Zenon DEF vars, SnapshotInv, SnapshotComplete, RebuiltFirst, Rebuilds, script
<1> QED
  BY <1>1, <1>3, <1>4, <1>6, <1>7, <1>8, <1>9, <1>10 DEF Next, Execute

\* Every snapshot that is blessed holds, whole, every bundle its script copies in.
THEOREM SnapshotAlwaysComplete == Spec => []SnapshotComplete
<1>1. TypeOK /\ SnapshotInv /\ [Next]_vars => (TypeOK /\ SnapshotInv)'
  BY NextType, NextSnapshot, Zenon
<1>2. Init => TypeOK /\ SnapshotInv
  BY InitType, InitSnapshot
<1>3. SnapshotInv => SnapshotComplete
  BY Zenon DEF SnapshotInv
<1> QED
  BY <1>1, <1>2, <1>3, PTL DEF Spec

-----------------------------------------------------------------------------
(* What a snapshot does not hold: torn bundles, and work half done.        *)

\* While a script runs, what it has copied in is not torn, what it has normalised
\* belongs to root, and what it has signed for the last time is as it was signed.
WorkDone ==
  \A j \in 1 .. pc - 1 :
    LET c == Program[script][j]
    IN /\ c.op \in {"put", "stage"} => "partial" \notin live[c.item].marks
       /\ c.op = "chown" => "userOwned" \notin live[c.item].marks
       /\ SignsLast(Program[script], j) => "editedSinceSigned" \notin live[c.item].marks

\* A torn bundle is one that some run's script writes to.
TornByWriter ==
  \A i \in Items :
    "partial" \in live[i].marks => \E r \in 1 .. run : WritesItem(scriptOf[r], i)

\* The inductive invariant.
FinishInv ==
  /\ TornOnlyFromOthers
  /\ SnapshotFinished
  /\ TornByWriter
  /\ status = "running" => WorkDone

\* A step that does not bless keeps what the last snapshot is known to lack.
LEMMA FinishKept ==
  ASSUME TypeOK, TornOnlyFromOthers, SnapshotFinished, UNCHANGED <<snap, snapRun>>,
         \A r \in 1 .. run : scriptOf'[r] = scriptOf[r]
  PROVE  TornOnlyFromOthers' /\ SnapshotFinished'
<1>1. snapRun \in 0 .. run /\ run \in Nat
  BY ItemAssumption DEF TypeOK, RunTypeOK
<1>2. SnapshotFinished'
  <2>1. CASE snapRun = 0
    BY <2>1, Zenon DEF SnapshotFinished
  <2>2. CASE snapRun # 0
    <3>1. scriptOf'[snapRun] = scriptOf[snapRun]
      BY <1>1, <2>2
    <3> QED
      BY <3>1 DEF SnapshotFinished, EditsSigned, Resigns
  <2> QED
    BY <2>1, <2>2, Zenon
<1>3. ASSUME NEW i \in Items, "partial" \in snap[i].marks
      PROVE  \E r \in 1 .. snapRun - 1 :
               scriptOf'[r] # scriptOf'[snapRun] /\ WritesItem(scriptOf'[r], i)
  <2>1. PICK r \in 1 .. snapRun - 1 :
               scriptOf[r] # scriptOf[snapRun] /\ WritesItem(scriptOf[r], i)
    BY <1>3, Zenon DEF TornOnlyFromOthers
  <2>2. r \in 1 .. run /\ snapRun \in 1 .. run
    BY <1>1
  <2>3. scriptOf'[r] = scriptOf[r] /\ scriptOf'[snapRun] = scriptOf[snapRun]
    BY <2>2, Zenon
  <2> QED
    BY <2>1, <2>3, Zenon
<1>4. TornOnlyFromOthers'
  BY <1>3, Zenon DEF TornOnlyFromOthers, WritesItem
<1> QED
  BY <1>2, <1>4, Zenon

\* What a command that writes to its bundle, and succeeds, does to the marks.
WritesMarks(op, m, n) ==
  /\ "partial" \in n => "partial" \in m /\ op \notin {"put", "stage"}
  /\ "userOwned" \in n => op # "chown" /\ ("userOwned" \in m \/ op \in {"put", "stage"})
  /\ "editedSinceSigned" \in n =>
       op # "resign" /\ ("editedSinceSigned" \in m \/ op \in {"plist", "patch", "stage"})

\* A script never undoes what it has done to a bundle.
LEMMA NothingUndone ==
  ASSUME RunTypeOK, status = "running", NEW j \in 1 .. pc - 1,
         Program[script][j].item = step.item
  PROVE  /\ Program[script][j].op = "chown" => step.op \notin {"put", "stage"}
         /\ SignsLast(Program[script], j) => step.op \notin {"plist", "patch", "stage"}
<1>1. script \in Scripts /\ pc \in 1 .. Len(Program[script]) /\ Len(Program[script]) \in Nat
  BY StepType, Zenon
<1>2. FinishesBundles(Program[script])
  BY <1>1, BundleAssumption, Zenon
<1>3. pc \in j + 1 .. Len(Program[script])
  BY <1>1
<1> QED
  BY <1>1, <1>2, <1>3, Zenon DEF FinishesBundles, SignsLast, step

\* The commands before pc that copy, normalise or sign name bundles of the volume.
LEMMA WorkItems ==
  ASSUME RunTypeOK, status = "running", NEW j \in 1 .. pc - 1,
         Program[script][j].op \in {"put", "stage", "chown", "resign"}
  PROVE  Program[script][j].item \in Items
<1>1. script \in Scripts /\ j \in 1 .. Len(Program[script])
  BY StepType
<1>2. Program[script][j] \in Step
  BY <1>1, ProgramAssumption
<1> QED
  BY <1>2, Zenon DEF Step

\* A command that changes one bundle's marks in this way preserves the invariant.
LEMMA WriteFinish ==
  ASSUME TypeOK, FinishInv, NEW op \in Writes \cup {"chown"}, Command(op), NEW b,
         SetLive(step.item, b), WritesMarks(op, live[step.item].marks, b.marks)
  PROVE  FinishInv'
<1>0. status = "running" /\ step.item \in Items /\ pc \in Nat /\ step.op = op
  BY StepType DEF Command, TypeOK
<1>1. UNCHANGED <<snap, snapRun, scriptOf, run>>
  BY DEF Command, SetLive
<1>2. TornOnlyFromOthers' /\ SnapshotFinished'
  BY <1>1, FinishKept, Zenon DEF FinishInv
<1>3. \A i \in Items : live'[i] = IF i = step.item THEN b ELSE live[i]
  BY Zenon DEF SetLive, TypeOK, VolumeTypeOK
<1>4. TornByWriter'
  <2>1. \A i \in Items : "partial" \in live'[i].marks => "partial" \in live[i].marks
    BY <1>3, Zenon DEF WritesMarks
  <2> QED
    BY <1>1, <2>1, Zenon DEF FinishInv, TornByWriter, WritesItem
<1>5. ASSUME NEW j \in 1 .. pc - 1
      PROVE  LET c == Program[script][j]
             IN /\ c.op \in {"put", "stage"} => "partial" \notin live'[c.item].marks
                /\ c.op = "chown" => "userOwned" \notin live'[c.item].marks
                /\ SignsLast(Program[script], j) =>
                     "editedSinceSigned" \notin live'[c.item].marks
  <2> DEFINE c == Program[script][j]
  <2>1. /\ c.op \in {"put", "stage"} => "partial" \notin live[c.item].marks
        /\ c.op = "chown" => "userOwned" \notin live[c.item].marks
        /\ SignsLast(Program[script], j) => "editedSinceSigned" \notin live[c.item].marks
    BY <1>0, <1>5, Zenon DEF FinishInv, WorkDone
  <2>2. c.op \in {"put", "stage", "chown", "resign"} => c.item \in Items
    BY <1>0, <1>5, WorkItems, Zenon DEF TypeOK
  <2>3. SignsLast(Program[script], j) => c.op = "resign"
    BY Zenon DEF SignsLast
  <2>4. CASE c.item # step.item
    <3>1. c.item \in Items => live'[c.item] = live[c.item]
      BY <1>3, <2>4, Zenon
    <3> QED
      BY <2>1, <2>2, <2>3, <3>1, Zenon
  <2>5. CASE c.item = step.item
    <3>1. /\ c.op = "chown" => op \notin {"put", "stage"}
          /\ SignsLast(Program[script], j) => op \notin {"plist", "patch", "stage"}
      BY <1>0, <1>5, <2>5, NothingUndone, Zenon DEF TypeOK
    <3>2. live'[c.item] = b
      BY <1>0, <1>3, <2>5, Zenon
    <3> QED
      BY <2>1, <2>5, <3>1, <3>2, Zenon DEF WritesMarks
  <2> QED
    BY <2>4, <2>5, Zenon
<1>6. /\ step.op \in {"put", "stage"} => "partial" \notin live'[step.item].marks
      /\ step.op = "chown" => "userOwned" \notin live'[step.item].marks
      /\ step.op = "resign" => "editedSinceSigned" \notin live'[step.item].marks
  BY <1>0, <1>3, Zenon DEF WritesMarks
<1>7. /\ 1 .. pc' - 1 = (1 .. pc - 1) \cup {pc}
      /\ script' = script /\ step = Program[script][pc]
  BY CommandsSoFar, Zenon DEF TypeOK
<1>8. SignsLast(Program[script], pc) => step.op = "resign"
  BY <1>7, Zenon DEF SignsLast
<1>9. WorkDone'
  <2>1. \A j \in 1 .. pc' - 1 :
          LET c == Program[script'][j]
          IN /\ c.op \in {"put", "stage"} => "partial" \notin live'[c.item].marks
             /\ c.op = "chown" => "userOwned" \notin live'[c.item].marks
             /\ SignsLast(Program[script'], j) =>
                  "editedSinceSigned" \notin live'[c.item].marks
    <3> HIDE DEF script, step
    <3> QED
      BY <1>5, <1>6, <1>7, <1>8
  <2> QED
    BY <2>1, Zenon DEF WorkDone, SignsLast
<1> QED
  BY <1>2, <1>4, <1>9, Zenon DEF FinishInv

\* A command that leaves the volume alone, other than bless, preserves it.
LEMMA ReadFinish ==
  ASSUME TypeOK, FinishInv, NEW op, Command(op), UNCHANGED <<live, snap, snapRun>>,
         op \notin {"put", "stage", "chown", "resign"}
  PROVE  FinishInv'
<1>1. status = "running" /\ UNCHANGED <<scriptOf, run>>
  BY DEF Command
<1>2. TornOnlyFromOthers' /\ SnapshotFinished'
  BY <1>1, FinishKept, Zenon DEF FinishInv
<1>3. TornByWriter'
  BY <1>1, Zenon DEF FinishInv, TornByWriter, WritesItem
<1>4. /\ 1 .. pc' - 1 = (1 .. pc - 1) \cup {pc}
      /\ script' = script /\ step = Program[script][pc] /\ step.op = op
  BY CommandsSoFar, Zenon DEF TypeOK
<1>5. ~SignsLast(Program[script], pc)
  BY <1>4, Zenon DEF SignsLast
<1>6. WorkDone'
  <2>1. \A j \in 1 .. pc - 1 :
          LET c == Program[script][j]
          IN /\ c.op \in {"put", "stage"} => "partial" \notin live[c.item].marks
             /\ c.op = "chown" => "userOwned" \notin live[c.item].marks
             /\ SignsLast(Program[script], j) =>
                  "editedSinceSigned" \notin live[c.item].marks
    BY <1>1, Zenon DEF FinishInv, WorkDone
  <2>2. \A j \in 1 .. pc' - 1 :
          LET c == Program[script'][j]
          IN /\ c.op \in {"put", "stage"} => "partial" \notin live'[c.item].marks
             /\ c.op = "chown" => "userOwned" \notin live'[c.item].marks
             /\ SignsLast(Program[script'], j) =>
                  "editedSinceSigned" \notin live'[c.item].marks
    <3> HIDE DEF script, step
    <3> QED
      BY <1>4, <1>5, <2>1, Zenon
  <2> QED
    BY <2>2, Zenon DEF WorkDone, SignsLast
<1> QED
  BY <1>2, <1>3, <1>6, Zenon DEF FinishInv

\* The marks after each command that writes to its bundle.
LEMMA MarksWritten ==
  /\ \A m : WritesMarks("drop", m, Absent.marks)
  /\ \A m, src : WritesMarks("put", m, Payload(src).marks)
  /\ \A b \in Bundle :
       /\ WritesMarks("plist", b.marks, Mark(b, {"auxiliary", "editedSinceSigned"}).marks)
       /\ WritesMarks("patch", b.marks, Mark(b, {"patched", "editedSinceSigned"}).marks)
       /\ WritesMarks("resign", b.marks, Unmark(b, {"editedSinceSigned"}).marks)
       /\ WritesMarks("chown", b.marks, Unmark(b, {"userOwned"}).marks)
<1>1. \A b \in Bundle :
        /\ Mark(b, {"auxiliary", "editedSinceSigned"}).marks
             = b.marks \cup {"auxiliary", "editedSinceSigned"}
        /\ Mark(b, {"patched", "editedSinceSigned"}).marks
             = b.marks \cup {"patched", "editedSinceSigned"}
        /\ Unmark(b, {"editedSinceSigned"}).marks = b.marks \ {"editedSinceSigned"}
        /\ Unmark(b, {"userOwned"}).marks = b.marks \ {"userOwned"}
  BY Zenon DEF Mark, Unmark, Bundle
<1> QED
  BY <1>1 DEF WritesMarks, Absent, Payload

\* What a script stages is not torn: it has copied that in itself.
LEMMA StagedWhole ==
  ASSUME RunTypeOK, WorkDone, status = "running", step.op = "stage"
  PROVE  "partial" \notin live[step.from].marks
<1>1. script \in Scripts /\ pc \in 1 .. Len(Program[script])
  BY StepType
<1>2. CopiesWhatItWrites(Program[script])
  BY <1>1, HealAssumption, Zenon
<1>3. PICK j \in 1 .. pc - 1 :
        Program[script][j].op = "put" /\ Program[script][j].item = step.from
  BY <1>1, <1>2, Zenon DEF CopiesWhatItWrites, step
<1> QED
  BY <1>3, Zenon DEF WorkDone

\* A script that blesses copies in whatever it writes to: its bundles are not torn.
LEMMA BlessedWhole ==
  ASSUME TypeOK, WorkDone, status = "running", step.op = "bless",
         NEW i \in Items, "partial" \in live[i].marks
  PROVE  ~WritesItem(script, i)
<1>1. script \in Scripts /\ pc \in 1 .. Len(Program[script]) /\ Len(Program[script]) \in Nat
  BY StepType, Zenon DEF TypeOK
<1>2. CopiesWhatItWrites(Program[script]) /\ BlessesLast(Program[script])
  BY <1>1, HealAssumption, FinishAssumption, Zenon
<1>3. pc = Len(Program[script])
  BY <1>1, <1>2, Zenon DEF BlessesLast, step
<1>4. SUFFICES ASSUME NEW k \in 1 .. Len(Program[script]),
                      Program[script][k].op \in Writes, Program[script][k].item = i
               PROVE  FALSE
  BY Zenon DEF WritesItem
<1>5. PICK j \in 1 .. Len(Program[script]) :
        Program[script][j].op \in {"put", "stage"} /\ Program[script][j].item = i
  BY <1>1, <1>2, <1>4, Zenon DEF CopiesWhatItWrites, step
<1>6. j # pc
  BY <1>5, Zenon DEF step
<1>7. j \in 1 .. pc - 1
  BY <1>1, <1>3, <1>5, <1>6
<1> QED
  BY <1>5, <1>7, Zenon DEF WorkDone

\* The invariant holds at first.
LEMMA InitFinish == Init => FinishInv
<1> SUFFICES ASSUME Init PROVE FinishInv
  OBVIOUS
<1>1. \A i \in Items : original[i] \in {Absent, Original}
  BY DEF Init
<1>2. \A i \in Items : live[i].marks = {} /\ snap[i].marks = {}
  <2>1. live = original /\ snap = original
    BY DEF Init
  <2>2. Absent.marks = {} /\ Original.marks = {}
    BY DEF Absent, Original
  <2>3. ASSUME NEW i \in Items PROVE original[i].marks = {}
    <3>1. original[i] = Absent \/ original[i] = Original
      BY <1>1
    <3> QED
      BY <2>2, <3>1, Zenon
  <2> QED
    BY <2>1, <2>3, Zenon
<1>3. snapRun = 0 /\ status # "running"
  BY Zenon DEF Init
<1> QED
  BY <1>2, <1>3, Zenon DEF FinishInv, TornOnlyFromOthers, SnapshotFinished, TornByWriter

\* Every step preserves it.
LEMMA NextFinish == TypeOK /\ FinishInv /\ [Next]_vars => FinishInv'
<1> SUFFICES ASSUME TypeOK, FinishInv, [Next]_vars PROVE FinishInv'
  OBVIOUS
<1>1. ASSUME NEW s \in Scripts, StartRun(s) PROVE FinishInv'
  <2>1. UNCHANGED <<snap, snapRun, live>> /\ pc' = 1 /\ run' = run + 1
    BY <1>1, Zenon DEF StartRun, diskVars
  <2>2. run \in 0 .. MaxRuns /\ MaxRuns \in Nat
    BY ItemAssumption, Zenon DEF TypeOK, RunTypeOK
  <2>3. \A r \in 1 .. run : scriptOf'[r] = scriptOf[r]
    BY <1>1, <2>2 DEF StartRun, TypeOK, RunTypeOK
  <2>4. TornOnlyFromOthers' /\ SnapshotFinished'
    BY <2>1, <2>3, FinishKept, Zenon DEF FinishInv
  <2>5. TornByWriter'
    <3>1. ASSUME NEW i \in Items, "partial" \in live'[i].marks
          PROVE  \E r \in 1 .. run' : WritesItem(scriptOf'[r], i)
      <4>1. PICK r \in 1 .. run : WritesItem(scriptOf[r], i)
        BY <2>1, <3>1, Zenon DEF FinishInv, TornByWriter
      <4>2. r \in 1 .. run'
        BY <2>1, <2>2
      <4> QED
        BY <2>3, <4>1, <4>2, Zenon
    <3> QED
      BY <3>1, Zenon DEF TornByWriter, WritesItem
  <2>6. WorkDone'
    BY <2>1 DEF WorkDone
  <2> QED
    BY <2>4, <2>5, <2>6, Zenon DEF FinishInv
<1>2. CASE Drop
  BY <1>2, MarksWritten, WriteFinish, Zenon DEF Drop, Writes
<1>3. CASE Put
  BY <1>3, MarksWritten, WriteFinish, Zenon DEF Put, Writes
<1>4. CASE Stage
  <2>1. status = "running" /\ step.op = "stage"
    BY <1>4 DEF Stage, Command
  <2>2. "partial" \notin live[step.from].marks
    BY <2>1, StagedWhole, Zenon DEF TypeOK, FinishInv
  <2>3. WritesMarks("stage", live[step.item].marks, live[step.from].marks)
    BY <2>2, Zenon DEF WritesMarks
  <2> QED
    BY <1>4, <2>3, WriteFinish, Zenon DEF Stage, Writes
<1>5. CASE SetPlist \/ PatchBinary \/ Resign \/ Chown
  <2>1. status = "running" /\ step.op \in Writes \cup {"chown"}
    BY <1>5 DEF SetPlist, PatchBinary, Resign, Chown, Command, Writes
  <2>2. live[step.item] \in Bundle
    BY <2>1, StepType DEF TypeOK, VolumeTypeOK
  <2>3. CASE SetPlist
    BY <2>2, <2>3, MarksWritten, WriteFinish, Zenon DEF SetPlist, Writes
  <2>4. CASE PatchBinary
    BY <2>2, <2>4, MarksWritten, WriteFinish, Zenon DEF PatchBinary, Writes
  <2>5. CASE Resign
    BY <2>2, <2>5, MarksWritten, WriteFinish, Zenon DEF Resign, Writes
  <2>6. CASE Chown
    BY <2>2, <2>6, MarksWritten, WriteFinish, Zenon DEF Chown, Writes
  <2> QED
    BY <1>5, <2>3, <2>4, <2>5, <2>6, ZenonT(40)
<1>6. CASE Save \/ Verify \/ Rebuild \/ NormalizeStash
  <2>1. CASE Save
    BY <2>1, ReadFinish DEF Save, Saves
  <2> QED
    BY <1>6, <2>1, ReadFinish, Zenon DEF Verify, Rebuild, NormalizeStash
<1>7. CASE StashGlobFails
  <2>1. UNCHANGED <<snap, snapRun, scriptOf, run, live>> /\ status' = "noMatch"
    BY <1>7 DEF StashGlobFails
  <2>2. TornOnlyFromOthers' /\ SnapshotFinished'
    BY <2>1, FinishKept, Zenon DEF FinishInv
  <2> QED
    BY <2>1, <2>2, Zenon DEF FinishInv, TornByWriter, WritesItem
<1>8. CASE Bless
  <2>1. /\ status = "running" /\ step.op = "bless" /\ UNCHANGED <<scriptOf, run, live>>
        /\ snap' = live /\ snapRun' = run
    BY <1>8, Zenon DEF Bless, Command
  <2>2. /\ script \in Scripts /\ run \in Runs /\ pc \in 1 .. Len(Program[script])
        /\ Len(Program[script]) \in Nat /\ script = scriptOf[run]
    BY <2>1, StepType, Zenon DEF TypeOK, script
  <2>3. pc = Len(Program[script])
    BY <2>1, <2>2, FinishAssumption, Zenon DEF BlessesLast, step
  <2>4. status' = "done"
    BY <1>8, <2>3 DEF Bless, Command
  <2>5. TornByWriter'
    BY <2>1 DEF FinishInv, TornByWriter, WritesItem
  <2>6. WorkDone
    BY <2>1 DEF FinishInv
  <2>7. ASSUME NEW i \in Items, "partial" \in live[i].marks
        PROVE  \E r \in 1 .. run - 1 :
                 scriptOf[r] # scriptOf[run] /\ WritesItem(scriptOf[r], i)
    <3>1. PICK r \in 1 .. run : WritesItem(scriptOf[r], i)
      BY <2>7, Zenon DEF FinishInv, TornByWriter
    <3>2. scriptOf[r] # scriptOf[run]
      BY <2>1, <2>2, <2>6, <2>7, <3>1, BlessedWhole, Zenon
    <3>3. r \in 1 .. run - 1
      BY <2>2, <3>2 DEF Runs
    <3> QED
      BY <3>1, <3>2, <3>3, Zenon
  <2>8. TornOnlyFromOthers'
    BY <2>1, <2>7, Zenon DEF TornOnlyFromOthers, WritesItem
  <2>9. \A j \in 1 .. Len(Program[script]) :
          j \in 1 .. pc - 1 \/ Program[script][j].op = "bless"
    BY <2>1, <2>2, <2>3 DEF step
  <2>10. \A k \in 1 .. Len(Program[script]) :
           LET c == Program[script][k]
           IN c.op = "chown" => "userOwned" \notin live[c.item].marks
    BY <2>6, <2>9, Zenon DEF WorkDone
  <2>11. ASSUME Resigns(script), NEW k \in 1 .. Len(Program[script]),
                Program[script][k].op \in {"plist", "patch"}
         PROVE  "editedSinceSigned" \notin live[Program[script][k].item].marks
    <3>1. FinishesBundles(Program[script])
      BY <2>2, BundleAssumption, Zenon
    <3>2. PICK j \in k + 1 .. Len(Program[script]) :
            /\ SignsLast(Program[script], j)
            /\ Program[script][j].item = Program[script][k].item
      BY <2>11, <3>1, Zenon DEF FinishesBundles, Resigns
    <3>3. j \in 1 .. pc - 1
      BY <2>9, <3>2, SMTT(30) DEF SignsLast
    <3> QED
      BY <2>6, <3>2, <3>3, Zenon DEF WorkDone
  <2>12. SnapshotFinished'
    BY <2>1, <2>2, <2>10, <2>11 DEF SnapshotFinished, EditsSigned, Resigns
  <2> QED
    BY <2>4, <2>5, <2>8, <2>12, Zenon DEF FinishInv
<1>9. CASE Abort
  <2>1. /\ status = "running" /\ status' = "failed"
        /\ UNCHANGED <<snap, snapRun, scriptOf, run>>
    BY <1>9 DEF Abort
  <2>2. TornOnlyFromOthers' /\ SnapshotFinished'
    BY <2>1, FinishKept, Zenon DEF FinishInv
  <2>3. \/ UNCHANGED live
        \/ step.op \in Writes /\ \E b : live' = [live EXCEPT ![step.item] = b]
    BY <1>9, Zenon DEF Abort, Writes
  <2>4. ASSUME NEW i \in Items, "partial" \in live'[i].marks
        PROVE  \E r \in 1 .. run : WritesItem(scriptOf[r], i)
    <3>1. CASE live'[i] = live[i]
      BY <2>4, <3>1 DEF FinishInv, TornByWriter
    <3>2. CASE live'[i] # live[i]
      <4>1. step.op \in Writes /\ i = step.item
        BY <2>3, <3>2, Zenon DEF TypeOK, VolumeTypeOK
      <4>2. run \in Runs /\ script = scriptOf[run] /\ pc \in 1 .. Len(Program[script])
        BY <2>1, StepType, Zenon DEF TypeOK, script
      <4>3. WritesItem(script, i)
        BY <4>1, <4>2 DEF WritesItem, step
      <4>4. run \in 1 .. run
        BY <4>2, ItemAssumption DEF Runs
      <4> QED
        BY <4>2, <4>3, <4>4, Zenon
    <3> QED
      BY <3>1, <3>2, Zenon
  <2>5. TornByWriter'
    BY <2>1, <2>4 DEF TornByWriter, WritesItem
  <2> QED
    BY <2>1, <2>2, <2>5, Zenon DEF FinishInv
<1>10. CASE UNCHANGED vars
  <2>1. UNCHANGED <<snap, snapRun, scriptOf, run, live, pc, status>>
    BY <1>10 DEF vars
  <2>2. TornOnlyFromOthers' /\ SnapshotFinished'
    BY <2>1, FinishKept, Zenon DEF FinishInv
  <2>3. TornByWriter'
    BY <2>1, Zenon DEF FinishInv, TornByWriter, WritesItem
  <2>4. WorkDone => WorkDone'
    BY <2>1, Zenon DEF WorkDone, SignsLast, script
  <2> QED
    BY <2>1, <2>2, <2>3, <2>4, Zenon DEF FinishInv
<1> QED
  BY <1>1, <1>2, <1>3, <1>4, <1>5, <1>6, <1>7, <1>8, <1>9, <1>10 DEF Next, Execute

\* Running a script again until it succeeds heals what its failed runs left: a torn
\* bundle is blessed only if a run of another script may have left it.
THEOREM TornAlwaysFromOthers == Spec => []TornOnlyFromOthers
<1>1. TypeOK /\ FinishInv /\ [Next]_vars => (TypeOK /\ FinishInv)'
  BY NextType, NextFinish
<1>2. Init => TypeOK /\ FinishInv
  BY InitType, InitFinish
<1>3. FinishInv => TornOnlyFromOthers
  BY DEF FinishInv
<1> QED
  BY <1>1, <1>2, <1>3, PTL DEF Spec

\* Every snapshot has its script's work finished: what the script normalises belongs
\* to root, and nothing it edits is left with a signature from before.
THEOREM SnapshotAlwaysFinished == Spec => []SnapshotFinished
<1>1. TypeOK /\ FinishInv /\ [Next]_vars => (TypeOK /\ FinishInv)'
  BY NextType, NextFinish
<1>2. Init => TypeOK /\ FinishInv
  BY InitType, InitFinish
<1>3. FinishInv => SnapshotFinished
  BY DEF FinishInv
<1> QED
  BY <1>1, <1>2, <1>3, PTL DEF Spec


-----------------------------------------------------------------------------
(* What a new snapshot brings.                                             *)

TouchedSince(r, i) == \E q \in r + 1 .. run : Touches(scriptOf[q], i)

\* What the volume holds and the snapshot does not was put there by a run since the
\* snapshot, which may have failed.
AccountInv == \A i \in Items : live[i] # snap[i] => TouchedSince(snapRun, i)

\* The bundles in which a new snapshot differs from the one before it.
SnapshotAccounted ==
  \A i \in Items : snap'[i] # snap[i] =>
    \E q \in snapRun + 1 .. snapRun' : Touches(scriptOf[q], i)

\* What a step must show that neither starts a run nor blesses.
LEMMA AccountFrame ==
  ASSUME TypeOK, AccountInv, UNCHANGED <<snap, snapRun, scriptOf, run>>,
         \A i \in Items : live'[i] = live[i] \/ TouchedSince(snapRun, i)
  PROVE  AccountInv'
BY Zenon DEF AccountInv, TouchedSince

\* The command at pc touches its bundle, in a run after the snapshot's.
LEMMA StepTouches ==
  ASSUME TypeOK, SnapshotInv, status = "running", step.op \in Writes \cup {"chown"}
  PROVE  TouchedSince(snapRun, step.item)
<1>1. /\ pc \in 1 .. Len(Program[script]) /\ run \in Runs /\ snapRun \in 0 .. run
      /\ snapRun # run
  BY StepType DEF TypeOK, RunTypeOK, SnapshotInv
<1>2. run \in snapRun + 1 .. run
  BY <1>1 DEF Runs
<1>3. Touches(script, step.item)
  BY <1>1, Zenon DEF Touches, step
<1> QED
  BY <1>2, <1>3, Zenon DEF TouchedSince, script

LEMMA NextAccount ==
  ASSUME TypeOK, SnapshotInv, AccountInv, [Next]_vars PROVE AccountInv'
<1>1. ASSUME NEW s \in Scripts, StartRun(s) PROVE AccountInv'
  <2>1. /\ UNCHANGED <<live, snap, snapRun>> /\ run' = run + 1 /\ run \in Nat
        /\ snapRun \in Nat
    BY <1>1 DEF StartRun, diskVars, TypeOK, RunTypeOK
  <2>2. \A q \in snapRun + 1 .. run :
          q \in snapRun' + 1 .. run' /\ scriptOf'[q] = scriptOf[q]
    BY <1>1, <2>1 DEF StartRun, TypeOK, RunTypeOK
  <2> QED
    BY <2>1, <2>2, Zenon DEF AccountInv, TouchedSince
<1>2. ASSUME NEW op \in Writes \cup {"chown"}, Command(op), NEW b, SetLive(step.item, b)
      PROVE  AccountInv'
  <2>1. /\ status = "running" /\ step.op \in Writes \cup {"chown"}
        /\ UNCHANGED <<snap, snapRun, scriptOf, run>>
    BY <1>2, Zenon DEF Command, SetLive
  <2>2. \A i \in Items : live'[i] = live[i] \/ i = step.item
    BY <1>2, Zenon DEF SetLive, TypeOK, VolumeTypeOK
  <2> QED
    BY <2>1, <2>2, StepTouches, AccountFrame, Zenon
<1>3. CASE Drop \/ Put \/ Stage \/ SetPlist \/ PatchBinary \/ Resign \/ Chown
  BY <1>2, <1>3 DEF Drop, Put, Stage, SetPlist, PatchBinary, Resign, Chown, Writes
<1>4. CASE Save \/ Verify \/ Rebuild \/ NormalizeStash \/ StashGlobFails
  <2>1. UNCHANGED <<live, snap, snapRun, scriptOf, run>>
    BY <1>4, Zenon DEF Save, Verify, Rebuild, NormalizeStash, StashGlobFails, Command
  <2> QED
    BY <2>1, AccountFrame, Zenon
<1>5. CASE Bless
  BY <1>5, Zenon DEF Bless, AccountInv
<1>6. CASE Abort
  <2>1. status = "running" /\ UNCHANGED <<snap, snapRun, scriptOf, run>>
    BY <1>6, Zenon DEF Abort
  <2>2. ASSUME NEW i \in Items PROVE live'[i] = live[i] \/ TouchedSince(snapRun, i)
    <3>1. CASE live' = live
      BY <3>1, Zenon
    <3>2. CASE step.op \in Writes /\ \E b : live' = [live EXCEPT ![step.item] = b]
      <4>1. TouchedSince(snapRun, step.item)
        BY <2>1, <3>2, StepTouches, Zenon
      <4>2. i # step.item => live'[i] = live[i]
        BY <3>2, Zenon DEF TypeOK, VolumeTypeOK
      <4> QED
        BY <4>1, <4>2, Zenon
    <3> QED
      BY <1>6, <3>1, <3>2, Zenon DEF Abort, Writes
  <2> QED
    BY <2>1, <2>2, AccountFrame, Zenon
<1>7. CASE UNCHANGED vars
  BY <1>7, Zenon DEF vars, AccountInv, TouchedSince
<1> QED
  BY <1>1, <1>3, <1>4, <1>5, <1>6, <1>7, Zenon DEF Next, Execute

\* What the volume or the snapshot holds and the collections were not built from was
\* put there, or removed again, by a run between.
CollectionsInv ==
  \A i \in Items :
    /\ kc[i] \notin {live[i], Torn(live[i])} => TouchedSince(kcRun, i)
    /\ kc[i] \notin {snap[i], Torn(snap[i])} =>
         \E q \in RunsBetween : Touches(scriptOf[q], i)

LEMMA CollectionsPrimed ==
  ASSUME \A i \in Items :
           /\ kc'[i] \notin {live'[i], Torn(live'[i])} =>
                \E q \in kcRun' + 1 .. run' : Touches(scriptOf'[q], i)
           /\ kc'[i] \notin {snap'[i], Torn(snap'[i])} =>
                \E q \in RunsBetween' : Touches(scriptOf'[q], i)
  PROVE  CollectionsInv'
BY Zenon DEF CollectionsInv, TouchedSince, Touches, Torn, Mark

\* What a step must show that neither starts a run, nor rebuilds, nor blesses.
LEMMA CollectionsFrame ==
  ASSUME CollectionsInv, UNCHANGED <<kc, kcRun, snap, snapRun, scriptOf, run>>,
         \A i \in Items : live'[i] = live[i] \/ TouchedSince(kcRun, i)
  PROVE  CollectionsInv'
<1>1. RunsBetween' = RunsBetween
  BY DEF RunsBetween
<1> QED
  BY <1>1, CollectionsPrimed, Zenon DEF CollectionsInv, TouchedSince

\* The command at pc touches its bundle, in a run after the one that built the
\* collections.
LEMMA StepTouchesSince ==
  ASSUME TypeOK, SnapshotInv, status = "running", step.op \in Writes \cup {"chown"}
  PROVE  TouchedSince(kcRun, step.item)
<1>1. /\ pc \in 1 .. Len(Program[script]) /\ run \in Runs /\ kcRun \in 0 .. run
      /\ kcRun # run
  BY StepType, NotRebuiltYet DEF TypeOK, RunTypeOK
<1>2. run \in kcRun + 1 .. run
  BY <1>1 DEF Runs
<1>3. Touches(script, step.item)
  BY <1>1, Zenon DEF Touches, step
<1> QED
  BY <1>2, <1>3, Zenon DEF TouchedSince, script

LEMMA NextCollections ==
  ASSUME TypeOK, SnapshotInv, AccountInv, CollectionsInv, [Next]_vars
  PROVE  CollectionsInv'
<1>0. run \in Nat /\ kcRun \in 0 .. run /\ snapRun \in 0 .. run
  BY ItemAssumption DEF TypeOK, RunTypeOK
<1>1. ASSUME NEW s \in Scripts, StartRun(s) PROVE CollectionsInv'
  <2>1. UNCHANGED <<live, kc, kcRun, snap, snapRun>> /\ run' = run + 1
    BY <1>1 DEF StartRun, diskVars
  <2>2. \A q \in 1 .. run : scriptOf'[q] = scriptOf[q]
    BY <1>0, <1>1 DEF StartRun, TypeOK, RunTypeOK
  <2>3. \A q \in kcRun + 1 .. run : q \in 1 .. run /\ q \in kcRun + 1 .. run'
    BY <1>0, <2>1
  <2>4. RunsBetween' = RunsBetween /\ \A q \in RunsBetween : q \in 1 .. run
    BY <1>0, <2>1 DEF RunsBetween
  <2>5. \A i \in Items : TouchedSince(kcRun, i) =>
           \E q \in kcRun' + 1 .. run' : Touches(scriptOf'[q], i)
    BY <2>1, <2>2, <2>3, Zenon DEF TouchedSince
  <2>6. \A i \in Items :
          (\E q \in RunsBetween : Touches(scriptOf[q], i))
            => \E q \in RunsBetween' : Touches(scriptOf'[q], i)
    BY <2>2, <2>4, Zenon
  <2> QED
    BY <2>1, <2>5, <2>6, CollectionsPrimed, Zenon DEF CollectionsInv, TouchedSince
<1>2. ASSUME NEW op \in Writes \cup {"chown"}, Command(op), NEW b, SetLive(step.item, b)
      PROVE  CollectionsInv'
  <2>1. /\ status = "running" /\ step.op \in Writes \cup {"chown"}
        /\ UNCHANGED <<kc, kcRun, snap, snapRun, scriptOf, run>>
    BY <1>2, Zenon DEF Command, SetLive
  <2>2. \A i \in Items : live'[i] = live[i] \/ i = step.item
    BY <1>2, Zenon DEF SetLive, TypeOK, VolumeTypeOK
  <2> QED
    BY <2>1, <2>2, StepTouchesSince, CollectionsFrame, Zenon
<1>3. CASE Drop \/ Put \/ Stage \/ SetPlist \/ PatchBinary \/ Resign \/ Chown
  BY <1>2, <1>3 DEF Drop, Put, Stage, SetPlist, PatchBinary, Resign, Chown, Writes
<1>4. CASE Save \/ Verify \/ NormalizeStash \/ StashGlobFails
  <2>1. UNCHANGED <<live, kc, kcRun, snap, snapRun, scriptOf, run>>
    BY <1>4, Zenon DEF Save, Verify, NormalizeStash, StashGlobFails, Command
  <2> QED
    BY <2>1, CollectionsFrame, Zenon
<1>5. ASSUME UNCHANGED <<live, snap, snapRun, scriptOf, run>>, kcRun' = run,
             \A i \in Items : kc'[i] \in {live[i], Torn(live[i])}
      PROVE  CollectionsInv'
  <2>1. snapRun + 1 .. run \subseteq RunsBetween'
    BY <1>5, Zenon DEF RunsBetween
  <2>2. \A i \in Items : live[i] # snap[i] =>
           \E q \in RunsBetween' : Touches(scriptOf[q], i)
    BY <2>1, Zenon DEF AccountInv, TouchedSince
  <2>3. \A i \in Items : kc'[i] \notin {snap[i], Torn(snap[i])} => live[i] # snap[i]
    BY <1>5, Zenon
  <2> QED
    BY <1>5, <2>2, <2>3, CollectionsPrimed, Zenon
<1>6. CASE Rebuild
  BY <1>5, <1>6, Zenon DEF Rebuild, Command
<1>7. CASE Bless
  <2>1. /\ UNCHANGED <<live, kc, kcRun, scriptOf, run>>
        /\ snap' = live /\ snapRun' = run
    BY <1>7, Zenon DEF Bless, Command
  <2>2. kcRun + 1 .. run \subseteq RunsBetween'
    BY <2>1, Zenon DEF RunsBetween
  <2>3. \A i \in Items : kc[i] \notin {live[i], Torn(live[i])} =>
           \E q \in RunsBetween' : Touches(scriptOf[q], i)
    BY <2>2, Zenon DEF CollectionsInv, TouchedSince
  <2> QED
    BY <2>1, <2>3, CollectionsPrimed, Zenon DEF CollectionsInv, TouchedSince
<1>8. CASE Abort
  <2>1. status = "running" /\ UNCHANGED <<snap, snapRun, scriptOf, run>>
    BY <1>8, Zenon DEF Abort
  <2>2. CASE UNCHANGED <<live, kc, kcRun>>
    BY <2>1, <2>2, CollectionsFrame, Zenon
  <2>3. CASE /\ step.op \in Writes /\ UNCHANGED <<kc, kcRun>>
             /\ \E b : live' = [live EXCEPT ![step.item] = b]
    <3>1. \A i \in Items : i # step.item => live'[i] = live[i]
      BY <2>3, Zenon DEF TypeOK, VolumeTypeOK
    <3>2. TouchedSince(kcRun, step.item)
      BY <2>1, <2>3, StepTouchesSince, Zenon
    <3> QED
      BY <2>1, <2>3, <3>1, <3>2, CollectionsFrame, Zenon
  <2>4. CASE /\ kc' = [x \in Items |-> Torn(live[x])] /\ kcRun' = run
             /\ UNCHANGED live
    <3>1. \A i \in Items : kc'[i] \in {live[i], Torn(live[i])}
      BY <2>4, Zenon
    <3> QED
      BY <1>5, <2>1, <2>4, <3>1, Zenon
  <2> QED
    BY <1>8, <2>2, <2>3, <2>4, Zenon DEF Abort, Writes
<1>9. CASE UNCHANGED vars
  BY <1>9, CollectionsFrame, Zenon DEF vars
<1> QED
  BY <1>1, <1>3, <1>4, <1>6, <1>7, <1>8, <1>9, Zenon DEF Next, Execute

\* A script that rebuilds the kernel collections leaves them matching what the volume
\* boots, and wherever runs fail they differ from it only in what the runs between
\* change.
THEOREM CollectionsAlwaysMatch == Spec => []CollectionsMatchSnapshot
<1> DEFINE Inv == TypeOK /\ SnapshotInv /\ AccountInv /\ CollectionsInv
<1>1. Inv /\ [Next]_vars => Inv'
  BY NextType, NextSnapshot, NextAccount, NextCollections
<1>2. Init => Inv
  <2>1. Init => AccountInv /\ CollectionsInv
    BY Zenon DEF Init, AccountInv, CollectionsInv
  <2> QED
    BY <2>1, InitType, InitSnapshot
<1>3. Inv => CollectionsMatchSnapshot
  BY Zenon DEF SnapshotInv, RebuiltFirst, CollectionsInv, CollectionsMatchSnapshot
<1> QED
  BY <1>1, <1>2, <1>3, PTL DEF Spec

\* A snapshot brings in nothing unasked for: each bundle in which it differs from the
\* snapshot before it is one that a script run since then writes, be it the run that
\* blesses or one that failed on the way.
THEOREM SnapshotsAccountedFor == Spec => [][SnapshotAccounted]_vars
<1>1. TypeOK /\ SnapshotInv /\ AccountInv /\ [Next]_vars
        => (TypeOK /\ SnapshotInv /\ AccountInv)'
  BY NextType, NextSnapshot, NextAccount
<1>2. Init => TypeOK /\ SnapshotInv /\ AccountInv
  <2>1. Init => AccountInv
    BY Zenon DEF Init, AccountInv
  <2> QED
    BY <2>1, InitType, InitSnapshot
<1>3. TypeOK /\ AccountInv /\ [Next]_vars => [SnapshotAccounted]_vars
  <2> SUFFICES ASSUME TypeOK, AccountInv, [Next]_vars PROVE SnapshotAccounted
    OBVIOUS
  <2>1. CASE Bless
    <3>1. snap' = live /\ snapRun' = run
      BY <2>1, Zenon DEF Bless
    <3> QED
      BY <3>1, Zenon DEF SnapshotAccounted, AccountInv, TouchedSince
  <2>2. CASE ~Bless
    <3>1. snap' = snap
      BY <2>2, Zenon DEF Next, Execute, StartRun, diskVars, Save, Drop, Put, Stage,
        SetPlist, PatchBinary, Resign, Verify, Chown, Rebuild, NormalizeStash,
        StashGlobFails, SetLive, Abort, vars
    <3> QED
      BY <3>1, Zenon DEF SnapshotAccounted
  <2> QED
    BY <2>1, <2>2, Zenon
<1> QED
  BY <1>1, <1>2, <1>3, PTL DEF Spec
=============================================================================
