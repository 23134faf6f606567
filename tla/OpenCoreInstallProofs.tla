------------------------ MODULE OpenCoreInstallProofs ------------------------
(***************************************************************************)
(* Proofs about OpenCoreInstall, for any GPUs, own configurations and      *)
(* boot-args that satisfy the assumptions, and any number of runs:         *)
(*   OriginalEfiIsKept and DeviceIsWhole.                                  *)
(* Each follows from an inductive invariant of its own over the shared     *)
(* ones Ctl (where the scripts are) and Data (the types, and the entry     *)
(* that is being filled).                                                  *)
(***************************************************************************)
EXTENDS OpenCoreInstall, TLAPS

(***************************************************************************)
(* Where the scripts are.  Where(e, f, h) is step e of an existing, f of a *)
(* fresh and h of a hybrid installation, 0 standing for none.              *)
(***************************************************************************)
Where(e, f, h) ==
    /\ step > 0
    /\ \/ job.script = "existing" /\ step = e
       \/ job.script = "fresh" /\ step = f
       \/ job.script = "hybrid" /\ step = h

Length(j) ==
    CASE j.script = "existing" -> IF j.dgpu THEN 11 ELSE 6
      [] j.script = "fresh" -> IF j.dgpu THEN 9 ELSE 4
      [] j.script = "hybrid" -> 9

Ctl ==
    /\ step \in Nat
    /\ job \in Jobs \cup {NoJob}
    /\ step > 0 => job \in Jobs /\ step <= Length(job)
    /\ completed => job \in Jobs /\ step = 0
    /\ adding => Where(4, 0, 7) \/ Where(5, 0, 8)
    /\ step > 0 /\ job.script = "hybrid" => volume = "own"
    /\ step > 0 /\ job.script = "fresh" => volume = "kryptonite"

\* The steps of each script, one by one
LEMMA Lengths == ASSUME NEW j \in Jobs PROVE Len(Steps(j)) = Length(j)
<1>1. CASE j.script = "existing" /\ j.dgpu
    BY <1>1 DEF Steps, CopySteps, InjectSteps, BootArgs, DeviceSteps, Length
<1>2. CASE j.script = "existing" /\ ~j.dgpu
    BY <1>2 DEF Steps, CopySteps, InjectSteps, BootArgs, DeviceSteps, Length
<1>3. CASE j.script = "fresh" /\ j.dgpu
    BY <1>3 DEF Steps, BootArgs, DeviceSteps, Length
<1>4. CASE j.script = "fresh" /\ ~j.dgpu
    BY <1>4 DEF Steps, BootArgs, DeviceSteps, Length
<1>5. CASE j.script = "hybrid"
    BY <1>5 DEF Steps, CopySteps, InjectSteps, BootArgs, Length
<1> QED BY <1>1, <1>2, <1>3, <1>4, <1>5 DEF Jobs

\* prep_existing_oc, step by step
LEMMA ExistingSteps ==
    ASSUME NEW j \in Jobs, j.script = "existing"
    PROVE  /\ Steps(j)[1] = <<"copy", "Kryptonite">> /\ Steps(j)[2] = <<"copy", "Lilu">>
           /\ Steps(j)[3] = <<"scan", "config">> /\ Steps(j)[4] = <<"inject", "Lilu">>
           /\ Steps(j)[5] = <<"inject", "Kryptonite">> /\ Steps(j)[6] = <<"set", "boot-args">>
           /\ j.dgpu => /\ Steps(j)[7] = <<"find", "device">>
                        /\ Steps(j)[8] = <<"import", "class-code">>
                        /\ Steps(j)[9] = <<"add", "IOName">>
                        /\ Steps(j)[10] = <<"add", "name">>
                        /\ Steps(j)[11] = <<"set", "mux">>
<1>1. CASE j.dgpu
    BY <1>1 DEF Steps, CopySteps, InjectSteps, BootArgs, DeviceSteps
<1>2. CASE ~j.dgpu
    BY <1>2 DEF Steps, CopySteps, InjectSteps, BootArgs, DeviceSteps
<1> QED BY <1>1, <1>2

\* prep_fresh_oc, step by step
LEMMA FreshSteps ==
    ASSUME NEW j \in Jobs, j.script = "fresh"
    PROVE  /\ Steps(j)[1] = <<"format", "volume">> /\ Steps(j)[2] = <<"move", "EFI">>
           /\ Steps(j)[3] = <<"bless", "EFI">> /\ Steps(j)[4] = <<"set", "boot-args">>
           /\ j.dgpu => /\ Steps(j)[5] = <<"find", "device">>
                        /\ Steps(j)[6] = <<"import", "class-code">>
                        /\ Steps(j)[7] = <<"add", "IOName">>
                        /\ Steps(j)[8] = <<"add", "name">>
                        /\ Steps(j)[9] = <<"set", "mux">>
<1>1. CASE j.dgpu
    BY <1>1 DEF Steps, BootArgs, DeviceSteps
<1>2. CASE ~j.dgpu
    BY <1>2 DEF Steps, BootArgs, DeviceSteps
<1> QED BY <1>1, <1>2

\* hybrid_install.sh, step by step
LEMMA HybridSteps ==
    ASSUME NEW j \in Jobs, j.script = "hybrid"
    PROVE  /\ Steps(j)[1] = <<"save", "config">> /\ Steps(j)[2] = <<"save", "Kryptonite">>
           /\ Steps(j)[3] = <<"save", "Lilu">> /\ Steps(j)[4] = <<"copy", "Kryptonite">>
           /\ Steps(j)[5] = <<"copy", "Lilu">> /\ Steps(j)[6] = <<"scan", "config">>
           /\ Steps(j)[7] = <<"inject", "Lilu">> /\ Steps(j)[8] = <<"inject", "Kryptonite">>
           /\ Steps(j)[9] = <<"set", "boot-args">>
BY DEF Steps, CopySteps, InjectSteps, BootArgs

\* Each step is in one place of each script
LEMMA Guards ==
    ASSUME Ctl
    PROVE  /\ At("save", "config") => Where(0, 0, 1)
           /\ At("save", "Kryptonite") => Where(0, 0, 2)
           /\ At("save", "Lilu") => Where(0, 0, 3)
           /\ At("copy", "Kryptonite") => Where(1, 0, 4)
           /\ At("copy", "Lilu") => Where(2, 0, 5)
           /\ At("scan", "config") => Where(3, 0, 6)
           /\ At("inject", "Lilu") => Where(4, 0, 7)
           /\ At("inject", "Kryptonite") => Where(5, 0, 8)
           /\ At("set", "boot-args") => Where(6, 4, 9)
           /\ At("find", "device") => Where(7, 5, 0)
           /\ At("import", "class-code") => Where(8, 6, 0)
           /\ At("add", "class-code") => FALSE
           /\ At("add", "IOName") <=> Where(9, 7, 0)
           /\ At("add", "name") <=> Where(10, 8, 0)
           /\ At("set", "mux") => Where(11, 9, 0)
           /\ At("format", "volume") => Where(0, 1, 0)
           /\ At("move", "EFI") => Where(0, 2, 0)
           /\ At("bless", "EFI") => Where(0, 3, 0)
<1>1. CASE step = 0
    BY <1>1 DEF At, Where
<1>2. CASE step > 0 /\ job.script = "existing"
    <2>1. job \in Jobs /\ step \in 1..11 /\ (~job.dgpu => step \in 1..6)
        BY <1>2 DEF Ctl, Length
    <2> QED BY <1>2, <2>1, ExistingSteps DEF At, Where
<1>3. CASE step > 0 /\ job.script = "fresh"
    <2>1. job \in Jobs /\ step \in 1..9 /\ (~job.dgpu => step \in 1..4)
        BY <1>3 DEF Ctl, Length
    <2> QED BY <1>3, <2>1, FreshSteps DEF At, Where
<1>4. CASE step > 0 /\ job.script = "hybrid"
    <2>1. job \in Jobs /\ step \in 1..9
        BY <1>4 DEF Ctl, Length
    <2> QED BY <1>4, <2>1, HybridSteps DEF At, Where
<1> QED BY <1>1, <1>2, <1>3, <1>4 DEF Ctl, Jobs

\* Where each action takes place
LEMMA Places ==
    ASSUME Ctl
    PROVE  /\ SaveConfig => Where(0, 0, 1)
           /\ Scan => Where(3, 0, 6)
           /\ SetBootArgs => Where(6, 4, 9)
           /\ FindDevice => Where(7, 5, 0)
           /\ ImportClassCode => Where(8, 6, 0)
           /\ SetMux => Where(11, 9, 0)
           /\ Format => Where(0, 1, 0)
           /\ Move => Where(0, 2, 0)
           /\ Bless => Where(0, 3, 0)
           /\ \A b \in Bundles :
                /\ SaveKext(b) => \/ b = "Kryptonite" /\ Where(0, 0, 2)
                                  \/ b = "Lilu" /\ Where(0, 0, 3)
                /\ CopyKext(b) => \/ b = "Kryptonite" /\ Where(1, 0, 4)
                                  \/ b = "Lilu" /\ Where(2, 0, 5)
                /\ Enable(b) \/ AddField(b) => \/ b = "Lilu" /\ Where(4, 0, 7)
                                               \/ b = "Kryptonite" /\ Where(5, 0, 8)
           /\ \A d \in DeviceFields :
                AddDeviceField(d) => \/ d = "IOName" /\ Where(9, 7, 0)
                                     \/ d = "name" /\ Where(10, 8, 0)
<1>1. SaveConfig => Where(0, 0, 1)
    BY Guards DEF SaveConfig
<1>2. Scan => Where(3, 0, 6)
    BY Guards DEF Scan
<1>3. SetBootArgs => Where(6, 4, 9)
    BY Guards DEF SetBootArgs
<1>4. FindDevice => Where(7, 5, 0)
    BY Guards DEF FindDevice
<1>5. ImportClassCode => Where(8, 6, 0)
    BY Guards DEF ImportClassCode
<1>6. SetMux => Where(11, 9, 0)
    BY Guards DEF SetMux
<1>7. (Format => Where(0, 1, 0)) /\ (Move => Where(0, 2, 0)) /\ (Bless => Where(0, 3, 0))
    BY Guards DEF Format, Move, Bless
<1>8. ASSUME NEW b \in Bundles
      PROVE  /\ SaveKext(b) => At("save", b)
             /\ CopyKext(b) => At("copy", b)
             /\ Enable(b) \/ AddField(b) => At("inject", b)
    BY Zenon DEF SaveKext, CopyKext, Enable, AddField
<1>9. ASSUME NEW d \in DeviceFields PROVE AddDeviceField(d) => At("add", d)
    BY DEF AddDeviceField
<1>10. \A d \in DeviceFields : AddDeviceField(d) => \/ d = "IOName" /\ Where(9, 7, 0)
                                                    \/ d = "name" /\ Where(10, 8, 0)
    BY <1>9, Guards DEF DeviceFields
<1>11. \A b \in Bundles :
                /\ SaveKext(b) => \/ b = "Kryptonite" /\ Where(0, 0, 2)
                                  \/ b = "Lilu" /\ Where(0, 0, 3)
                /\ CopyKext(b) => \/ b = "Kryptonite" /\ Where(1, 0, 4)
                                  \/ b = "Lilu" /\ Where(2, 0, 5)
                /\ Enable(b) \/ AddField(b) => \/ b = "Lilu" /\ Where(4, 0, 7)
                                               \/ b = "Kryptonite" /\ Where(5, 0, 8)
    BY <1>8, Guards DEF Bundles
<1> QED BY <1>1, <1>2, <1>3, <1>4, <1>5, <1>6, <1>7, <1>10, <1>11

\* No script runs at first
LEMMA InitCtl == Init => Ctl
BY DEF Init, Ctl

\* A step is over: the script goes on with the next one or ends
LEMMA AdvanceCtl ==
    ASSUME Ctl, step > 0, Proceed, volume' = volume, ~adding
    PROVE  /\ Ctl'
           /\ job' = job
           /\ \/ step < Length(job) /\ step' = step + 1 /\ ~completed'
              \/ step = Length(job) /\ step' = 0
<1>1. job \in Jobs /\ Len(Steps(job)) = Length(job) /\ ~completed
    BY Lengths DEF Ctl
<1>2. Length(job) \in Nat
    BY <1>1 DEF Length, Jobs
<1>3. CASE step < Length(job)
    BY <1>1, <1>2, <1>3 DEF Ctl, Advance, Proceed
<1>4. CASE ~(step < Length(job))
    BY <1>1, <1>2, <1>4 DEF Ctl, Advance, Proceed
<1> QED BY <1>3, <1>4

\* The script exits: it is not completed
LEMMA LeaveCtl ==
    ASSUME Ctl, step > 0, Leave, volume' = volume
    PROVE  Ctl' /\ step' = 0 /\ ~completed'
BY DEF Ctl, Leave

\* The places of the steps that do not add a field
LEMMA NotAdding ==
    ASSUME Ctl, adding
    PROVE  step > 0 /\ (At("inject", "Lilu") \/ At("inject", "Kryptonite"))
<1>1. step > 0 /\ job \in Jobs
    BY DEF Ctl, Where
<1> QED BY <1>1, ExistingSteps, HybridSteps DEF Ctl, Where, At

\* Every action keeps the control in its script
LEMMA CtlStep == Ctl /\ [Next]_vars => Ctl'
<1> SUFFICES ASSUME Ctl, [Next]_vars PROVE Ctl'
    OBVIOUS
<1>1. ASSUME NEW j \in Jobs, Start(j) PROVE Ctl'
    <2>1. Length(j) \in Nat /\ Length(j) >= 1
        BY DEF Jobs, Length
    <2> QED BY <1>1, <2>1 DEF Start, Ctl, Where, Jobs
<1>2. CASE Cut
    BY <1>2, LeaveCtl DEF Cut
<1>3. ASSUME SaveConfig \/ Scan \/ SetBootArgs \/ ImportClassCode \/ SetMux \/ Format \/ Move \/ Bless
             \/ (\E b \in Bundles : SaveKext(b) \/ CopyKext(b) \/ Enable(b))
             \/ (\E f \in DeviceFields : AddDeviceField(f))
      PROVE  Ctl'
    <2>1. step > 0 /\ volume' = volume /\ (Proceed \/ Leave)
        BY <1>3, Zenon DEF SaveConfig, Scan, SetBootArgs, ImportClassCode, SetMux,
           Format, Move, Bless, Advance,
           SaveKext, CopyKext, Enable, AddDeviceField, At
    <2>2. ~adding
        BY <1>3, NotAdding, Guards DEF SaveConfig, Scan, SetBootArgs, ImportClassCode,
           SetMux, Format, Move, Bless,
           SaveKext, CopyKext, Enable, AddDeviceField, Bundles, DeviceFields, Where, Ctl
    <2> QED BY <2>1, <2>2, AdvanceCtl, LeaveCtl
<1>4. ASSUME NEW b \in Bundles, AddField(b) PROVE Ctl'
    <2>1. Where(4, 0, 7) \/ Where(5, 0, 8)
        BY <1>4, Places
    <2>2. job \in Jobs /\ step + 1 <= Length(job) /\ Length(job) \in Nat
        BY <2>1 DEF Ctl, Where, Length, Jobs
    <2>3. volume' = volume /\ job' = job /\ completed' = completed
        BY <1>4, Zenon DEF AddField
    <2>4. (step' = step) \/ (step' = step + 1 /\ adding' = FALSE)
        BY <1>4, Zenon DEF AddField
    <2> QED BY <2>1, <2>2, <2>3, <2>4 DEF Ctl, Where
<1>5. CASE FindDevice
    <2>1. Where(7, 5, 0)
        BY <1>5, Places
    <2>2. job \in Jobs /\ Length(job) \in Nat /\ Len(Steps(job)) = Length(job)
          /\ step + 1 <= Length(job)
        BY <2>1, Lengths DEF Ctl, Where, Length, Jobs
    <2>3. ~adding
        BY <2>1 DEF Ctl, Where
    <2> QED BY <1>5, <2>1, <2>2, <2>3 DEF FindDevice, Ctl, Where
<1>6. CASE UNCHANGED vars
    BY <1>6 DEF vars, control, Ctl, Where
<1> QED BY <1>1, <1>2, <1>3, <1>4, <1>5, <1>6 DEF Next

(***************************************************************************)
(* The types of the data, and the entry that is being filled.              *)
(***************************************************************************)
Contents == {"absent", "old", "mixed", "new"}
BackupRecs == [entries : Seq(EntryRecs), args : ArgRecs, whole : BOOLEAN,
               kexts : [Bundles -> Contents]]

Filling(b) ==
    /\ Len(entries) > 0
    /\ entries[Len(entries)].bundle = b /\ entries[Len(entries)].fields < Fields

Data ==
    /\ entries \in Seq(EntryRecs)
    /\ args \in ArgRecs
    /\ kexts \in [Bundles -> Contents]
    /\ backups \in Seq(BackupRecs)
    /\ step > 1 /\ job.script = "hybrid" => Len(backups) > 0
    /\ adding /\ Where(4, 0, 7) => Filling("Lilu")
    /\ adding /\ Where(5, 0, 8) => Filling("Kryptonite")

\* The EFI before the first run is of its type
LEMMA InitData == Init => Data
<1> SUFFICES ASSUME Init PROVE Data
    OBVIOUS
<1>1. entries \in Seq(EntryRecs)
    <2>1. \A c \in Configs : c \in Seq(EntryRecs)
        BY ConfigsAssumption
    <2>2. entries \in Configs \/ entries = <<>>
        BY DEF Init
    <2>3. <<>> \in Seq(EntryRecs)
        OBVIOUS
    <2> QED BY <2>1, <2>2, <2>3, Zenon
<1>2. args \in ArgRecs
    <2>1. args \in ArgLists \/ args = NoArgs
        BY DEF Init
    <2>2. NoArgs \in ArgRecs
        BY DEF NoArgs, ArgRecs
    <2> QED BY <2>1, <2>2, ArgsAssumption
<1>3. kexts \in [Bundles -> Contents]
    BY DEF Init, Contents
<1> QED BY <1>1, <1>2, <1>3 DEF Init, Data

\* A sequence of entries with one of them replaced, or with one more
LEMMA ReplaceEntry ==
    ASSUME NEW s \in Seq(EntryRecs), NEW i \in DOMAIN s, NEW e \in EntryRecs
    PROVE  /\ [s EXCEPT ![i] = e] \in Seq(EntryRecs)
           /\ Len([s EXCEPT ![i] = e]) = Len(s)
OBVIOUS

\* What sets entries, and where
LEMMA EnableEntry ==
    ASSUME Ctl, Data, NEW b \in Bundles, Enable(b)
    PROVE  /\ (b = "Lilu" => Where(4, 0, 7)) /\ (b = "Kryptonite" => Where(5, 0, 8))
           /\ ~adding
           /\ \E i \in DOMAIN entries :
               /\ Found(i, b)
               /\ \/ /\ entries[i].fields = Fields /\ Advance
                     /\ entries' = [entries EXCEPT ![i].on = TRUE]
                  \/ entries' = entries /\ Leave
           /\ entries' \in Seq(EntryRecs)
<1>1. (b = "Lilu" => Where(4, 0, 7)) /\ (b = "Kryptonite" => Where(5, 0, 8))
    <2>1. At("inject", b)
        BY DEF Enable
    <2>2. At("inject", "Lilu") => Where(4, 0, 7)
        BY Guards
    <2>3. At("inject", "Kryptonite") => Where(5, 0, 8)
        BY Guards
    <2> QED BY <2>1, <2>2, <2>3
<1>2. PICK i \in DOMAIN entries :
               /\ Found(i, b)
               /\ \/ /\ entries[i].fields = Fields /\ Advance
                     /\ entries' = [entries EXCEPT ![i].on = TRUE]
                  \/ entries' = entries /\ Leave
    BY DEF Enable
<1>3. entries' \in Seq(EntryRecs)
    <2>1. entries[i] \in EntryRecs /\ entries \in Seq(EntryRecs)
        BY <1>2 DEF Data
    <2>2. [entries[i] EXCEPT !.on = TRUE] \in EntryRecs
        BY <2>1, Zenon DEF EntryRecs
    <2> QED BY <1>2, <2>1, <2>2, ReplaceEntry, Zenon
<1> QED BY <1>1, <1>2, <1>3 DEF Enable

\* An entry is appended, filled further or completed
LEMMA AddFieldEntry ==
    ASSUME Ctl, Data, NEW b \in Bundles, AddField(b)
    PROVE  /\ (b = "Lilu" => Where(4, 0, 7)) /\ (b = "Kryptonite" => Where(5, 0, 8))
           /\ job' = job /\ completed' = completed
           /\ \/ /\ ~adding /\ Missing(b) /\ step' = step /\ adding'
                 /\ entries' = Append(entries, [bundle |-> b, fields |-> 1, on |-> FALSE])
              \/ /\ adding /\ Filling(b) /\ step' = step /\ adding'
                 /\ entries[Len(entries)].fields < Fields - 1
                 /\ entries' = [entries EXCEPT ![Len(entries)].fields = @ + 1]
              \/ /\ adding /\ Filling(b) /\ step' = step + 1 /\ ~adding'
                 /\ entries' = [entries EXCEPT ![Len(entries)] = Entry(b, TRUE)]
           /\ entries' \in Seq(EntryRecs)
<1>1. (b = "Lilu" => Where(4, 0, 7)) /\ (b = "Kryptonite" => Where(5, 0, 8))
    <2>1. At("inject", b)
        BY DEF AddField
    <2>2. At("inject", "Lilu") => Where(4, 0, 7)
        BY Guards
    <2>3. At("inject", "Kryptonite") => Where(5, 0, 8)
        BY Guards
    <2> QED BY <2>1, <2>2, <2>3
<1>2. adding => Filling(b)
    BY <1>1 DEF Data, Bundles
<1>3. CASE ~adding
    <2>1. entries' = Append(entries, [bundle |-> b, fields |-> 1, on |-> FALSE])
        BY <1>3, Zenon DEF AddField
    <2>2. [bundle |-> b, fields |-> 1, on |-> FALSE] \in EntryRecs
        BY DEF EntryRecs, Fields
    <2>3. entries' \in Seq(EntryRecs)
        BY <2>1, <2>2 DEF Data
    <2> QED BY <1>1, <1>3, <2>1, <2>3, Zenon DEF AddField
<1>4. CASE adding /\ entries[Len(entries)].fields < Fields - 1
    <2>1. entries' = [entries EXCEPT ![Len(entries)].fields = @ + 1]
        BY <1>4 DEF AddField
    <2>2. Len(entries) \in DOMAIN entries /\ entries[Len(entries)] \in EntryRecs
        BY <1>2, <1>4 DEF Data, Filling
    <2>3. [entries[Len(entries)] EXCEPT !.fields = @ + 1] \in EntryRecs
        BY <1>4, <2>2 DEF EntryRecs, Fields
    <2>4. entries' \in Seq(EntryRecs)
        BY <2>1, <2>2, <2>3, ReplaceEntry DEF Data
    <2> QED BY <1>1, <1>2, <1>4, <2>1, <2>4 DEF AddField
<1>5. CASE adding /\ ~(entries[Len(entries)].fields < Fields - 1)
    <2>1. entries' = [entries EXCEPT ![Len(entries)] = Entry(b, TRUE)]
        BY <1>5, Zenon DEF AddField
    <2>2. Len(entries) \in DOMAIN entries
        BY <1>2, <1>5 DEF Data, Filling
    <2>3. Entry(b, TRUE) \in EntryRecs
        BY DEF EntryRecs, Fields, Entry
    <2>4. entries' \in Seq(EntryRecs)
        BY <2>1, <2>2, <2>3, ReplaceEntry, Zenon DEF Data
    <2> QED BY <1>1, <1>2, <1>5, <2>1, <2>4, Zenon DEF AddField
<1> QED BY <1>3, <1>4, <1>5, Zenon

\* An entry is being filled only between two of its fields
LEMMA AddingStep ==
    ASSUME Ctl, [Next]_vars
    PROVE  (\E b \in Bundles : AddField(b)) \/ (UNCHANGED vars) \/ ~adding'
<1>1. ASSUME NEW j \in Jobs, Start(j) PROVE ~adding'
    BY <1>1 DEF Start, Ctl, Where
<1>2. CASE Cut
    BY <1>2 DEF Cut, Leave
<1>3. CASE SaveConfig \/ Scan \/ SetBootArgs \/ ImportClassCode \/ SetMux
    <2>1. Where(0, 0, 1) \/ Where(3, 0, 6) \/ Where(6, 4, 9) \/ Where(8, 6, 0) \/ Where(11, 9, 0)
        BY <1>3, Places
    <2>2. ~adding
        BY <2>1 DEF Ctl, Where
    <2> QED BY <1>3, <2>2, Zenon DEF SaveConfig, Scan, SetBootArgs, ImportClassCode,
         SetMux, Advance, Proceed, Leave
<1>4. CASE FindDevice \/ Format \/ Move \/ Bless
    <2>1. Where(7, 5, 0) \/ Where(0, 1, 0) \/ Where(0, 2, 0) \/ Where(0, 3, 0)
        BY <1>4, Places
    <2>2. ~adding
        BY <2>1 DEF Ctl, Where
    <2> QED BY <1>4, <2>2 DEF FindDevice, Format, Move, Bless, Advance, Proceed, Leave
<1>5. ASSUME NEW b \in Bundles, SaveKext(b) \/ CopyKext(b) PROVE ~adding'
    <2>1. Where(0, 0, 2) \/ Where(0, 0, 3) \/ Where(1, 0, 4) \/ Where(2, 0, 5)
        BY <1>5, Places
    <2>2. ~adding
        BY <2>1 DEF Ctl, Where
    <2> QED BY <1>5, <2>2 DEF SaveKext, CopyKext, Advance, Proceed, Leave
<1>6. ASSUME NEW b \in Bundles, Enable(b) PROVE ~adding'
    BY <1>6 DEF Enable, Advance, Proceed, Leave
<1>7. ASSUME NEW f \in DeviceFields, AddDeviceField(f) PROVE ~adding'
    <2>1. Where(9, 7, 0) \/ Where(10, 8, 0)
        BY <1>7, Places
    <2>2. ~adding
        BY <2>1 DEF Ctl, Where
    <2> QED BY <1>7, <2>2 DEF AddDeviceField, Advance, Proceed
<1> QED BY <1>1, <1>2, <1>3, <1>4, <1>5, <1>6, <1>7 DEF Next

\* What the steps write to the data
LEMMA SaveConfigBackup ==
    ASSUME Data, SaveConfig
    PROVE  /\ backups' \in Seq(BackupRecs) /\ Len(backups') = Len(backups) + 1
           /\ \A i \in DOMAIN backups : backups'[i] = backups[i]
           /\ \E whole \in BOOLEAN :
               /\ backups'[Len(backups')] =
                     [entries |-> entries, args |-> args, whole |-> whole,
                      kexts |-> [b \in Bundles |-> "absent"]]
               /\ IF whole THEN Advance ELSE Leave
<1>1. PICK whole \in BOOLEAN :
        /\ backups' = Append(backups, [entries |-> entries, args |-> args, whole |-> whole,
                                       kexts |-> [b \in Bundles |-> "absent"]])
        /\ IF whole THEN Advance ELSE Leave
    BY DEF SaveConfig
<1> DEFINE r == [entries |-> entries, args |-> args, whole |-> whole,
                 kexts |-> [b \in Bundles |-> "absent"]]
<1>2. r \in BackupRecs
    BY DEF Data, BackupRecs, Contents
<1>3. backups \in Seq(BackupRecs)
    BY DEF Data
<1> HIDE DEF r
<1>4. backups' = Append(backups, r)
    BY <1>1 DEF r
<1>5. /\ backups' \in Seq(BackupRecs) /\ Len(backups') = Len(backups) + 1
      /\ \A i \in DOMAIN backups : backups'[i] = backups[i]
      /\ backups'[Len(backups')] = r
    BY <1>2, <1>3, <1>4
<1> QED BY <1>1, <1>5 DEF r

\* The newest backup gets one bundle more
LEMMA SaveKextBackup ==
    ASSUME Ctl, Data, NEW b \in Bundles, SaveKext(b)
    PROVE  /\ b = "Kryptonite" => Where(0, 0, 2)
           /\ b = "Lilu" => Where(0, 0, 3)
           /\ Len(backups) > 0
           /\ backups' \in Seq(BackupRecs) /\ Len(backups') = Len(backups)
           /\ \A i \in DOMAIN backups : i # Len(backups) => backups'[i] = backups[i]
           /\ LET new == backups'[Len(backups)]
                  old == backups[Len(backups)]
              IN  /\ new.entries = old.entries /\ new.args = old.args /\ new.whole = old.whole
                  /\ \A c \in Bundles : c # b => new.kexts[c] = old.kexts[c]
                  /\ (new.kexts[b] = kexts[b] /\ Advance) \/ Leave
<1>1. At("save", b)
    BY DEF SaveKext
<1>2. (b = "Kryptonite" => Where(0, 0, 2)) /\ (b = "Lilu" => Where(0, 0, 3))
    BY <1>1, Guards
<1>3. Len(backups) > 0
    BY <1>2 DEF Data, Where, Bundles
<1> DEFINE n == Len(backups)
<1>4. n \in DOMAIN backups /\ backups[n] \in BackupRecs /\ backups \in Seq(BackupRecs)
    BY <1>3 DEF Data
<1>5. ASSUME NEW v \in Contents, backups' = [backups EXCEPT ![n].kexts[b] = v]
      PROVE  /\ backups' \in Seq(BackupRecs) /\ Len(backups') = Len(backups)
             /\ \A i \in DOMAIN backups : i # n => backups'[i] = backups[i]
             /\ backups'[n].entries = backups[n].entries /\ backups'[n].args = backups[n].args
             /\ backups'[n].whole = backups[n].whole
             /\ \A c \in Bundles : c # b => backups'[n].kexts[c] = backups[n].kexts[c]
             /\ backups'[n].kexts[b] = v
    <2> DEFINE r == [backups[n] EXCEPT !.kexts[b] = v]
    <2>1. /\ r \in BackupRecs
          /\ r.entries = backups[n].entries /\ r.args = backups[n].args
          /\ r.whole = backups[n].whole
          /\ \A c \in Bundles : c # b => r.kexts[c] = backups[n].kexts[c]
          /\ r.kexts[b] = v
        BY <1>4, Zenon DEF BackupRecs
    <2>2. backups' = [backups EXCEPT ![n] = r]
        BY <1>5
    <2> HIDE DEF r
    <2>3. /\ backups' \in Seq(BackupRecs) /\ Len(backups') = Len(backups)
          /\ \A i \in DOMAIN backups : i # n => backups'[i] = backups[i]
          /\ backups'[n] = r
        BY <1>4, <2>1, <2>2
    <2> QED BY <2>1, <2>3
<1>6. CASE backups' = [backups EXCEPT ![n].kexts[b] = kexts[b]] /\ Advance
    <2>1. kexts[b] \in Contents
        BY DEF Data
    <2> QED BY <1>2, <1>3, <1>5, <1>6, <2>1, Zenon
<1>7. CASE backups' = [backups EXCEPT ![n].kexts[b] = "mixed"] /\ Leave
    <2>1. "mixed" \in Contents
        BY DEF Contents
    <2> QED BY <1>2, <1>3, <1>5, <1>7, <2>1, Zenon
<1> QED BY <1>6, <1>7 DEF SaveKext

\* The list gets the missing arguments, or stays as it is
LEMMA SetBootArgsList ==
    ASSUME Ctl, Data, SetBootArgs
    PROVE  /\ Where(6, 4, 9)
           /\ \/ /\ args' = ArgList(args.list \cup Added(args.list, Wanted(job.gpu)))
                 /\ Advance
              \/ args' = args /\ Leave
           /\ args' \in ArgRecs
<1>1. Where(6, 4, 9)
    BY Places
<1>2. job.gpu \in Gpus
    BY <1>1 DEF Ctl, Where, Jobs
<1>3. Wanted(job.gpu) \subseteq BootArgRecs
    <2>1. /\ <<"-kry", "beta">> \in Seq({"-kry", "beta", "krygpu", "other"})
          /\ <<"krygpu">> \in Seq({"-kry", "beta", "krygpu", "other"})
        OBVIOUS
    <2>2. \A n \in Seq({"-kry", "beta", "krygpu", "other"}), v \in Gpus \cup {"", "other"} :
             BootArg(n, v) \in BootArgRecs
        BY Zenon DEF BootArg, BootArgRecs
    <2>3. BootArg(<<"-kry", "beta">>, "") \in BootArgRecs
        BY <2>1, <2>2, Zenon
    <2>4. BootArg(<<"krygpu">>, job.gpu) \in BootArgRecs
        BY <1>2, <2>1, <2>2, Zenon
    <2> QED BY <2>3, <2>4, Zenon DEF Wanted
<1>4. ArgList(args.list \cup Added(args.list, Wanted(job.gpu))) \in ArgRecs
    <2>1. Added(args.list, Wanted(job.gpu)) \subseteq Wanted(job.gpu)
        BY DEF Added
    <2>2. args.list \subseteq BootArgRecs
        BY DEF Data, ArgRecs
    <2>3. args.list \cup Added(args.list, Wanted(job.gpu)) \subseteq BootArgRecs
        BY <1>3, <2>1, <2>2
    <2> QED BY <2>3 DEF ArgRecs, ArgList
<1> QED BY <1>1, <1>4 DEF SetBootArgs, Data

\* A hybrid installation gets to its second step through the backup
LEMMA SecondStep ==
    ASSUME Ctl, Next, ~SaveConfig, step' > 1, job'.script = "hybrid"
    PROVE  step > 1 /\ job' = job
<1>1. ASSUME NEW j \in Jobs, Start(j) PROVE FALSE
    BY <1>1 DEF Start
<1>2. CASE Cut
    BY <1>2 DEF Cut, Leave
<1>3. ASSUME NEW e \in Nat, NEW f \in Nat, NEW h \in Nat, h # 1, Where(e, f, h), job' = job
      PROVE  step > 1 /\ job' = job
    BY <1>3 DEF Where, Ctl
<1>4. CASE Scan \/ SetBootArgs \/ ImportClassCode \/ SetMux \/ Format \/ Move \/ Bless
    <2>1. Where(3, 0, 6) \/ Where(6, 4, 9) \/ Where(8, 6, 0) \/ Where(11, 9, 0)
             \/ Where(0, 1, 0) \/ Where(0, 2, 0) \/ Where(0, 3, 0)
        BY <1>4, Places, Zenon
    <2>2. job' = job
        BY <1>4 DEF Scan, SetBootArgs, ImportClassCode, SetMux, Format, Move, Bless,
           Advance, Proceed, Leave
    <2> QED BY <2>1, <2>2, <1>3
<1>5. ASSUME NEW b \in Bundles, SaveKext(b) \/ CopyKext(b) \/ Enable(b) \/ AddField(b)
      PROVE  step > 1 /\ job' = job
    <2>1. Where(0, 0, 2) \/ Where(0, 0, 3) \/ Where(1, 0, 4) \/ Where(2, 0, 5)
             \/ Where(4, 0, 7) \/ Where(5, 0, 8)
        BY <1>5, Places
    <2>2. job' = job
        <3>1. Advance \/ Leave \/ job' = job
            BY <1>5, Zenon DEF SaveKext, CopyKext, Enable, AddField
        <3> QED BY <3>1 DEF Advance, Proceed, Leave
    <2> QED BY <2>1, <2>2, <1>3
<1>6. CASE FindDevice
    <2>1. Where(7, 5, 0) /\ job' = job
        BY <1>6, Guards DEF FindDevice
    <2> QED BY <2>1, <1>3
<1>7. ASSUME NEW f \in DeviceFields, AddDeviceField(f) PROVE step > 1 /\ job' = job
    <2>1. Where(9, 7, 0) \/ Where(10, 8, 0)
        BY <1>7, Places
    <2>2. job' = job
        BY <1>7 DEF AddDeviceField, Advance, Proceed
    <2> QED BY <2>1, <2>2, <1>3
<1> QED BY <1>1, <1>2, <1>4, <1>5, <1>6, <1>7 DEF Next

\* What is written is of its type
LEMMA DataStep == Ctl /\ Data /\ [Next]_vars => Data'
<1> SUFFICES ASSUME Ctl, Data, [Next]_vars PROVE Data'
    OBVIOUS
<1>1. entries' \in Seq(EntryRecs)
    <2>1. entries' = entries \/ (\E b \in Bundles : Enable(b) \/ AddField(b))
             \/ entries' = <<>> \/ entries' = Release
        BY DEF Next, Start, Cut, SaveConfig, Scan, SetBootArgs, SaveKext, CopyKext,
           FindDevice,
           ImportClassCode, SetMux, AddDeviceField, Format, Move, Bless, vars, efi, config
    <2>2. <<>> \in Seq(EntryRecs)
        OBVIOUS
    <2>3. Release \in Seq(EntryRecs)
        BY DEF Release, Entry, EntryRecs, Fields, Bundles
    <2> QED BY <2>1, <2>2, <2>3, EnableEntry, AddFieldEntry, Zenon DEF Data
<1>2. args' \in ArgRecs
    <2>1. args' = args \/ SetBootArgs \/ args' = NoArgs \/ args' = ArgList({})
        BY Zenon DEF Next, Start, Cut, SaveConfig, Scan, Enable, AddField, SaveKext,
           CopyKext, FindDevice,
           ImportClassCode, SetMux, AddDeviceField, Format, Move, Bless, vars, efi, config
    <2>2. NoArgs \in ArgRecs /\ ArgList({}) \in ArgRecs
        BY DEF NoArgs, ArgList, ArgRecs
    <2> QED BY <2>1, <2>2, SetBootArgsList DEF Data
<1>3. kexts' \in [Bundles -> Contents]
    <2>1. kexts' = kexts \/ (\E b \in Bundles : CopyKext(b)) \/ Format \/ Move
        BY Zenon DEF Next, Start, Cut, SaveConfig, Scan, SetBootArgs, Enable,
           AddField, SaveKext, FindDevice,
           ImportClassCode, SetMux, AddDeviceField, Bless, vars, efi, config
    <2> QED BY <2>1 DEF CopyKext, Format, Move, Data, Contents
<1>4. backups' \in Seq(BackupRecs) /\ Len(backups') >= Len(backups)
    <2>1. backups' = backups \/ SaveConfig \/ (\E b \in Bundles : SaveKext(b))
        BY Zenon DEF Next, Start, Cut, Scan, SetBootArgs, Enable, AddField, CopyKext,
           FindDevice,
           ImportClassCode, SetMux, AddDeviceField, Format, Move, Bless, vars
    <2> QED BY <2>1, SaveConfigBackup, SaveKextBackup DEF Data
<1>5. CASE UNCHANGED vars
    BY <1>5 DEF vars, efi, config, control, Data, Where, Filling
<1>6. CASE ~adding' /\ ~UNCHANGED vars
    <2>1. step' > 1 /\ job'.script = "hybrid" => Len(backups') > 0
        BY <1>4, <1>6, SecondStep, SaveConfigBackup DEF Data
    <2> QED BY <1>1, <1>2, <1>3, <1>4, <1>6, <2>1 DEF Data
<1>7. ASSUME NEW b \in Bundles, AddField(b), adding' PROVE Data'
    <2>1. /\ (b = "Lilu" => Where(4, 0, 7)) /\ (b = "Kryptonite" => Where(5, 0, 8))
          /\ step' = step /\ job' = job
        BY <1>7, AddFieldEntry, Zenon
    <2>2. Filling(b)'
        <3>1. CASE ~adding
            <4>1. entries' = Append(entries, [bundle |-> b, fields |-> 1, on |-> FALSE])
                BY <1>7, <3>1, AddFieldEntry
            <4> QED BY <4>1 DEF Filling, Fields, Data
        <3>2. CASE adding
            <4>1. /\ Filling(b) /\ entries[Len(entries)].fields < Fields - 1
                  /\ entries' = [entries EXCEPT ![Len(entries)].fields = @ + 1]
                BY <1>7, <3>2, AddFieldEntry
            <4>2. entries[Len(entries)] \in EntryRecs /\ Len(entries) \in DOMAIN entries
                BY <4>1 DEF Filling, Data
            <4>3. Len(entries') = Len(entries)
                BY <4>1, <4>2 DEF Data
            <4>4. entries'[Len(entries)] = [entries[Len(entries)] EXCEPT !.fields = @ + 1]
                BY <4>1, <4>2
            <4> QED BY <4>1, <4>2, <4>3, <4>4 DEF Filling, EntryRecs, Fields
        <3> QED BY <3>1, <3>2
    <2>3. (Where(4, 0, 7)' => b = "Lilu") /\ (Where(5, 0, 8)' => b = "Kryptonite")
        BY <2>1 DEF Where, Bundles
    <2>4. step' > 1 /\ job'.script = "hybrid" => Len(backups') > 0
        BY <1>4, <2>1 DEF Data
    <2> QED BY <1>1, <1>2, <1>3, <1>4, <2>2, <2>3, <2>4 DEF Data
<1> QED BY <1>5, <1>6, <1>7, AddingStep

(***************************************************************************)
(* The original EFI.  Once a hybrid installation is past its backups,      *)
(* everything it may still change has been saved.                          *)
(***************************************************************************)
ConfigSaved ==
    \E i \in DOMAIN backups : /\ backups[i].whole
                              /\ backups[i].entries = orig.entries
                              /\ backups[i].args = orig.args

KextSaved(b) ==
    orig.kexts[b] = "absent" \/ \E i \in DOMAIN backups : backups[i].kexts[b] = orig.kexts[b]

Kept ==
    volume = "own" /\ ~unsaved =>
        /\ (entries = orig.entries /\ args = orig.args) \/ ConfigSaved
        /\ \A b \in Bundles : orig.kexts[b] = kexts[b] \/ KextSaved(b)
        /\ step > 0 => job.script = "hybrid"
        /\ step > 1 => ConfigSaved
        /\ step > 2 => KextSaved("Kryptonite")
        /\ step > 3 => KextSaved("Lilu")
        /\ step = 2 => backups[Len(backups)].kexts["Kryptonite"] = "absent"
        /\ step \in {2, 3} => backups[Len(backups)].kexts["Lilu"] = "absent"

\* Nothing has been changed at first
LEMMA InitKept == Init => Kept
BY DEF Init, Kept

\* The steps after the backups come fourth or later
LEMMA AfterBackups ==
    ASSUME Ctl, Next, ~SaveConfig, \A b \in Bundles : ~SaveKext(b), ~Cut,
           \A j \in Jobs : ~Start(j), job.script = "hybrid"
    PROVE  /\ step > 3 /\ (step' = 0 \/ (step' > 3 /\ job' = job))
           /\ backups' = backups /\ orig' = orig
<1>0. ASSUME NEW e \in Nat, NEW f \in Nat, NEW h \in Nat, h > 3 \/ h = 0, Where(e, f, h)
      PROVE  step > 3 /\ step \in Nat
    BY <1>0 DEF Where, Ctl
<1>1. CASE Scan \/ SetBootArgs \/ ImportClassCode \/ SetMux \/ Format \/ Move \/ Bless
    <2>1. Where(3, 0, 6) \/ Where(6, 4, 9) \/ Where(8, 6, 0) \/ Where(11, 9, 0)
             \/ Where(0, 1, 0) \/ Where(0, 2, 0) \/ Where(0, 3, 0)
        BY <1>1, Places
    <2>2. step > 3 /\ step \in Nat
        BY <2>1, <1>0
    <2>3. (Proceed \/ Leave) /\ backups' = backups /\ orig' = orig /\ volume' = volume
          /\ unsaved' = unsaved
        BY <1>1 DEF Scan, SetBootArgs, ImportClassCode, SetMux, Format, Move, Bless, Advance
    <2> QED BY <2>2, <2>3 DEF Advance, Proceed, Leave
<1>2. ASSUME NEW b \in Bundles, CopyKext(b) \/ Enable(b) \/ AddField(b)
      PROVE  /\ step > 3 /\ (step' = 0 \/ (step' > 3 /\ job' = job))
             /\ backups' = backups /\ orig' = orig /\ volume' = volume /\ unsaved' = unsaved
    <2>1. Where(1, 0, 4) \/ Where(2, 0, 5) \/ Where(4, 0, 7) \/ Where(5, 0, 8)
        BY <1>2, Places
    <2>2. step > 3 /\ step \in Nat
        BY <2>1, <1>0
    <2>3. (Advance \/ Leave \/ (step' \in {step, step + 1} /\ job' = job))
          /\ backups' = backups /\ orig' = orig /\ volume' = volume /\ unsaved' = unsaved
        BY <1>2, Zenon DEF CopyKext, Enable, AddField
    <2> QED BY <2>2, <2>3 DEF Advance, Proceed, Leave
<1>3. CASE FindDevice
    BY <1>3, Places DEF Where
<1>4. ASSUME NEW f \in DeviceFields, AddDeviceField(f) PROVE FALSE
    BY <1>4, Places DEF Where
<1> QED BY <1>1, <1>2, <1>3, <1>4 DEF Next

\* Only a start takes place between two runs of the scripts
LEMMA NextSteps ==
    ASSUME Next, \A j \in Jobs : ~Start(j)
    PROVE  step > 0 /\ volume' = volume /\ orig' = orig /\ unsaved' = unsaved
<1>1. CASE Cut \/ SaveConfig \/ Scan \/ SetBootArgs
    BY <1>1 DEF Cut, SaveConfig, Scan, SetBootArgs, At
<1>2. ASSUME NEW b \in Bundles, SaveKext(b) \/ CopyKext(b) \/ Enable(b) \/ AddField(b)
      PROVE  step > 0 /\ volume' = volume /\ orig' = orig /\ unsaved' = unsaved
    BY <1>2, Zenon DEF SaveKext, CopyKext, Enable, AddField, At
<1>3. CASE FindDevice \/ ImportClassCode \/ SetMux
    BY <1>3, Zenon DEF FindDevice, ImportClassCode, SetMux, At
<1>4. ASSUME NEW f \in DeviceFields, AddDeviceField(f)
      PROVE  step > 0 /\ volume' = volume /\ orig' = orig /\ unsaved' = unsaved
    BY <1>4, Zenon DEF AddDeviceField, At
<1>5. CASE Format \/ Move \/ Bless
    BY <1>5 DEF Format, Move, Bless, At
<1> QED BY <1>1, <1>2, <1>3, <1>4, <1>5, ZenonT(40) DEF Next

\* A hybrid installation overwrites only what it has saved
LEMMA KeptStep == Ctl /\ Data /\ Kept /\ [Next]_vars => Kept'
<1> SUFFICES ASSUME Ctl, Data, Kept, [Next]_vars, volume' = "own", ~unsaved'
             PROVE  Kept'
    BY Zenon DEF Kept
<1>1. ASSUME NEW j \in Jobs, Start(j) PROVE Kept'
    <2>1. /\ volume = "own" /\ ~unsaved /\ j.script = "hybrid" /\ job' = j /\ step' = 1
          /\ entries' = entries /\ args' = args /\ kexts' = kexts /\ backups' = backups
          /\ orig' = orig
        BY <1>1, Zenon DEF Start, efi, config
    <2>2. /\ ConfigSaved' <=> ConfigSaved
          /\ \A b \in Bundles : KextSaved(b)' <=> KextSaved(b)
        BY <2>1, Zenon DEF ConfigSaved, KextSaved
    <2> QED BY <2>1, <2>2 DEF Kept
<1>2. CASE Cut
    BY <1>2 DEF Cut, Leave, Kept, ConfigSaved, KextSaved, efi, config
<1>3. CASE UNCHANGED vars
    BY <1>3 DEF vars, control, Kept, ConfigSaved, KextSaved, efi, config
<1>4. CASE SaveConfig
    <2>1. Where(0, 0, 1) /\ volume = "own" /\ ~unsaved /\ orig' = orig
          /\ entries' = entries /\ args' = args /\ kexts' = kexts
        BY <1>4, Guards DEF SaveConfig, efi, config
    <2>2. PICK whole \in BOOLEAN :
               /\ backups'[Len(backups')] =
                     [entries |-> entries, args |-> args, whole |-> whole,
                      kexts |-> [b \in Bundles |-> "absent"]]
               /\ IF whole THEN Advance ELSE Leave
        BY <1>4, SaveConfigBackup, Zenon
    <2>3. /\ DOMAIN backups \subseteq DOMAIN backups'
          /\ \A i \in DOMAIN backups : backups'[i] = backups[i]
          /\ Len(backups') \in DOMAIN backups'
        BY <1>4, SaveConfigBackup DEF Data
    <2>4. ConfigSaved => ConfigSaved'
        BY <2>1, <2>3 DEF ConfigSaved
    <2>5. ASSUME NEW b \in Bundles, KextSaved(b) PROVE KextSaved(b)'
        BY <2>1, <2>3, <2>5 DEF KextSaved
    <2>6. CASE whole = TRUE
        <3>1. ConfigSaved'
            <4>1. CASE entries = orig.entries /\ args = orig.args
                <5> DEFINE last == backups'[Len(backups')]
                <5>1. last.whole /\ last.entries = entries /\ last.args = args
                    BY <2>2, <2>6
                <5> HIDE DEF last
                <5>2. last.whole /\ last.entries = orig'.entries /\ last.args = orig'.args
                    BY <2>1, <4>1, <5>1
                <5> QED BY <2>3, <5>2 DEF ConfigSaved, last
            <4> QED BY <2>1, <2>4, <4>1 DEF Kept
        <3>2. step' \in {0, 2} /\ (step' = 2 => job' = job)
            BY <2>1, <2>2, <2>6 DEF Advance, Proceed, Where
        <3>3. \A b \in Bundles : backups'[Len(backups')].kexts[b] = "absent"
            BY <2>2
        <3> QED BY <2>1, <2>5, <3>1, <3>2, <3>3 DEF Kept, Where, Bundles
    <2>7. CASE whole = FALSE
        <3>1. step' = 0
            BY <2>2, <2>7 DEF Leave
        <3> QED BY <2>1, <2>4, <2>5, <3>1 DEF Kept
    <2> QED BY <2>6, <2>7, Zenon
<1>5. ASSUME NEW b \in Bundles, SaveKext(b) PROVE Kept'
    <2>1. /\ volume = "own" /\ ~unsaved /\ orig' = orig
          /\ entries' = entries /\ args' = args /\ kexts' = kexts
        BY <1>5 DEF SaveKext, efi, config
    <2>2. /\ (b = "Kryptonite" => Where(0, 0, 2)) /\ (b = "Lilu" => Where(0, 0, 3))
          /\ DOMAIN backups' = DOMAIN backups /\ Len(backups) \in DOMAIN backups
          /\ Len(backups') = Len(backups)
          /\ \A i \in DOMAIN backups : i # Len(backups) => backups'[i] = backups[i]
        BY <1>5, SaveKextBackup DEF Data
    <2> DEFINE new == backups'[Len(backups)]
               old == backups[Len(backups)]
    <2>3. /\ new.entries = old.entries /\ new.args = old.args /\ new.whole = old.whole
          /\ \A c \in Bundles : c # b => new.kexts[c] = old.kexts[c]
          /\ (new.kexts[b] = kexts[b] /\ Advance) \/ Leave
        BY <1>5, SaveKextBackup
    <2> HIDE DEF new, old
    <2>4. ConfigSaved'
        <3>1. ConfigSaved
            BY <2>1, <2>2 DEF Kept, Where, Bundles
        <3> QED BY <2>1, <2>2, <2>3, <3>1 DEF ConfigSaved, new, old
    <2>5. old.kexts[b] = "absent"
        BY <2>1, <2>2 DEF Kept, Where, Bundles, old
    <2>6. ASSUME NEW c \in Bundles, KextSaved(c) PROVE KextSaved(c)'
        BY <2>1, <2>2, <2>3, <2>5, <2>6 DEF KextSaved, new, old
    <2>7. CASE Leave
        <3>1. step' = 0
            BY <2>7 DEF Leave
        <3> QED BY <2>1, <2>4, <2>6, <3>1 DEF Kept
    <2>8. CASE new.kexts[b] = kexts[b] /\ Advance
        <3>1. KextSaved(b)'
            <4>1. CASE orig.kexts[b] = kexts[b]
                BY <2>1, <2>2, <2>8, <4>1 DEF KextSaved, new
            <4>2. CASE KextSaved(b)
                BY <2>6, <4>2
            <4> QED BY <2>1, <4>1, <4>2 DEF Kept
        <3>2. b = "Kryptonite" => step \in {2} /\ step' \in {0, 3}
            BY <2>2, <2>8 DEF Where, Advance, Proceed
        <3>3. b = "Lilu" => step \in {3} /\ step' \in {0, 4}
            BY <2>2, <2>8 DEF Where, Advance, Proceed
        <3>4. job' = job
            BY <2>8 DEF Advance, Proceed
        <3>5. b = "Kryptonite" => new.kexts["Lilu"] = "absent"
            BY <2>1, <2>3, <3>2 DEF Kept, old, Bundles
        <3>6. b = "Lilu" => KextSaved("Kryptonite")'
            BY <2>1, <2>6, <3>3 DEF Kept, Bundles
        <3> QED BY <2>1, <2>2, <2>4, <2>6, <3>1, <3>2, <3>3, <3>4, <3>5, <3>6
                DEF Kept, Bundles, new
    <2> QED BY <2>3, <2>7, <2>8
<1>6. CASE /\ Next /\ ~SaveConfig /\ ~Cut
           /\ \A b \in Bundles : ~SaveKext(b)
           /\ \A j \in Jobs : ~Start(j)
    <2>1. volume = "own" /\ ~unsaved /\ step > 0
        BY <1>6, NextSteps
    <2>2. job.script = "hybrid"
        BY <2>1 DEF Kept
    <2>3. /\ step > 3 /\ (step' = 0 \/ (step' > 3 /\ job' = job))
          /\ backups' = backups /\ orig' = orig
        BY <1>6, <2>2, AfterBackups, ZenonT(40)
    <2>4. ConfigSaved' /\ \A b \in Bundles : KextSaved(b)'
        BY <2>1, <2>3 DEF Kept, ConfigSaved, KextSaved, Bundles, Ctl
    <2>5. step' > 0 => job'.script = "hybrid"
        BY <2>2, <2>3
    <2> QED BY <2>3, <2>4, <2>5, CtlStep DEF Kept, Bundles, Ctl
<1> QED BY <1>1, <1>2, <1>3, <1>4, <1>5, <1>6 DEF Next

(***************************************************************************)
(* As long as only hybrid_install.sh ran, however often and wherever it was*)
(* cut, the original config.plist and bundles are in place or in a backup. *)
(***************************************************************************)
THEOREM OriginalEfiIsKept == Spec => []OriginalEfiKept
<1>1. Init => Ctl /\ Data /\ Kept
    BY InitCtl, InitData, InitKept
<1>2. Ctl /\ Data /\ Kept /\ [Next]_vars => (Ctl /\ Data /\ Kept)'
    BY CtlStep, DataStep, KeptStep, Zenon
<1>3. Kept => OriginalEfiKept
    BY DEF Kept, ConfigSaved, KextSaved, OriginalEfiKept
<1> QED BY <1>1, <1>2, <1>3, PTL DEF Spec

(***************************************************************************)
(* The device properties.  They are written in two steps, and a run that   *)
(* finds any of them skips both.                                           *)
(***************************************************************************)
Switched == {"IOName", "name"} \subseteq device

Dev ==
    /\ job.script = "hybrid" => ~job.dgpu
    /\ OwnDevice => device = orig.device
    /\ Where(8, 6, 0) => device = {}
    /\ Where(8, 6, 0) \/ Where(9, 7, 0) \/ Where(10, 8, 0) => ~OwnDevice
    /\ Where(10, 8, 0) => "IOName" \in device
    /\ Where(9, 7, 0) \/ Where(10, 8, 0) \/ device = {} \/ Switched \/ cutDevice \/ OwnDevice
    /\ Where(11, 9, 0) \/ (completed /\ job.dgpu) => device # {}

\* No run has written a device property at first
LEMMA InitDev == Init => Dev
BY DEF Init, Dev, OwnDevice, NoJob, Where

\* How a step moves the control on
Filled == /\ step' \in {step, step + 1} /\ job' = job /\ completed' = completed
          /\ cutDevice' = cutDevice

\* The EFI the runs began with
Began == UNCHANGED <<volume, orig>>

\* Leaving a script: what is left between the two steps is recorded
LEMMA LeaveDev ==
    ASSUME Ctl, Dev, step > 0, Leave, device' = device, Began
    PROVE  Dev'
<1>1. step' = 0 /\ job' = NoJob /\ completed' = completed /\ ~completed
    BY DEF Leave, Ctl
<1>2. device = {} \/ Switched \/ cutDevice' \/ OwnDevice
    <2>1. CASE Where(9, 7, 0) \/ Where(10, 8, 0)
        <3>1. At("add", "IOName") \/ At("add", "name")
            BY <2>1, Guards
        <3> QED BY <3>1, Zenon DEF Leave
    <2>2. CASE ~Where(9, 7, 0) /\ ~Where(10, 8, 0)
        BY <2>2, Zenon DEF Dev, Leave
    <2> QED BY <2>1, <2>2
<1>3. OwnDevice' <=> OwnDevice
    BY DEF Began, OwnDevice
<1>4. /\ ~Where(8, 6, 0)' /\ ~Where(9, 7, 0)' /\ ~Where(10, 8, 0)' /\ ~Where(11, 9, 0)'
      /\ job'.script # "hybrid" /\ ~completed'
    BY <1>1 DEF Where, NoJob
<1>5. Switched' <=> Switched
    BY DEF Switched
<1>6. orig' = orig
    BY DEF Began
<1> QED BY <1>2, <1>3, <1>4, <1>5, <1>6, Zenon DEF Dev

\* The steps before the device properties
LEMMA EarlyDev ==
    ASSUME Ctl, Dev, NEW e \in 0..6, NEW f \in 0..4, NEW h \in 0..9, Where(e, f, h),
           Advance \/ Leave \/ (Filled /\ e < 6 /\ f < 4),
           device' = device, Began
    PROVE  Dev'
<1>1. step > 0 /\ step \in Nat /\ job \in Jobs /\ ~completed
    BY DEF Where, Ctl
<1>2. ~Where(9, 7, 0) /\ ~Where(10, 8, 0)
    BY DEF Where
<1>3. device = {} \/ Switched \/ cutDevice \/ OwnDevice
    BY <1>2 DEF Dev
<1>4. CASE Leave
    BY <1>1, <1>4, LeaveDev
<1>5. ASSUME Advance \/ (Filled /\ e < 6 /\ f < 4) PROVE Dev'
    <2>1. job' = job /\ cutDevice' = cutDevice
        BY <1>5 DEF Advance, Proceed, Filled
    <2>2. Len(Steps(job)) = Length(job)
        BY <1>1, Lengths
    <2>3. step' \in {0, step, step + 1}
        BY <1>5 DEF Advance, Proceed, Filled
    <2>4. ~Where(9, 7, 0)' /\ ~Where(10, 8, 0)' /\ ~Where(8, 6, 0)' /\ ~Where(11, 9, 0)'
        BY <1>1, <2>1, <2>3 DEF Where
    <2>5. ~(completed' /\ job'.dgpu)
        <3>1. CASE Filled
            BY <1>1, <3>1 DEF Filled
        <3>2. CASE Advance /\ job.dgpu
            <4>1. step < Length(job)
                BY <1>1, <3>2 DEF Where, Length, Dev, Jobs
            <4> QED BY <1>1, <2>2, <3>2, <4>1 DEF Advance, Proceed
        <3> QED BY <1>5, <2>1, <3>1, <3>2
    <2>6. (OwnDevice' <=> OwnDevice) /\ (Switched' <=> Switched) /\ orig' = orig
        BY DEF Began, OwnDevice, Switched
    <2> QED BY <1>3, <2>1, <2>4, <2>5, <2>6, Zenon DEF Dev
<1> QED BY <1>4, <1>5

\* The two names are written together or the cut is recorded
LEMMA DevStep == Ctl /\ Dev /\ [Next]_vars => Dev'
<1> SUFFICES ASSUME Ctl, Dev, [Next]_vars PROVE Dev'
    OBVIOUS
<1>0. Began
    BY NextSteps, Zenon DEF Began, Start, vars
<1>1. ASSUME NEW j \in Jobs, Start(j) PROVE Dev'
    <2>1. /\ step = 0 /\ step' = 1 /\ job' = j /\ ~completed' /\ cutDevice' = cutDevice
          /\ device' = device /\ (j.script = "hybrid" => ~j.dgpu)
        BY <1>1 DEF Start, efi, config
    <2>2. device = {} \/ Switched \/ cutDevice \/ OwnDevice
        BY <2>1 DEF Dev, Where
    <2> QED BY <1>0, <2>1, <2>2 DEF Dev, Where, Switched, OwnDevice, Began
<1>2. CASE Cut
    BY <1>0, <1>2, LeaveDev, Zenon DEF Cut, efi, config
<1>3. CASE UNCHANGED vars
    BY <1>3 DEF vars, efi, config, control, Dev, Where, Switched, OwnDevice
<1>4. CASE SaveConfig \/ Scan \/ SetBootArgs \/ Move \/ Bless
    <2>1. Where(0, 0, 1) \/ Where(3, 0, 6) \/ Where(6, 4, 9) \/ Where(0, 2, 0) \/ Where(0, 3, 0)
        BY <1>4, Places
    <2>2. (Advance \/ Leave) /\ device' = device
        BY <1>4, Zenon DEF SaveConfig, Scan, SetBootArgs, Move, Bless, efi, config
    <2> QED BY <1>0, <2>1, <2>2, EarlyDev
<1>10. CASE Format
    <2>1. Where(0, 1, 0) /\ Proceed /\ device' = {}
        BY <1>10, Places DEF Format
    <2>2. job \in Jobs /\ ~completed /\ volume = "kryptonite" /\ Len(Steps(job)) = Length(job)
        BY <2>1, Lengths DEF Where, Ctl
    <2>3. step' = 2 /\ job' = job /\ ~completed' /\ job.script = "fresh"
        BY <2>1, <2>2 DEF Proceed, Where, Length
    <2> QED BY <1>0, <2>1, <2>2, <2>3 DEF Dev, Where, OwnDevice, Began
<1>5. ASSUME NEW b \in Bundles, SaveKext(b) \/ CopyKext(b) \/ Enable(b) \/ AddField(b)
      PROVE  Dev'
    <2>1. Where(0, 0, 2) \/ Where(0, 0, 3) \/ Where(1, 0, 4) \/ Where(2, 0, 5)
             \/ Where(4, 0, 7) \/ Where(5, 0, 8)
        BY <1>5, Places
    <2>2. (Advance \/ Leave \/ Filled) /\ device' = device
        BY <1>5, Zenon DEF SaveKext, CopyKext, Enable, AddField, Filled, efi, config
    <2> QED BY <1>0, <2>1, <2>2, EarlyDev
<1>6. CASE FindDevice
    <2>1. Where(7, 5, 0) /\ job' = job /\ cutDevice' = cutDevice /\ device' = device
          /\ completed' = completed
          /\ step' = IF device # {} THEN Len(Steps(job)) ELSE step + 1
        BY <1>6, Guards DEF FindDevice, efi, config
    <2>2. job \in Jobs /\ ~completed /\ job.dgpu /\ Len(Steps(job)) = Length(job)
        BY <2>1, Lengths DEF Where, Ctl, Length
    <2>3. device = {} \/ Switched \/ cutDevice \/ OwnDevice
        BY <2>1 DEF Dev, Where
    <2>4. (OwnDevice' <=> OwnDevice) /\ (Switched' <=> Switched) /\ orig' = orig
        BY <1>0, <2>1 DEF Began, OwnDevice, Switched
    <2>5. OwnDevice => device = orig.device /\ device # {}
        BY DEF Dev, OwnDevice
    <2>6. job.script = "hybrid" => ~job.dgpu
        BY DEF Dev
    <2>7. CASE device = {}
        <3>1. Where(8, 6, 0)' /\ ~Where(9, 7, 0)' /\ ~Where(10, 8, 0)' /\ ~Where(11, 9, 0)'
            BY <2>1, <2>2, <2>7 DEF Where
        <3> QED BY <2>1, <2>2, <2>4, <2>5, <2>6, <2>7, <3>1, Zenon DEF Dev
    <2>8. CASE device # {}
        <3>1. ~Where(8, 6, 0)' /\ ~Where(9, 7, 0)' /\ ~Where(10, 8, 0)'
            BY <2>1, <2>2, <2>8 DEF Where, Length
        <3> QED BY <2>1, <2>2, <2>3, <2>4, <2>5, <2>6, <2>8, <3>1, Zenon DEF Dev
    <2> QED BY <2>7, <2>8
<1>7. CASE ImportClassCode
    <2>1. Where(8, 6, 0) /\ Advance
        BY <1>7, Guards DEF ImportClassCode
    <2>2. job \in Jobs /\ ~completed /\ job.dgpu /\ Len(Steps(job)) = Length(job)
        BY <2>1, Lengths DEF Where, Ctl, Length
    <2>3. step' = step + 1 /\ job' = job /\ completed' = completed
        BY <2>1, <2>2 DEF Advance, Proceed, Where, Length
    <2>4. /\ ~Where(8, 6, 0)' /\ Where(9, 7, 0)' /\ ~Where(10, 8, 0)' /\ ~Where(11, 9, 0)'
          /\ ~completed'
        BY <2>1, <2>2, <2>3 DEF Where
    <2>5. ~OwnDevice'
        BY <1>0, <2>1, Zenon DEF Dev, OwnDevice, Began
    <2> QED BY <2>2, <2>3, <2>4, <2>5, Zenon DEF Dev
<1>8. ASSUME NEW f \in DeviceFields, AddDeviceField(f) PROVE Dev'
    <2>1. (f = "IOName" /\ Where(9, 7, 0)) \/ (f = "name" /\ Where(10, 8, 0))
        BY <1>8, Places
    <2>2. job \in Jobs /\ ~completed /\ job.dgpu /\ Len(Steps(job)) = Length(job)
        BY <2>1, Lengths DEF Where, Ctl, Length
    <2>3. step' = step + 1 /\ job' = job /\ completed' = completed /\ cutDevice' = cutDevice
          /\ device' = device \cup {f}
        BY <1>8, <2>1, <2>2 DEF AddDeviceField, Advance, Proceed, Where, Length
    <2>4. ~OwnDevice' /\ (job.script = "hybrid" => ~job.dgpu)
        BY <1>0, <2>1, Zenon DEF Dev, OwnDevice, Began
    <2>5. CASE f = "IOName"
        <3>1. Where(10, 8, 0)' /\ ~Where(8, 6, 0)' /\ ~Where(11, 9, 0)'
            BY <2>1, <2>2, <2>3, <2>5 DEF Where
        <3> QED BY <2>2, <2>3, <2>4, <2>5, <3>1, Zenon DEF Dev
    <2>6. CASE f = "name"
        <3>1. /\ ~Where(8, 6, 0)' /\ ~Where(9, 7, 0)' /\ ~Where(10, 8, 0)'
              /\ Switched' /\ device' # {}
            BY <2>1, <2>2, <2>3, <2>6 DEF Where, Dev, Switched
        <3> QED BY <2>2, <2>3, <2>4, <3>1, Zenon DEF Dev
    <2> QED BY <2>1, <2>5, <2>6
<1>9. CASE SetMux
    <2>1. Where(11, 9, 0) /\ Advance /\ device' = device
        BY <1>9, Guards DEF SetMux, config
    <2>2. job \in Jobs /\ ~completed /\ Len(Steps(job)) = Length(job)
        BY <2>1, Lengths DEF Where, Ctl
    <2>3. step' = 0 /\ job' = job /\ cutDevice' = cutDevice
        BY <2>1, <2>2 DEF Advance, Proceed, Where, Length, Ctl, Jobs
    <2>4. (device = {} \/ Switched \/ cutDevice \/ OwnDevice) /\ device # {}
        BY <2>1 DEF Dev, Where
    <2>5. (OwnDevice' <=> OwnDevice) /\ (Switched' <=> Switched) /\ orig' = orig
        BY <1>0, <2>1 DEF Began, OwnDevice, Switched
    <2>6. ~Where(8, 6, 0)' /\ ~Where(9, 7, 0)' /\ ~Where(10, 8, 0)' /\ ~Where(11, 9, 0)'
        BY <2>3 DEF Where
    <2> QED BY <2>1, <2>3, <2>4, <2>5, <2>6, Zenon DEF Dev
<1> QED BY <1>1, <1>2, <1>3, <1>4, <1>5, <1>6, <1>7, <1>8, <1>9, <1>10, Zenon DEF Next

(***************************************************************************)
(* The operator's device properties are left alone, and a completed run of *)
(* disable_dgpu has written the names that switch the GPU off unless it    *)
(* found those, or what a run cut between the names left.                  *)
(***************************************************************************)
THEOREM DeviceIsWhole == Spec => []DeviceWhole
<1>1. Init => Ctl /\ Dev
    BY InitCtl, InitDev
<1>2. Ctl /\ Dev /\ [Next]_vars => (Ctl /\ Dev)'
    BY CtlStep, DevStep
<1>3. Ctl /\ Dev => DeviceWhole
    BY DEF Ctl, Dev, DeviceWhole, Switched, Where
<1> QED BY <1>1, <1>2, <1>3, PTL DEF Spec
==============================================================================
