------------------------ MODULE OpenCoreResultProofs ------------------------
(***************************************************************************)
(* More proofs about OpenCoreInstall: what a run that gets to its end has  *)
(* installed (InstallIsComplete), and what OpenCore finds when it boots in *)
(* the middle of one (EntriesAreLoadable).  Their inductive invariants     *)
(* build on Ctl and Data of OpenCoreInstallProofs.                         *)
(***************************************************************************)
EXTENDS OpenCoreInstallProofs

(***************************************************************************)
(* What a run has done so far.  Done(e, f, h): the run is past step e, f   *)
(* or h of its script, or got to its end.                                  *)
(***************************************************************************)
Done(e, f, h) ==
    \/ completed
    \/ /\ step > 0
       /\ \/ job.script = "existing" /\ step > e
          \/ job.script = "fresh" /\ step > f
          \/ job.script = "hybrid" /\ step > h

\* A step that has been done now was done before, or is the one that took place
LEMMA DoneStep ==
    ASSUME Ctl, Next, NEW e \in 1..6, NEW f \in 1..4, NEW h \in 1..9, Done(e, f, h)'
    PROVE  /\ job' = job /\ step > 0 /\ ~Leave
           /\ Done(e, f, h) \/ Where(e, f, h)
<1>1. ASSUME NEW j \in Jobs, Start(j) PROVE FALSE
    BY <1>1 DEF Start, Done
<1>2. step > 0 /\ step \in Nat /\ ~completed /\ job \in Jobs /\ step <= Length(job)
    BY <1>1, NextSteps DEF Ctl
<1>3. ~Leave
    BY <1>2 DEF Leave, Done
<1>4. Len(Steps(job)) = Length(job)
    BY <1>2, Lengths
<1>5. Proceed \/ Filled \/ FindDevice
    <2>1. CASE SaveConfig \/ Scan \/ SetBootArgs \/ ImportClassCode \/ SetMux \/ Format \/ Move
                  \/ Bless \/ Cut
        BY <1>3, <2>1, Zenon DEF SaveConfig, Scan, SetBootArgs, ImportClassCode,
           SetMux, Format, Move, Bless, Cut, Advance
    <2>2. ASSUME NEW b \in Bundles, SaveKext(b) \/ CopyKext(b) \/ Enable(b) \/ AddField(b)
          PROVE  Proceed \/ Filled
        BY <1>3, <2>2, Zenon DEF SaveKext, CopyKext, Enable, AddField, Filled, Advance
    <2>3. ASSUME NEW d \in DeviceFields, AddDeviceField(d) PROVE Proceed
        BY <2>3 DEF AddDeviceField, Advance
    <2> QED BY <1>1, <2>1, <2>2, <2>3 DEF Next
<1>6. CASE Proceed
    <2>1. CASE step < Length(job)
        <3>1. step' = step + 1 /\ job' = job /\ completed' = completed
            BY <1>4, <1>6, <2>1 DEF Advance, Proceed
        <3> QED BY <1>2, <1>3, <3>1 DEF Done, Where
    <2>2. CASE ~(step < Length(job))
        <3>1. job' = job
            BY <1>6 DEF Advance, Proceed
        <3>2. step >= Length(job)
            BY <1>2, <2>2 DEF Length, Jobs
        <3>3. \/ job.script = "existing" /\ step >= e
              \/ job.script = "fresh" /\ step >= f
              \/ job.script = "hybrid" /\ step >= h
            BY <1>2, <3>2 DEF Length, Jobs
        <3> QED BY <1>2, <1>3, <3>1, <3>3 DEF Done, Where
    <2> QED BY <2>1, <2>2
<1>7. CASE Filled
    BY <1>2, <1>3, <1>7 DEF Done, Where, Filled
<1>8. CASE FindDevice
    <2>1. Where(7, 5, 0) /\ job' = job
        BY <1>8, Guards DEF FindDevice
    <2> QED BY <1>2, <1>3, <2>1 DEF Done, Where
<1> QED BY <1>5, <1>6, <1>7, <1>8

\* What a step leaves alone
LEMMA KextsChange ==
    [Next]_vars => kexts' = kexts \/ (\E b \in Bundles : CopyKext(b)) \/ Format \/ Move
BY Zenon DEF Next, Start, Cut, SaveConfig, Scan, SetBootArgs, Enable, AddField,
   SaveKext, FindDevice,
   ImportClassCode, SetMux, AddDeviceField, Bless, vars, efi, config

\* Only the injection and a fresh installation write entries
LEMMA EntriesChange ==
    [Next]_vars => entries' = entries \/ (\E b \in Bundles : Enable(b) \/ AddField(b))
                      \/ Format \/ Move
BY DEF Next, Start, Cut, SaveConfig, Scan, SetBootArgs, SaveKext, CopyKext, FindDevice,
   ImportClassCode, SetMux, AddDeviceField, Bless, vars, efi, config

\* Only the boot-args step and a fresh installation write boot-args
LEMMA ArgsChange ==
    [Next]_vars => args' = args \/ SetBootArgs \/ Format \/ Move
BY Zenon DEF Next, Start, Cut, SaveConfig, Scan, Enable, AddField, SaveKext, CopyKext,
   FindDevice,
   ImportClassCode, SetMux, AddDeviceField, Bless, vars, efi, config

\* Nothing takes the place of the step that comes next
LEMMA OnlyCopy ==
    ASSUME Ctl, Next, ~Leave, Where(1, 2, 4) \/ Where(2, 2, 5)
    PROVE  Move \/ (Where(1, 0, 4) /\ CopyKext("Kryptonite"))
                \/ (Where(2, 0, 5) /\ CopyKext("Lilu"))
<1>1. step > 0 /\ \A j \in Jobs : ~Start(j)
    BY DEF Where, Start
<1>2. CASE Cut \/ SaveConfig \/ Scan \/ SetBootArgs
    BY <1>2, Places DEF Cut, Where
<1>3. ASSUME NEW b \in Bundles, SaveKext(b) \/ Enable(b) \/ AddField(b) PROVE FALSE
    <2>1. Where(0, 0, 2) \/ Where(0, 0, 3) \/ Where(4, 0, 7) \/ Where(5, 0, 8)
        BY <1>3, Places
    <2> QED BY <2>1 DEF Where
<1>4. CASE CopyKext("Lilu") \/ CopyKext("Kryptonite")
    BY <1>4, Places DEF Bundles
<1>5. CASE FindDevice \/ ImportClassCode \/ SetMux \/ Format \/ Bless
    BY <1>5, Places DEF Where
<1>6. ASSUME NEW d \in DeviceFields, AddDeviceField(d) PROVE FALSE
    BY <1>6, Places DEF Where
<1> QED BY <1>1, <1>2, <1>3, <1>4, <1>5, <1>6 DEF Next, Bundles

Copied ==
    /\ Done(1, 2, 4) => kexts["Kryptonite"] = "new"
    /\ Done(2, 2, 5) => kexts["Lilu"] = "new"

\* A bundle that has been copied stays new until the run ends
LEMMA CopiedStep == Ctl /\ Data /\ Copied /\ [Next]_vars => Copied'
<1> SUFFICES ASSUME Ctl, Data, Copied, [Next]_vars PROVE Copied'
    OBVIOUS
<1>1. CASE UNCHANGED vars
    BY <1>1 DEF vars, efi, control, Copied, Done
<1>2. ASSUME NEW b \in Bundles, CopyKext(b), ~Leave
      PROVE  kexts'[b] = "new" /\ \A c \in Bundles : c # b => kexts'[c] = kexts[c]
    BY <1>2 DEF CopyKext, Data
<1>3. ASSUME Next, Done(1, 2, 4)' PROVE kexts'["Kryptonite"] = "new"
    <2>1. ~Leave /\ (Done(1, 2, 4) \/ Where(1, 2, 4)) /\ step > 0
        BY <1>3, DoneStep
    <2>2. CASE Where(1, 2, 4)
        BY <1>2, <1>3, <2>1, <2>2, OnlyCopy DEF Move, Where, Bundles
    <2>3. CASE Done(1, 2, 4)
        <3>1. kexts["Kryptonite"] = "new"
            BY <2>3 DEF Copied
        <3>2. ~Format /\ ~Move
            BY <2>1, <2>3, Places DEF Where, Done, Ctl
        <3> QED BY <1>2, <2>1, <3>1, <3>2, KextsChange DEF Bundles
    <2> QED BY <2>1, <2>2, <2>3
<1>4. ASSUME Next, Done(2, 2, 5)' PROVE kexts'["Lilu"] = "new"
    <2>1. ~Leave /\ (Done(2, 2, 5) \/ Where(2, 2, 5)) /\ step > 0
        BY <1>4, DoneStep
    <2>2. CASE Where(2, 2, 5)
        BY <1>2, <1>4, <2>1, <2>2, OnlyCopy DEF Move, Where, Bundles
    <2>3. CASE Done(2, 2, 5)
        <3>1. kexts["Lilu"] = "new"
            BY <2>3 DEF Copied
        <3>2. ~Format /\ ~Move
            BY <2>1, <2>3, Places DEF Where, Done, Ctl
        <3> QED BY <1>2, <2>1, <3>1, <3>2, KextsChange DEF Bundles
    <2> QED BY <2>1, <2>2, <2>3
<1> QED BY <1>1, <1>3, <1>4 DEF Copied

\* Enable and AddField write one entry, at position n, and leave the others alone
Others(n) == \A k \in DOMAIN entries' : k # n => k \in DOMAIN entries /\ entries'[k] = entries[k]

\* Enabling a complete entry
LEMMA TurnedOn ==
    ASSUME NEW e \in EntryRecs, e.fields = Fields
    PROVE  [e EXCEPT !.on = TRUE] = Entry(e.bundle, TRUE)
<1> DEFINE r == [e EXCEPT !.on = TRUE]
<1>1. r \in EntryRecs /\ r.bundle = e.bundle /\ r.fields = Fields /\ r.on = TRUE
    BY Zenon DEF EntryRecs
<1> HIDE DEF r
<1>2. r = [bundle |-> r.bundle, fields |-> r.fields, on |-> r.on]
    BY <1>1 DEF EntryRecs
<1>3. r = Entry(e.bundle, TRUE)
    BY <1>1, <1>2 DEF Entry
<1> QED BY <1>3 DEF r

\* A complete entry is enabled, or the script exits
LEMMA EnableWrites ==
    ASSUME Ctl, Data, NEW b \in Bundles, Enable(b)
    PROVE  \/ entries' = entries /\ Leave
           \/ \E n \in DOMAIN entries :
                 /\ DOMAIN entries' = DOMAIN entries /\ Others(n)
                 /\ Found(n, b) /\ entries[n].fields = Fields
                 /\ entries'[n] = Entry(b, TRUE)
<1>1. PICK n \in DOMAIN entries :
               /\ Found(n, b)
               /\ \/ /\ entries[n].fields = Fields /\ Advance
                     /\ entries' = [entries EXCEPT ![n].on = TRUE]
                  \/ entries' = entries /\ Leave
    BY EnableEntry
<1>2. CASE entries[n].fields = Fields /\ entries' = [entries EXCEPT ![n].on = TRUE]
    <2> DEFINE r == [entries[n] EXCEPT !.on = TRUE]
    <2>1. entries[n] \in EntryRecs /\ entries[n].bundle = b
        BY <1>1 DEF Data, Found, Named
    <2>2. r = Entry(b, TRUE)
        BY <1>2, <2>1, TurnedOn, Zenon
    <2>3. entries' = [entries EXCEPT ![n] = r]
        BY <1>2
    <2> HIDE DEF r
    <2>4. DOMAIN entries' = DOMAIN entries /\ Others(n) /\ entries'[n] = r
        BY <2>3 DEF Data, Others
    <2> QED BY <1>1, <1>2, <2>2, <2>4, Zenon
<1> QED BY <1>1, <1>2, Zenon

\* The last entry is the one that is written
LEMMA AddFieldWrites ==
    ASSUME Ctl, Data, NEW b \in Bundles, AddField(b)
    PROVE  \E n \in DOMAIN entries' :
             /\ Others(n) /\ n = Len(entries') /\ entries'[n].bundle = b
             /\ \/ /\ ~adding /\ Missing(b) /\ n = Len(entries) + 1
                   /\ entries'[n].fields = 1 /\ adding' /\ step' = step
                \/ /\ adding /\ Filling(b) /\ n = Len(entries)
                   /\ entries'[n].fields < Fields /\ adding' /\ step' = step
                \/ /\ adding /\ Filling(b) /\ n = Len(entries)
                   /\ entries'[n] = Entry(b, TRUE) /\ ~adding' /\ step' = step + 1
<1>0. entries \in Seq(EntryRecs)
    BY DEF Data
<1>1. CASE /\ ~adding /\ Missing(b) /\ step' = step /\ adding'
           /\ entries' = Append(entries, [bundle |-> b, fields |-> 1, on |-> FALSE])
    <2> DEFINE r == [bundle |-> b, fields |-> 1, on |-> FALSE]
               n == Len(entries) + 1
    <2>1. r.bundle = b /\ r.fields = 1
        OBVIOUS
    <2>2. entries' = Append(entries, r)
        BY <1>1
    <2> HIDE DEF r
    <2>3. /\ n \in DOMAIN entries' /\ n = Len(entries') /\ entries'[n] = r
          /\ \A k \in DOMAIN entries' : k # n => k \in DOMAIN entries /\ entries'[k] = entries[k]
        BY <1>0, <2>2
    <2> QED BY <1>1, <2>1, <2>3 DEF Others
<1>2. CASE /\ adding /\ Filling(b) /\ step' = step /\ adding'
           /\ entries[Len(entries)].fields < Fields - 1
           /\ entries' = [entries EXCEPT ![Len(entries)].fields = @ + 1]
    <2> DEFINE n == Len(entries)
               r == [entries[n] EXCEPT !.fields = @ + 1]
    <2>1. n \in DOMAIN entries /\ entries[n] \in EntryRecs /\ entries[n].bundle = b
        BY <1>0, <1>2 DEF Filling
    <2>2. r.bundle = b /\ r.fields < Fields
        BY <1>2, <2>1 DEF EntryRecs, Fields
    <2>3. entries' = [entries EXCEPT ![n] = r]
        BY <1>2
    <2> HIDE DEF r
    <2>4. DOMAIN entries' = DOMAIN entries /\ Others(n) /\ entries'[n] = r /\ n = Len(entries')
        BY <1>0, <2>1, <2>3 DEF Others
    <2> QED BY <1>2, <2>1, <2>2, <2>4, Zenon
<1>3. CASE /\ adding /\ Filling(b) /\ step' = step + 1 /\ ~adding'
           /\ entries' = [entries EXCEPT ![Len(entries)] = Entry(b, TRUE)]
    <2> DEFINE n == Len(entries)
    <2>1. n \in DOMAIN entries
        BY <1>0, <1>3 DEF Filling
    <2> DEFINE r == Entry(b, TRUE)
    <2>2. entries' = [entries EXCEPT ![n] = r] /\ r.bundle = b
        BY <1>3 DEF Entry
    <2> HIDE DEF r
    <2>3. DOMAIN entries' = DOMAIN entries /\ Others(n) /\ entries'[n] = r /\ n = Len(entries')
        BY <1>0, <2>1, <2>2 DEF Others
    <2> QED BY <1>3, <2>1, <2>2, <2>3, Zenon DEF r
<1> QED BY <1>1, <1>2, <1>3, AddFieldEntry, Zenon

(***************************************************************************)
(* The entries a run has made or enabled.                                  *)
(***************************************************************************)
On(b) == \E i \in DOMAIN entries : Found(i, b) /\ Enabled(entries[i], b)

Injected ==
    /\ Done(4, 2, 7) => On("Lilu")
    /\ Done(5, 2, 8) => On("Kryptonite")

\* An entry that has been enabled is the one the scripts find
LEMMA EnableOn ==
    ASSUME Ctl, Data, NEW b \in Bundles, Enable(b), ~Leave
    PROVE  On(b)' /\ \A c \in Bundles : On(c) => On(c)'
<1>1. PICK n \in DOMAIN entries :
                 /\ DOMAIN entries' = DOMAIN entries /\ Others(n)
                 /\ Found(n, b) /\ entries[n].fields = Fields
                 /\ entries'[n] = Entry(b, TRUE)
    BY EnableWrites, Zenon
<1>2. entries'[n].bundle = b /\ entries'[n].fields = Fields /\ entries'[n].on
    BY <1>1 DEF Entry
<1>3. \A k \in DOMAIN entries, c \in Bundles : Named(k, c)' <=> Named(k, c)
    BY <1>1, <1>2, Zenon DEF Others, Found, Named
<1>4. \A k \in DOMAIN entries, c \in Bundles : Found(k, c)' <=> Found(k, c)
    BY <1>1, <1>3 DEF Found
<1>5. On(b)'
    BY <1>1, <1>2, <1>4, Zenon DEF On, Enabled
<1>6. ASSUME NEW c \in Bundles, On(c), c # b PROVE On(c)'
    <2>1. PICK i \in DOMAIN entries : Found(i, c) /\ Enabled(entries[i], c)
        BY <1>6 DEF On
    <2>2. entries'[i] = entries[i]
        BY <1>1, <1>6, <2>1 DEF Others, Found, Named
    <2> QED BY <1>1, <1>4, <2>1, <2>2 DEF On, Enabled
<1> QED BY <1>5, <1>6

\* A completed entry is the one the scripts find, and hides no other bundle's
LEMMA AddFieldOn ==
    ASSUME Ctl, Data, NEW b \in Bundles, AddField(b)
    PROVE  /\ ~adding' => On(b)'
           /\ \A c \in Bundles : c # b /\ On(c) => On(c)'
<1>0. entries \in Seq(EntryRecs) /\ entries' \in Seq(EntryRecs)
    BY AddFieldEntry, Zenon DEF Data
<1>1. PICK n \in DOMAIN entries' :
             /\ Others(n) /\ n = Len(entries') /\ entries'[n].bundle = b
             /\ (n = Len(entries) /\ Filling(b)) \/ (n = Len(entries) + 1)
             /\ ~adding' => entries'[n] = Entry(b, TRUE)
    BY AddFieldWrites, Zenon
<1>2. ASSUME ~adding' PROVE On(b)'
    <2>1. entries'[n].bundle = b /\ entries'[n].fields = Fields /\ entries'[n].on
        BY <1>1, <1>2 DEF Entry
    <2>2. Found(n, b)'
        <3>1. Named(n, b)'
            BY <2>1 DEF Named, Fields, BundlePath
        <3>2. \A k \in DOMAIN entries' : ~(k > n)
            BY <1>0, <1>1
        <3> QED BY <3>1, <3>2 DEF Found
    <2> QED BY <2>1, <2>2 DEF On, Enabled
<1>3. ASSUME NEW c \in Bundles, c # b, On(c) PROVE On(c)'
    <2>1. PICK i \in DOMAIN entries : Found(i, c) /\ Enabled(entries[i], c)
        BY <1>3 DEF On
    <2>2. i # n
        BY <1>0, <1>1, <1>3, <2>1 DEF Filling, Enabled
    <2>3. i \in DOMAIN entries' /\ entries'[i] = entries[i]
        BY <1>0, <1>1, <2>2 DEF Others
    <2>4. ~Named(n, c)'
        BY <1>1, <1>3 DEF Named
    <2>5. \A k \in DOMAIN entries' : k # n => (Named(k, c)' <=> Named(k, c)) /\ k \in DOMAIN entries
        BY <1>1 DEF Others, Named
    <2>6. Found(i, c)'
        BY <2>1, <2>2, <2>3, <2>4, <2>5 DEF Found
    <2> QED BY <2>1, <2>3, <2>6 DEF On, Enabled
<1> QED BY <1>2, <1>3

\* Nothing else takes place at an inject step
LEMMA OnlyInject ==
    ASSUME Ctl, Next, ~Leave, Where(4, 2, 7) \/ Where(5, 2, 8)
    PROVE  Move \/ (Where(4, 0, 7) /\ (Enable("Lilu") \/ AddField("Lilu")))
                \/ (Where(5, 0, 8) /\ (Enable("Kryptonite") \/ AddField("Kryptonite")))
<1>1. step > 0 /\ \A j \in Jobs : ~Start(j)
    BY DEF Where, Start
<1>2. CASE Cut \/ SaveConfig \/ Scan \/ SetBootArgs
    BY <1>2, Places DEF Cut, Where
<1>3. ASSUME NEW b \in Bundles, SaveKext(b) \/ CopyKext(b) PROVE FALSE
    <2>1. Where(0, 0, 2) \/ Where(0, 0, 3) \/ Where(1, 0, 4) \/ Where(2, 0, 5)
        BY <1>3, Places
    <2> QED BY <2>1 DEF Where
<1>4. ASSUME NEW b \in Bundles, Enable(b) \/ AddField(b)
      PROVE  (b = "Lilu" /\ Where(4, 0, 7)) \/ (b = "Kryptonite" /\ Where(5, 0, 8))
    BY <1>4, Places
<1>5. CASE FindDevice \/ ImportClassCode \/ SetMux \/ Format \/ Bless
    BY <1>5, Places DEF Where
<1>6. ASSUME NEW d \in DeviceFields, AddDeviceField(d) PROVE FALSE
    BY <1>6, Places DEF Where
<1> QED BY <1>1, <1>2, <1>3, <1>4, <1>5, <1>6 DEF Next

\* The release has both entries
LEMMA ReleaseOn == ASSUME entries' = Release, NEW b \in Bundles PROVE On(b)'
<1>1. /\ DOMAIN entries' = {1, 2}
      /\ entries'[1] = Entry("Lilu", TRUE) /\ entries'[2] = Entry("Kryptonite", TRUE)
    BY DEF Release
<1>2. /\ entries'[1].bundle = "Lilu" /\ entries'[1].fields = 8 /\ entries'[1].on
      /\ entries'[2].bundle = "Kryptonite" /\ entries'[2].fields = 8 /\ entries'[2].on
    BY <1>1 DEF Entry, Fields
<1>3. Found(1, "Lilu")' /\ Found(2, "Kryptonite")'
    <2>1. Named(1, "Lilu")' /\ ~Named(2, "Lilu")' /\ Named(2, "Kryptonite")'
        BY <1>2 DEF Named, BundlePath
    <2>2. \A k \in DOMAIN entries' : ~(k > 2) /\ (k > 1 => k = 2)
        BY <1>1
    <2> QED BY <2>1, <2>2 DEF Found
<1>4. Enabled(entries[1], "Lilu")' /\ Enabled(entries[2], "Kryptonite")'
    BY <1>2 DEF Enabled, Fields
<1>5. On("Lilu")' /\ On("Kryptonite")'
    BY <1>1, <1>3, <1>4, Zenon DEF On
<1> QED BY <1>5 DEF Bundles

\* An entry that has been injected stays found and enabled
LEMMA InjectedStep == Ctl /\ Data /\ Injected /\ [Next]_vars => Injected'
<1> SUFFICES ASSUME Ctl, Data, Injected, [Next]_vars PROVE Injected'
    OBVIOUS
<1>1. CASE UNCHANGED vars
    BY <1>1 DEF vars, efi, config, control, Injected, Done, On, Found, Named
<1>2. ASSUME Next, Done(4, 2, 7)' PROVE On("Lilu")'
    <2>1. ~Leave /\ (Done(4, 2, 7) \/ Where(4, 2, 7)) /\ step > 0
        BY <1>2, DoneStep
    <2>2. CASE Where(4, 2, 7)
        <3>1. CASE Move
            BY <2>1, <3>1, ReleaseOn DEF Move, Bundles
        <3>2. CASE Enable("Lilu")
            BY <2>1, <3>2, EnableOn DEF Bundles
        <3>3. CASE AddField("Lilu")
            <4>1. step' # step
                <5>1. job' = job /\ completed' = completed
                    BY <3>3, Zenon DEF AddField
                <5> QED BY <1>2, <2>2, <5>1 DEF Done, Where, Ctl
            <4> QED BY <3>3, <4>1, AddFieldEntry, AddFieldOn, Zenon DEF Bundles
        <3>4. ~Where(5, 0, 8)
            BY <2>2 DEF Where
        <3> QED BY <1>2, <2>1, <2>2, <3>1, <3>2, <3>3, <3>4, OnlyInject
    <2>3. CASE Done(4, 2, 7)
        <3>1. On("Lilu")
            BY <2>3 DEF Injected
        <3>2. ~Format /\ ~Move /\ ~AddField("Lilu")
            <4>1. /\ Format => Where(0, 1, 0)
                  /\ Move => Where(0, 2, 0)
                  /\ AddField("Lilu") => Where(4, 0, 7)
                  /\ AddField("Kryptonite") => Where(5, 0, 8)
                BY Places DEF Bundles
            <4> QED BY <2>1, <2>3, <4>1 DEF Where, Done, Ctl
        <3>3. CASE entries' = entries
            BY <3>1, <3>3 DEF On, Found, Named
        <3> QED BY <1>2, <2>1, <3>1, <3>2, <3>3, EntriesChange, EnableOn,
             AddFieldOn DEF Bundles
    <2> QED BY <2>1, <2>2, <2>3
<1>3. ASSUME Next, Done(5, 2, 8)' PROVE On("Kryptonite")'
    <2>1. ~Leave /\ (Done(5, 2, 8) \/ Where(5, 2, 8)) /\ step > 0
        BY <1>3, DoneStep
    <2>2. CASE Where(5, 2, 8)
        <3>1. CASE Move
            BY <2>1, <3>1, ReleaseOn DEF Move, Bundles
        <3>2. CASE Enable("Kryptonite")
            BY <2>1, <3>2, EnableOn DEF Bundles
        <3>3. CASE AddField("Kryptonite")
            <4>1. step' # step
                <5>1. job' = job /\ completed' = completed
                    BY <3>3, Zenon DEF AddField
                <5> QED BY <1>3, <2>2, <5>1 DEF Done, Where, Ctl
            <4> QED BY <3>3, <4>1, AddFieldEntry, AddFieldOn, Zenon DEF Bundles
        <3>4. ~Where(4, 0, 7)
            BY <2>2 DEF Where
        <3> QED BY <1>3, <2>1, <2>2, <3>1, <3>2, <3>3, <3>4, OnlyInject
    <2>3. CASE Done(5, 2, 8)
        <3>1. On("Kryptonite")
            BY <2>3 DEF Injected
        <3>2. ~Format /\ ~Move /\ ~AddField("Kryptonite") /\ ~AddField("Lilu")
            <4>1. /\ Format => Where(0, 1, 0)
                  /\ Move => Where(0, 2, 0)
                  /\ AddField("Lilu") => Where(4, 0, 7)
                  /\ AddField("Kryptonite") => Where(5, 0, 8)
                BY Places DEF Bundles
            <4> QED BY <2>1, <2>3, <4>1 DEF Where, Done, Ctl
        <3>3. CASE entries' = entries
            BY <3>1, <3>3 DEF On, Found, Named
        <3> QED BY <1>3, <2>1, <3>1, <3>2, <3>3, EntriesChange, EnableOn DEF Bundles
    <2> QED BY <2>1, <2>2, <2>3
<1> QED BY <1>1, <1>2, <1>3 DEF Injected

(***************************************************************************)
(* The boot-args a run has set.                                            *)
(***************************************************************************)
Present == \A w \in Wanted(job.gpu) : \E a \in args.list : StartsWith(w.name, a.name)

ArgsSet == Done(6, 4, 9) => Present

\* Nothing else takes place at the step of the boot-args
LEMMA OnlySetBootArgs ==
    ASSUME Ctl, Next, ~Leave, Where(6, 4, 9)
    PROVE  SetBootArgs
<1>1. step > 0 /\ \A j \in Jobs : ~Start(j)
    BY DEF Where, Start
<1>2. CASE Cut \/ SaveConfig \/ Scan
    BY <1>2, Places DEF Cut, Where
<1>3. ASSUME NEW b \in Bundles, SaveKext(b) \/ CopyKext(b) \/ Enable(b) \/ AddField(b) PROVE FALSE
    <2>1. Where(0, 0, 2) \/ Where(0, 0, 3) \/ Where(1, 0, 4) \/ Where(2, 0, 5)
             \/ Where(4, 0, 7) \/ Where(5, 0, 8)
        BY <1>3, Places
    <2> QED BY <2>1 DEF Where
<1>4. CASE FindDevice \/ ImportClassCode \/ SetMux \/ Format \/ Move \/ Bless
    <2>1. Where(7, 5, 0) \/ Where(8, 6, 0) \/ Where(11, 9, 0) \/ Where(0, 1, 0)
             \/ Where(0, 2, 0) \/ Where(0, 3, 0)
        BY <1>4, Places
    <2> QED BY <2>1 DEF Where
<1>5. ASSUME NEW d \in DeviceFields, AddDeviceField(d) PROVE FALSE
    BY <1>5, Places DEF Where
<1> QED BY <1>1, <1>2, <1>3, <1>4, <1>5 DEF Next

\* What is not added is there already
LEMMA AddedPresent ==
    ASSUME NEW list, NEW gpu, NEW w \in Wanted(gpu)
    PROVE  \E a \in list \cup Added(list, Wanted(gpu)) : StartsWith(w.name, a.name)
<1>1. CASE w \in Added(list, Wanted(gpu))
    <2>1. w.name = <<"-kry", "beta">> \/ w.name = <<"krygpu">>
        <3>1. w = BootArg(<<"-kry", "beta">>, "") \/ w = BootArg(<<"krygpu">>, gpu)
            BY Zenon DEF Wanted
        <3>2. \A n, v : BootArg(n, v).name = n
            BY DEF BootArg
        <3> QED BY <3>1, <3>2, Zenon
    <2>2. \A s \in Seq({"-kry", "beta", "krygpu"}) : StartsWith(s, s)
        BY DEF StartsWith
    <2>3. <<"-kry", "beta">> \in Seq({"-kry", "beta", "krygpu"})
          /\ <<"krygpu">> \in Seq({"-kry", "beta", "krygpu"})
        OBVIOUS
    <2> QED BY <1>1, <2>1, <2>2, <2>3, Zenon
<1>2. CASE w \notin Added(list, Wanted(gpu))
    BY <1>2 DEF Added
<1> QED BY <1>1, <1>2

\* The boot-args stay set until the run ends
LEMMA ArgsSetStep == Ctl /\ Data /\ ArgsSet /\ [Next]_vars => ArgsSet'
<1> SUFFICES ASSUME Ctl, Data, ArgsSet, [Next]_vars PROVE ArgsSet'
    OBVIOUS
<1>1. CASE UNCHANGED vars
    BY <1>1 DEF vars, efi, config, control, ArgsSet, Present, Done
<1>2. ASSUME Next, Done(6, 4, 9)' PROVE Present'
    <2>1. ~Leave /\ (Done(6, 4, 9) \/ Where(6, 4, 9)) /\ step > 0 /\ job' = job
        BY <1>2, DoneStep
    <2>2. CASE SetBootArgs
        <3>1. args' = ArgList(args.list \cup Added(args.list, Wanted(job.gpu)))
            BY <2>1, <2>2, SetBootArgsList
        <3>2. args'.list = args.list \cup Added(args.list, Wanted(job'.gpu))
            BY <2>1, <3>1 DEF ArgList
        <3> QED BY <3>2, AddedPresent DEF Present
    <2>3. CASE Where(6, 4, 9)
        BY <1>2, <2>1, <2>2, <2>3, OnlySetBootArgs
    <2>4. CASE Done(6, 4, 9) /\ ~SetBootArgs
        <3>1. Present
            BY <2>4 DEF ArgsSet
        <3>2. ~Format /\ ~Move
            <4>1. (Format => Where(0, 1, 0)) /\ (Move => Where(0, 2, 0))
                BY Places
            <4> QED BY <2>1, <2>4, <4>1 DEF Where, Done, Ctl
        <3>3. args' = args
            BY <1>2, <2>4, <3>2, ArgsChange
        <3> QED BY <2>1, <3>1, <3>3 DEF Present
    <2> QED BY <2>1, <2>2, <2>3, <2>4
<1> QED BY <1>1, <1>2 DEF ArgsSet

(***************************************************************************)
(* The operator's own entries and boot-args.                               *)
(***************************************************************************)
Own ==
    volume = "own" =>
        /\ orig.entries \in Configs /\ orig.entries \in Seq(EntryRecs)
        /\ Len(orig.entries) <= Len(entries)
        /\ adding => Len(orig.entries) < Len(entries)
        /\ \A i \in DOMAIN orig.entries :
              entries[i] \in {orig.entries[i], Entry(orig.entries[i].bundle, TRUE)}
        /\ orig.args.list \subseteq args.list

\* Nothing has been changed at first
LEMMA InitOwn == Init => Own
<1> SUFFICES ASSUME Init PROVE Own
    OBVIOUS
<1>1. entries \in Seq(EntryRecs)
    BY InitData DEF Data
<1>2. orig.entries = entries /\ orig.args = args /\ ~adding
    BY DEF Init
<1>3. volume = "own" => entries \in Configs
    BY DEF Init
<1> QED BY <1>1, <1>2, <1>3 DEF Own

\* The operator's entries keep their places, and only their Enabled is set
LEMMA OwnStep == Ctl /\ Data /\ Own /\ [Next]_vars => Own'
<1> SUFFICES ASSUME Ctl, Data, Own, [Next]_vars, volume' = "own" PROVE Own'
    BY Zenon DEF Own
<1> DEFINE o == orig.entries
<1>1. volume = "own" /\ orig' = orig
    BY NextSteps, Zenon DEF Start, vars
<1>2. ~Format /\ ~Move
    BY <1>1, Places DEF Where, Ctl
<1>3. orig.args.list \subseteq args'.list
    <2>1. CASE SetBootArgs
        <3>1. args'.list = args.list \cup Added(args.list, Wanted(job.gpu)) \/ args' = args
            BY <2>1, SetBootArgsList DEF ArgList
        <3> QED BY <1>1, <3>1 DEF Own
    <2> QED BY <1>1, <1>2, <2>1, ArgsChange DEF Own
<1>4. /\ o \in Configs
      /\ o \in Seq(EntryRecs) /\ Len(o) <= Len(entries) /\ (adding => Len(o) < Len(entries))
      /\ \A i \in DOMAIN o : entries[i] \in {o[i], Entry(o[i].bundle, TRUE)}
      /\ entries \in Seq(EntryRecs) /\ entries' \in Seq(EntryRecs)
    BY <1>1, DataStep, Zenon DEF Own, Data
<1> HIDE DEF o
<1>5. ASSUME /\ Len(o) <= Len(entries') /\ (adding' => Len(o) < Len(entries'))
             /\ \A i \in DOMAIN o : entries'[i] \in {o[i], Entry(o[i].bundle, TRUE)}
      PROVE  Own'
    BY <1>1, <1>3, <1>4, <1>5, Zenon DEF Own, o
<1>6. CASE entries' = entries /\ ~(\E b \in Bundles : AddField(b))
    <2>1. adding' => adding
        BY <1>6, AddingStep, Zenon DEF vars, control
    <2> QED BY <1>4, <1>5, <1>6, <2>1, Zenon
<1>7. ASSUME NEW b \in Bundles, Enable(b), entries' # entries PROVE Own'
    <2>1. PICK n \in DOMAIN entries :
                 /\ DOMAIN entries' = DOMAIN entries /\ Others(n)
                 /\ Found(n, b) /\ entries[n].fields = Fields
                 /\ entries'[n] = Entry(b, TRUE)
        BY <1>7, EnableWrites, Zenon
    <2>2. entries[n].bundle = b
        BY <2>1 DEF Found, Named
    <2>3. ~adding'
        BY <1>7 DEF Enable, Advance, Proceed, Leave
    <2>4. Len(entries') = Len(entries)
        BY <1>4, <2>1
    <2>5. ASSUME NEW i \in DOMAIN o PROVE entries'[i] \in {o[i], Entry(o[i].bundle, TRUE)}
        <3>1. i \in DOMAIN entries'
            BY <1>4, <2>4
        <3>2. CASE i # n
            BY <1>4, <2>1, <3>1, <3>2, Zenon DEF Others
        <3>3. CASE i = n
            <4>1. o[n].bundle = b
                BY <1>4, <2>2, <3>3 DEF Entry
            <4> QED BY <2>1, <3>3, <4>1
        <3> QED BY <3>2, <3>3, Zenon
    <2> QED BY <1>4, <1>5, <2>3, <2>4, <2>5, Zenon
<1>8. ASSUME NEW b \in Bundles, AddField(b) PROVE Own'
    <2>1. PICK n \in DOMAIN entries' :
             /\ Others(n) /\ n = Len(entries')
             /\ (~adding /\ n = Len(entries) + 1) \/ (adding /\ n = Len(entries))
        BY <1>8, AddFieldWrites, Zenon
    <2>2. Len(o) < n
        BY <1>4, <2>1
    <2>3. ASSUME NEW i \in DOMAIN o PROVE entries'[i] = entries[i]
        BY <1>4, <2>1, <2>2 DEF Others
    <2>4. Len(o) < Len(entries') /\ Len(o) <= Len(entries')
        BY <1>4, <2>1, <2>2
    <2>5. \A i \in DOMAIN o : entries'[i] \in {o[i], Entry(o[i].bundle, TRUE)}
        BY <1>4, <2>3, Zenon
    <2> QED BY <1>5, <2>4, <2>5, Zenon
<1> QED BY <1>2, <1>6, <1>7, <1>8, EntriesChange

(***************************************************************************)
(* A run that gets to its end has installed both bundles, their entries and*)
(* the boot-args, and left the operator's entries in their places, whatever*)
(* earlier runs left behind when they were cut.                            *)
(***************************************************************************)
THEOREM InstallIsComplete == Spec => []InstallComplete
<1> DEFINE Inv == Ctl /\ Data /\ Copied /\ Injected /\ ArgsSet /\ Own
<1>1. Init => Inv
    <2>1. Init => Copied /\ Injected /\ ArgsSet
        BY DEF Init, Copied, Injected, ArgsSet, Done
    <2> QED BY <2>1, InitCtl, InitData, InitOwn
<1>2. Inv /\ [Next]_vars => Inv'
    BY CtlStep, DataStep, CopiedStep, InjectedStep, ArgsSetStep, OwnStep
<1>3. Inv => InstallComplete
    <2> SUFFICES ASSUME Inv, completed PROVE InstallComplete
        BY Zenon DEF InstallComplete
    <2>1. \A b \in Bundles : kexts[b] = "new"
        BY DEF Copied, Done, Bundles
    <2>2. \A b \in Bundles : On(b)
        BY DEF Injected, Done, Bundles
    <2>3. Present
        BY DEF ArgsSet, Done
    <2> QED BY <2>1, <2>2, <2>3, Zenon DEF InstallComplete, On, Present, Own
<1> QED BY <1>1, <1>2, <1>3, PTL DEF Spec

(***************************************************************************)
(* What OpenCore finds when it boots.                                      *)
(***************************************************************************)
Boot ==
    /\ blessed => loader = "whole"
    /\ Where(0, 2, 0) => ~blessed
    /\ Where(0, 3, 0) => loader = "whole"

\* Nothing else takes place at the first two steps of a fresh installation
LEMMA OnlyFresh ==
    ASSUME Ctl, Next, job'.script = "fresh", step' \in {2, 3}
    PROVE  (step' = 2 /\ Format) \/ (step' = 3 /\ Move)
<1>1. Done(6, 1, 9)'
    BY DEF Done
<1>2. job' = job /\ step > 0 /\ ~Leave /\ (Done(6, 1, 9) \/ Where(6, 1, 9))
    BY <1>1, DoneStep
<1>3. \A j \in Jobs : ~Start(j)
    BY DEF Start
<1>4. step \in Nat /\ job \in Jobs /\ job.script = "fresh" /\ Len(Steps(job)) = Length(job)
    BY <1>2, Lengths DEF Ctl
<1>5. CASE Format \/ Move
    <2>1. Proceed /\ (Format => Where(0, 1, 0)) /\ (Move => Where(0, 2, 0))
        BY <1>2, <1>5, Guards DEF Format, Move, Advance
    <2> QED BY <1>4, <1>5, <2>1 DEF Advance, Proceed, Where
<1>6. ASSUME Advance, ~Format, ~Move, NEW e \in Nat, NEW f \in {0} \cup (3..9), NEW h \in Nat,
             Where(e, f, h)
      PROVE  FALSE
    BY <1>4, <1>6 DEF Advance, Proceed, Where
<1>7. CASE Cut \/ SaveConfig \/ Scan \/ SetBootArgs
    <2>1. Where(0, 0, 1) \/ Where(3, 0, 6) \/ Where(6, 4, 9)
        BY <1>2, <1>7, Places DEF Cut
    <2>2. Advance
        BY <1>2, <1>7, Zenon DEF Cut, SaveConfig, Scan, SetBootArgs
    <2> QED BY <1>4, <1>5, <1>6, <2>1, <2>2
<1>8. ASSUME NEW b \in Bundles, SaveKext(b) \/ CopyKext(b) \/ Enable(b) \/ AddField(b) PROVE FALSE
    <2>1. Where(0, 0, 2) \/ Where(0, 0, 3) \/ Where(1, 0, 4) \/ Where(2, 0, 5)
             \/ Where(4, 0, 7) \/ Where(5, 0, 8)
        BY <1>8, Places
    <2> QED BY <1>4, <2>1 DEF Where
<1>9. CASE ImportClassCode \/ SetMux \/ Bless
    <2>1. Advance /\ (Where(8, 6, 0) \/ Where(11, 9, 0) \/ Where(0, 3, 0))
        BY <1>9, Guards DEF ImportClassCode, SetMux, Bless
    <2> QED BY <1>4, <1>5, <1>6, <2>1
<1>10. ASSUME NEW d \in DeviceFields, AddDeviceField(d), ~Format, ~Move PROVE FALSE
    <2>1. Advance /\ (Where(9, 7, 0) \/ Where(10, 8, 0))
        BY <1>10, Guards DEF AddDeviceField, DeviceFields
    <2> QED BY <1>6, <1>10, <2>1
<1>11. CASE FindDevice
    <2>1. Where(7, 5, 0) /\ step' \in {step + 1, Length(job)}
        BY <1>4, <1>11, Guards DEF FindDevice
    <2> QED BY <1>4, <2>1 DEF Where, Length
<1> QED BY <1>3, <1>5, <1>7, <1>8, <1>9, <1>10, <1>11 DEF Next

\* A volume is blessed only after the whole loader is on it
LEMMA BootStep == Ctl /\ Boot /\ [Next]_vars => Boot'
<1> SUFFICES ASSUME Ctl, Boot, [Next]_vars PROVE Boot'
    OBVIOUS
<1>1. CASE UNCHANGED vars
    BY <1>1 DEF vars, efi, control, Boot, Where
<1>2. (Format => Where(0, 1, 0)) /\ (Move => Where(0, 2, 0)) /\ (Bless => Where(0, 3, 0))
    BY Places
<1>3. ASSUME Next, Where(0, 2, 0)' PROVE ~blessed'
    <2>1. job'.script = "fresh" /\ step' = 2
        BY <1>3 DEF Where
    <2> QED BY <1>3, <2>1, OnlyFresh DEF Format
<1>4. ASSUME Next, Where(0, 3, 0)' PROVE loader' = "whole"
    <2>1. job'.script = "fresh" /\ step' = 3
        BY <1>4 DEF Where
    <2>2. Move /\ step' # 0
        BY <1>4, <2>1, OnlyFresh
    <2> QED BY <2>2 DEF Move, Leave
<1>5. ASSUME Next, blessed' PROVE loader' = "whole"
    <2>1. CASE Format
        BY <1>5, <2>1 DEF Format
    <2>2. CASE Move
        BY <1>2, <1>5, <2>2, Zenon DEF Move, Boot
    <2>3. CASE Bless
        BY <1>2, <2>3 DEF Bless, Boot
    <2>4. CASE ~Format /\ ~Move /\ ~Bless
        <3>1. blessed' = blessed /\ loader' = loader
            BY <1>5, <2>4, Zenon DEF Next, Start, Cut, SaveConfig, Scan, SetBootArgs,
               Enable, AddField, SaveKext,
               CopyKext, FindDevice, ImportClassCode, SetMux, AddDeviceField, efi
        <3> QED BY <1>5, <3>1 DEF Boot
    <2> QED BY <2>1, <2>2, <2>3, <2>4
<1> QED BY <1>1, <1>3, <1>4, <1>5 DEF Boot

\* The entries of an OpenCore that boots: a bundle is there when it is enabled,
\* no Lilu is added to an own configuration that has one, and an enabled Lilu
\* comes before an enabled Kryptonite and before any the scripts have added
BundlesThere ==
    \A i \in DOMAIN entries, b \in Bundles : Enabled(entries[i], b) => kexts[b] # "absent"

NoSecondLilu ==
    volume = "own" /\ (\E k \in DOMAIN orig.entries : orig.entries[k].bundle = "Lilu") =>
        \A i \in DOMAIN entries : i > Len(orig.entries) => entries[i].bundle # "Lilu"

OwnEntry(i) == volume = "own" /\ i \in DOMAIN orig.entries

AfterLilu(i) == \E k \in 1..(i - 1) : Enabled(entries[k], "Lilu")

Ordered ==
    \A i \in DOMAIN entries :
        entries[i].bundle = "Kryptonite" /\ (OwnEntry(i) => Enabled(entries[i], "Kryptonite"))
            => Misplaced(i) \/ AfterLilu(i)

Load == (loader = "whole" => BundlesThere /\ Ordered) /\ NoSecondLilu

\* An own OpenCore boots at first, a fresh volume has none
LEMMA InitLoad == Init => Boot /\ Load
<1> SUFFICES ASSUME Init PROVE Boot /\ Load
    OBVIOUS
<1>1. Boot
    BY DEF Init, Boot, Where
<1>2. ASSUME loader = "whole" PROVE BundlesThere /\ Ordered
    <2>1. /\ volume = "own" /\ entries \in Configs /\ orig.entries = entries
          /\ \A i \in DOMAIN entries, b \in Bundles : Enabled(entries[i], b) => kexts[b] # "absent"
        BY <1>2 DEF Init
    <2>2. \A i \in DOMAIN entries : Enabled(entries[i], "Kryptonite") =>
                \E k \in 1..(i - 1) : Enabled(entries[k], "Lilu")
        BY <2>1, ConfigsAssumption
    <2> QED BY <2>1, <2>2, Zenon DEF BundlesThere, Ordered, OwnEntry, AfterLilu
<1>3. NoSecondLilu
    <2>1. orig.entries = entries /\ entries \in Seq(EntryRecs)
        BY InitData DEF Init, Data
    <2> QED BY <2>1 DEF NoSecondLilu
<1> QED BY <1>1, <1>2, <1>3 DEF Load

\* By the time entries are written the bundles are there
LEMMA InjectPlaces ==
    ASSUME Ctl, Copied, Injected, Where(4, 0, 7) \/ Where(5, 0, 8)
    PROVE  /\ \A b \in Bundles : kexts[b] = "new"
           /\ Where(5, 0, 8) => On("Lilu")
<1>1. Done(1, 2, 4) /\ Done(2, 2, 5) /\ (Where(5, 0, 8) => Done(4, 2, 7))
    BY DEF Where, Done
<1> QED BY <1>1 DEF Copied, Injected, Bundles

\* The Lilu that is found and enabled is the last one an own configuration has
LEMMA FoundIsOwn ==
    ASSUME Data, Own, NoSecondLilu, volume = "own", NEW k \in DOMAIN orig.entries,
           LastLilu(orig.entries, k), NEW m \in DOMAIN entries, Found(m, "Lilu")
    PROVE  m = k
<1>1. /\ orig.entries \in Seq(EntryRecs) /\ entries \in Seq(EntryRecs)
      /\ Len(orig.entries) <= Len(entries)
      /\ \A i \in DOMAIN orig.entries :
            entries[i] \in {orig.entries[i], Entry(orig.entries[i].bundle, TRUE)}
      /\ \A i \in DOMAIN orig.entries : orig.entries[i].fields = Fields
    BY ConfigsAssumption DEF Own, Data
<1>2. \A i \in DOMAIN orig.entries :
          i \in DOMAIN entries /\ entries[i].bundle = orig.entries[i].bundle
    BY <1>1 DEF Entry
<1>3. k \in DOMAIN entries /\ Named(k, "Lilu")
    <2>1. entries[k].fields = Fields
        BY <1>1 DEF Entry
    <2> QED BY <1>2, <2>1 DEF Named, LastLilu, Fields, BundlePath
<1>4. ~(k > m)
    BY <1>3, Zenon DEF Found
<1>5. m \in DOMAIN orig.entries
    <2>1. entries[m].bundle = "Lilu" /\ \E n \in DOMAIN orig.entries : orig.entries[n].bundle = "Lilu"
        BY DEF Found, Named, LastLilu
    <2>2. ~(m > Len(orig.entries))
        BY <2>1, Zenon DEF NoSecondLilu
    <2> QED BY <1>1, <2>2
<1>6. ~(m > k)
    BY <1>2, <1>5, Zenon DEF Found, Named, LastLilu
<1> QED BY <1>1, <1>4, <1>5, <1>6

\* An enabled Lilu before an entry stays there when one entry is written
LEMMA StillAfter ==
    ASSUME entries \in Seq(EntryRecs), entries' \in Seq(EntryRecs), NEW n, Others(n),
           n \in DOMAIN entries /\ Enabled(entries[n], "Lilu") => Enabled(entries'[n], "Lilu"),
           NEW i \in DOMAIN entries, i \in DOMAIN entries', AfterLilu(i)
    PROVE  AfterLilu(i)'
<1>1. PICK k \in 1..(i - 1) : Enabled(entries[k], "Lilu")
    BY DEF AfterLilu
<1>2. k \in DOMAIN entries /\ k \in DOMAIN entries'
    OBVIOUS
<1>3. Enabled(entries'[k], "Lilu")
    BY <1>1, <1>2, Zenon DEF Others
<1> QED BY <1>3 DEF AfterLilu

\* Where the operator's entries are does not change
LEMMA SameOwner ==
    ASSUME volume' = volume, orig' = orig, NEW i
    PROVE  (OwnEntry(i)' <=> OwnEntry(i)) /\ (Misplaced(i)' <=> Misplaced(i))
BY Zenon DEF OwnEntry, Misplaced, LastLilu, Enabled

\* Enabling an entry keeps the order: Lilu is enabled before Kryptonite
LEMMA EnableLoad ==
    ASSUME Ctl, Data, Copied, Injected, Own, NoSecondLilu, NEW b \in Bundles, Enable(b),
           volume' = volume, orig' = orig
    PROVE  NoSecondLilu' /\ (BundlesThere /\ Ordered => (BundlesThere /\ Ordered)')
<1>1. /\ (b = "Lilu" => Where(4, 0, 7)) /\ (b = "Kryptonite" => Where(5, 0, 8))
      /\ kexts' = kexts /\ entries \in Seq(EntryRecs) /\ entries' \in Seq(EntryRecs)
    BY EnableEntry, Zenon DEF Enable, Data
<1>2. (\A c \in Bundles : kexts[c] = "new") /\ (Where(5, 0, 8) => On("Lilu"))
    BY <1>1, InjectPlaces DEF Bundles
<1>3. CASE entries' = entries
    BY <1>1, <1>3, SameOwner, Zenon DEF BundlesThere, NoSecondLilu, Ordered, AfterLilu
<1>4. CASE entries' # entries
    <2>1. PICK n \in DOMAIN entries :
                 /\ DOMAIN entries' = DOMAIN entries /\ Others(n)
                 /\ Found(n, b) /\ entries[n].fields = Fields
                 /\ entries'[n] = Entry(b, TRUE)
        BY <1>4, EnableWrites, Zenon
    <2>2. entries'[n].bundle = b /\ entries[n].bundle = b /\ Enabled(entries'[n], b)
        BY <2>1 DEF Entry, Found, Named, Enabled
    <2>3. \A k \in DOMAIN entries : entries'[k].bundle = entries[k].bundle
        BY <2>1, <2>2, Zenon DEF Others
    <2>4. BundlesThere'
        BY <1>1, <1>2 DEF BundlesThere
    <2>5. NoSecondLilu'
        BY <2>1, <2>3, Zenon DEF NoSecondLilu
    <2>6. n \in DOMAIN entries /\ Enabled(entries[n], "Lilu") => Enabled(entries'[n], "Lilu")
        BY <2>2, Zenon DEF Enabled
    <2>7. ASSUME Ordered, NEW i \in DOMAIN entries, entries'[i].bundle = "Kryptonite",
                 OwnEntry(i) => Enabled(entries'[i], "Kryptonite")
          PROVE  Misplaced(i) \/ AfterLilu(i)'
        <3>1. CASE i # n
            <4>1. entries'[i] = entries[i]
                BY <2>1, <3>1 DEF Others
            <4>2. Misplaced(i) \/ AfterLilu(i)
                BY <2>7, <4>1, Zenon DEF Ordered
            <4> QED BY <1>1, <2>1, <2>6, <4>2, StillAfter
        <3>2. CASE i = n /\ ~OwnEntry(n)
            <4>1. Misplaced(n) \/ AfterLilu(n)
                BY <2>2, <2>7, <3>2, Zenon DEF Ordered
            <4> QED BY <1>1, <2>1, <2>6, <3>2, <4>1, StillAfter
        <3>3. CASE i = n /\ OwnEntry(n) /\ Enabled(orig.entries[n], "Kryptonite")
            <4>1. entries[n] \in {orig.entries[n], Entry(orig.entries[n].bundle, TRUE)}
                BY <3>3, Zenon DEF Own, OwnEntry
            <4>2. Enabled(entries[n], "Kryptonite")
                BY <3>3, <4>1 DEF Enabled, Entry
            <4>3. Misplaced(n) \/ AfterLilu(n)
                BY <2>7, <4>2, Zenon DEF Ordered, Enabled
            <4> QED BY <1>1, <2>1, <2>6, <3>3, <4>3, StillAfter
        <3>4. CASE i = n /\ OwnEntry(n) /\ ~Enabled(orig.entries[n], "Kryptonite") /\ ~Misplaced(n)
            <4>1. PICK k \in 1..(n - 1) : LastLilu(orig.entries, k)
                BY <3>4, Zenon DEF Misplaced, OwnEntry
            <4>2. On("Lilu")
                BY <1>1, <1>2, <2>2, <2>7, <3>4
            <4>3. PICK m \in DOMAIN entries : Found(m, "Lilu") /\ Enabled(entries[m], "Lilu")
                BY <4>2, Zenon DEF On
            <4>4. volume = "own" /\ k \in DOMAIN orig.entries
                BY <3>4, <4>1 DEF OwnEntry, Own
            <4>5. m = k
                BY <4>1, <4>3, <4>4, FoundIsOwn
            <4>6. AfterLilu(n)
                BY <4>1, <4>3, <4>5, Zenon DEF AfterLilu
            <4> QED BY <1>1, <2>1, <2>6, <3>4, <4>6, StillAfter
        <3> QED BY <3>1, <3>2, <3>3, <3>4
    <2>8. ASSUME Ordered PROVE Ordered'
        BY <2>1, <2>7, <2>8, SameOwner, Zenon DEF Ordered
    <2> QED BY <2>4, <2>5, <2>8
<1> QED BY <1>3, <1>4

\* A new entry comes last; Kryptonite's only after an enabled Lilu
LEMMA AddFieldLoad ==
    ASSUME Ctl, Data, Copied, Injected, Own, NoSecondLilu, NEW b \in Bundles, AddField(b),
           volume' = volume, orig' = orig
    PROVE  NoSecondLilu' /\ (BundlesThere /\ Ordered => (BundlesThere /\ Ordered)')
<1>1. /\ (b = "Lilu" => Where(4, 0, 7)) /\ (b = "Kryptonite" => Where(5, 0, 8))
      /\ kexts' = kexts /\ entries \in Seq(EntryRecs) /\ entries' \in Seq(EntryRecs)
    BY AddFieldEntry, Zenon DEF AddField, Data
<1>2. (\A c \in Bundles : kexts[c] = "new") /\ (Where(5, 0, 8) => On("Lilu"))
    BY <1>1, InjectPlaces DEF Bundles
<1>3. PICK n \in DOMAIN entries' :
             /\ Others(n) /\ n = Len(entries') /\ entries'[n].bundle = b
             /\ \/ ~adding /\ Missing(b) /\ n = Len(entries) + 1
                \/ adding /\ Filling(b) /\ n = Len(entries)
    BY AddFieldWrites, Zenon
<1>4. BundlesThere'
    BY <1>1, <1>2 DEF BundlesThere
<1>5. n \in DOMAIN entries => ~Enabled(entries[n], "Lilu")
    BY <1>1, <1>3 DEF Filling, Enabled, Fields
<1>6. NoSecondLilu'
    <2> SUFFICES ASSUME volume = "own", NEW k \in DOMAIN orig.entries,
                        orig.entries[k].bundle = "Lilu",
                        NEW i \in DOMAIN entries', i > Len(orig.entries), entries'[i].bundle = "Lilu"
                 PROVE  FALSE
        BY Zenon DEF NoSecondLilu
    <2>1. \A j \in DOMAIN entries : j > Len(orig.entries) => entries[j].bundle # "Lilu"
        BY Zenon DEF NoSecondLilu
    <2>2. i = n /\ b = "Lilu"
        BY <1>3, <2>1, Zenon DEF Others
    <2>3. CASE ~adding /\ Missing("Lilu")
        <3>1. /\ orig.entries \in Seq(EntryRecs) /\ Len(orig.entries) <= Len(entries)
              /\ entries[k] \in {orig.entries[k], Entry(orig.entries[k].bundle, TRUE)}
              /\ orig.entries[k].fields = Fields
            BY ConfigsAssumption DEF Own
        <3>2. k \in DOMAIN entries /\ entries[k].bundle = "Lilu" /\ entries[k].fields = Fields
            BY <1>1, <3>1 DEF Entry
        <3> QED BY <2>3, <3>2 DEF Missing, Named, Fields, BundlePath
    <2>4. CASE adding /\ Filling("Lilu") /\ n = Len(entries)
        <3>1. n \in DOMAIN entries /\ entries[n].bundle = "Lilu"
            BY <1>1, <2>4 DEF Filling
        <3> QED BY <2>1, <2>2, <3>1, Zenon
    <2> QED BY <1>3, <2>2, <2>3, <2>4, Zenon
<1>7. ASSUME Ordered, NEW i \in DOMAIN entries', entries'[i].bundle = "Kryptonite",
             OwnEntry(i) => Enabled(entries'[i], "Kryptonite")
      PROVE  Misplaced(i) \/ AfterLilu(i)'
    <2>1. CASE i # n
        <3>1. i \in DOMAIN entries /\ entries'[i] = entries[i]
            BY <1>3, <2>1 DEF Others
        <3>2. Misplaced(i) \/ AfterLilu(i)
            BY <1>7, <3>1, Zenon DEF Ordered
        <3> QED BY <1>1, <1>3, <1>5, <3>1, <3>2, StillAfter
    <2>2. CASE i = n
        <3>1. b = "Kryptonite" /\ On("Lilu")
            BY <1>1, <1>2, <1>3, <1>7, <2>2
        <3>2. PICK m \in DOMAIN entries : Enabled(entries[m], "Lilu")
            BY <3>1, Zenon DEF On
        <3>3. m # n
            BY <1>5, <3>2
        <3>4. m \in DOMAIN entries' /\ m \in 1..(n - 1)
            BY <1>1, <1>3, <3>2, <3>3
        <3>5. entries'[m] = entries[m]
            BY <1>3, <3>3, <3>4 DEF Others
        <3> QED BY <2>2, <3>2, <3>4, <3>5, Zenon DEF AfterLilu
    <2> QED BY <2>1, <2>2
<1>8. ASSUME Ordered PROVE Ordered'
    BY <1>7, <1>8, SameOwner, Zenon DEF Ordered
<1> QED BY <1>4, <1>6, <1>8

\* The release is in order
LEMMA ReleaseLoad ==
    ASSUME entries' = Release, \A b \in Bundles : kexts'[b] = "new"
    PROVE  (BundlesThere /\ Ordered)'
<1>1. /\ DOMAIN entries' = {1, 2}
      /\ entries'[1] = Entry("Lilu", TRUE) /\ entries'[2] = Entry("Kryptonite", TRUE)
    BY DEF Release
<1>2. entries'[1].bundle = "Lilu" /\ Enabled(entries'[1], "Lilu")
    BY <1>1 DEF Entry, Enabled
<1>3. BundlesThere'
    BY DEF BundlesThere
<1>4. 1 \in 1..(2 - 1)
    OBVIOUS
<1>5. Ordered'
    BY <1>1, <1>2, <1>4 DEF Ordered, AfterLilu
<1> QED BY <1>3, <1>5

\* Every action keeps a bootable OpenCore loadable
LEMMA LoadStep == Ctl /\ Data /\ Copied /\ Injected /\ Own /\ Load /\ [Next]_vars => Load'
<1> SUFFICES ASSUME Ctl, Data, Copied, Injected, Own, Load, [Next]_vars PROVE Load'
    OBVIOUS
<1>1. volume' = volume /\ orig' = orig
    BY NextSteps, Zenon DEF Start, vars
<1>2. CASE Format \/ Move
    <2>1. volume' # "own"
        BY <1>1, <1>2, Places DEF Where, Ctl
    <2>2. loader' = "whole" => entries' = Release /\ \A b \in Bundles : kexts'[b] = "new"
        BY <1>2 DEF Format, Move
    <2> QED BY <2>1, <2>2, ReleaseLoad DEF Load, NoSecondLilu
<1>3. CASE ~Format /\ ~Move
    <2>1. loader' = loader
        BY <1>3, Zenon DEF Next, Start, Cut, SaveConfig, Scan, SetBootArgs,
           Enable, AddField, SaveKext,
           CopyKext, FindDevice, ImportClassCode, SetMux, AddDeviceField, Bless, vars, efi
    <2>2. ASSUME NEW b \in Bundles, Enable(b) \/ AddField(b) PROVE Load'
        BY <1>1, <2>1, <2>2, EnableLoad, AddFieldLoad DEF Load
    <2>3. CASE entries' = entries
        <3>1. ASSUME NEW b \in Bundles PROVE kexts[b] # "absent" => kexts'[b] # "absent"
            BY <1>3, KextsChange DEF CopyKext, Data
        <3>2. BundlesThere => BundlesThere'
            BY <2>3, <3>1, Zenon DEF BundlesThere
        <3>3. (Ordered => Ordered') /\ (NoSecondLilu => NoSecondLilu')
            BY <1>1, <2>3, SameOwner, Zenon DEF Ordered, NoSecondLilu, AfterLilu
        <3> QED BY <2>1, <3>2, <3>3, Zenon DEF Load
    <2> QED BY <1>3, <2>2, <2>3, EntriesChange
<1> QED BY <1>2, <1>3

\* What a step enables on a bootable OpenCore has just been copied
LEMMA WholeStep == Ctl /\ Data /\ Copied /\ Injected /\ [Next]_vars => EnabledWhole
<1> SUFFICES ASSUME Ctl, Data, Copied, Injected, [Next]_vars, loader' = "whole",
                    NEW i \in DOMAIN entries', NEW b \in Bundles, Enabled(entries'[i], b),
                    ~(i \in DOMAIN entries /\ Enabled(entries[i], b))
             PROVE  kexts'[b] = "new"
    BY Zenon DEF EnabledWhole
<1>1. CASE entries' = entries
    BY <1>1, Zenon
<1>2. ASSUME NEW c \in Bundles, Enable(c) \/ AddField(c) PROVE kexts'[b] = "new"
    <2>1. Where(4, 0, 7) \/ Where(5, 0, 8)
        BY <1>2, Places
    <2>2. kexts' = kexts
        BY <1>2, Zenon DEF Enable, AddField
    <2> QED BY <2>1, <2>2, InjectPlaces
<1>3. CASE Format \/ Move
    BY <1>3 DEF Format, Move
<1> QED BY <1>1, <1>2, <1>3, EntriesChange

(***************************************************************************)
(* After every step an OpenCore that can boot has the bundles its entries  *)
(* enable, and Lilu's enabled entry before Kryptonite's unless the         *)
(* operator had them the other way round; and a step enables only what is  *)
(* whole on the EFI.                                                       *)
(***************************************************************************)
THEOREM EntriesAreLoadable == Spec => EntriesLoadable
<1> DEFINE Inv == Ctl /\ Data /\ Copied /\ Injected /\ Own /\ Boot /\ Load
<1>1. Init => Inv
    <2>1. Init => Copied /\ Injected
        BY DEF Init, Copied, Injected, Done
    <2> QED BY <2>1, InitCtl, InitData, InitOwn, InitLoad
<1>2. Inv /\ [Next]_vars => Inv'
    BY CtlStep, DataStep, CopiedStep, InjectedStep, OwnStep, BootStep, LoadStep
<1>3. Inv => Loadable
    <2> SUFFICES ASSUME Boot, Load, loader = "whole", NEW i \in DOMAIN entries, NEW b \in Bundles,
                        Enabled(entries[i], b)
                 PROVE  /\ kexts[b] # "absent"
                        /\ b = "Kryptonite" =>
                            Misplaced(i) \/ \E k \in 1..(i - 1) : Enabled(entries[k], "Lilu")
        BY DEF Loadable, Boot
    <2>1. kexts[b] # "absent"
        BY DEF Load, BundlesThere
    <2>2. b = "Kryptonite" => Misplaced(i) \/ \E k \in 1..(i - 1) : Enabled(entries[k], "Lilu")
        BY Zenon DEF Load, Ordered, Enabled, AfterLilu
    <2> QED BY <2>1, <2>2
<1>4. Inv /\ [Next]_vars => EnabledWhole
    BY WholeStep
<1> QED BY <1>1, <1>2, <1>3, <1>4, PTL DEF Spec, EntriesLoadable

====
