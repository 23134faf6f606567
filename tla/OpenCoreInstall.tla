--------------------------- MODULE OpenCoreInstall ---------------------------
(***************************************************************************)
(* The scripts that put Kryptonite on an OpenCore EFI: installer.sh on an  *)
(* existing OpenCore or on a freshly formatted volume, and                 *)
(* hybrid_install.sh.  One operator runs them one after another; a run can *)
(* be cut anywhere.  Each PlistBuddy command rewrites config.plist in one  *)
(* step.  hybrid_install.sh runs the shared functions under set -euo       *)
(* pipefail, installer.sh does not.                                        *)
(***************************************************************************)
EXTENDS Naturals, Sequences

CONSTANTS Gpus,      \* values of the krygpu boot-arg
          Configs,   \* kext entries an own OpenCore may have
          ArgLists,  \* boot-args an own OpenCore may have
          Devices,   \* device properties it may have for the discrete GPU
          MaxRuns    \* bound: script runs

VARIABLES volume,    \* an "own" OpenCore EFI or a "kryptonite" volume
          loader,    \* the EFI directory: none, part or whole
          blessed,
          entries,   \* :Kernel:Add of config.plist, each with the fields it has so far
          args,      \* the boot-args entry of config.plist
          device,    \* the discrete GPU's fields in config.plist
          mux,
          kexts,     \* the two bundles on the EFI
          backups,   \* OC.backup-*, oldest first
          orig,      \* the EFI before the first run
          job, step, \* the running script and its next step
          adding,    \* the newest entry is being filled
          completed, \* the last run got to its end
          unsaved,   \* a script without backup has run
          cutDevice, \* the device properties were left half written by a cut run
          runs

config == <<entries, args, device>>
efi == <<loader, blessed, config, mux, kexts>>
control == <<job, step, adding, completed, cutDevice>>
vars == <<volume, efi, backups, orig, control, unsaved, runs>>

Bundles == {"Lilu", "Kryptonite"}
Fields == 8        \* Comment, MaxKernel, MinKernel, Arch, BundlePath, ..., Enabled
BundlePath == 5
Entry(b, on) == [bundle |-> b, fields |-> Fields, on |-> on]
Release == <<Entry("Lilu", TRUE), Entry("Kryptonite", TRUE)>>
Enabled(e, b) == e.bundle = b /\ e.fields = Fields /\ e.on

\* The loop of opencore_add_kry_injections keeps the last entry with this bundle
Named(i, b) == entries[i].bundle = b /\ entries[i].fields >= BundlePath
Found(i, b) == Named(i, b) /\ \A k \in DOMAIN entries : k > i => ~Named(k, b)
Missing(b) == \A i \in DOMAIN entries : ~Named(i, b)

\* A boot-arg's name is the sequence of its parts
BootArg(name, value) == [name |-> name, value |-> value]
NoArgs == [there |-> FALSE, list |-> {}]
ArgList(list) == [there |-> TRUE, list |-> list]
StartsWith(name, start) == \E n \in 0..Len(name) : start = SubSeq(name, 1, n)
Wanted(gpu) == {BootArg(<<"-kry", "beta">>, ""), BootArg(<<"krygpu">>, gpu)}

\* "other" is any bundle, part of a name or value the scripts do not know
EntryRecs == [bundle : Bundles \cup {"other"}, fields : 1..Fields, on : BOOLEAN]
BootArgRecs == [name : Seq({"-kry", "beta", "krygpu", "other"}),
                value : Gpus \cup {"", "other"}]
ArgRecs == [there : BOOLEAN, list : SUBSET BootArgRecs]

\* An own OpenCore boots: its entries are complete, and an enabled Kryptonite
\* comes after an enabled Lilu.  Entries that are off may be in any order.
ASSUME ConfigsAssumption ==
    \A c \in Configs :
        /\ c \in Seq(EntryRecs)
        /\ \A i \in DOMAIN c : c[i].fields = Fields
        /\ \A i \in DOMAIN c : Enabled(c[i], "Kryptonite") =>
               \E k \in 1..(i - 1) : Enabled(c[k], "Lilu")
ASSUME ArgsAssumption == ArgLists \subseteq ArgRecs

NoJob == [script |-> "none", gpu |-> "none", dgpu |-> FALSE]
DeviceFields == {"class-code", "IOName", "name"}
ASSUME DevicesAssumption == Devices \subseteq SUBSET (DeviceFields \cup {"other"})

\* The steps of prep_existing_oc, prep_fresh_oc and hybrid_install.sh, each with
\* what it works on
CopySteps == << <<"copy", "Kryptonite">>, <<"copy", "Lilu">> >>

\* Mutation: the plug-in's entry goes first
MutInjectSteps == << <<"scan", "config">>, <<"inject", "Kryptonite">>, <<"inject", "Lilu">> >>
InjectSteps == << <<"scan", "config">>, <<"inject", "Lilu">>, <<"inject", "Kryptonite">> >>
BootArgs == << <<"set", "boot-args">> >>
DeviceSteps == << <<"find", "device">>, <<"import", "class-code">>, <<"add", "IOName">>,
                  <<"add", "name">>, <<"set", "mux">> >>
Steps(j) ==
    CASE j.script = "existing" ->
            CopySteps \o InjectSteps \o BootArgs \o (IF j.dgpu THEN DeviceSteps ELSE <<>>)
      [] j.script = "fresh" ->
            << <<"format", "volume">>, <<"move", "EFI">>, <<"bless", "EFI">> >>
                \o BootArgs \o (IF j.dgpu THEN DeviceSteps ELSE <<>>)
      [] j.script = "hybrid" ->
            << <<"save", "config">>, <<"save", "Kryptonite">>, <<"save", "Lilu">> >>
                \o CopySteps \o InjectSteps \o BootArgs

Init ==
    /\ \/ /\ volume = "own" /\ loader = "whole"
          /\ entries \in Configs /\ args \in ArgLists /\ device \in Devices
          /\ kexts \in [Bundles -> {"absent", "old"}]
          /\ \A i \in DOMAIN entries, b \in Bundles :
                Enabled(entries[i], b) => kexts[b] # "absent"
       \/ /\ volume = "kryptonite" /\ loader = "none"
          /\ entries = <<>> /\ args = NoArgs /\ device = {}
          /\ kexts = [b \in Bundles |-> "absent"]
    /\ blessed = FALSE /\ mux = "dgpu"
    /\ backups = <<>>
    /\ orig = [entries |-> entries, args |-> args, device |-> device, kexts |-> kexts]
    /\ job = NoJob /\ step = 0 /\ adding = FALSE /\ completed = FALSE
    /\ unsaved = FALSE /\ cutDevice = FALSE
    /\ runs = 0

At(do, what) == step > 0 /\ Steps(job)[step] = <<do, what>>

\* The next step, or the end of the script
Proceed ==
    /\ IF step < Len(Steps(job))
       THEN step' = step + 1 /\ UNCHANGED <<job, completed>>
       ELSE step' = 0 /\ completed' = TRUE /\ UNCHANGED job
    /\ UNCHANGED adding

Advance == Proceed /\ UNCHANGED cutDevice

\* The script exits, or is cut
Leave ==
    /\ step' = 0 /\ adding' = FALSE /\ job' = NoJob
    /\ cutDevice' = (cutDevice \/ (device # {} /\ (At("add", "IOName") \/ At("add", "name"))))
    /\ UNCHANGED completed

(***************************************************************************)
(* The operator                                                            *)
(***************************************************************************)

\* hybrid_install.sh refuses a volume named KRYPTONITE; disks_get never offers
\* an EFI partition for formatting
Start(j) ==
    /\ step = 0 /\ runs < MaxRuns
    /\ j.script = "fresh" => volume = "kryptonite"
    /\ j.script = "hybrid" => volume = "own" /\ ~j.dgpu
    /\ j.script = "existing" => volume = "own" \/ entries # <<>>
    /\ job' = j /\ step' = 1 /\ runs' = runs + 1 /\ completed' = FALSE
    /\ unsaved' = (unsaved \/ j.script # "hybrid")
    /\ UNCHANGED <<volume, efi, backups, orig, adding, cutDevice>>

\* A download or command fails, or the terminal is closed
Cut ==
    /\ step > 0
    /\ Leave
    /\ UNCHANGED <<volume, efi, backups, orig, unsaved, runs>>

(***************************************************************************)
(* hybrid_install.sh: the backup                                           *)
(***************************************************************************)

SaveConfig ==
    /\ At("save", "config")
    /\ \E whole \in BOOLEAN :
        /\ backups' = Append(backups, [entries |-> entries, args |-> args, whole |-> whole,
                                       kexts |-> [b \in Bundles |-> "absent"]])
        /\ IF whole THEN Advance ELSE Leave
    /\ UNCHANGED <<volume, efi, orig, unsaved, runs>>

\* Mutation: Lilu is not saved
MutSaveKext(b) ==
    /\ At("save", b)
    /\ IF b = "Lilu" THEN UNCHANGED backups
       ELSE backups' = [backups EXCEPT ![Len(backups)].kexts[b] = kexts[b]]
    /\ Advance
    /\ UNCHANGED <<volume, efi, orig, unsaved, runs>>

\* Only a bundle that is there is copied
SaveKext(b) ==
    /\ At("save", b)
    /\ \/ /\ backups' = [backups EXCEPT ![Len(backups)].kexts[b] = kexts[b]]
          /\ Advance
       \/ /\ kexts[b] # "absent"
          /\ backups' = [backups EXCEPT ![Len(backups)].kexts[b] = "mixed"]
          /\ Leave
    /\ UNCHANGED <<volume, efi, orig, unsaved, runs>>

(***************************************************************************)
(* resources_move_kextsonly and opencore_add_kry_injections                *)
(***************************************************************************)

\* rsync is cut within a bundle
CopyKext(b) ==
    /\ At("copy", b)
    /\ \/ kexts' = [kexts EXCEPT ![b] = "new"] /\ Advance
       \/ kexts' = [kexts EXCEPT ![b] = "mixed"] /\ Leave
    /\ UNCHANGED <<volume, loader, blessed, config, mux, backups, orig, unsaved, runs>>

\* installer.sh never leaves here: plists_get returns 0 whatever PlistBuddy did.
\* Under set -e an entry without BundlePath, or no entry, ends the script.
Scan ==
    /\ At("scan", "config")
    /\ IF job.script = "hybrid"
          /\ (entries = <<>> \/ \E i \in DOMAIN entries : entries[i].fields < BundlePath)
       THEN Leave ELSE Advance
    /\ UNCHANGED <<volume, efi, backups, orig, unsaved, runs>>

\* Mutation: an entry without Enabled passes for configured
MutEnable(b) ==
    /\ At("inject", b) /\ ~adding
    /\ \E i \in DOMAIN entries :
        /\ Found(i, b)
        /\ entries' = [entries EXCEPT ![i].on = TRUE] /\ Advance
    /\ UNCHANGED <<volume, loader, blessed, args, device, mux, kexts, backups, orig,
                   unsaved, runs>>

\* A present entry is enabled; an entry cut before its last field has no Enabled
\* to set, and the script exits
Enable(b) ==
    /\ At("inject", b) /\ ~adding
    /\ \E i \in DOMAIN entries :
        /\ Found(i, b)
        /\ IF entries[i].fields = Fields
           THEN entries' = [entries EXCEPT ![i].on = TRUE] /\ Advance
           ELSE UNCHANGED entries /\ Leave
    /\ UNCHANGED <<volume, loader, blessed, args, device, mux, kexts, backups, orig,
                   unsaved, runs>>

\* opencore_inject_kext: one Add per field, the first one makes the entry
AddField(b) ==
    /\ At("inject", b)
    /\ \/ /\ ~adding /\ Missing(b)
          /\ entries' = Append(entries, [bundle |-> b, fields |-> 1, on |-> FALSE])
          /\ adding' = TRUE /\ UNCHANGED <<job, step, completed, cutDevice>>
       \/ /\ adding
          /\ LET last == entries[Len(entries)] IN
             IF last.fields < Fields - 1
             THEN /\ entries' = [entries EXCEPT ![Len(entries)].fields = @ + 1]
                  /\ UNCHANGED <<job, step, adding, completed, cutDevice>>
             ELSE /\ entries' = [entries EXCEPT ![Len(entries)] = Entry(b, TRUE)]
                  /\ step' = step + 1 /\ adding' = FALSE
                  /\ UNCHANGED <<job, completed, cutDevice>>
    /\ UNCHANGED <<volume, loader, blessed, args, device, mux, kexts, backups, orig,
                   unsaved, runs>>

(***************************************************************************)
(* opencore_set_bootargs                                                   *)
(***************************************************************************)

\* An argument is taken for present when it starts with the name of one that is
Added(list, wanted) ==
    {w \in wanted : \A a \in list : ~StartsWith(w.name, a.name)}

\* PlistBuddy does not set an entry that is missing; under set -u bash 3.2 does
\* not expand the empty array of no existing arguments
SetBootArgs ==
    /\ At("set", "boot-args")
    /\ IF args.there /\ (job.script = "hybrid" => args.list # {})
       THEN args' = ArgList(args.list \cup Added(args.list, Wanted(job.gpu))) /\ Advance
       ELSE UNCHANGED args /\ Leave
    /\ UNCHANGED <<volume, loader, blessed, entries, device, mux, kexts, backups, orig,
                   unsaved, runs>>

(***************************************************************************)
(* disable_dgpu                                                            *)
(***************************************************************************)

\* Mutation: the test for a configuration is the wrong way round
MutFindDevice ==
    /\ At("find", "device")
    /\ step' = IF device = {} THEN Len(Steps(job)) ELSE step + 1
    /\ UNCHANGED <<volume, efi, backups, orig, job, adding, completed, cutDevice, unsaved, runs>>

\* Any field of the device is taken for its configuration: on to the mux
FindDevice ==
    /\ At("find", "device")
    /\ step' = IF device # {} THEN Len(Steps(job)) ELSE step + 1
    /\ UNCHANGED <<volume, efi, backups, orig, job, adding, completed, cutDevice, unsaved, runs>>

\* The result of Import is not looked at
ImportClassCode ==
    /\ At("import", "class-code")
    /\ device' \in {device, device \cup {"class-code"}}
    /\ Advance
    /\ UNCHANGED <<volume, loader, blessed, entries, args, mux, kexts, backups, orig,
                   unsaved, runs>>

AddDeviceField(f) ==
    /\ At("add", f)
    /\ device' = device \cup {f}
    /\ Advance
    /\ UNCHANGED <<volume, loader, blessed, entries, args, mux, kexts, backups, orig,
                   unsaved, runs>>

SetMux ==
    /\ At("set", "mux")
    /\ mux' = "igpu"
    /\ Advance
    /\ UNCHANGED <<volume, loader, blessed, config, kexts, backups, orig, unsaved, runs>>

(***************************************************************************)
(* prep_fresh_oc                                                           *)
(***************************************************************************)

Format ==
    /\ At("format", "volume")
    /\ loader' = "none" /\ blessed' = FALSE
    /\ entries' = <<>> /\ args' = NoArgs /\ device' = {}
    /\ kexts' = [b \in Bundles |-> "absent"]
    /\ Proceed /\ cutDevice' = FALSE
    /\ UNCHANGED <<volume, mux, backups, orig, unsaved, runs>>

\* rsync of the whole EFI directory; cut, it may have left the configuration
Move ==
    /\ At("move", "EFI")
    /\ \/ /\ loader' = "whole"
          /\ kexts' = [b \in Bundles |-> "new"]
          /\ entries' = Release /\ args' = ArgList({})
          /\ Advance
       \/ /\ loader' = "part"
          /\ kexts' \in [Bundles -> {"absent", "mixed", "new"}]
          /\ \/ entries' = Release /\ args' = ArgList({})
             \/ UNCHANGED <<entries, args>>
          /\ Leave
    /\ UNCHANGED <<volume, blessed, device, mux, backups, orig, unsaved, runs>>

Bless ==
    /\ At("bless", "EFI")
    /\ blessed' = TRUE
    /\ Advance
    /\ UNCHANGED <<volume, loader, config, mux, kexts, backups, orig, unsaved, runs>>

Jobs == [script : {"existing", "fresh", "hybrid"}, gpu : Gpus, dgpu : BOOLEAN]

Next ==
    \/ \E j \in Jobs : Start(j)
    \/ Cut \/ SaveConfig \/ Scan \/ SetBootArgs
    \/ \E b \in Bundles : SaveKext(b) \/ CopyKext(b) \/ Enable(b) \/ AddField(b)
    \/ FindDevice \/ ImportClassCode \/ SetMux
    \/ \E f \in DeviceFields : AddDeviceField(f)
    \/ Format \/ Move \/ Bless

Spec == Init /\ [][Next]_vars

(***************************************************************************)
(* Properties                                                              *)
(***************************************************************************)

(***************************************************************************)
(* A run that gets to its end leaves both bundles new, an enabled and      *)
(* complete entry for each, and every wanted boot-arg or one that shadows  *)
(* it, whatever half-written entries earlier runs left in config.plist.    *)
(* The operator's own entries are where they were, and their boot-args are *)
(* still set.                                                              *)
(***************************************************************************)
InstallComplete ==
    completed =>
        /\ \A b \in Bundles :
            kexts[b] = "new" /\ \E i \in DOMAIN entries : Found(i, b) /\ Enabled(entries[i], b)
        /\ \A w \in Wanted(job.gpu) : \E a \in args.list : StartsWith(w.name, a.name)
        /\ volume = "own" =>
            /\ \A i \in DOMAIN orig.entries :
                entries[i] \in {orig.entries[i], Entry(orig.entries[i].bundle, TRUE)}
            /\ orig.args.list \subseteq args.list

(***************************************************************************)
(* After every step an OpenCore that can boot has the bundles its entries  *)
(* enable, and an enabled Kryptonite comes after an enabled Lilu, its      *)
(* library, except where the operator kept a disabled Kryptonite before    *)
(* the Lilu the scripts find, or had no Lilu: opencore_add_kry_injections  *)
(* enables that one in its place.  And no step enables an entry whose      *)
(* bundle is not whole on the EFI, whatever copies of it were cut before.  *)
(***************************************************************************)
LastLilu(c, k) ==
    c[k].bundle = "Lilu" /\ \A n \in DOMAIN c : n > k => c[n].bundle # "Lilu"

Misplaced(i) ==
    /\ volume = "own" /\ i \in DOMAIN orig.entries
    /\ ~Enabled(orig.entries[i], "Kryptonite")
    /\ \A k \in 1..(i - 1) : ~LastLilu(orig.entries, k)

Loadable ==
    /\ blessed => loader = "whole"
    /\ loader = "whole" => \A i \in DOMAIN entries, b \in Bundles :
        Enabled(entries[i], b) =>
            /\ kexts[b] # "absent"
            /\ b = "Kryptonite" =>
                Misplaced(i) \/ \E k \in 1..(i - 1) : Enabled(entries[k], "Lilu")

EnabledWhole ==
    loader' = "whole" => \A i \in DOMAIN entries', b \in Bundles :
        Enabled(entries'[i], b) /\ ~(i \in DOMAIN entries /\ Enabled(entries[i], b))
            => kexts'[b] = "new"

EntriesLoadable == [][Loadable' /\ EnabledWhole]_vars

(***************************************************************************)
(* As long as only hybrid_install.sh ran, the original configuration and   *)
(* bundles are on the EFI or whole in some backup, at every moment.        *)
(***************************************************************************)
OriginalEfiKept ==
    volume = "own" /\ ~unsaved =>
        /\ \/ entries = orig.entries /\ args = orig.args
           \/ \E i \in DOMAIN backups : /\ backups[i].whole
                                        /\ backups[i].entries = orig.entries
                                        /\ backups[i].args = orig.args
        /\ \A b \in Bundles : \/ orig.kexts[b] \in {"absent", kexts[b]}
                              \/ \E i \in DOMAIN backups : backups[i].kexts[b] = orig.kexts[b]

(***************************************************************************)
(* Device properties the operator had are left as they were, and a run     *)
(* that was to switch the discrete GPU off and got to its end wrote the    *)
(* names that do it.  It skipped them only over the operator's properties  *)
(* or over what a run that was cut between them left on this volume, both  *)
(* of which opencore_disable_gpudevice takes for a configuration.          *)
(***************************************************************************)
OwnDevice == volume = "own" /\ orig.device # {}

DeviceWhole ==
    /\ OwnDevice => device = orig.device
    /\ completed /\ job.dgpu => {"IOName", "name"} \subseteq device \/ cutDevice \/ OwnDevice

==============================================================================
