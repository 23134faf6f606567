------------------------------ MODULE EfiConfig ------------------------------
(***************************************************************************)
(* The scripts that edit the OpenCore EFI: the boot-args entry of          *)
(* config.plist and the installed Kryptonite.kext.  A script is a sequence *)
(* of steps run under "set -e"; several may run at once, in terminals of   *)
(* their own, and each can be stopped anywhere.                            *)
(*                                                                         *)
(* PlistBuddy's Delete and Add each rewrite the plist in one step.  The    *)
(* boot-args are a sequence of tokens; the long list of an exact profile   *)
(* is its first token and one token that stands for the others.  The root  *)
(* overlays a prepare script runs are module RootOverlay; here they only   *)
(* take their time, and may fail.                                          *)
(***************************************************************************)
EXTENDS Naturals, Sequences

CONSTANTS
  Sessions,   \* terminals
  Jobs,       \* the scripts that may be run, with their arguments
  Entries,    \* boot-args the config starts with
  MaxRuns,    \* bound: scripts run in a behaviour
  MaxTime     \* bound: seconds that pass

\* A token name=value, or a bare flag, whose value is "".
Token(n, v) == [name |-> n, value |-> v]
Amfi        == Token("amfi_get_out_of_my_way", "0x1")

\* The boot-args entry of the plist: missing, or there with its tokens.
Missing       == <<>>
Present(args) == <<args>>
Tokens(entry) == IF entry = Missing THEN <<>> ELSE entry[1]

ASSUME BoundsAssumption == MaxRuns \in Nat /\ MaxTime \in Nat

------------------------------------------------------------------------------
(* What the scripts write *)

\* set_efi_boot_args.sh: "for TOKEN in $CUR" does not split in zsh, so the loop
\* sees the whole string once.  Its name is the text up to the first "=", which
\* is that of the first token if that token has a value or is alone; then the
\* string is dropped.  From the second argument on the string starts with a
\* space and has no argument's name.
SetArgs(args, cur) ==
  IF /\ cur # <<>> /\ cur[1].name = args[1].name
     /\ cur[1].value # "" \/ Len(cur) = 1
  THEN args ELSE cur \o args

\* The tokens of cur but those in gone, in their order.
Without(gone, cur) ==
  LET kept[n \in 0 .. Len(cur)] ==
        IF n = 0 THEN <<>>
        ELSE IF cur[n] \in gone THEN kept[n - 1] ELSE Append(kept[n - 1], cur[n])
  IN  kept[Len(cur)]

AmfiIn(cur) == {t \in {cur[n] : n \in 1 .. Len(cur)} : t.name = Amfi.name}

NewArgs(edit, cur) ==
  CASE edit.how = "set"     -> SetArgs(edit.args, cur)
    [] edit.how = "remove"  -> Without({edit.args[1]}, cur)
    [] edit.how = "disable" -> Without(AmfiIn(cur), cur)
    [] edit.how = "amfi"    -> Append(Without(AmfiIn(cur), cur), Amfi)
    [] edit.how = "exact"   -> edit.args

\* The removing scripts exit when there is nothing to remove.
Needed(edit, cur) ==
  \/ edit.how \notin {"remove", "disable"}
  \/ NewArgs(edit, cur) # cur

------------------------------------------------------------------------------
(* The scripts *)

Read    == [do |-> "read"]
Overlay == [do |-> "overlay"]
Kext    == [do |-> "kext"]
Edit(how, args, suffix) ==
  [do |-> "edit", how |-> how, args |-> args, suffix |-> suffix]

\* set_efi_boot_args_<profile>.sh
Profile(p) == <<Token("keepsyms", "1"), Token(p, "1")>>
Exact(p)   == <<Edit("exact", Profile(p), p)>>

set_efi_boot_args(args) == <<Read, Edit("set", args, "bootargs")>>
remove_efi_boot_arg(t)  == <<Read, Edit("remove", <<t>>, "remove-boot-arg")>>
disable_efi_amfi_lv_validation ==
  <<Read, Edit("disable", <<>>, "remove-boot-arg")>>

update_efi_kryptonite_kext == <<Kext>>

\* The three prepare scripts that add the AMFI argument read the entry first.
prepare_amfi == <<Read, Overlay, Edit("amfi", <<>>, "bootargs")>>

\* prepare_..._no_igfxagdc_validation and its like: the overlays, then the
\* arguments of a profile.
prepare_baseline(p) == <<Overlay>> \o Exact(p)

\* Mutant of prepare_validation: the arguments are set before the kext.
prepare_validation_args_first(p) ==
  prepare_baseline("no_igfxagdc") \o Exact(p) \o update_efi_kryptonite_kext

\* The ones that also install a build: baseline, kext, arguments.
prepare_validation(p) ==
  prepare_baseline("no_igfxagdc") \o update_efi_kryptonite_kext \o Exact(p)

Steps(job) ==
  CASE job.script = "set_efi_boot_args"   -> set_efi_boot_args(job.args)
    [] job.script = "remove_efi_boot_arg" -> remove_efi_boot_arg(job.args[1])
    [] job.script = "disable_efi_amfi_lv_validation" ->
         disable_efi_amfi_lv_validation
    [] job.script = "set_efi_boot_args_profile"  -> Exact(job.profile)
    [] job.script = "update_efi_kryptonite_kext" -> update_efi_kryptonite_kext
    [] job.script = "prepare_amfi"        -> prepare_amfi
    [] job.script = "prepare_baseline"    -> prepare_baseline(job.profile)
    [] job.script = "prepare_validation"  -> prepare_validation(job.profile)

------------------------------------------------------------------------------
VARIABLES
  bootArgs,      \* the boot-args entry, or Missing
  backups,       \* copies of config.plist, by time and suffix
  kext,          \* EFI/OC/Kexts/Kryptonite.kext: absent, old, torn or build
  kextBackups,   \* copies of the kext, by the time in their name
  copy,          \* each session's copy: the time in its name, the kext it copies
  merged,        \* a copy of the kext was written into one of the same name
  at,            \* where each session is in its current step
  steps,         \* the steps each session has left
  cur,           \* the boot-args each session read
  now, runs,     \* the clock; scripts run so far
  original,      \* the boot-args and the kext before any script
  clobbered,     \* a copy of the config was written over one of the same name
  cut            \* a session ended between its Delete and its Add

vars == <<bootArgs, backups, kext, kextBackups, copy, merged, at, steps, cur, now,
          runs, original, clobbered, cut>>

Init ==
  /\ bootArgs \in Entries /\ kext \in {"absent", "old"}
  /\ original = [bootArgs |-> bootArgs, kext |-> kext]
  /\ backups = {} /\ kextBackups = {}
  /\ copy = [s \in Sessions |-> [time |-> 0, seen |-> "absent"]] /\ merged = FALSE
  /\ at = [s \in Sessions |-> "idle"] /\ steps = [s \in Sessions |-> <<>>]
  /\ cur = [s \in Sessions |-> <<>>]
  /\ now = 0 /\ runs = 0 /\ clobbered = FALSE /\ cut = FALSE

step(s) == Head(steps[s])
Next1(s, do) == at[s] = "step" /\ step(s).do = do

\* The step is done; the script ends after its last one.
Advance(s) ==
  /\ steps' = [steps EXCEPT ![s] = Tail(@)]
  /\ at' = [at EXCEPT ![s] = IF Tail(steps[s]) = <<>> THEN "idle" ELSE "step"]

\* The script ends here.
Exit(s) ==
  /\ steps' = [steps EXCEPT ![s] = <<>>] /\ at' = [at EXCEPT ![s] = "idle"]

Goto(s, place) == at' = [at EXCEPT ![s] = place] /\ UNCHANGED steps

Launch(s, job) ==
  /\ at[s] = "idle" /\ runs < MaxRuns /\ runs' = runs + 1
  /\ steps' = [steps EXCEPT ![s] = Steps(job)] /\ at' = [at EXCEPT ![s] = "step"]
  /\ cur' = [cur EXCEPT ![s] = <<>>]
  /\ UNCHANGED <<bootArgs, backups, kext, kextBackups, copy, merged, now,
                 original, clobbered, cut>>

\* A missing entry reads as the empty string.
ReadBootArgs(s) ==
  /\ Next1(s, "read") /\ Advance(s)
  /\ cur' = [cur EXCEPT ![s] = Tokens(bootArgs)]
  /\ UNCHANGED <<bootArgs, backups, kext, kextBackups, copy, merged, now, runs,
                 original, clobbered, cut>>

RunOverlay(s) ==
  /\ Next1(s, "overlay") /\ Advance(s)
  /\ UNCHANGED <<bootArgs, backups, kext, kextBackups, copy, merged, cur, now,
                 runs, original, clobbered, cut>>

NothingToRemove(s) ==
  /\ Next1(s, "edit") /\ ~Needed(step(s), cur[s]) /\ Exit(s)
  /\ UNCHANGED <<bootArgs, backups, kext, kextBackups, copy, merged, cur, now,
                 runs, original, clobbered, cut>>

\* Mutant of BackupConfig: no copy is made.
BackupConfigSkipped(s) ==
  /\ Next1(s, "edit") /\ Needed(step(s), cur[s]) /\ Goto(s, "delete")
  /\ UNCHANGED <<bootArgs, backups, clobbered, kext, kextBackups, copy, merged,
                 cur, now, runs, original, cut>>

\* cp config.plist config.plist.backup-<time>-<suffix>
BackupConfig(s) ==
  LET key == <<now, step(s).suffix>>
  IN  /\ Next1(s, "edit") /\ Needed(step(s), cur[s]) /\ Goto(s, "delete")
      /\ backups' = {b \in backups : b.key # key}
                      \union {[key |-> key, bootArgs |-> bootArgs]}
      /\ clobbered' = (clobbered \/ \E b \in backups : b.key = key)
      /\ UNCHANGED <<bootArgs, kext, kextBackups, copy, merged, cur, now, runs,
                     original, cut>>

\* Its failure is ignored.
DeleteEntry(s) ==
  /\ at[s] = "delete" /\ Goto(s, "add")
  /\ bootArgs' \in {Missing, bootArgs}
  /\ UNCHANGED <<backups, kext, kextBackups, copy, merged, cur, now, runs,
                 original, clobbered, cut>>

\* Mutant of AddEntry: its failure is ignored as well.
AddEntryQuiet(s) ==
  /\ at[s] = "add" /\ Advance(s)
  /\ bootArgs' \in {Present(NewArgs(step(s), cur[s])), bootArgs}
  /\ UNCHANGED <<backups, kext, kextBackups, copy, merged, cur, now, runs,
                 original, clobbered, cut>>

\* Add refuses an entry that exists.
AddEntry(s) ==
  /\ at[s] = "add"
  /\ IF bootArgs = Missing
     THEN bootArgs' = Present(NewArgs(step(s), cur[s])) /\ Advance(s)
     ELSE bootArgs' = bootArgs /\ Exit(s)
  /\ UNCHANGED <<backups, kext, kextBackups, copy, merged, cur, now, runs,
                 original, clobbered, cut>>

\* update_efi_kryptonite_kext.sh names its copy when it starts.
StampKext(s) ==
  /\ Next1(s, "kext") /\ Goto(s, "backup")
  /\ copy' = [copy EXCEPT ![s].time = now]
  /\ UNCHANGED <<bootArgs, backups, kext, kextBackups, merged, cur, now, runs,
                 original, clobbered, cut>>

\* The copies of the kext when the one session s makes holds c.
WithCopy(s, c) ==
  {b \in kextBackups : b.time # copy[s].time} \union
  {[time |-> copy[s].time, kext |-> c]}

\* What a session's ditto can leave: the kext it began with, unless another
\* session wrote to that kext meanwhile, or into the copy.
Copied(s) == (IF kext = copy[s].seen THEN {kext} ELSE {"torn"})
               \union (IF merged THEN {"torn"} ELSE {})

\* Mutant of BackupKext: no copy is made.
BackupKextSkipped(s) ==
  /\ at[s] = "backup" /\ Goto(s, "install")
  /\ UNCHANGED <<bootArgs, backups, kext, kextBackups, copy, merged, cur, now, runs,
                 original, clobbered, cut>>

\* The installed kext, if there is one, is copied file by file into the directory
\* of that name, over what it holds.
BackupKext(s) ==
  /\ \/ /\ at[s] = "backup" /\ kext = "absent" /\ Goto(s, "install")
        /\ UNCHANGED <<kextBackups, copy, merged>>
     \/ /\ at[s] = "backup" /\ kext # "absent" /\ Goto(s, "copying")
        /\ copy' = [copy EXCEPT ![s].seen = kext]
        /\ merged' = (merged \/ \E b \in kextBackups : b.time = copy[s].time)
        /\ kextBackups' = WithCopy(s, "torn")
     \/ /\ at[s] = "copying" /\ Goto(s, "install")
        /\ \E c \in Copied(s) : kextBackups' = WithCopy(s, c)
        /\ UNCHANGED <<copy, merged>>
  /\ UNCHANGED <<bootArgs, backups, kext, cur, now, runs, original, clobbered, cut>>

\* ditto writes the build over it, file by file.
InstallKext(s) ==
  /\ \/ at[s] = "install" /\ kext' = "torn" /\ Goto(s, "installing")
     \/ at[s] = "installing" /\ kext' = "build" /\ Goto(s, "verify")
  /\ UNCHANGED <<bootArgs, backups, kextBackups, copy, merged, cur, now, runs,
                 original, clobbered, cut>>

\* The UUIDs of the build and of the installed kext are compared; a torn kext
\* may have either.
VerifyKext(s) ==
  /\ at[s] = "verify"
  /\ \/ Advance(s)
     \/ kext = "torn" /\ Exit(s)
  /\ UNCHANGED <<bootArgs, backups, kext, kextBackups, copy, merged, cur, now,
                 runs, original, clobbered, cut>>

\* A command fails, the user interrupts, or the machine goes down.
Stop(s) ==
  /\ at[s] # "idle" /\ Exit(s)
  /\ cut' = (cut \/ at[s] = "add")
  /\ UNCHANGED <<bootArgs, backups, kext, kextBackups, copy, merged, cur, now,
                 runs, original, clobbered>>

Tick ==
  /\ now < MaxTime /\ now' = now + 1
  /\ UNCHANGED <<bootArgs, backups, kext, kextBackups, copy, merged, at, steps,
                 cur, runs, original, clobbered, cut>>

Act(s) ==
  \/ ReadBootArgs(s) \/ RunOverlay(s) \/ NothingToRemove(s)
  \/ BackupConfig(s) \/ DeleteEntry(s) \/ AddEntry(s)
  \/ StampKext(s) \/ BackupKext(s) \/ InstallKext(s) \/ VerifyKext(s)
  \/ Stop(s)

Next ==
  \/ Tick
  \/ \E s \in Sessions : Act(s) \/ \E job \in Jobs : Launch(s, job)

Spec == Init /\ [][Next]_vars

------------------------------------------------------------------------------
\* The boot-args the user had before any script are still the entry, or are in a
\* copy of the config: whatever scripts run at once and wherever they stop,
\* every Delete comes after a cp.  Only two copies of one name, made within the
\* same second, can undo that.
OriginalArgsKept ==
  clobbered \/ bootArgs = original.bootArgs
    \/ \E b \in backups : b.bootArgs = original.bootArgs

\* The kext that was installed before any script is in place or has a complete
\* copy, also after an update that stopped halfway or copied while another one was
\* installing.  Only two updates that started within one second can undo that, how
\* far apart their copies ever are: the second merges its copy into the first.
OriginalKextKept ==
  \/ merged \/ kext = original.kext \/ original.kext = "absent"
  \/ \E b \in kextBackups : b.kext = original.kext

\* An entry that was there is missing only while some script is between its
\* Delete and its Add, or after one was stopped there: an Add that fails because
\* another script was faster leaves that one's entry.
MissingOnlyIfCut ==
  bootArgs = Missing =>
    \/ original.bootArgs = Missing \/ cut
    \/ \E s \in Sessions : at[s] = "add"

\* An argument that only a build newer than the installed one knows.
NewArg    == Token("amdshmvar", "1")
Holds(q)  == \E n \in 1 .. Len(q) : q[n] = NewArg
NewKext   == kext \notin {"absent", "old"}

\* The argument a prepare script sets for the build it installs is never there
\* with the kext of before: it is written after the kext has been replaced, and
\* what another script copies from an entry it has read was there before.
NewArgsNeedNewKext == Holds(Tokens(bootArgs)) => NewKext

\* Nobody gives that argument by hand, and no entry has it at first.
IsList(q) == q \in Seq({q[n] : n \in 1 .. Len(q)})
GivenByPrepare ==
  /\ \A e \in Entries :
       e = Missing \/ (e = Present(e[1]) /\ IsList(e[1]) /\ ~Holds(e[1]))
  /\ \A job \in Jobs :
       \/ job.script \in {"disable_efi_amfi_lv_validation", "prepare_amfi",
                          "update_efi_kryptonite_kext", "prepare_validation"}
       \/ job.script = "remove_efi_boot_arg"
       \/ job.script = "set_efi_boot_args" /\ IsList(job.args) /\ ~Holds(job.args)
       \/ /\ job.script \in {"set_efi_boot_args_profile", "prepare_baseline"}
          /\ job.profile # "amdshmvar"
==============================================================================
