# Kryptonite in TLA+

Kryptonite lets older Macs use an external GPU. It is a Lilu plug-in, a kernel
extension that patches other kernel extensions while they load, together with
scripts that prepare the disk it boots from: they edit the OpenCore
configuration on the EFI partition and replace graphics bundles on an offline
Sequoia system volume.

This directory specifies the parts of it that are hard to test: patching a kernel
while kexts load and other processors run, and scripts that may stop at any
command on a disk the machine has to boot from. Every module is written from
the code under `src/`; `PROJECT.json` names the lines each definition stands for.

## Inventory

| Part | Code | State | Operations | Module |
|---|---|---|---|---|
| Kext watch | Lilu `kern_api.cpp`, `kern_patcher.cpp`, `kern_start.cpp` | access lock, requests, handlers, `activated`, `waitingForAlreadyLoadedKexts`, `isKextUnloading`, the kmod list | register, close registration, make handlers, walk the loaded kexts, load and unload hooks | `KextWatch` |
| Find/replace | `KernelPatcher::applyLookupPatch` | the bytes of the image, scan pointer, error code | search, replace, report | `LookupPatch`, `LookupCall` |
| Function routing | `KernelPatcher::routeMultiple`, `routeFunctionInternal` | first bytes of functions, address slots, trampolines, original pointers | solve, follow a chain, make a trampoline, write slot and jump; calls on other processors | `FunctionRoute` |
| Patch set | `Kryptonite/kern_*.cpp` | kernel version, boot-args, shared error code, what was written and reported | process a kext, apply lookups and routes, clear errors | `KextPatching` |
| Accelerator priming | `kern_hooks.cpp` 33-78 | properties of the service tree | read, set, climb to the provider, register | `AccelPrime` |
| Root overlays | 14 scripts of `Installer/` | bundles, backups, kernel collections, stash, snapshot | save, remove, copy, stage, edit, sign, verify, chown, rebuild, bless | `RootOverlay`, `RootScripts` |
| EFI scripts | `set_efi_*`, `remove_efi_*`, `disable_efi_*`, `update_efi_*`, `prepare_*` | boot-args entry, its copies, the installed kext, its copies | read, copy, Delete, Add, install, verify | `EfiConfig` |
| OpenCore installer | `installer.sh`, `opencore.sh`, `resources.sh`, `disks.sh`, `nvram.sh`, `hybrid_install.sh` | config.plist, kext bundles and loader on the EFI, backups, the mux | format, move, bless, copy kexts, inject entries, set boot-args, disable a GPU, back up | `OpenCoreInstall` |
| Metal compiler throttle | the four `*mtl_compiler*` scripts | Metal binary, plist, signatures, dyld cache, backup directories, snapshot | patch, sign, refresh, bless, stash, restore | `MetalThrottle` |
| User patcher | Lilu `kern_user.cpp`, `ThreadLocal` of `kern_util.hpp` | pending requests in slots owned by threads, the heap | listen to execs, claim and fill a slot, patch in the QoS hook, erase, delete | `UserPatcher`, `ThreadStore` |

How they interact. `KextWatch` decides when Kryptonite's callback is called for
a kext. `KextPatching` is what the callback does; the outcomes of each of its
lookups and routes are those of `LookupPatch` (`OutcomesAreKnown`) and `FunctionRoute`. The hooks that
routes install are where `AccelPrime` begins. The `prepare_*` scripts of
`EfiConfig` run the overlays of `RootOverlay` between their edits, and the
boot-args they leave are the switches `KextPatching` reads at the next boot.
`OpenCoreInstall` is how the kexts and the first boot-args get on the EFI.
`MetalThrottle` works on the same system volume as the overlays, on files none of
them touches. `UserPatcher` is registered and activated by the start-up
that `KextWatch` models; Kryptonite registers no processes with it.

What makes it hard, in one line each (`PROJECT.json` lists the hazards with their
source lines):

- kexts load and unload while Lilu starts, and the list is walked without a lock;
- functions are rewritten while other processors execute them;
- threads share a table of slots without a lock;
- several plug-ins share one kext, one function, one error code;
- a scan at its boundaries, and a patch that fails with half its bytes written;
- scripts stop anywhere, are run again, and run beside each other;
- a value read early is written back late.

## Modules

### KextWatch

Plug-ins go `new -> granted -> started -> released`, or `tooLate`; they register
under the access lock. The boot thread's place is `boot`; `apiRequestsOver` and
`activated` are read off it. `initConsole` first waits for the lock (`closing`), so
that a plug-in that holds it delays the start; when no thread call can be allocated
the start ends there, with registration closed (`unstarted`). The loader (`os`) is one actor because OSKext holds
its own lock, which is outside the repository; `LoaderStart` is what it may begin
when it rests. Kexts are numbered in load order,
so the kmod list is a set read downwards. A handler is erased after its call
unless it is reloadable. `BigSur`, chosen at the start and never changed, selects
who looks at the kexts that were loaded before: from Big Sur on the boot thread,
in `activate`; before it, the hook of the first load.

Abstractions: the hooks are installed exactly when `that` is set. A binary whose
UUID differs from the file Lilu read is one not in `current`. Unloading under
the boot thread's walk is undefined behaviour in the code: the walk finds the
old contents or stops. One plug-in registering the same `KextInfo` twice is not
modelled.

### LookupPatch and LookupCall

`LookupPatch` is one call, from argument checks to the error code. The image is a range inside a
larger memory, so that writes outside it are possible. The scan advances byte by
byte; replacing one occurrence is one step. `Limit` is the end of the search as
the code computes it, `endingAddress` that less the pattern. Patches of the
kernel itself have no known end; Kryptonite makes none, and they are left out.

`LookupCall` is the promise: the call returns in one step. It is refused and changes
nothing, or the first separate occurrences in the range are replaced and no other byte
is, with a code that says whether they were as many as asked for. For a replacement
that brings the pattern back it promises only that the bytes written lie in the range.
`LookupPatch` implements it with `memory <- Seen`, the original bytes until the call
returns (`CallRefined`). That is the view of the caller, which waits; what another
processor could see of the bytes in between is not part of the promise.

### FunctionRoute

A function's first bytes are its prologue, a jump (short, through a slot, long)
or a half-written jump. The thread that patches serves the requests one by one:
solve the symbol, follow an earlier jump or make a trampoline, store the original
pointer, write the slot, write the jump, in one store if it is aligned and in two
otherwise. Callers enter functions at any time and go where the bytes lead.
A caller caught inside a prologue goes on in the new bytes (`midway`); the code
does nothing against that, and no property says it does. Erasing coverage
counters on instrumented kernels is left out. A hook may go on to its original
(`Passing`), answer by itself (`Answering`), or do either, as
`intelFBClientDoAttribute` does; `amdSupportTestVRAM` never goes on. A short jump that
cannot reach its hook fails the request (`ReachFails`).

### KextPatching

`Patch` gives every patch function its gate and its operations; `PatchesOf` is
the order in `PatchSet::processKext`. An operation is a step with the outcomes of
the two modules above, and `Report` is what `PatchApplicator` makes of them. Byte
strings, `krytbtv` and the kernel-specific variants are data: whether a pattern
is found is a choice. That choice also covers the two patches whose arrays live
in a block that has ended. A symbol outside its kext panics in Lilu and is not
followed further. `processKextLoadCallbacks` calls every plug-in with the same
patcher and clears nothing in between: `OthersRun` is what Lilu and the other
plug-ins leave in the shared error code between two callbacks of Kryptonite.

### AccelPrime

The two properties are read and set one at a time on each service up to the PCI
device, by several hooks at once. `unannounced` records services marked since
their device was last registered. `registerService` is asynchronous and outside
the repository, so matching may call any hook at any time. `setProperty` is assumed to
store what it is given: `ensureBooleanProperty` ignores its result and reports a
change either way (`kern_hooks.cpp:44-45`), so with a `setProperty` that kept failing
`RegisteredPrimed` and `RegistrationsStop` would not hold. It fails only when the
kernel is out of memory. The other hooks of
`kern_hooks.cpp` change a return value and keep no state.

### RootOverlay and RootScripts

`RootOverlay` runs programs: sequences of commands under `set -euo pipefail`,
each of which succeeds, or fails or loses power half done. `RootScripts` gives
the fourteen scripts as such programs, with the item lists of the code.

A bundle is a version and a set of marks (partial, user owned, auxiliary,
patched, edited since signed, and, in a backup, binary only:
`patch_sequoia_applegva_polaris.sh` copies no more than that of the framework it
changes and signs). Each run has its own backup directory, as the
names carry a time stamp. Payloads are present; a start check that fails changes
nothing. The five HWLibs names are one item, and plug-ins nested in HWServices
are part of it. A half-copied framework counts as found by `[ -e ]`. A zsh glob
without a match ends the script.

### EfiConfig

A script is a sequence of steps; sessions are terminals that run scripts at once.
PlistBuddy's Delete and Add are atomic each. Boot-args are sequences of tokens; an
exact profile is its first token and one for the rest. The overlays a prepare
script runs are one step. `clobbered` records two copies of one name, `cut` a
script stopped between Delete and Add. The `ditto`s of `update_efi_kryptonite_kext.sh`
have a beginning and an end: a copy of a kext that another terminal writes meanwhile
is torn. The name of the copy is fixed when the script starts, and `merged` records that
two of them had the same.

`set_efi_boot_args.sh` loops over `$CUR` unquoted, which zsh does not split.
`SetArgs` models what follows: an argument that is already there is appended a
second time, unless it is the first one and has a value or stands alone, in
which case the whole old string is dropped.

### OpenCoreInstall

A run is a script with its steps: `existing` and `fresh` are the two ways through
`installer.sh`, `hybrid` is `hybrid_install.sh`. Each PlistBuddy command is one
step, so an entry of `:Kernel:Add` is its bundle and the number of fields it has so
far. A kext bundle on the EFI is absent, old, new or mixed; an `rsync` cut inside
it leaves it mixed. The two installers share `opencore.sh`, and only
`hybrid_install.sh` runs it under `set -euo pipefail`: `Scan` and `SetBootArgs`
say where that ends the script. `Release` is the configuration that ships with
the fresh EFI. The operator's own configuration may hold the entries in any order,
as long as it boots: an enabled Kryptonite comes after an enabled Lilu. Likewise their
device may already have properties. `cutDevice` says that a run was cut
between the device's fields. A boot-arg's name is the sequence of its parts, because the code
looks for prefixes. The questions asked, the downloads and the search for the
volume are input.

### MetalThrottle

The patch script alone or in one of its wrappers, and the revert with a found or
a given backup, one after another. A Metal binary is the set of entry points that
carry the patch and the set its signature covers; a torn file is a value of its
own and passes for clean, as its bytes do. `expected` is the set of entry points
whose bytes the script knows. Backup directories are in the order they are made,
which is what `ls -t` shows. How an entry point is found in the binary is data.

### UserPatcher and ThreadStore

Any number of threads exec watched binaries. `OnPath`, `NewRequest` and the steps
of `ThreadLocal::set` leave a request in a slot; `Hook`, `PatchBinary` and the steps
of `ThreadLocal::erase` take it out again; `Free` is the `delete` that follows.
Each compare-and-swap and each plain store is a step. `get` and the search for
an own slot are one step, since no other thread writes a slot to, or away from, this
thread. `heap` says who made each live request, so that deleting another thread's
request shows. The boot thread registers in the order of `Chain`: the files, the code
signing route, the kernel functions, then the hooks that call them. Any step may fail;
the steps before it stay done, and `activate` follows either way. A handler that works on
a task's map, be it the listener, the QoS hook or one of the shared region hooks
(`SharedRegion`, on any thread from the moment they are routed), stops the kernel if
it calls a function that was not found (`CallOn`). What else happens inside
`patchBinary` is one step.

`ThreadStore` is the promise: one entry per thread, put where there is none,
removed by the thread itself. `UserPatcher` implements it with
`stored <- entries`, the value in a thread's first slot (`StoreRefined`).

## Runs

`expect: violation` runs hold a statement of the repository against the code.

| Run | Checks | Bounds |
|---|---|---|
| `kextwatch_boot` | RegistrationClosed, PatchedAsItself, PatchedAtMostOnce, MissedOnlyInWindow, BootFinishes, LoadSettlesWatch | both kinds of kernel; 2 plug-ins sharing 2 kexts, one of them reloadable, one disabled; 2 loads; with fairness |
| `lookup_scan` | SuccessIsExact, FailureIsExhaustive, CallRefined | all images of 6 bits in 9, 8 patches, with and without start and size |
| `route_calls` | OriginalReached, TornOnlyUnaligned, RoutesCompose, CallsReturn | 3 functions of alignment 1, 8, 16; 6 requests of 4 hooks, one of which never goes on to its original, one near; 2 slots, 3 trampolines, 2 callers; with fairness |
| `patching_boot` | AppliedIsDone, ErrorsStayLocal, SwitchedOffWritesNothing, DepthTablesClamped | 6 boot-arg profiles, 2 kernels, any 2 kexts, 3 depth tables; errors left by Lilu and by a plug-in |
| `overlay_runs` | OriginalsRecoverable, TornOnlyFromOthers, CollectionsMatchSnapshot, SnapshotComplete, SnapshotFinished | any 2 of the 14 scripts, 10 bundles, one or more of each kind |
| `efi_sessions` | OriginalArgsKept, OriginalKextKept, MissingOnlyIfCut, NewArgsNeedNewKext | 2 terminals, 8 scripts, 3 first entries, 2 runs, 2 seconds |
| `prime_hooks` | MarksAnnounced, RegisteredPrimed, RegistrationsStop | 5 services, 2 threads; with fairness |
| `opencore_runs` | InstallComplete, EntriesLoadable, OriginalEfiKept, DeviceWhole | 3 runs of 3 scripts; 7 first configurations, 5 first boot-args, a device with and without properties, or an empty volume |
| `metal_runs` | OriginalMetalKept, FullSnapshotConsistent, RevertRestoresBinary | 4 runs, 2 entry points, any of them known |
| `metal_revert` (violation) | RevertRestoresPlist | 3 runs, 3 entry points |
| `user_execs` | EraseSucceeds, CallsResolved, ScanBound, StoreRefined | 3 threads, 3 requests, 2 slots; threads and requests are symmetric; the registration fails at each of 12 steps |
| `user_release` (violation) | StoredAreLive | the same |

Why the bounds are enough. Two loads let one kext be loaded before and one during
each phase of start-up, and let one be unloaded and its successor found at the
head of the list. Six bytes hold two disjoint and three overlapping occurrences of
a two-byte pattern, and are one fewer than the longest pattern has. Two slots run out
when a failed route has spent one, so that short, slotted and long jumps, the chain
of each, and the panics all occur. Two overlay runs are the first point at which a script
meets what another one left; the proofs cover any number. The ten bundles keep one
of every kind the scripts treat differently, and the rules the proofs need are
evaluated on the complete programs (`CompleteProgramsAssumption`). Two terminals are
all that a lost update takes, and two seconds let backups share a name or not. Three
installer runs are a cut run, one that meets what it left, and one more; four runs
of the Metal scripts let a patch, a second patch, a revert and a further run meet.
Three threads on fewer slots fill the table, drop a request and let a slot be
released behind a scan.

`CHECK_DEADLOCK FALSE` is set throughout: a kernel that has loaded its kexts, a
call that has ended, a thread that execs nothing and a disk nobody edits may rest.

### What the violation runs found

- `user_release`: `onPath` and `taskSetMainThreadQos` call `pending.erase()`, which
  clears and releases the slot, and then `delete *previous` and `delete *entry`
  (`kern_user.cpp:294-295`, `621-622`), which read the slot again. As a rule that deletes
  `nullptr` and leaks the request; if another thread has stored its request there by
  then, it deletes that one. The user patcher is switched off on Big Sur and later
  (`kern_start.cpp:247-248`), so Kryptonite's users on Sequoia do not meet it.
- `metal_revert`: after a plist-only run and then a full run, the latest backup with a
  clean binary holds the patched plist, and the revert restores that.

### Behaviours worth knowing that the models show

Each is a reachable state of its module; where a property is named, it says that
this is the only way.

Kernel side:

- On Big Sur and later, a kext that loads after `activate` has walked the list and
  before it stores `activated` is never patched (`kern_patcher.cpp:367-376`,
  `848-851`). `MissedOnlyInWindow` says that there is no other way to miss one,
  short of an unload under the walk, as long as the entries of a kext agree on
  `Loaded`. A plug-in that adds `Loaded` to a handler another one made without it
  (`updateKextHandlerFeatures`, `kern_patcher.cpp:287-295`) does not set
  `waitingForAlreadyLoadedKexts`, which only `waitOnKext` does (`:279-280`); if no other
  handler did, its kext is missed on every kernel when it was loaded early. All
  entries of Kryptonite ask for `Loaded`, so it takes another plug-in that does not.
- On the same kernels a plug-in that asks for `Reloadable` can be called twice for
  one load: by the walk, and by the load hook that was still on its way
  (`PatchedAtMostOnce`). None of Kryptonite's entries asks for it.
- `applyLookupPatch` stops one position early: an occurrence that ends exactly at the
  end of the range is not found (`kern_patcher.cpp:324`, `334-335`), while `findPattern`
  in the same file tries it. `FailureIsExhaustive` says that nothing else is
  overlooked.
- A lookup that finds fewer occurrences than it wants is logged as "Skipping
  failed" and has written the ones it found (`kern_patcher.cpp:338-354`).
- `kryamdshmvar` is announced (`kern_nvramargs.cpp:125`), and the one call of its
  patch is commented out (`kern_patchset.cpp:60`).
- `activate` follows a registration of the user patcher that failed. The process list is
  stored by then, and without the QoS hook a watched exec calls `_current_map`, found or
  not (`kern_user.cpp:313-315`). The hooks that were routed call only what was found,
  because they are routed last: `CallsResolved` says both.
- An error that Lilu or another plug-in left is charged to Kryptonite's first
  operation on the next kext, which is then logged as failed although it was carried
  out (`ErrorsStayLocal` says that it is charged only once).
- A hook that never calls its original, like the one on `testVRAM`, cuts off the hooks
  of plug-ins that routed the function before (`RoutesCompose`).
- When `initConsole` cannot allocate its thread call, registration is closed, no kext is
  ever patched and nothing is logged (`kern_start.cpp:104-110`, `BootFinishes`).

Scripts on the system volume:

- A run that ends between the rebuild of the collections and `bless` leaves the old
  snapshot with collections built from newer bundles, and a script that only blesses
  leaves older ones (`CollectionsMatchSnapshot` says in which bundles they can differ).
- `patch_sequoia_applegva_polaris.sh` backs up the binary of AppleGVA and signs the
  framework anew; the old seal is in no backup (`OriginalsRecoverable`).
- `enable_sequoia_polaris_accel_kc.sh` says that it will "re-sign the modified
  bundles" (line 16) and calls none of its signing helpers. `SnapshotFinished` holds for
  the scripts that do sign.
- A stash without a kext ends the repair script, which has a message for the case
  that it does not reach (`repair_sequoia_ivybridge_aux_ownership.sh:164`). Likewise
  the warning of `patch_sequoia_applegva_polaris.sh:112-113`: under `set -e` the
  failing command has ended the script.
- A Metal revert signs nothing: the restored files carry the signatures of the
  backup, the XPC bundle keeps its seal over the patched plist.
- A Metal revert cut between `rm` and `ditto` leaves no file, and neither script starts
  without one. The copies are on the volume (`OriginalMetalKept`) and must be put back
  by hand.
- A Metal patch run that skipped unknown bytes ends with "Done!". Its half-patched
  binary, or a torn one, counts as clean and can become the latest backup.
- A Metal patch run cut after the last entry point and before `codesign` leaves an
  unsigned binary that the next run refuses as already patched.

Scripts on the EFI:

- The AMFI prepare scripts write boot-args from a read made before the overlays,
  so what another terminal set meanwhile is dropped.
- `opencore.sh` checks the result of `plists_get`, which is always 0, so the
  message at line 46 is never shown by `installer.sh`. Under `hybrid_install.sh`'s
  `set -e` an entry without `BundlePath`, no entry at all, or an empty list of
  boot-args ends the script in silence instead.
- An entry cut after `BundlePath` stops every later run at `Set ... Enabled`; one cut
  before it is left behind and a second one is added (`InstallComplete` holds for the
  runs that get through).
- A wanted boot-arg is skipped when an existing one is a prefix of it: `-kry` shadows
  `-krybeta` (`opencore.sh:101`).
- Any property of the device counts as configured. What a cut run left is taken for the
  operator's and never completed, and a run that skips the fields still sets the mux and
  ends well (`opencore.sh:126`, `DeviceWhole`).
- Entries are enabled where they are: an operator with a disabled Kryptonite in front
  of their last Lilu gets it enabled there, before the library it links against
  (`opencore.sh:55-66`, `EntriesLoadable`).
- Two updates of the kext that start within one second copy into the same directory,
  the second one over the first (`update_efi_kryptonite_kext.sh:56`, `OriginalKextKept`).
- `installer.sh` on an existing OpenCore makes no backup; `OriginalEfiKept` is about
  `hybrid_install.sh`.

## Fairness

- `KextWatch`: the boot thread is a kernel thread call and the loader runs on
  kernel threads; neither is preempted for good (`WF` on each). A plug-in that has
  been given the access lock goes on to release it. Nothing makes a plug-in start or a
  kext load.
- `FunctionRoute`: the patching thread, and a processor once it is inside a
  function. Nothing makes anybody call one.
- `AccelPrime`: a thread inside a hook goes on. Nothing makes a driver call one.

The scripts have no fairness: a user may stop them, so nothing is claimed to
happen eventually. `LookupPatch` and `UserPatcher` are checked for safety only.

## Proofs

All proofs are for every value of the constants under the named assumptions of
the modules. TLC evaluates the assumptions in the runs. Where a module has a
`TypeOK`, it is proved and is no property of a run. Every safety invariant of a
passing run is proved, and so are both refinements. Four invariants are proved under a
hypothesis: `PatchedAtMostOnce` (no Reloadable entry), `MissedOnlyInWindow`
(`LoadedAgrees`), `FailureIsExhaustive` (`Settles`) and `NewArgsNeedNewKext`
(`GivenByPrepare`). What each hypothesis means, and why it is needed, is said below.

A proof module may be about two models. Their names are kept apart by prefixes:
`LookupSpec` and `PatchingSpec`, `PrimeSpec`, `ThrottleSpec`.

**KextWatchProofs.** `TypeCorrect`. `RegistrationSafe`, from `LockInv`: a plug-in
between request and release holds the lock, and the boot thread needs the lock to
leave "open". `PatchedAsItselfAlways`, from `IndexInv` and `HitInv`: handlers and
load indices agree with the table of kexts, which the property alone does not say.
`PatchedOnce`, from `OnceInv`, assumes that no plug-in asks for Reloadable, as
none of Kryptonite's entries does: a call that has happened has used up its
handler. `MissedInWindow`, from `WantInv`, `LoaderInv` and `ServedInv`: what either
walk has left behind is served, was loaded in the window or is on its way through
the load hook. It assumes `LoadedAgrees`, that the entries of one kext agree on the
Loaded flag, as those of Kryptonite's `kextList` do; without that the invariant is
false (see the behaviours above).

**RootOverlayProofs.** `TypeCorrect`. `OriginalsAlwaysRecoverable`, from
`RecoveryInv`: what the run under way has saved is in some backup, and its own
directory holds nothing else, so that no backup is overwritten. It rests on
`BackupAssumption`, that programs save an item once and
before they first write to it. `SnapshotAlwaysComplete`, from `SnapshotInv`: what the
commands so far have copied
is whole and is not overwritten (`CopyAssumption`), and nothing is written after
the collections are built (`FinishAssumption`). `CollectionsAlwaysMatch`, from that and
`CollectionsInv`: where the volume or the snapshot differs from what the collections were
built from, a run in between touches the bundle. `TornAlwaysFromOthers` and
`SnapshotAlwaysFinished`, from `FinishInv`: a command that is over has left its bundle
untorn, owned by root or signed for good (`WorkDone`), and a torn bundle is one that
some earlier run writes to (`TornByWriter`). They rest on `HealAssumption`, that a script
that blesses copies in whatever it edits, and on `BundleAssumption`, that it
normalises owners after its last copy and, if it signs, signs after its last
edit. The run evaluates the assumptions on the fourteen programs, cut down to ten
bundles and complete. `SnapshotsAccountedFor` is an action property, from `AccountInv`:
what the volume holds and the snapshot does not was touched by a run since the
snapshot. So a new snapshot differs from the one before it only in bundles that a script
run in between writes or owns anew; that script may be one that failed.

**FunctionRouteProofs.** For any functions, hooks, requests and callers.
`CallsReachOriginal`: `OwnInv` gives every hook in use the one function it serves and
says that each entry, slot, original pointer and pending jump of a function leads to
its trampoline or to a hook that serves it. `OrgInv` says that a hook's original pointer
is null until its route stores it, `SlotInv` that the slot of the route under way is in
no jump yet and is filled before its own is written. The theorem rests on `HooksAssumption`, that a hook has one original pointer and so serves one
function, the fallback request excepted. `TornUnaligned`, from `TornInv`: a jump is
half written only by the route under way, at a function that its store cannot
cover, and slots never become free again. `LaterRoutesCompose`, from `ComposeInv`: every
address a call of a function can be sent to runs the hooks of all routes made so far,
but for those a later hook that never goes on has cut off.
`HooksRun` is a least set closed under calls, so that the argument needs no
induction along the chain. `TargetsNeverChange` is an action property: a set original
pointer, and the slot of a jump that is visible, keep their values, so that a processor on
its way between them is not sent elsewhere. `ChainsAlwaysEnd`, from `RankInv`: hooks can
be ranked, by the request that routed them, so that an original pointer leads only to
a hook of smaller rank. `CallsReturn` rests on that; its fairness part is model-checked.

**KextPatchingProofs.** `LookupPatch`: `LookupTypeCorrect`, and `LookupWritesInRange` from
`ScanInv`: inside the loop the scan pointer leaves room for a whole pattern.
`SuccessExact` and `FailureExhaustive`, from `LookupInv`: there is a set of separate
original occurrences, none beyond the scan, such that memory is the original with
these replaced, their number is `changes`, and every occurrence the scan has passed
starts inside one of them. Both are for patches whose replacement does not bring the
pattern back (`Settles`); for such a patch what the scan reads ahead is original.
`LookupRefinesCall` shows that every step of the scan is a stutter of `LookupCall` and its
last one the call; it needs that the replaced occurrences are the first ones
(`FinishedFirst`) and, for the other patches, `LookupWritesInRange`. `OutcomesAreKnown`
joins the two models of this module: however a call ends, its writes and error code
are an outcome that `KextPatching` gives an operation with the same count.
`KextPatching`, for all kernels, vendors, switches and numbers of depth
tables: `AppliedInFull` and `ErrorsAreLocal` from `LogInv` (another's error is pending in a
callback only before the first operation of the kext is logged), `OffWritesNothing` from
`OffInv` (no operation is ever queued, as each of the patches is shown to test both
switches), and `TablesClamped` from `TablesInv`, by counting the
tables that `bitsFind` changes.

**ThreadProofs.** `AccelPrime`: `PrimeTypeCorrect`, and `AlwaysRegisteredPrimed`: a thread that
has passed a property has seen it set, and no thread ever clears one.
`EveryMarkAnnounced`, from `AnnounceInv`: for every unannounced mark below a PCI device
some hook on its way up, or at the device, still owes the registration. It needs
what the recursive function `pciOf` computes, which is proved from the well-ordering
of the naturals. `PrimingSettles`: once all services below a PCI device are marked and no
hook there is still at work (`Settled`, which every step preserves), the device is never
registered again. `RegistrationsStop` rests on that; that this state is reached is
model-checked.
`UserPatcher`: all theorems are for any threads, requests and slots. `IInv`
says that a thread holds at most one slot, which one it points to at each place, and that
its slot is empty between claim and store and between clearing and release. `EraseNeverPanics`
follows from it. `HooksCallSolvedFunctions`, from `Resolved`: a registration that has
reached the first hook has found every function a hook calls, and one that ended
well has found all. `ContainerRefines` shows that every step
of the slots is a step of `ThreadStore` or a stutter. `ScanBounded` counts: to pass slot
i a scan has met another thread in it, so the threads at or beyond i + 1 are at least one
fewer than those at or beyond i. `NeverDropped` is its consequence: with no more threads
than slots no request is dropped.

**ToolProofs.** `EfiConfig`: `OriginalArgsAlwaysKept`, `OriginalKextAlwaysKept` and
`EntryMissingOnlyIfCut`. Their invariants add what a session relies on between its
copy and its write: past the copy, a copy of the first value exists. For the kext,
`KextInv` adds that a session still copying saw the user's kext if that is in place, and
that unmerged sessions copy into directories of their own (`OwnCopies`).
`NewArgsAlwaysNeedNewKext`, from `CarryInv`: until the new build is installed, the argument
that only this build understands is neither in the entry nor in a list some session has
read, and what is left of every script installs the build before it writes the
argument. It assumes `GivenByPrepare`: no first
entry holds that argument and nobody passes it to `set_efi_boot_args.sh`, or sets
its profile, by hand. What the filter `Without` keeps is proved from the well-ordering
of the naturals.
`MetalThrottle`: `OriginalsSurvive`, `FullIsConsistent` and
`BinaryComesBack`, for any number of entry points and runs. The inductive invariant
`IInv` has one part per theorem. `Kept`: past its backup or stash step a run may rely on
a copy of the original, its own or an earlier one. `Full`: what
each place in a full run has already signed and sealed. `Clean`: as long as nothing was
cut and all bytes are known, every binary is the original or fully patched, and
only originals are backed up.

**OpenCoreInstallProofs, OpenCoreResultProofs.** The four properties of the run, as
`OriginalEfiIsKept` and `DeviceIsWhole` in the first, `InstallIsComplete` and
`EntriesAreLoadable` in the second, for any own configuration that
boots (`ConfigsAssumption`: complete entries, and an enabled Lilu before each enabled
Kryptonite), any device properties, any boot-args and any number of runs. `Ctl` says where a script is and
`Data` what it works on; both are shared. `Kept`: each backup step of `hybrid_install.sh` that is
over has saved its part. `Copied`, `Injected` and `ArgsSet`: what a run past a step has
done and nothing later undoes. `Own`: the entry being filled lies beyond the operator's.
`Load`: a Kryptonite the scripts have added or the operator has enabled comes after an
enabled Lilu, or is `Misplaced` (one the operator kept disabled before the Lilu the
scripts find); and no Lilu is added to a configuration that has one
(`NoSecondLilu`), so the last Lilu of the operator is the one `Enable` finds and
switches on before any Kryptonite. `EnabledWhole`, the other half of
`EntriesLoadable`, holds because entries are written only at places where both bundles
have been copied (`Copied`).
`Dev`: the steps of the device properties are the only places with
one name and not the other, and a run gets to them only where there were none.

Only model-checked:

- every liveness property (`BootFinishes`, `LoadSettlesWatch`, `CallsReturn`,
  `RegistrationsStop`): fairness is out of the prover's reach. The safety facts behind
  the last two are theorems;
- `FailureIsExhaustive` for patches whose replacement brings the pattern back: what the
  scan then reads ahead is partly its own writing, and the invariant above is false;
- `PatchedAtMostOnce` with Reloadable entries.

## Not modelled

- Hardware queries, the user interface and the probe collectors: input and output,
  with no state that another part relies on.
- The stash and archive scripts: they copy into a new directory.
- `revert_sequoia_login_ui.sh`: it restores preference files from backups that no
  script of the repository makes.
- The rest of Lilu (code injection into binaries, disassembler, Mach-O parsing):
  vendored code behind operations whose outcomes are choices here. It is most
  of the lines under `src/`, together with the SDK headers, the Capstone
  disassembler and the OpenCore files, which hold no operation of this system; so
  the modelled part is a small share of all lines.
- Hooks that only change a return value.
- The OpenCore plists: data, apart from the kernel entries of the release one.

## Plan

1. `ValidationBoot`: `EfiConfig` and `RootOverlay` composed, so that a prepare
   script's disk and boot-args are judged together.
2. An abstract overlay (a volume that is old, in between or new) that
   `RootOverlay` refines.
3. The remaining hooks with state (GVA properties, shared user-client method).
4. Proofs: the outcomes of a route in `KextPatching` against those of `FunctionRoute`,
   as `OutcomesAreKnown` does for lookups.
