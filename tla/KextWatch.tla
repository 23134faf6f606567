------------------------------ MODULE KextWatch ------------------------------
(***************************************************************************)
(* How a Lilu plug-in such as Kryptonite gets to see the kexts it patches. *)
(*                                                                         *)
(* Three kinds of activity interleave.  Plug-ins start and register the    *)
(* kexts they want under the Lilu access lock.  The Lilu boot thread       *)
(* closes registration, turns the requests into kext handlers and          *)
(* activates the watch.  The kernel's kext loader (OSKext, serialised by   *)
(* its own lock) loads and unloads kexts and calls the hooks that Lilu     *)
(* placed on OSKext::saveLoadedKextPanicList and OSKext::unload.           *)
(*                                                                         *)
(* Loaded kexts are numbered in load order.  The kernel pushes a new kext  *)
(* at the head of the kmod list, so the list is the set kmods read in      *)
(* descending order.                                                       *)
(***************************************************************************)
EXTENDS Naturals, Sequences

CONSTANTS
  Kexts,      \* bundle identifiers
  Plugins,    \* Lilu plug-ins
  KextInfos,  \* KextInfos[p]: the sequence of KextInfo entries p registers
  MaxLoads,   \* bound: kexts loaded during a behaviour
  NoPlugin    \* nobody holds the access lock

\* KextInfo::SysFlags; "NoPaths" is an FSOnly entry that lists no path.
SysFlags == {"Loaded", "Reloadable", "Disabled", "NoPaths"}
KextInfo == [id : Kexts, sys : SUBSET SysFlags]

ASSUME KextsAssumption     == Kexts # {}
ASSUME KextInfosAssumption == KextInfos \in [Plugins -> Seq(KextInfo)]
ASSUME MaxLoadsAssumption  == MaxLoads \in Nat
ASSUME NoPluginAssumption  == NoPlugin \notin Plugins

Insts   == 1 .. MaxLoads
Handler == [id : Kexts, index : Nat \ {0}, sys : SUBSET SysFlags]
Request == [plugin : Plugins, info : KextInfo]

VARIABLES
  BigSur,          \* getKernelVersion() >= KernelVersion::BigSur
  pstate,          \* life of each plug-in
  access,          \* holder of LiluAPI::access
  callbacks,       \* plug-ins in kextLoadedCallbacks
  storedKexts,     \* requests not yet turned into handlers
  boot,            \* where Lilu's own start is; activated once it is "done"
  kindex, nkinfos, \* kinfos: index of each identifier (0: none), and the size
  loadIndex,       \* KextInfo::loadIndex of each plug-in's entries
  khandlers,       \* the pending handlers
  that,            \* the hooks are installed and KernelPatcher::that is set
  waiting,         \* waitingForAlreadyLoadedKexts
  isKextUnloading,
  cursor,          \* kmod pointer of the walk over the list (0: none)
  os,              \* where the kext loader is
  osInst,          \* the kext being loaded or unloaded
  kmods,           \* the kmod list
  nloads,          \* loads so far
  kid,             \* identifier of each kext loaded
  current,         \* the loaded kexts whose UUID is that of the binary Lilu read
  hits,            \* how often a plug-in patched a loaded kext as an identifier
  passedOver       \* history: the kexts whose load hook returned early after the
                   \* walk over the loaded kexts had begun, and those still ahead
                   \* of the walk when an unload made it lose its place

pluginVars == <<pstate, access, callbacks, storedKexts>>
infoVars   == <<kindex, nkinfos, loadIndex>>
watchVars  == <<khandlers, hits>>
flagVars   == <<that, waiting, isKextUnloading>>
osVars     == <<os, osInst, kmods, nloads, kid, current>>
vars       == <<pluginVars, infoVars, watchVars, flagVars, osVars, boot, cursor,
                passedOver, BigSur>>

apiRequestsOver == boot \notin {"open", "closing"}
activated       == boot = "done"

HitKeys == Plugins \X Kexts \X Insts

Init ==
  /\ BigSur \in BOOLEAN
  /\ pstate = [p \in Plugins |-> "new"]
  /\ access = NoPlugin
  /\ callbacks = {}
  /\ storedKexts = <<>>
  /\ boot = "open"
  /\ kindex = [k \in Kexts |-> 0]
  /\ nkinfos = 1                              \* the kernel itself, KernelID = 0
  /\ loadIndex = [x \in Plugins \X Kexts |-> 0]      \* KextInfo::Unloaded
  /\ khandlers = {}
  /\ that = FALSE
  /\ waiting = FALSE
  /\ isKextUnloading = FALSE
  /\ cursor = 0
  /\ os = "idle"
  /\ osInst = 0
  /\ kmods = {}
  /\ nloads = 0
  /\ kid = [n \in Insts |-> CHOOSE k \in Kexts : TRUE]
  /\ current = {}
  /\ hits = [x \in HitKeys |-> 0]
  /\ passedOver = {}

-----------------------------------------------------------------------------
(* Plug-ins.                                                               *)

\* LiluAPI::requestAccess: blocks on the lock, refuses when registration is over.
RequestAccess(p) ==
  /\ pstate[p] = "new"
  /\ access = NoPlugin
  /\ IF apiRequestsOver
       THEN pstate' = [pstate EXCEPT ![p] = "tooLate"] /\ UNCHANGED access
       ELSE pstate' = [pstate EXCEPT ![p] = "granted"] /\ access' = p
  /\ UNCHANGED <<callbacks, storedKexts, infoVars, watchVars,
                 flagVars, osVars, boot, cursor, passedOver>>

RequestsOf(p) ==
  [i \in 1 .. Len(KextInfos[p]) |-> [plugin |-> p, info |-> KextInfos[p][i]]]

\* LiluAPI::onKextLoad stores the callback, then the kexts; each may fail to
\* allocate.
OnKextLoad(p) ==
  \/ callbacks' = callbacks \cup {p} /\ storedKexts' = storedKexts \o RequestsOf(p)
  \/ callbacks' = callbacks \cup {p} /\ UNCHANGED storedKexts
  \/ UNCHANGED <<callbacks, storedKexts>>

\* The plug-in's kern_start between requestAccess and releaseAccess: shouldLoad
\* may refuse (run mode, boot argument, kernel version), start() may find the
\* system unsupported, and otherwise PatchSet::init registers.
PluginStart(p) ==
  /\ pstate[p] = "granted"
  /\ pstate' = [pstate EXCEPT ![p] = "started"]
  /\ \/ OnKextLoad(p)
     \/ UNCHANGED <<callbacks, storedKexts>>
  /\ UNCHANGED <<access, infoVars, watchVars, flagVars, osVars,
                 boot, cursor, passedOver>>

ReleaseAccess(p) ==
  /\ pstate[p] = "started"
  /\ pstate' = [pstate EXCEPT ![p] = "released"]
  /\ access' = NoPlugin
  /\ UNCHANGED <<callbacks, storedKexts, infoVars, watchVars,
                 flagVars, osVars, boot, cursor, passedOver>>

-----------------------------------------------------------------------------
(* The Lilu boot thread.                                                   *)

\* Configuration::initConsole (or performInit) begins: the next thing it needs is
\* the access lock.
InitConsole ==
  /\ boot = "open"
  /\ boot' = "closing"
  /\ UNCHANGED <<pluginVars, infoVars, watchVars, flagVars, osVars, cursor, passedOver,
                 BigSur>>

\* Mutation: registration is closed without taking the access lock.
FinaliseRequestsUnlocked ==
  /\ boot = "closing"
  /\ boot' \in {"register", "unstarted"}
  /\ UNCHANGED <<pluginVars, infoVars, watchVars, flagVars, osVars, cursor, passedOver>>

\* LiluAPI::finaliseRequests takes the access lock and closes registration; then the
\* thread call for performCommonInit is started.  When it cannot be allocated the
\* rest of the start never runs, and nothing tries again.
FinaliseRequests ==
  /\ boot = "closing"
  /\ access = NoPlugin
  /\ boot' \in {"register", "unstarted"}
  /\ UNCHANGED <<pluginVars, infoVars, watchVars, flagVars, osVars, cursor, passedOver>>

\* The two requests processPatcherLoadCallbacks skips outright: Disabled, and
\* FSOnly without paths.
Usable(r) == r.info.sys \cap {"Disabled", "NoPaths"} = {}
SkipRequest(r) ==
  /\ ~Usable(r)
  /\ storedKexts' = Tail(storedKexts)
  /\ UNCHANGED <<infoVars, khandlers, that, waiting>>

\* Mutation: a shared kext gets the newest index instead of its own.
ShareNewestKinfo(r) ==
  /\ Usable(r)
  /\ kindex[r.info.id] # 0
  /\ loadIndex' = [loadIndex EXCEPT ![<<r.plugin, r.info.id>>] = nkinfos - 1]
  /\ storedKexts' = Tail(storedKexts)
  /\ UNCHANGED <<kindex, nkinfos, khandlers, that, waiting>>

\* loadKinfo reports AlreadyDone: another plug-in brought the kext in.
ShareKinfo(r) ==
  LET updated(h) == IF h.id = r.info.id
                      THEN [h EXCEPT !.sys = @ \cup r.info.sys] ELSE h
  IN /\ Usable(r)
     /\ kindex[r.info.id] # 0
     /\ loadIndex' = [loadIndex EXCEPT ![<<r.plugin, r.info.id>>] = kindex[r.info.id]]
     /\ khandlers' = {updated(h) : h \in khandlers}
     /\ storedKexts' = Tail(storedKexts)
     /\ UNCHANGED <<kindex, nkinfos, that, waiting>>

\* The kext's binary cannot be read (it may not exist on this system).
KinfoMissing(r) ==
  /\ Usable(r)
  /\ kindex[r.info.id] = 0
  /\ storedKexts' = Tail(storedKexts)
  /\ UNCHANGED <<infoVars, khandlers, that, waiting>>

AddKinfo(r) ==
  /\ Usable(r)
  /\ kindex[r.info.id] = 0
  /\ kindex' = [kindex EXCEPT ![r.info.id] = nkinfos]
  /\ nkinfos' = nkinfos + 1
  /\ loadIndex' = [loadIndex EXCEPT ![<<r.plugin, r.info.id>>] = nkinfos]

\* setupKextListening fails: registration of every later request is given up.
ListeningFails(r) ==
  /\ AddKinfo(r)
  /\ ~that
  /\ storedKexts' = <<>>
  /\ UNCHANGED <<khandlers, that, waiting>>

\* The handler cannot be allocated, or waitOnKext cannot store it (after it has
\* noted that the handler wants kexts that are already loaded).
HandlerFails(r) ==
  /\ AddKinfo(r)
  /\ that' = TRUE
  /\ waiting' \in {waiting, waiting \/ "Loaded" \in r.info.sys}
  /\ storedKexts' = <<>>
  /\ UNCHANGED khandlers

\* KernelPatcher::waitOnKext stores the handler built for the request.
WaitOnKext(r) ==
  /\ AddKinfo(r)
  /\ that' = TRUE
  /\ waiting' = (waiting \/ "Loaded" \in r.info.sys)
  /\ khandlers' = khandlers \cup
       {[id |-> r.info.id, index |-> nkinfos, sys |-> r.info.sys]}
  /\ storedKexts' = Tail(storedKexts)

\* One iteration of the loop of LiluAPI::processPatcherLoadCallbacks.
ProcessRequest ==
  /\ boot = "register"
  /\ storedKexts # <<>>
  /\ LET r == Head(storedKexts)
     IN \/ SkipRequest(r)
        \/ ShareKinfo(r)
        \/ KinfoMissing(r)
        \/ ListeningFails(r)
        \/ HandlerFails(r)
        \/ WaitOnKext(r)
  /\ UNCHANGED <<pstate, access, callbacks, hits,
                 isKextUnloading, osVars, boot, cursor, passedOver>>

\* performCommonInit after the loop: UserPatcher::init succeeds, or fails and the
\* kernel patcher is deinitialised, which reverts the hooks.
InitUserPatcher ==
  /\ boot = "register"
  /\ storedKexts = <<>>
  /\ \/ boot' = "activate" /\ UNCHANGED that
     \/ boot' = "off" /\ that' = FALSE
  /\ UNCHANGED <<pluginVars, infoVars, watchVars, waiting,
                 isKextUnloading, osVars, cursor, passedOver>>

Below(n) == {m \in kmods : m < n}

\* m is kmod->next of the kext numbered n; 0 ends the list.
IsNext(m, n) ==
  IF Below(n) = {} THEN m = 0 ELSE m \in Below(n) /\ \A x \in Below(n) : x <= m
IsHead(m) == IsNext(m, nloads + 1)
Pointers  == kmods \cup {0}

\* KernelPatcher::activate: on Big Sur and later the list is walked at once.
Activate ==
  /\ boot = "activate"
  /\ IF BigSur /\ waiting
       THEN boot' = "walk" /\ cursor' \in {m \in Pointers : IsHead(m)}
       ELSE boot' = "store" /\ UNCHANGED cursor
  /\ UNCHANGED <<pluginVars, infoVars, watchVars, flagVars, osVars, passedOver>>

Matches(h, n, loaded) ==
  h.id = kid[n] /\ n \in current /\ (loaded => "Loaded" \in h.sys)

\* processKextLoadCallbacks: every plug-in's callback runs with the handler's
\* index; PatchSet::processKext acts on the entries whose loadIndex it is.
RunCallbacks(h, n) ==
  hits' = [x \in HitKeys |->
             IF x[1] \in callbacks /\ x[3] = n /\ loadIndex[<<x[1], x[2]>>] = h.index
               THEN hits[x] + 1 ELSE hits[x]]

\* KernelPatcher::processKext.
ProcessKext(n, loaded) ==
  \/ \E h \in khandlers :
       /\ Matches(h, n, loaded)
       /\ RunCallbacks(h, n)
       /\ khandlers' = IF "Reloadable" \in h.sys THEN khandlers ELSE khandlers \ {h}
  \/ /\ \A h \in khandlers : ~Matches(h, n, loaded)
     /\ UNCHANGED <<khandlers, hits>>

\* Mutation: the walk stops after the head of the list.
BootWalkHeadOnly ==
  /\ boot = "walk"
  /\ cursor # 0
  /\ ProcessKext(cursor, TRUE)
  /\ cursor' = 0
  /\ UNCHANGED <<pluginVars, infoVars, flagVars, osVars, boot, passedOver>>

\* One iteration of processAlreadyLoadedKexts in the boot thread.  It does not
\* hold the loader's lock: the kext under the cursor may have been unloaded, and
\* reading it is then undefined (the old contents, or anything else).
BootWalkStep ==
  /\ boot = "walk"
  /\ cursor # 0
  /\ \/ /\ ProcessKext(cursor, TRUE)
        /\ cursor' \in {m \in Pointers : IsNext(m, cursor)}
        /\ UNCHANGED passedOver
     \/ /\ cursor \notin kmods
        /\ cursor' = 0
        /\ passedOver' = passedOver \cup Below(cursor)
        /\ UNCHANGED watchVars
  /\ UNCHANGED <<pluginVars, infoVars, flagVars, osVars, boot>>

BootWalkEnd ==
  /\ boot = "walk"
  /\ cursor = 0
  /\ waiting' = FALSE
  /\ boot' = "store"
  /\ UNCHANGED <<pluginVars, infoVars, watchVars, that,
                 isKextUnloading, osVars, cursor, passedOver>>

\* Mutation: the watch is only switched on once the loaded kexts have been seen to.
StoreActivatedWaits ==
  /\ boot = "store"
  /\ ~waiting
  /\ boot' = "done"
  /\ UNCHANGED <<pluginVars, infoVars, watchVars, that, waiting,
                 isKextUnloading, osVars, cursor, passedOver>>

StoreActivated ==
  /\ boot = "store"
  /\ boot' = "done"
  /\ UNCHANGED <<pluginVars, infoVars, watchVars, that, waiting,
                 isKextUnloading, osVars, cursor, passedOver>>

-----------------------------------------------------------------------------
(* The kernel's kext loader (external) and Lilu's hooks on it.             *)

\* OSKext::load links the kext at the head of the list; its call of
\* saveLoadedKextPanicList comes next.
LoadKext(k) ==
  /\ os = "idle"
  /\ nloads < MaxLoads
  /\ \A n \in kmods : kid[n] # k
  /\ nloads' = nloads + 1
  /\ kmods' = kmods \cup {nloads + 1}
  /\ kid' = [kid EXCEPT ![nloads + 1] = k]
  /\ current' \in {current, current \cup {nloads + 1}}
  /\ os' = "load"
  /\ osInst' = nloads + 1
  /\ UNCHANGED <<pluginVars, infoVars, watchVars, flagVars, boot, cursor,
                 passedOver>>

\* onOSKextSaveLoadedKextPanicList; the loader goes on to "after".  The head of
\* the list is taken to be the newly loaded kext.
PanicListHook(after) ==
  \/ /\ ~that \/ ~activated \/ isKextUnloading
     /\ os' = after
     /\ UNCHANGED <<watchVars, cursor>>
  \/ /\ that /\ activated /\ ~isKextUnloading /\ waiting
     /\ os' = "walk"
     /\ cursor' \in {m \in Pointers : IsHead(m)}
     /\ UNCHANGED watchVars
  \/ /\ that /\ activated /\ ~isKextUnloading /\ ~waiting
     /\ \E m \in Pointers :
          /\ IsHead(m)
          /\ IF m # 0 THEN ProcessKext(m, FALSE) ELSE UNCHANGED watchVars
     /\ os' = after
     /\ UNCHANGED cursor

LoadHook ==
  /\ os = "load"
  /\ PanicListHook("idle")
  /\ passedOver' = IF boot \in {"walk", "store"}
                      THEN passedOver \cup {osInst} ELSE passedOver
  /\ UNCHANGED <<pluginVars, infoVars, flagVars, osInst, kmods, nloads, kid,
                 current, boot>>

HookWalkStep ==
  /\ os = "walk"
  /\ cursor # 0
  /\ ProcessKext(cursor, TRUE)
  /\ cursor' \in {m \in Pointers : IsNext(m, cursor)}
  /\ UNCHANGED <<pluginVars, infoVars, flagVars, osVars, boot, passedOver>>

\* Mutation: every later load walks the list again.
HookWalkEndStillWaiting ==
  /\ os = "walk"
  /\ cursor = 0
  /\ os' = "idle"
  /\ UNCHANGED <<pluginVars, infoVars, watchVars, flagVars, osInst, kmods, nloads,
                 kid, current, boot, cursor, passedOver>>

HookWalkEnd ==
  /\ os = "walk"
  /\ cursor = 0
  /\ waiting' = FALSE
  /\ os' = "idle"
  /\ UNCHANGED <<pluginVars, infoVars, watchVars, that,
                 isKextUnloading, osInst, kmods, nloads, kid, current, boot,
                 cursor, passedOver>>

\* Mutation: the unload is not flagged.
UnloadKextUnflagged(n) ==
  /\ os = "idle"
  /\ n \in kmods
  /\ os' = "unload"
  /\ osInst' = n
  /\ UNCHANGED <<pluginVars, infoVars, watchVars, flagVars, kmods, nloads, kid,
                 current, boot, cursor, passedOver>>

\* onOSKextUnload flags the unload and calls the original OSKext::unload ...
UnloadKext(n) ==
  /\ os = "idle"
  /\ n \in kmods
  /\ isKextUnloading' = IF that THEN TRUE ELSE isKextUnloading
  /\ os' = "unload"
  /\ osInst' = n
  /\ UNCHANGED <<pluginVars, infoVars, watchVars, that, waiting,
                 kmods, nloads, kid, current, boot, cursor, passedOver>>

\* ... which unlinks the kext and calls saveLoadedKextPanicList ...
UnlinkKext ==
  /\ os = "unload"
  /\ kmods' = kmods \ {osInst}
  /\ os' = "unlinked"
  /\ UNCHANGED <<pluginVars, infoVars, watchVars, flagVars, osInst, nloads, kid,
                 current, boot, cursor, passedOver>>

\* ... whose hook sees the flag, unless the unload began before the hooks were
\* installed.
UnloadHook ==
  /\ os = "unlinked"
  /\ PanicListHook("unloaded")
  /\ UNCHANGED <<pluginVars, infoVars, flagVars, osInst, kmods, nloads, kid,
                 current, boot, passedOver>>

UnloadEnd ==
  /\ os = "unloaded"
  /\ isKextUnloading' = FALSE
  /\ os' = "idle"
  /\ UNCHANGED <<pluginVars, infoVars, watchVars, that, waiting,
                 osInst, kmods, nloads, kid, current, boot, cursor, passedOver>>

-----------------------------------------------------------------------------
PluginNext ==
  /\ \E p \in Plugins : RequestAccess(p) \/ PluginStart(p) \/ ReleaseAccess(p)
  /\ UNCHANGED BigSur

BootNext ==
  /\ \/ FinaliseRequests \/ ProcessRequest \/ InitUserPatcher
     \/ Activate \/ BootWalkStep \/ BootWalkEnd \/ StoreActivated
  /\ UNCHANGED BigSur

\* The loader's steps once it has begun a load or an unload.
LoaderStep ==
  /\ LoadHook \/ HookWalkStep \/ HookWalkEnd \/ UnlinkKext \/ UnloadHook \/ UnloadEnd
  /\ UNCHANGED BigSur

LoaderStart ==
  /\ \/ \E k \in Kexts : LoadKext(k)
     \/ \E n \in kmods : UnloadKext(n)
  /\ UNCHANGED BigSur

Next == PluginNext \/ InitConsole \/ BootNext \/ LoaderStep \/ LoaderStart

Spec == Init /\ [][Next]_vars

\* A plug-in's start function, once it has the access lock.
PluginHolds(p) == (PluginStart(p) \/ ReleaseAccess(p)) /\ UNCHANGED BigSur

\* A plug-in starts on a kernel thread, Lilu's start runs on the thread of the console
\* and then as a thread call, and the loader on kernel threads: once begun, they run
\* to completion.  Nothing says that the kernel initialises its console.
FairSpec ==
  /\ Spec
  /\ WF_vars(BootNext) /\ WF_vars(LoaderStep)
  /\ \A p \in Plugins : WF_vars(PluginHolds(p))

-----------------------------------------------------------------------------
(* Properties.                                                             *)

PluginTypeOK ==
  /\ pstate \in [Plugins -> {"new", "tooLate", "granted", "started", "released"}]
  /\ access \in Plugins \cup {NoPlugin}
  /\ callbacks \subseteq Plugins
  /\ storedKexts \in Seq(Request)

InfoTypeOK ==
  /\ kindex \in [Kexts -> Nat]
  /\ nkinfos \in Nat \ {0}
  /\ loadIndex \in [Plugins \X Kexts -> Nat]
  /\ khandlers \subseteq Handler
  /\ hits \in [HitKeys -> Nat]

FlagTypeOK ==
  /\ boot \in {"open", "closing", "unstarted", "register", "activate", "walk", "store",
              "done", "off"}
  /\ that \in BOOLEAN /\ waiting \in BOOLEAN /\ isKextUnloading \in BOOLEAN

LoaderTypeOK ==
  /\ os \in {"idle", "load", "walk", "unload", "unlinked", "unloaded"}
  /\ nloads \in 0 .. MaxLoads
  /\ kmods \subseteq 1 .. nloads
  /\ cursor \in 0 .. nloads
  /\ osInst \in 0 .. nloads
  /\ passedOver \subseteq 0 .. nloads
  /\ kid \in [Insts -> Kexts]
  /\ current \subseteq 1 .. nloads

\* The state of the watch is well typed, and every kext pointer in it denotes a
\* kext that has been loaded.
TypeOK ==
  PluginTypeOK /\ InfoTypeOK /\ FlagTypeOK /\ LoaderTypeOK /\ BigSur \in BOOLEAN

\* While the boot thread reads the registered callbacks and kexts without the
\* access lock, no plug-in is between requestAccess and releaseAccess.
RegistrationClosed ==
  apiRequestsOver => \A p \in Plugins : pstate[p] \notin {"granted", "started"}

\* A plug-in acts on a loaded kext only under that kext's own identifier, and only
\* when its binary is the one Lilu resolved symbols from: load indices shared
\* between plug-ins never send a kext to another kext's patches.
PatchedAsItself ==
  \A x \in HitKeys : hits[x] > 0 => x[2] = kid[x[3]] /\ x[3] \in current

\* Some plug-in wants the kext again after a reload.
Reloadable(k) ==
  \E p \in Plugins : \E i \in DOMAIN KextInfos[p] :
    KextInfos[p][i].id = k /\ "Reloadable" \in KextInfos[p][i].sys

\* No plug-in is called twice for one load of a kext: neither the walk over the
\* already loaded kexts nor an unload (which moves the head of the list) makes
\* Lilu handle a kext again.  Only the handler of a Reloadable kext, which stays, can
\* see a load twice, and only on Big Sur: the walk and the load's own hook may both
\* find it, and so may the walk and the hook of an unload that began before the hooks
\* were installed.  None of Kryptonite's entries is Reloadable.
PatchedAtMostOnce ==
  \A x \in HitKeys : hits[x] > 1 => BigSur /\ Reloadable(x[2])

\* Plug-in p asked for the loaded kext n, a handler for it is still pending, and p
\* has not been called for it.
Missed(p, n) ==
  /\ n \in kmods /\ p \in callbacks /\ n \in current
  /\ loadIndex[<<p, kid[n]>>] # 0
  /\ \E h \in khandlers : h.id = kid[n] /\ "Loaded" \in h.sys
  /\ hits[<<p, kid[n], n>>] = 0

\* The watch is active, has looked at the kexts that were already loaded, and no
\* load is half way.
Quiet == boot = "done" /\ that /\ ~waiting /\ os \notin {"load", "walk"}

\* Once the watch is quiet, every loaded kext that a handler wants even if it was
\* loaded earlier (KextInfo::Loaded) has been handed to its plug-ins.  On Big Sur
\* and later it can be missed in two ways only: its load hook returned between the
\* start of the walk in KernelPatcher::activate and the store to "activated", or the
\* kext under the cursor of that walk was unloaded, and the walk stopped there with
\* the missed kext still ahead of it.
MissedOnlyInWindow ==
  Quiet => \A p \in Plugins, n \in Insts : Missed(p, n) => BigSur /\ n \in passedOver

\* Lilu's start always gets from the wait for the access lock, which a plug-in may
\* hold, to an active watch, to a patcher that has been switched off, or to the one
\* dead end the code has: registration is closed and no thread call could be had.
BootFinishes == boot = "closing" ~> boot \in {"done", "off", "unstarted"}

\* With an active watch, the next kext load settles the kexts that were loaded
\* before activation.
LoadSettlesWatch == (boot = "done" /\ that /\ os = "load") ~> Quiet
=============================================================================
