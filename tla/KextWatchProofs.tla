--------------------------- MODULE KextWatchProofs ---------------------------
(* Safety of the kext watch for any number of plug-ins, kexts and loads.   *)
EXTENDS KextWatch, TLAPS

-----------------------------------------------------------------------------
(* Type correctness.                                                       *)

\* The requests registered for a plug-in are a sequence of requests.
LEMMA RequestsOfType ==
  ASSUME NEW p \in Plugins
  PROVE  RequestsOf(p) \in Seq(Request)
<1>1. KextInfos[p] \in Seq(KextInfo)
  BY KextInfosAssumption
<1>2. \A i \in 1 .. Len(KextInfos[p]) :
        [plugin |-> p, info |-> KextInfos[p][i]] \in Request
  BY <1>1 DEF Request
<1> QED
  BY <1>1, <1>2 DEF RequestsOf

\* Concatenation, head and tail of sequences.
LEMMA SeqFacts ==
  ASSUME NEW R, NEW s \in Seq(R)
  PROVE  /\ \A t \in Seq(R) : s \o t \in Seq(R)
         /\ s # <<>> => Head(s) \in R /\ Tail(s) \in Seq(R)
         /\ <<>> \in Seq(R)
OBVIOUS

\* A kmod pointer denotes a kext that has been loaded, or is null.
LEMMA PointersType ==
  ASSUME LoaderTypeOK
  PROVE  Pointers \subseteq 0 .. nloads
BY DEF LoaderTypeOK, Pointers

\* Handling a kext keeps the counts and the handlers well typed.
LEMMA ProcessKextType ==
  ASSUME InfoTypeOK, UNCHANGED infoVars, NEW n, NEW loaded, ProcessKext(n, loaded)
  PROVE  InfoTypeOK'
<1>1. \A x \in HitKeys : hits[x] \in Nat /\ hits[x] + 1 \in Nat
  BY DEF InfoTypeOK
<1>2. ASSUME NEW h, RunCallbacks(h, n) PROVE hits' \in [HitKeys -> Nat]
  BY <1>1, <1>2 DEF RunCallbacks
<1>3. hits' \in [HitKeys -> Nat]
  BY <1>2 DEF ProcessKext, InfoTypeOK
<1>4. khandlers' \subseteq khandlers
  BY DEF ProcessKext
<1> QED
  BY <1>3, <1>4 DEF InfoTypeOK, infoVars

\* The initial state is well typed.
LEMMA InitType == Init => TypeOK
<1> SUFFICES ASSUME Init PROVE TypeOK
  OBVIOUS
<1>1. PluginTypeOK
  BY DEF Init, PluginTypeOK
<1>2. InfoTypeOK
  BY DEF Init, InfoTypeOK
<1>3. FlagTypeOK
  BY Zenon DEF Init, FlagTypeOK
<1>4. LoaderTypeOK
  <2>1. (CHOOSE k \in Kexts : TRUE) \in Kexts
    BY KextsAssumption
  <2>2. kid \in [Insts -> Kexts]
    BY <2>1, Zenon DEF Init
  <2>3. nloads \in 0 .. MaxLoads /\ cursor \in 0 .. nloads /\ osInst \in 0 .. nloads
    BY MaxLoadsAssumption DEF Init
  <2> QED
    BY <2>2, <2>3, Zenon DEF Init, LoaderTypeOK
<1> QED
  BY <1>1, <1>2, <1>3, <1>4 DEF TypeOK, Init

\* Turning a request into a handler keeps the state well typed.
LEMMA ProcessRequestType ==
  ASSUME PluginTypeOK, InfoTypeOK, FlagTypeOK, ProcessRequest
  PROVE  PluginTypeOK' /\ InfoTypeOK' /\ FlagTypeOK'
<1> DEFINE r == Head(storedKexts)
<1>1. r \in Request /\ Tail(storedKexts) \in Seq(Request) /\ <<>> \in Seq(Request)
  BY SeqFacts DEF ProcessRequest, PluginTypeOK
<1>2. PluginTypeOK'
  <2>1. storedKexts' \in {Tail(storedKexts), <<>>}
    BY DEF ProcessRequest, SkipRequest, ShareKinfo, KinfoMissing, ListeningFails,
           HandlerFails, WaitOnKext
  <2> QED
    BY <1>1, <2>1, Zenon DEF ProcessRequest, PluginTypeOK
<1>3. InfoTypeOK'
  <2>1. r.plugin \in Plugins /\ r.info.id \in Kexts /\ r.info.sys \subseteq SysFlags
    BY <1>1 DEF Request, KextInfo
  <2>2. hits' \in [HitKeys -> Nat]
    BY DEF ProcessRequest, InfoTypeOK
  <2>3. ASSUME AddKinfo(r)
        PROVE  /\ kindex' \in [Kexts -> Nat] /\ nkinfos' \in Nat \ {0}
               /\ loadIndex' \in [Plugins \X Kexts -> Nat]
    BY <2>1, <2>3 DEF AddKinfo, InfoTypeOK
  <2>4. CASE SkipRequest(r) \/ KinfoMissing(r)
    BY <2>2, <2>4, Zenon DEF SkipRequest, KinfoMissing, InfoTypeOK, infoVars
  <2>5. CASE ShareKinfo(r)
    <3>0. \A h \in khandlers :
             h \in Handler /\ [h EXCEPT !.sys = @ \cup r.info.sys] \in Handler
      BY <2>1 DEF InfoTypeOK, Handler
    <3>1. khandlers' \subseteq Handler
      BY <2>5, <3>0, Zenon DEF ShareKinfo
    <3>2. loadIndex' \in [Plugins \X Kexts -> Nat]
      BY <2>1, <2>5, Zenon DEF ShareKinfo, InfoTypeOK
    <3> QED
      BY <2>2, <2>5, <3>1, <3>2 DEF ShareKinfo, InfoTypeOK
  <2>6. CASE ListeningFails(r) \/ HandlerFails(r)
    BY <2>2, <2>3, <2>6 DEF ListeningFails, HandlerFails, InfoTypeOK
  <2>7. CASE WaitOnKext(r)
    <3>1. khandlers' \subseteq Handler
      BY <2>1, <2>7 DEF WaitOnKext, InfoTypeOK, Handler
    <3> QED
      BY <2>2, <2>3, <2>7, <3>1 DEF WaitOnKext, InfoTypeOK
  <2> QED
    BY <2>4, <2>5, <2>6, <2>7 DEF ProcessRequest
<1>4. FlagTypeOK'
  BY Zenon DEF ProcessRequest, FlagTypeOK, SkipRequest, ShareKinfo, KinfoMissing,
         ListeningFails, HandlerFails, WaitOnKext
<1> QED
  BY <1>2, <1>3, <1>4

\* The panic-list hook keeps the handlers and the cursor well typed.
LEMMA PanicListHookType ==
  ASSUME InfoTypeOK, LoaderTypeOK, UNCHANGED infoVars, NEW after,
         PanicListHook(after)
  PROVE  InfoTypeOK' /\ cursor' \in 0 .. nloads /\ os' \in {after, "walk"}
<1>1. InfoTypeOK'
  <2>1. ASSUME UNCHANGED watchVars PROVE InfoTypeOK'
    BY <2>1 DEF InfoTypeOK, infoVars, watchVars
  <2> QED
    BY <2>1, ProcessKextType, Zenon DEF PanicListHook
<1>2. cursor' \in 0 .. nloads
  <2>1. cursor' = cursor \/ cursor' \in Pointers
    BY Zenon DEF PanicListHook
  <2> QED
    BY <2>1, PointersType DEF LoaderTypeOK
<1> QED
  BY <1>1, <1>2, Zenon DEF PanicListHook

\* A step keeps the state well typed.
LEMMA TypeStep == TypeOK /\ [Next]_vars => TypeOK'
<1> SUFFICES ASSUME TypeOK, [Next]_vars PROVE TypeOK'
  OBVIOUS
<1>B. UNCHANGED BigSur
  BY DEF Next, InitConsole, PluginNext, BootNext, LoaderStep, LoaderStart, vars
<1> USE <1>B DEF TypeOK
<1>P. ASSUME UNCHANGED pluginVars PROVE PluginTypeOK'
  BY <1>P DEF PluginTypeOK, pluginVars
<1>I. ASSUME UNCHANGED <<infoVars, watchVars>> PROVE InfoTypeOK'
  BY <1>I DEF InfoTypeOK, infoVars, watchVars, HitKeys, Insts
<1>F. ASSUME UNCHANGED <<flagVars, boot>> PROVE FlagTypeOK'
  BY <1>F DEF FlagTypeOK, flagVars
<1>L. ASSUME UNCHANGED <<osVars, cursor, passedOver>> PROVE LoaderTypeOK'
  BY <1>L DEF LoaderTypeOK, osVars
<1>1. ASSUME NEW p \in Plugins, RequestAccess(p) PROVE TypeOK'
  <2>1. PluginTypeOK'
    BY <1>1 DEF RequestAccess, PluginTypeOK
  <2> QED
    BY <1>1, <2>1, <1>I, <1>F, <1>L DEF RequestAccess
<1>2. ASSUME NEW p \in Plugins, PluginStart(p) PROVE TypeOK'
  <2>1. storedKexts \o RequestsOf(p) \in Seq(Request)
    BY RequestsOfType, SeqFacts DEF PluginTypeOK
  <2>2. PluginTypeOK'
    BY <1>2, <2>1, Zenon DEF PluginStart, OnKextLoad, PluginTypeOK
  <2> QED
    BY <1>2, <2>2, <1>I, <1>F, <1>L DEF PluginStart
<1>3. ASSUME NEW p \in Plugins, ReleaseAccess(p) PROVE TypeOK'
  <2>1. PluginTypeOK'
    BY <1>3 DEF ReleaseAccess, PluginTypeOK
  <2> QED
    BY <1>3, <2>1, <1>I, <1>F, <1>L DEF ReleaseAccess
<1>4. CASE InitConsole \/ FinaliseRequests
  <2>1. FlagTypeOK'
    BY <1>4 DEF InitConsole, FinaliseRequests, FlagTypeOK, flagVars
  <2> QED
    BY <1>4, <2>1, <1>P, <1>I, <1>L DEF InitConsole, FinaliseRequests
<1>5. CASE ProcessRequest
  BY <1>5, ProcessRequestType, <1>L DEF ProcessRequest
<1>6. CASE InitUserPatcher
  <2>1. FlagTypeOK'
    BY <1>6, Zenon DEF InitUserPatcher, FlagTypeOK
  <2> QED
    BY <1>6, <2>1, <1>P, <1>I, <1>L DEF InitUserPatcher
<1>7. CASE Activate
  <2>1. FlagTypeOK'
    BY <1>7 DEF Activate, FlagTypeOK, flagVars
  <2>2. LoaderTypeOK'
    <3>1. cursor' = cursor \/ cursor' \in Pointers
      BY <1>7 DEF Activate
    <3> QED
      BY <1>7, <3>1, PointersType DEF Activate, LoaderTypeOK, osVars
  <2> QED
    BY <1>7, <2>1, <2>2, <1>P, <1>I DEF Activate
<1>8. CASE BootWalkStep
  <2>1. InfoTypeOK'
    BY <1>8, ProcessKextType, <1>I, Zenon DEF BootWalkStep
  <2>2. LoaderTypeOK'
    <3>1. cursor' \in Pointers /\ passedOver' \subseteq passedOver \cup kmods
      BY <1>8, Zenon DEF BootWalkStep, Pointers, Below
    <3> QED
      BY <1>8, <3>1, PointersType DEF BootWalkStep, LoaderTypeOK, osVars
  <2> QED
    BY <1>8, <2>1, <2>2, <1>P, <1>F DEF BootWalkStep
<1>9. CASE BootWalkEnd
  <2>1. FlagTypeOK'
    BY <1>9, Zenon DEF BootWalkEnd, FlagTypeOK
  <2> QED
    BY <1>9, <2>1, <1>P, <1>I, <1>L DEF BootWalkEnd
<1>10. CASE StoreActivated
  <2>1. FlagTypeOK'
    BY <1>10 DEF StoreActivated, FlagTypeOK
  <2> QED
    BY <1>10, <2>1, <1>P, <1>I, <1>L DEF StoreActivated
<1>11. CASE LoadHook
  <2>1. InfoTypeOK' /\ cursor' \in 0 .. nloads /\ os' \in {"idle", "walk"}
    BY <1>11, PanicListHookType DEF LoadHook
  <2>2. LoaderTypeOK'
    BY <1>11, <2>1 DEF LoadHook, LoaderTypeOK
  <2> QED
    BY <1>11, <2>1, <2>2, <1>P, <1>F DEF LoadHook
<1>12. CASE HookWalkStep
  <2>1. InfoTypeOK'
    BY <1>12, ProcessKextType, Zenon DEF HookWalkStep
  <2>2. LoaderTypeOK'
    <3>1. cursor' \in Pointers
      BY <1>12 DEF HookWalkStep
    <3> QED
      BY <1>12, <3>1, PointersType DEF HookWalkStep, LoaderTypeOK, osVars
  <2> QED
    BY <1>12, <2>1, <2>2, <1>P, <1>F DEF HookWalkStep
<1>13. CASE HookWalkEnd
  <2>1. FlagTypeOK'
    BY <1>13, Zenon DEF HookWalkEnd, FlagTypeOK
  <2>2. LoaderTypeOK'
    BY <1>13 DEF HookWalkEnd, LoaderTypeOK
  <2> QED
    BY <1>13, <2>1, <2>2, <1>P, <1>I DEF HookWalkEnd
<1>14. CASE UnlinkKext
  <2>1. LoaderTypeOK'
    BY <1>14 DEF UnlinkKext, LoaderTypeOK
  <2> QED
    BY <1>14, <2>1, <1>P, <1>I, <1>F DEF UnlinkKext
<1>15. CASE UnloadHook
  <2>1. InfoTypeOK' /\ cursor' \in 0 .. nloads /\ os' \in {"unloaded", "walk"}
    BY <1>15, PanicListHookType DEF UnloadHook
  <2>2. LoaderTypeOK'
    BY <1>15, <2>1 DEF UnloadHook, LoaderTypeOK
  <2> QED
    BY <1>15, <2>1, <2>2, <1>P, <1>F DEF UnloadHook
<1>16. CASE UnloadEnd
  <2>1. FlagTypeOK'
    BY <1>16, Zenon DEF UnloadEnd, FlagTypeOK
  <2>2. LoaderTypeOK'
    BY <1>16 DEF UnloadEnd, LoaderTypeOK
  <2> QED
    BY <1>16, <2>1, <2>2, <1>P, <1>I DEF UnloadEnd
<1>17. ASSUME NEW k \in Kexts, LoadKext(k) PROVE TypeOK'
  <2>1. nloads \in Nat /\ nloads' = nloads + 1 /\ nloads' \in 0 .. MaxLoads
    BY <1>17, MaxLoadsAssumption DEF LoadKext, LoaderTypeOK
  <2>2. kid' \in [Insts -> Kexts]
    BY <1>17, MaxLoadsAssumption DEF LoadKext, LoaderTypeOK, Insts
  <2>3. kmods' \subseteq 1 .. nloads' /\ current' \subseteq 1 .. nloads'
    BY <1>17, <2>1 DEF LoadKext, LoaderTypeOK
  <2>4. LoaderTypeOK'
    BY <1>17, <2>1, <2>2, <2>3 DEF LoadKext, LoaderTypeOK
  <2> QED
    BY <1>17, <2>4, <1>P, <1>I, <1>F DEF LoadKext
<1>18. ASSUME NEW n \in kmods, UnloadKext(n) PROVE TypeOK'
  <2>1. FlagTypeOK'
    BY <1>18, Zenon DEF UnloadKext, FlagTypeOK
  <2>2. LoaderTypeOK'
    BY <1>18 DEF UnloadKext, LoaderTypeOK
  <2> QED
    BY <1>18, <2>1, <2>2, <1>P, <1>I DEF UnloadKext
<1>19. CASE UNCHANGED vars
  BY <1>19, <1>P, <1>I, <1>F, <1>L DEF vars
<1> QED
  BY <1>1, <1>2, <1>3, <1>4, <1>5, <1>6, <1>7, <1>8, <1>9, <1>10, <1>11, <1>12,
     <1>13, <1>14, <1>15, <1>16, <1>17, <1>18, <1>19
  DEF Next, PluginNext, BootNext, LoaderStep, LoaderStart

\* Every reachable state of the watch is well typed: in particular, a kmod pointer
\* held across steps never denotes a kext that was not loaded.
THEOREM TypeCorrect == Spec => []TypeOK
BY InitType, TypeStep, PTL DEF Spec
-----------------------------------------------------------------------------
(* Registration is closed when the boot thread reads it.                   *)

\* A plug-in between requestAccess and releaseAccess holds the lock, and nobody
\* holds it once registration is closed.
LockInv ==
  /\ \A p \in Plugins : pstate[p] \in {"granted", "started"} => access = p
  /\ apiRequestsOver => access = NoPlugin

\* A step keeps the lock discipline.
LEMMA LockStep == TypeOK /\ LockInv /\ [Next]_vars => LockInv'
<1> SUFFICES ASSUME TypeOK, LockInv, [Next]_vars PROVE LockInv'
  OBVIOUS
<1> USE DEF TypeOK, PluginTypeOK, LockInv, apiRequestsOver
<1>1. ASSUME NEW p \in Plugins, RequestAccess(p) PROVE LockInv'
  BY <1>1, NoPluginAssumption DEF RequestAccess
<1>2. ASSUME NEW p \in Plugins, PluginStart(p) PROVE LockInv'
  BY <1>2 DEF PluginStart
<1>3. ASSUME NEW p \in Plugins, ReleaseAccess(p) PROVE LockInv'
  BY <1>3, NoPluginAssumption DEF ReleaseAccess
<1>4. CASE InitConsole \/ FinaliseRequests
  BY <1>4, NoPluginAssumption DEF InitConsole, FinaliseRequests, pluginVars
<1>5. ASSUME UNCHANGED <<pstate, access>>, ~apiRequestsOver => boot' = boot
      PROVE  LockInv'
  BY <1>5, Zenon
<1>6. CASE ProcessRequest \/ InitUserPatcher \/ Activate \/ BootWalkStep
  BY <1>5, <1>6, Zenon DEF ProcessRequest, InitUserPatcher, Activate, BootWalkStep,
     pluginVars
<1>7. CASE BootWalkEnd \/ StoreActivated \/ LoaderStep
  BY <1>5, <1>7, Zenon DEF BootWalkEnd, StoreActivated, LoaderStep, LoadHook, HookWalkStep,
     HookWalkEnd, UnlinkKext, UnloadHook, UnloadEnd, pluginVars
<1>8. ASSUME NEW k \in Kexts, LoadKext(k) PROVE LockInv'
  BY <1>5, <1>8, Zenon DEF LoadKext, pluginVars
<1>9. ASSUME NEW n \in kmods, UnloadKext(n) PROVE LockInv'
  BY <1>5, <1>9 DEF UnloadKext, pluginVars
<1>10. CASE UNCHANGED vars
  BY <1>5, <1>10 DEF vars, pluginVars
<1> QED
  BY <1>1, <1>2, <1>3, <1>4, <1>6, <1>7, <1>8, <1>9, <1>10, Zenon
  DEF Next, PluginNext, BootNext, LoaderStart

\* No plug-in is registering while the boot thread turns the registered kexts into
\* handlers, which it does without the access lock.
THEOREM RegistrationSafe == Spec => []RegistrationClosed
<1>1. Init => LockInv
  BY DEF Init, LockInv, apiRequestsOver
<1>2. LockInv => RegistrationClosed
  BY NoPluginAssumption, Zenon DEF LockInv, RegistrationClosed
<1> QED
  BY <1>1, <1>2, TypeCorrect, LockStep, PTL DEF Spec

-----------------------------------------------------------------------------
(* A kext is only patched as itself.                                       *)

\* Indices identify kexts: distinct identifiers have distinct indices, a plug-in's
\* entry has its own kext's index or none, and so has a handler.
IndexInv ==
  /\ \A k \in Kexts : kindex[k] < nkinfos
  /\ \A k, l \in Kexts : kindex[k] = kindex[l] /\ kindex[k] # 0 => k = l
  /\ \A p \in Plugins, k \in Kexts : loadIndex[<<p, k>>] \in {0, kindex[k]}
  /\ \A h \in khandlers : h.index = kindex[h.id]

\* Only kexts that were loaded, under their own identifier and with the binary
\* Lilu read, have been patched.
HitInv ==
  \A x \in HitKeys :
    hits[x] > 0 => x[3] \in current /\ x[2] = kid[x[3]] /\ kindex[x[2]] # 0

\* Turning a request into a handler keeps indices unambiguous.
LEMMA ProcessRequestIndex ==
  ASSUME TypeOK, IndexInv, ProcessRequest
  PROVE  IndexInv' /\ \A k \in Kexts : kindex[k] # 0 => kindex'[k] = kindex[k]
<1> USE DEF TypeOK
<1> DEFINE r == Head(storedKexts)
<1>1. r.plugin \in Plugins /\ r.info.id \in Kexts /\ r.info.sys \subseteq SysFlags
  <2>1. r \in Request
    BY SeqFacts, Zenon DEF ProcessRequest, PluginTypeOK
  <2> QED
    BY <2>1 DEF Request, KextInfo
<1>2. CASE SkipRequest(r) \/ KinfoMissing(r)
  BY <1>2, ZenonT(30) DEF SkipRequest, KinfoMissing, IndexInv, infoVars
<1>3. CASE ShareKinfo(r)
  <2>1. \A h \in khandlers' : h.index = kindex[h.id]
    <3>1. \A h \in Handler : \A S : /\ [h EXCEPT !.sys = @ \cup S].id = h.id
                                    /\ [h EXCEPT !.sys = @ \cup S].index = h.index
      BY DEF Handler
    <3>2. ASSUME NEW g \in khandlers' PROVE g.index = kindex[g.id]
      <4>1. PICK h \in khandlers : g = IF h.id = r.info.id
                                         THEN [h EXCEPT !.sys = @ \cup r.info.sys] ELSE h
        BY <1>3, <3>2 DEF ShareKinfo
      <4>2. h \in Handler
        BY DEF InfoTypeOK
      <4>3. g.id = h.id /\ g.index = h.index
        BY <3>1, <4>1, <4>2
      <4> QED
        BY <4>3 DEF IndexInv
    <3> QED
      BY <3>2
  <2> QED
    BY <1>1, <1>3, <2>1 DEF ShareKinfo, IndexInv, InfoTypeOK
<1>4. ASSUME AddKinfo(r)
      PROVE  /\ \A k \in Kexts : kindex'[k] < nkinfos'
             /\ \A k, l \in Kexts : kindex'[k] = kindex'[l] /\ kindex'[k] # 0 => k = l
             /\ \A p \in Plugins, k \in Kexts : loadIndex'[<<p, k>>] \in {0, kindex'[k]}
             /\ \A h \in khandlers : h.index = kindex'[h.id]
             /\ \A k \in Kexts : kindex[k] # 0 => kindex'[k] = kindex[k]
  <2>1. \A k \in Kexts : kindex'[k] = IF k = r.info.id THEN nkinfos ELSE kindex[k]
    BY <1>1, <1>4 DEF AddKinfo, InfoTypeOK
  <2>2. \A p \in Plugins, k \in Kexts :
          loadIndex'[<<p, k>>] = IF p = r.plugin /\ k = r.info.id
                                   THEN nkinfos ELSE loadIndex[<<p, k>>]
    <3>1. loadIndex' = [loadIndex EXCEPT ![<<r.plugin, r.info.id>>] = nkinfos]
      BY <1>4, Zenon DEF AddKinfo
    <3>2. \A x \in Plugins \X Kexts :
            loadIndex'[x] = IF x = <<r.plugin, r.info.id>> THEN nkinfos ELSE loadIndex[x]
      BY <3>1, <1>1 DEF InfoTypeOK
    <3> QED
      BY <3>2
  <2>3. \A h \in khandlers : h.id \in Kexts /\ h.index # 0
    BY Zenon DEF InfoTypeOK, Handler
  <2>4. kindex[r.info.id] = 0 /\ nkinfos' = nkinfos + 1 /\ nkinfos \in Nat \ {0}
    BY <1>4 DEF AddKinfo, InfoTypeOK
  <2>5. \A k \in Kexts : kindex[k] \in Nat
    BY DEF InfoTypeOK
  <2>6. \A k \in Kexts : kindex'[k] < nkinfos'
    BY <2>1, <2>4, <2>5 DEF IndexInv
  <2>7. \A k, l \in Kexts : kindex'[k] = kindex'[l] /\ kindex'[k] # 0 => k = l
    BY <2>1, <2>4, <2>5 DEF IndexInv
  <2>8. \A p \in Plugins, k \in Kexts : loadIndex'[<<p, k>>] \in {0, kindex'[k]}
    <3> SUFFICES ASSUME NEW p \in Plugins, NEW k \in Kexts
                 PROVE  loadIndex'[<<p, k>>] \in {0, kindex'[k]}
      BY Zenon
    <3>1. loadIndex[<<p, k>>] = 0 \/ loadIndex[<<p, k>>] = kindex[k]
      BY DEF IndexInv
    <3>2. kindex'[k] = IF k = r.info.id THEN nkinfos ELSE kindex[k]
      BY <2>1
    <3>3. loadIndex'[<<p, k>>] = IF p = r.plugin /\ k = r.info.id
                                   THEN nkinfos ELSE loadIndex[<<p, k>>]
      BY <2>2, Zenon
    <3>4. CASE k = r.info.id
      BY <2>4, <3>1, <3>2, <3>3, <3>4, Zenon
    <3>5. CASE k # r.info.id
      BY <3>1, <3>2, <3>3, <3>5, Zenon
    <3> QED
      BY <3>4, <3>5
  <2>9. \A h \in khandlers : h.index = kindex'[h.id]
    BY <2>1, <2>3, <2>4, ZenonT(30) DEF IndexInv
  <2>10. \A k \in Kexts : kindex[k] # 0 => kindex'[k] = kindex[k]
    BY <2>1, <2>4, Zenon
  <2> QED
    BY <2>6, <2>7, <2>8, <2>9, <2>10, Zenon
<1>5. CASE ListeningFails(r) \/ HandlerFails(r)
  BY <1>4, <1>5, Zenon DEF ListeningFails, HandlerFails, IndexInv
<1>6. CASE WaitOnKext(r)
  <2>1. kindex'[r.info.id] = nkinfos
    BY <1>1, <1>6, Zenon DEF WaitOnKext, AddKinfo, InfoTypeOK
  <2> QED
    BY <1>4, <1>6, <2>1 DEF WaitOnKext, IndexInv
<1> QED
  BY <1>2, <1>3, <1>5, <1>6 DEF ProcessRequest

\* Handling a kext hits only its own identifier.
LEMMA ProcessKextHits ==
  ASSUME TypeOK, IndexInv, HitInv, UNCHANGED infoVars, UNCHANGED <<kid, current>>,
         NEW n, NEW loaded, ProcessKext(n, loaded)
  PROVE  IndexInv' /\ HitInv'
<1> USE DEF TypeOK
<1>1. khandlers' \subseteq khandlers
  BY Zenon DEF ProcessKext
<1>2. IndexInv'
  BY <1>1, Zenon DEF IndexInv, infoVars
<1>3. ASSUME NEW h \in khandlers, Matches(h, n, loaded), RunCallbacks(h, n)
      PROVE  HitInv'
  <2>1. h.index = kindex[h.id] /\ h.index # 0 /\ h.id \in Kexts
    BY Zenon DEF IndexInv, InfoTypeOK, Handler
  <2>2. ASSUME NEW x \in HitKeys, hits'[x] > 0, hits'[x] # hits[x]
        PROVE  x[3] \in current /\ x[2] = kid[x[3]] /\ kindex[x[2]] # 0
    <3>1. x[3] = n /\ loadIndex[<<x[1], x[2]>>] = h.index
      BY <1>3, <2>2 DEF RunCallbacks
    <3>2. x[1] \in Plugins /\ x[2] \in Kexts
      BY Zenon DEF HitKeys
    <3>3. kindex[x[2]] = kindex[h.id] /\ kindex[x[2]] # 0
      BY <2>1, <3>1, <3>2, Zenon DEF IndexInv
    <3>4. x[2] = h.id
      BY <2>1, <3>2, <3>3, Zenon DEF IndexInv
    <3> QED
      BY <1>3, <3>1, <3>3, <3>4, Zenon DEF Matches
  <2> QED
    BY <2>2 DEF HitInv, infoVars
<1> QED
  BY <1>2, <1>3, Zenon DEF ProcessKext, HitInv, infoVars

\* A step keeps the indices unambiguous and the patched kexts right.
LEMMA HitStep == TypeOK /\ IndexInv /\ HitInv /\ [Next]_vars => IndexInv' /\ HitInv'
<1> SUFFICES ASSUME TypeOK, IndexInv, HitInv, [Next]_vars PROVE IndexInv' /\ HitInv'
  OBVIOUS
<1>1. ASSUME UNCHANGED <<infoVars, watchVars, kid, current>> PROVE IndexInv' /\ HitInv'
  BY <1>1, Zenon DEF IndexInv, HitInv, infoVars, watchVars
<1>2. ASSUME NEW p \in Plugins, RequestAccess(p) \/ PluginStart(p) \/ ReleaseAccess(p)
      PROVE  IndexInv' /\ HitInv'
  BY <1>1, <1>2, Zenon DEF RequestAccess, PluginStart, ReleaseAccess, osVars
<1>3. CASE InitConsole \/ FinaliseRequests \/ InitUserPatcher \/ Activate \/ BootWalkEnd
         \/ StoreActivated
  BY <1>1, <1>3 DEF InitConsole, FinaliseRequests, InitUserPatcher, Activate, BootWalkEnd,
     StoreActivated, osVars
<1>4. CASE ProcessRequest
  <2>1. \A x \in HitKeys : x[2] \in Kexts
    BY DEF HitKeys
  <2>2. HitInv'
    BY <1>4, <2>1, ProcessRequestIndex, Zenon DEF HitInv, ProcessRequest, osVars
  <2> QED
    BY <1>4, <2>2, ProcessRequestIndex
<1>5. CASE BootWalkStep \/ HookWalkStep
  BY <1>1, <1>5, ProcessKextHits, Zenon DEF BootWalkStep, HookWalkStep, osVars
<1>6. CASE LoadHook \/ UnloadHook
  BY <1>1, <1>6, ProcessKextHits, Zenon DEF LoadHook, UnloadHook, PanicListHook
<1>7. CASE HookWalkEnd \/ UnlinkKext \/ UnloadEnd
  BY <1>1, <1>7, Zenon DEF HookWalkEnd, UnlinkKext, UnloadEnd
<1>8. ASSUME NEW k \in Kexts, LoadKext(k) PROVE IndexInv' /\ HitInv'
  <2>1. IndexInv'
    BY <1>8, Zenon DEF LoadKext, IndexInv, infoVars, watchVars
  <2>2. nloads \in Nat /\ \A n \in current : n \in Insts /\ n # nloads + 1
    BY <1>8, MaxLoadsAssumption DEF LoadKext, TypeOK, LoaderTypeOK, Insts
  <2>3. \A n \in current : kid'[n] = kid[n] /\ n \in current'
    BY <1>8, <2>2 DEF LoadKext, TypeOK, InfoTypeOK
  <2> QED
    BY <1>8, <2>1, <2>3 DEF LoadKext, HitInv, infoVars, watchVars
<1>9. ASSUME NEW n \in kmods, UnloadKext(n) PROVE IndexInv' /\ HitInv'
  BY <1>1, <1>9, Zenon DEF UnloadKext
<1>10. CASE UNCHANGED vars
  BY <1>1, <1>10, Zenon DEF vars, osVars
<1> QED
  BY <1>2, <1>3, <1>4, <1>5, <1>6, <1>7, <1>8, <1>9, <1>10
  DEF Next, PluginNext, BootNext, LoaderStep, LoaderStart

\* The initial state has no index, no handler and no patched kext.
LEMMA HitInit == Init => IndexInv /\ HitInv
BY DEF Init, IndexInv, HitInv

\* Load indices shared between plug-ins never send a loaded kext to another kext's
\* patches, nor a kext whose binary Lilu does not know to any patch.
THEOREM PatchedAsItselfAlways == Spec => []PatchedAsItself
<1>1. HitInv => PatchedAsItself
  BY Zenon DEF HitInv, PatchedAsItself
<1> QED
  BY <1>1, TypeCorrect, HitInit, HitStep, PTL DEF Spec
-----------------------------------------------------------------------------
(* A kext is patched at most once.                                         *)

\* No entry is Reloadable, as in Kryptonite's kextList.
NoReloadable ==
  \A p \in Plugins : \A i \in 1 .. Len(KextInfos[p]) :
    "Reloadable" \notin KextInfos[p][i].sys

PlainRequest == {r \in Request : "Reloadable" \notin r.info.sys}

\* A kext has at most one handler, which is gone once it has been used.
OnceInv ==
  /\ storedKexts \in Seq(PlainRequest)
  /\ \A h \in khandlers : "Reloadable" \notin h.sys
  /\ \A g, h \in khandlers : g.id = h.id => g = h
  /\ \A x \in HitKeys : hits[x] <= 1
  /\ \A x \in HitKeys : hits[x] # 0 => \A h \in khandlers : h.id # x[2]

\* Turning a request into a handler: the first handler of a kext comes before its
\* first patch.
LEMMA ProcessRequestOnce ==
  ASSUME TypeOK, IndexInv, HitInv, OnceInv, ProcessRequest
  PROVE  OnceInv'
<1> USE DEF TypeOK
<1> DEFINE r == Head(storedKexts)
<1>1. r \in PlainRequest /\ Tail(storedKexts) \in Seq(PlainRequest) /\ <<>> \in Seq(PlainRequest)
  BY SeqFacts, SMTT(30) DEF ProcessRequest, OnceInv
<1>2. r.info.id \in Kexts /\ "Reloadable" \notin r.info.sys
  BY <1>1 DEF PlainRequest, Request, KextInfo
<1>3. storedKexts' \in Seq(PlainRequest)
  <2>1. storedKexts' \in {Tail(storedKexts), <<>>}
    BY Zenon DEF ProcessRequest, SkipRequest, ShareKinfo, KinfoMissing, ListeningFails,
           HandlerFails, WaitOnKext
  <2> QED
    BY <1>1, <2>1, Zenon
<1>4. hits' = hits
  BY DEF ProcessRequest
<1>5. CASE khandlers' = khandlers
  BY <1>3, <1>4, <1>5, Zenon DEF OnceInv
<1>6. CASE ShareKinfo(r)
  <2> DEFINE u(h) == IF h.id = r.info.id THEN [h EXCEPT !.sys = @ \cup r.info.sys] ELSE h
  <2>1. \A h \in Handler : \A S : /\ [h EXCEPT !.sys = @ \cup S].id = h.id
                                  /\ [h EXCEPT !.sys = @ \cup S].sys = h.sys \cup S
    BY DEF Handler
  <2>2. \A h \in khandlers : h \in Handler
    BY DEF InfoTypeOK
  <2>3. ASSUME NEW h \in khandlers
        PROVE  u(h).id = h.id /\ (u(h).sys = h.sys \/ u(h).sys = h.sys \cup r.info.sys)
    BY <2>1, <2>2
  <2>4. ASSUME NEW g \in khandlers' PROVE \E h \in khandlers : g = u(h)
    BY <1>6, <2>4 DEF ShareKinfo
  <2> HIDE DEF u
  <2>5. \A h \in khandlers' : "Reloadable" \notin h.sys
    BY <1>2, <2>3, <2>4 DEF OnceInv
  <2>6. \A g, h \in khandlers' : g.id = h.id => g = h
    BY <2>3, <2>4 DEF OnceInv
  <2>7. \A x \in HitKeys : hits[x] # 0 => \A h \in khandlers' : h.id # x[2]
    BY <2>3, <2>4 DEF OnceInv
  <2> QED
    BY <1>3, <1>4, <2>5, <2>6, <2>7, Zenon DEF OnceInv
<1>7. CASE WaitOnKext(r)
  <2>1. kindex[r.info.id] = 0
    BY <1>7 DEF WaitOnKext, AddKinfo
  <2>2. \A h \in khandlers : h.id # r.info.id
    BY <2>1, ZenonT(30) DEF IndexInv, InfoTypeOK, Handler
  <2>3. \A x \in HitKeys : hits[x] # 0 => x[2] # r.info.id
    BY <2>1 DEF HitInv, InfoTypeOK
  <2>4. PICK n : /\ khandlers' = khandlers \cup {n}
                 /\ n = [id |-> r.info.id, index |-> nkinfos, sys |-> r.info.sys]
    BY <1>7, Zenon DEF WaitOnKext
  <2>5. n.id = r.info.id /\ n.sys = r.info.sys
    BY <2>4, Zenon
  <2> QED
    BY <1>2, <1>3, <1>4, <2>2, <2>3, <2>4, <2>5 DEF OnceInv
<1> QED
  BY <1>5, <1>6, <1>7, ZenonT(30) DEF ProcessRequest, SkipRequest, KinfoMissing, ListeningFails,
     HandlerFails

\* Handling a kext uses its handler up.
LEMMA ProcessKextOnce ==
  ASSUME TypeOK, IndexInv, OnceInv, UNCHANGED storedKexts,
         NEW n, NEW loaded, ProcessKext(n, loaded)
  PROVE  OnceInv'
<1> USE DEF TypeOK
<1>1. ASSUME NEW h \in khandlers, RunCallbacks(h, n), khandlers' = khandlers \ {h}
      PROVE  OnceInv'
  <2>1. h.index = kindex[h.id] /\ h.index # 0 /\ h.id \in Kexts
    BY Zenon DEF IndexInv, InfoTypeOK, Handler
  <2>2. ASSUME NEW x \in HitKeys, hits'[x] # hits[x]
        PROVE  x[2] = h.id /\ hits'[x] = hits[x] + 1
    <3>1. loadIndex[<<x[1], x[2]>>] = h.index /\ hits'[x] = hits[x] + 1
      BY <1>1, <2>2 DEF RunCallbacks
    <3>2. x[1] \in Plugins /\ x[2] \in Kexts
      BY Zenon DEF HitKeys
    <3>3. kindex[x[2]] = kindex[h.id] /\ kindex[x[2]] # 0
      BY <2>1, <3>1, <3>2, Zenon DEF IndexInv
    <3> QED
      BY <2>1, <3>1, <3>2, <3>3 DEF IndexInv
  <2>3. \A g \in khandlers' : g.id # h.id
    BY <1>1, Zenon DEF OnceInv
  <2>4. \A x \in HitKeys : hits[x] \in Nat /\ (x[2] = h.id => hits[x] = 0)
    BY Zenon DEF OnceInv, InfoTypeOK
  <2>5. \A x \in HitKeys : hits'[x] <= 1
    BY <2>2, <2>4 DEF OnceInv
  <2>6. \A x \in HitKeys : hits'[x] # 0 => \A g \in khandlers' : g.id # x[2]
    BY <1>1, <2>2, <2>3, Zenon DEF OnceInv
  <2> QED
    BY <1>1, <2>5, <2>6, Zenon DEF OnceInv
<1> QED
  BY <1>1, Zenon DEF ProcessKext, OnceInv

\* A step hands no kext twice to a plug-in.
LEMMA OnceStep ==
  ASSUME NoReloadable
  PROVE  TypeOK /\ IndexInv /\ HitInv /\ OnceInv /\ [Next]_vars => OnceInv'
<1> SUFFICES ASSUME TypeOK, IndexInv, HitInv, OnceInv, [Next]_vars PROVE OnceInv'
  OBVIOUS
<1>1. ASSUME UNCHANGED <<storedKexts, watchVars>> PROVE OnceInv'
  BY <1>1, Zenon DEF OnceInv, watchVars
<1>2. ASSUME NEW p \in Plugins, PluginStart(p) PROVE OnceInv'
  <2>1. RequestsOf(p) \in Seq(PlainRequest)
    <3>1. KextInfos[p] \in Seq(KextInfo)
      BY KextInfosAssumption, Zenon
    <3>2. \A i \in 1 .. Len(KextInfos[p]) :
            [plugin |-> p, info |-> KextInfos[p][i]] \in PlainRequest
      BY <3>1 DEF PlainRequest, Request, NoReloadable
    <3> QED
      BY <3>1, <3>2 DEF RequestsOf
  <2>2. storedKexts' \in Seq(PlainRequest)
    BY <1>2, <2>1, SeqFacts, Zenon DEF PluginStart, OnKextLoad, OnceInv
  <2> QED
    BY <1>2, <2>2, Zenon DEF OnceInv, PluginStart, watchVars
<1>3. ASSUME NEW p \in Plugins, RequestAccess(p) \/ ReleaseAccess(p) PROVE OnceInv'
  BY <1>1, <1>3, Zenon DEF RequestAccess, ReleaseAccess
<1>4. CASE InitConsole \/ FinaliseRequests \/ InitUserPatcher \/ Activate \/ BootWalkEnd
         \/ StoreActivated
  BY <1>1, <1>4, Zenon DEF InitConsole, FinaliseRequests, InitUserPatcher, Activate, BootWalkEnd,
     StoreActivated, pluginVars
<1>5. CASE ProcessRequest
  BY <1>5, ProcessRequestOnce
<1>6. CASE BootWalkStep \/ HookWalkStep
  BY <1>1, <1>6, ProcessKextOnce, Zenon DEF BootWalkStep, HookWalkStep, pluginVars
<1>7. CASE LoadHook \/ UnloadHook
  BY <1>1, <1>7, ProcessKextOnce, Zenon DEF LoadHook, UnloadHook, PanicListHook, pluginVars
<1>8. CASE HookWalkEnd \/ UnlinkKext \/ UnloadEnd
  BY <1>1, <1>8, Zenon DEF HookWalkEnd, UnlinkKext, UnloadEnd, pluginVars
<1>9. ASSUME NEW k \in Kexts, LoadKext(k) PROVE OnceInv'
  BY <1>1, <1>9, Zenon DEF LoadKext, pluginVars
<1>10. ASSUME NEW n \in kmods, UnloadKext(n) PROVE OnceInv'
  BY <1>1, <1>10, Zenon DEF UnloadKext, pluginVars
<1>11. CASE UNCHANGED vars
  BY <1>1, <1>11, Zenon DEF vars, pluginVars
<1> QED
  BY <1>2, <1>3, <1>4, <1>5, <1>6, <1>7, <1>8, <1>9, <1>10, <1>11
  DEF Next, PluginNext, BootNext, LoaderStep, LoaderStart

\* When no plug-in registers a Reloadable kext (Kryptonite does not), no plug-in is
\* ever called twice for a kext, whatever the interleaving of the boot walk, the
\* hooks, loads and unloads.
THEOREM PatchedOnce ==
  ASSUME NoReloadable
  PROVE  Spec => []PatchedAtMostOnce
<1>1. Init => OnceInv
  BY SeqFacts DEF Init, OnceInv
<1>2. OnceInv /\ TypeOK => PatchedAtMostOnce
  <2>1. ASSUME OnceInv, TypeOK, NEW x \in HitKeys, hits[x] > 1 PROVE FALSE
    BY <2>1 DEF OnceInv, TypeOK, InfoTypeOK
  <2> QED
    BY <2>1, Zenon DEF PatchedAtMostOnce
<1>3. TypeOK /\ IndexInv /\ HitInv /\ OnceInv /\ [Next]_vars => OnceInv'
  BY OnceStep
<1> QED
  BY <1>1, <1>2, <1>3, TypeCorrect, HitInit, HitStep, PTL DEF Spec
-----------------------------------------------------------------------------
(* A loaded kext is missed only in the window of activate.                 *)

\* The entries of a kext agree on whether they want it when it is already loaded,
\* as those of Kryptonite's kextList do.  A plug-in that adds the Loaded flag to a
\* handler made without it does not set waitingForAlreadyLoadedKexts.
WantsLoaded(k) ==
  \E p \in Plugins : \E i \in 1 .. Len(KextInfos[p]) :
    KextInfos[p][i].id = k /\ "Loaded" \in KextInfos[p][i].sys
LoadedAgrees ==
  \A p \in Plugins : \A i \in 1 .. Len(KextInfos[p]) :
    WantsLoaded(KextInfos[p][i].id) => "Loaded" \in KextInfos[p][i].sys

AgreeingRequest ==
  {r \in Request : "Loaded" \in r.info.sys <=> WantsLoaded(r.info.id)}

\* Handlers agree with the entries they were made from, and until the list of loaded
\* kexts is walked one that wants loaded kexts keeps the patcher waiting.
WantInv ==
  /\ storedKexts \in Seq(AgreeingRequest)
  /\ \A h \in khandlers : "Loaded" \in h.sys <=> WantsLoaded(h.id)
  /\ boot \in {"open", "closing", "register", "activate"} \/ (~BigSur /\ boot = "store") =>
       \A h \in khandlers : "Loaded" \in h.sys => waiting

\* The loader's steps exclude one another.
LoaderInv ==
  /\ isKextUnloading => os \in {"unload", "unlinked", "unloaded"}
  /\ os = "load" => osInst = nloads /\ nloads \in kmods
  /\ os = "walk" => boot = "done" /\ waiting
  /\ boot = "walk" => BigSur
  /\ BigSur /\ boot \in {"store", "done"} => ~waiting

\* No plug-in has been kept from the kext numbered n.
Served(n) ==
  \A p \in Plugins :
    p \in callbacks /\ n \in current /\ loadIndex[<<p, kid[n]>>] # 0
      /\ (\E h \in khandlers : h.id = kid[n] /\ "Loaded" \in h.sys)
      => hits[<<p, kid[n], n>>] # 0
Loading(n) == os = "load" /\ n = osInst

\* What each walk has left behind it is served, and so is every loaded kext once the
\* walk is over.
ServedInv ==
  /\ os = "walk" => \A n \in kmods : n > cursor => Served(n)
  /\ boot = "walk" =>
       \A n \in kmods : n > cursor => Served(n) \/ n \in passedOver \/ Loading(n)
  /\ BigSur /\ (boot = "store" \/ (boot = "done" /\ that)) =>
       \A n \in kmods : Served(n) \/ n \in passedOver \/ Loading(n)
  /\ ~BigSur /\ boot = "done" /\ that /\ ~waiting =>
       \A n \in kmods : Served(n) \/ Loading(n)

\* Turning a request into a handler keeps the handlers in agreement with the entries.
LEMMA ProcessRequestWant ==
  ASSUME TypeOK, WantInv, ProcessRequest
  PROVE  WantInv'
<1> USE DEF TypeOK
<1> DEFINE r == Head(storedKexts)
<1>1. /\ r \in AgreeingRequest /\ Tail(storedKexts) \in Seq(AgreeingRequest)
      /\ <<>> \in Seq(AgreeingRequest)
  BY SeqFacts, Zenon DEF ProcessRequest, WantInv
<1>2. r.info.id \in Kexts /\ ("Loaded" \in r.info.sys <=> WantsLoaded(r.info.id))
  BY <1>1 DEF AgreeingRequest, Request, KextInfo
<1>3. storedKexts' \in Seq(AgreeingRequest)
  <2>1. storedKexts' \in {Tail(storedKexts), <<>>}
    BY Zenon DEF ProcessRequest, SkipRequest, ShareKinfo, KinfoMissing, ListeningFails,
           HandlerFails, WaitOnKext
  <2> QED
    BY <1>1, <2>1, Zenon
<1>4. boot = "register" /\ boot' = "register"
  BY DEF ProcessRequest
<1>5. waiting => waiting'
  BY Zenon DEF ProcessRequest, SkipRequest, ShareKinfo, KinfoMissing, ListeningFails,
         HandlerFails, WaitOnKext, FlagTypeOK
<1>6. \A h \in khandlers : ("Loaded" \in h.sys <=> WantsLoaded(h.id))
                           /\ ("Loaded" \in h.sys => waiting)
  BY <1>4, Zenon DEF WantInv
<1>7. SUFFICES \A h \in khandlers' : ("Loaded" \in h.sys <=> WantsLoaded(h.id))
                                     /\ ("Loaded" \in h.sys => waiting')
  BY <1>3, <1>4, Zenon DEF WantInv, WantsLoaded
<1>8. CASE khandlers' = khandlers
  BY <1>5, <1>6, <1>8, Zenon
<1>9. CASE ShareKinfo(r)
  <2> DEFINE u(h) == IF h.id = r.info.id THEN [h EXCEPT !.sys = @ \cup r.info.sys] ELSE h
  <2>1. \A h \in Handler : \A S : /\ [h EXCEPT !.sys = @ \cup S].id = h.id
                                  /\ [h EXCEPT !.sys = @ \cup S].sys = h.sys \cup S
    BY Zenon DEF Handler
  <2>2. \A h \in khandlers : h \in Handler
    BY DEF InfoTypeOK
  <2>3. ASSUME NEW h \in khandlers
        PROVE  /\ u(h).id = h.id
               /\ \/ u(h).sys = h.sys
                  \/ u(h).sys = h.sys \cup r.info.sys /\ h.id = r.info.id
    BY <2>1, <2>2, ZenonT(30)
  <2>4. ASSUME NEW g \in khandlers' PROVE \E h \in khandlers : g = u(h)
    BY <1>9, <2>4, Zenon DEF ShareKinfo
  <2> HIDE DEF u
  <2>5. ASSUME NEW h \in khandlers
        PROVE  ("Loaded" \in u(h).sys <=> WantsLoaded(u(h).id))
               /\ ("Loaded" \in u(h).sys => waiting')
    <3>1. "Loaded" \in u(h).sys <=> "Loaded" \in h.sys
      BY <1>2, <1>6, <2>3, Zenon
    <3> QED
      BY <1>5, <1>6, <2>3, <3>1, Zenon
  <2> QED
    BY <2>4, <2>5
<1>10. CASE WaitOnKext(r)
  <2>1. PICK n : /\ khandlers' = khandlers \cup {n}
                 /\ n = [id |-> r.info.id, index |-> nkinfos, sys |-> r.info.sys]
    BY <1>10, Zenon DEF WaitOnKext
  <2>2. n.id = r.info.id /\ n.sys = r.info.sys
    BY <2>1
  <2>3. "Loaded" \in n.sys => waiting'
    BY <1>10, <2>2, Zenon DEF WaitOnKext, FlagTypeOK
  <2> QED
    BY <1>2, <1>5, <1>6, <2>1, <2>2, <2>3
<1> QED
  BY <1>8, <1>9, <1>10 DEF ProcessRequest, SkipRequest, KinfoMissing, ListeningFails,
     HandlerFails

\* A walk or a hook only takes handlers away.
LEMMA ProcessKextShrinks ==
  ASSUME NEW n, NEW loaded, ProcessKext(n, loaded)
  PROVE  khandlers' \subseteq khandlers
BY Zenon DEF ProcessKext

\* A step keeps the handlers in agreement with the entries.
LEMMA WantStep ==
  ASSUME LoadedAgrees
  PROVE  TypeOK /\ LoaderInv /\ WantInv /\ [Next]_vars => WantInv'
<1> SUFFICES ASSUME TypeOK, LoaderInv, WantInv, [Next]_vars PROVE WantInv'
  OBVIOUS
<1>0. ASSUME UNCHANGED <<storedKexts, BigSur>>, khandlers' \subseteq khandlers,
             \/ UNCHANGED <<boot, waiting>>
             \/ boot' \in {"closing", "register", "activate"} /\ UNCHANGED waiting
                  /\ boot \in {"open", "closing", "register"}
             \/ boot' \notin {"open", "closing", "register", "activate", "store"}
             \/ boot' = "store" /\ (BigSur \/ (boot = "activate" /\ UNCHANGED waiting))
             \/ boot' = boot /\ boot \notin {"open", "closing", "register", "activate", "store"}
      PROVE  WantInv'
  BY <1>0 DEF WantInv, WantsLoaded
<1>1. UNCHANGED BigSur
  BY Zenon DEF Next, InitConsole, PluginNext, BootNext, LoaderStep, LoaderStart, vars
<1>2. ASSUME NEW p \in Plugins, PluginStart(p) PROVE WantInv'
  <2>1. RequestsOf(p) \in Seq(AgreeingRequest)
    <3>1. KextInfos[p] \in Seq(KextInfo)
      BY KextInfosAssumption, Zenon
    <3>2. ASSUME NEW i \in 1 .. Len(KextInfos[p])
          PROVE  [plugin |-> p, info |-> KextInfos[p][i]] \in AgreeingRequest
      <4>1. KextInfos[p][i] \in KextInfo
        BY <3>1
      <4>2. "Loaded" \in KextInfos[p][i].sys <=> WantsLoaded(KextInfos[p][i].id)
        BY Zenon DEF LoadedAgrees, WantsLoaded
      <4> QED
        BY <4>1, <4>2, Zenon DEF AgreeingRequest, Request
    <3> QED
      BY <3>1, <3>2 DEF RequestsOf
  <2>2. storedKexts' \in Seq(AgreeingRequest)
    BY <1>2, <2>1, SeqFacts, Zenon DEF PluginStart, OnKextLoad, WantInv
  <2> QED
    BY <1>1, <1>2, <2>2, Zenon DEF WantInv, PluginStart, watchVars, flagVars, WantsLoaded
<1>3. ASSUME NEW p \in Plugins, RequestAccess(p) \/ ReleaseAccess(p) PROVE WantInv'
  BY <1>0, <1>1, <1>3, Zenon DEF RequestAccess, ReleaseAccess, watchVars, flagVars
<1>4. CASE InitConsole \/ FinaliseRequests
  <2>1. UNCHANGED <<storedKexts, khandlers, waiting>>
    BY <1>4, Zenon DEF InitConsole, FinaliseRequests, pluginVars, watchVars, flagVars
  <2>2. boot \in {"open", "closing"} /\ boot' \in {"closing", "register", "unstarted"}
    BY <1>4 DEF InitConsole, FinaliseRequests
  <2> QED
    BY <1>0, <1>1, <2>1, <2>2
<1>5. CASE InitUserPatcher
  BY <1>0, <1>1, <1>5, Zenon DEF InitUserPatcher, watchVars, pluginVars
<1>6. CASE Activate
  BY <1>0, <1>1, <1>6, Zenon DEF Activate, watchVars, flagVars, pluginVars
<1>7. CASE BootWalkEnd
  BY <1>0, <1>1, <1>7, Zenon DEF BootWalkEnd, watchVars, pluginVars, LoaderInv
<1>8. CASE StoreActivated
  BY <1>0, <1>1, <1>8 DEF StoreActivated, watchVars, pluginVars
<1>9. CASE ProcessRequest
  BY <1>9, ProcessRequestWant
<1>10. CASE BootWalkStep
  BY <1>0, <1>1, <1>10, ProcessKextShrinks, Zenon DEF BootWalkStep, pluginVars,
     flagVars, watchVars
<1>11. CASE HookWalkStep
  BY <1>0, <1>1, <1>11, ProcessKextShrinks, Zenon DEF HookWalkStep, pluginVars, flagVars
<1>12. CASE LoadHook \/ UnloadHook
  <2>1. khandlers' \subseteq khandlers
    BY <1>12, ProcessKextShrinks, Zenon DEF LoadHook, UnloadHook, PanicListHook, watchVars
  <2> QED
    BY <1>0, <1>1, <1>12, <2>1 DEF LoadHook, UnloadHook, pluginVars, flagVars
<1>13. CASE HookWalkEnd
  BY <1>0, <1>1, <1>13, Zenon DEF HookWalkEnd, LoaderInv, pluginVars, watchVars
<1>14. CASE UnlinkKext \/ UnloadEnd
  BY <1>0, <1>1, <1>14, Zenon DEF UnlinkKext, UnloadEnd, pluginVars, watchVars, flagVars
<1>15. ASSUME NEW k \in Kexts, LoadKext(k) PROVE WantInv'
  BY <1>0, <1>1, <1>15, Zenon DEF LoadKext, pluginVars, watchVars, flagVars
<1>16. ASSUME NEW n \in kmods, UnloadKext(n) PROVE WantInv'
  BY <1>0, <1>1, <1>16, Zenon DEF UnloadKext, pluginVars, watchVars
<1>17. CASE UNCHANGED vars
  BY <1>0, <1>1, <1>17 DEF vars, pluginVars, watchVars, flagVars
<1> QED
  BY <1>2, <1>3, <1>4, <1>5, <1>6, <1>7, <1>8, <1>9, <1>10, <1>11, <1>12, <1>13, <1>14,
     <1>15, <1>16, <1>17
  DEF Next, PluginNext, BootNext, LoaderStep, LoaderStart

\* A hook that returns, or that begins a walk.
LEMMA HookOutcome ==
  ASSUME NEW after, PanicListHook(after)
  PROVE  \/ os' = after /\ UNCHANGED cursor
         \/ os' = "walk" /\ boot = "done" /\ waiting /\ ~isKextUnloading
BY Zenon DEF PanicListHook, activated

\* A step keeps the loader's steps apart.
LEMMA LoaderInvStep == TypeOK /\ LoaderInv /\ [Next]_vars => LoaderInv'
<1> SUFFICES ASSUME TypeOK, LoaderInv, [Next]_vars PROVE LoaderInv'
  OBVIOUS
<1>0. ASSUME UNCHANGED <<osVars, flagVars, boot, BigSur>> PROVE LoaderInv'
  BY <1>0, Zenon DEF LoaderInv, osVars, flagVars
<1>1. UNCHANGED BigSur
  BY Zenon DEF Next, InitConsole, PluginNext, BootNext, LoaderStep, LoaderStart, vars
<1>2. ASSUME NEW p \in Plugins, RequestAccess(p) \/ PluginStart(p) \/ ReleaseAccess(p)
      PROVE  LoaderInv'
  BY <1>0, <1>1, <1>2, Zenon DEF RequestAccess, PluginStart, ReleaseAccess
<1>3. CASE InitConsole \/ FinaliseRequests
  <2>1. UNCHANGED <<osVars, flagVars>>
    BY <1>3, Zenon DEF InitConsole, FinaliseRequests
  <2>2. boot \in {"open", "closing"} /\ boot' \in {"closing", "register", "unstarted"}
    BY <1>3 DEF InitConsole, FinaliseRequests
  <2> QED
    BY <1>1, <2>1, <2>2 DEF LoaderInv, osVars, flagVars
<1>4. CASE ProcessRequest
  BY <1>1, <1>4, Zenon DEF ProcessRequest, LoaderInv, osVars
<1>5. CASE InitUserPatcher
  BY <1>1, <1>5, Zenon DEF InitUserPatcher, LoaderInv, osVars
<1>6. CASE Activate
  BY <1>1, <1>6 DEF Activate, LoaderInv, osVars, flagVars
<1>7. CASE BootWalkStep \/ HookWalkStep
  BY <1>0, <1>1, <1>7, Zenon DEF BootWalkStep, HookWalkStep
<1>8. CASE BootWalkEnd
  BY <1>1, <1>8, Zenon DEF BootWalkEnd, LoaderInv, osVars
<1>9. CASE StoreActivated
  BY <1>1, <1>9, Zenon DEF StoreActivated, LoaderInv, osVars
<1>10. CASE LoadHook
  BY <1>1, <1>10, HookOutcome, Zenon DEF LoadHook, LoaderInv, flagVars
<1>11. CASE UnloadHook
  BY <1>1, <1>11, HookOutcome, Zenon DEF UnloadHook, LoaderInv, flagVars
<1>12. CASE HookWalkEnd
  BY <1>1, <1>12, Zenon DEF HookWalkEnd, LoaderInv
<1>13. CASE UnlinkKext
  BY <1>1, <1>13, Zenon DEF UnlinkKext, LoaderInv, flagVars
<1>14. CASE UnloadEnd
  BY <1>1, <1>14, Zenon DEF UnloadEnd, LoaderInv
<1>15. ASSUME NEW k \in Kexts, LoadKext(k) PROVE LoaderInv'
  BY <1>1, <1>15, Zenon DEF LoadKext, LoaderInv, flagVars
<1>16. ASSUME NEW n \in kmods, UnloadKext(n) PROVE LoaderInv'
  BY <1>1, <1>16, Zenon DEF UnloadKext, LoaderInv
<1>17. CASE UNCHANGED vars
  BY <1>0, <1>17 DEF vars
<1> QED
  BY <1>2, <1>3, <1>4, <1>5, <1>6, <1>7, <1>8, <1>9, <1>10, <1>11, <1>12, <1>13, <1>14,
     <1>15, <1>16, <1>17
  DEF Next, PluginNext, BootNext, LoaderStep, LoaderStart

\* Where no handler wants loaded kexts, every kext is served.
LEMMA ServedUnwanted ==
  ASSUME NEW n, \A h \in khandlers : "Loaded" \notin h.sys
  PROVE  Served(n)
BY Zenon DEF Served

\* A kext stays served while handlers are only used and callbacks only run.
LEMMA ServedKept ==
  ASSUME TypeOK, NEW n \in Insts, Served(n), UNCHANGED <<callbacks, loadIndex>>,
         khandlers' \subseteq khandlers, \A x \in HitKeys : hits[x] # 0 => hits'[x] # 0,
         kid'[n] = kid[n], n \in current' => n \in current
  PROVE  Served(n)'
<1>1. ASSUME NEW p \in Plugins PROVE <<p, kid[n], n>> \in HitKeys
  BY DEF TypeOK, LoaderTypeOK, HitKeys
<1> QED
  BY <1>1, Zenon DEF Served

\* Handling a kext serves it.
LEMMA ProcessServes ==
  ASSUME TypeOK, IndexInv, NEW n \in Insts, NEW loaded \in BOOLEAN, ProcessKext(n, loaded),
         UNCHANGED <<callbacks, infoVars, kid, current>>
  PROVE  Served(n)' /\ \A m \in Insts : Served(m) => Served(m)'
<1>1. khandlers' \subseteq khandlers
  BY ProcessKextShrinks, Zenon
<1>2. \A x \in HitKeys : hits[x] \in Nat /\ hits[x] + 1 # 0
  BY DEF TypeOK, InfoTypeOK
<1>3. \A x \in HitKeys : hits[x] # 0 => hits'[x] # 0
  BY <1>2, Zenon DEF ProcessKext, RunCallbacks
<1>4. \A m \in Insts : Served(m) => Served(m)'
  BY <1>1, <1>3, ServedKept, Zenon DEF infoVars
<1>5. ASSUME NEW p \in Plugins, p \in callbacks, n \in current,
             loadIndex[<<p, kid[n]>>] # 0,
             NEW g \in khandlers, g.id = kid[n], "Loaded" \in g.sys
      PROVE  hits'[<<p, kid[n], n>>] # 0
  <2>1. Matches(g, n, loaded)
    BY <1>5, Zenon DEF Matches
  <2>2. PICK h \in khandlers : Matches(h, n, loaded) /\ RunCallbacks(h, n)
    BY <2>1, Zenon DEF ProcessKext
  <2>3. h.id = kid[n] /\ kid[n] \in Kexts
    BY <2>2, Zenon DEF Matches, TypeOK, LoaderTypeOK
  <2>4. h.index = kindex[kid[n]] /\ loadIndex[<<p, kid[n]>>] = kindex[kid[n]]
    BY <1>5, <2>3, Zenon DEF IndexInv
  <2>5. <<p, kid[n], n>> \in HitKeys
    BY <2>3, Zenon DEF HitKeys
  <2> DEFINE x == <<p, kid[n], n>>
  <2>6. x[1] = p /\ x[2] = kid[n] /\ x[3] = n
    OBVIOUS
  <2> HIDE DEF x
  <2>7. x \in HitKeys
    BY <2>5 DEF x
  <2>8. hits'[x] = hits[x] + 1
    BY <1>5, <2>2, <2>4, <2>6, <2>7, Zenon DEF RunCallbacks
  <2> QED
    BY <1>2, <2>7, <2>8 DEF x
<1>6. Served(n)'
  BY <1>1, <1>5, Zenon DEF Served, infoVars
<1> QED
  BY <1>4, <1>6

\* The head of the list is the newest kext in it.
LEMMA HeadIsNewest ==
  ASSUME LoaderTypeOK, NEW m \in Pointers, IsHead(m)
  PROVE  \A n \in kmods : n <= m
<1>1. nloads \in Nat /\ \A n \in kmods : n \in Nat /\ n < nloads + 1
  BY MaxLoadsAssumption DEF LoaderTypeOK
<1>2. Below(nloads + 1) = kmods
  BY <1>1 DEF Below
<1> QED
  BY <1>2, Zenon DEF IsHead, IsNext

\* A walk leaves nothing out.
LEMMA NextIsBelow ==
  ASSUME LoaderTypeOK, NEW c \in 0 .. nloads, NEW m \in Pointers, IsNext(m, c)
  PROVE  \A n \in kmods : n > m => n > c \/ n = c
<1>1. \A n \in kmods : n \in Nat /\ n # 0
  BY MaxLoadsAssumption DEF LoaderTypeOK
<1>2. \A n \in kmods : n < c => n <= m
  BY <1>1, Zenon DEF IsNext, Below
<1>3. c \in Nat /\ m \in Nat
  BY <1>1, MaxLoadsAssumption DEF LoaderTypeOK, Pointers
<1> QED
  BY <1>1, <1>2, <1>3

\* Before activation there is nothing to show.
LEMMA ServedEarly ==
  ASSUME LoaderInv', boot' \in {"open", "closing", "unstarted", "register", "activate", "off"}
  PROVE  ServedInv'
BY Zenon DEF LoaderInv, ServedInv

\* A step that begins no walk and moves no pointer preserves what has been served.
LEMMA ServedFrame ==
  ASSUME ServedInv, UNCHANGED <<BigSur, boot, that, waiting, cursor>>,
         \A n \in kmods : Served(n) => Served(n)',
         \A n \in kmods' : n \in kmods \/ (Loading(n)' /\ os' # "walk"),
         \A n \in kmods : Loading(n) =>
            Loading(n)' \/ Served(n)' \/ (n \in passedOver' /\ boot # "done"),
         passedOver \subseteq passedOver',
         os' = "walk" => os = "walk"
  PROVE  ServedInv'
<1>1. os' = "walk" => \A n \in kmods' : n > cursor' => Served(n)'
  BY Zenon DEF ServedInv
<1>2. boot' = "walk" =>
        \A n \in kmods' : n > cursor' =>
          Served(n)' \/ n \in passedOver' \/ Loading(n)'
  BY Zenon DEF ServedInv
<1>3. BigSur' /\ (boot' = "store" \/ (boot' = "done" /\ that')) =>
        \A n \in kmods' : Served(n)' \/ n \in passedOver' \/ Loading(n)'
  BY Zenon DEF ServedInv
<1>4. ~BigSur' /\ boot' = "done" /\ that' /\ ~waiting' =>
        \A n \in kmods' : Served(n)' \/ Loading(n)'
  BY Zenon DEF ServedInv
<1> QED
  BY <1>1, <1>2, <1>3, <1>4, Zenon DEF ServedInv

\* The start of the walk on Big Sur, and the step past it.
LEMMA ActivateServed ==
  ASSUME TypeOK, WantInv, LoaderInv', Activate, UNCHANGED BigSur
  PROVE  ServedInv'
<1>1. boot = "activate" /\ UNCHANGED <<kmods, waiting, khandlers>>
  BY DEF Activate, osVars, flagVars, watchVars
<1>2. CASE BigSur /\ waiting
  <2>1. boot' = "walk" /\ cursor' \in Pointers /\ IsHead(cursor')
    BY <1>2 DEF Activate
  <2>2. \A n \in kmods : n <= cursor'
    BY <2>1, HeadIsNewest DEF TypeOK
  <2>3. \A n \in kmods : ~(n > cursor')
    <3>1. cursor' \in Nat /\ \A n \in kmods : n \in Nat
      BY <2>1, MaxLoadsAssumption DEF TypeOK, LoaderTypeOK, Pointers
    <3> QED
      BY <2>2, <3>1
  <2> QED
    BY <1>1, <2>1, <2>3, Zenon DEF ServedInv, LoaderInv
<1>3. CASE ~(BigSur /\ waiting)
  <2>1. boot' = "store"
    BY <1>3 DEF Activate
  <2>2. BigSur => \A h \in khandlers' : "Loaded" \notin h.sys
    BY <1>1, <1>3, Zenon DEF WantInv
  <2>3. BigSur => \A n : Served(n)'
    BY <2>2, Zenon DEF Served
  <2> QED
    BY <2>1, <2>3, Zenon DEF ServedInv, LoaderInv
<1> QED
  BY <1>2, <1>3, Zenon

\* A step of the boot thread's walk.
LEMMA BootWalkServed ==
  ASSUME TypeOK, IndexInv, LoaderInv, LoaderInv', ServedInv, BootWalkStep, UNCHANGED BigSur
  PROVE  ServedInv'
<1>1. /\ boot = "walk" /\ cursor # 0 /\ BigSur
      /\ UNCHANGED <<boot, os, osInst, kmods, nloads, kid, current, callbacks, infoVars>>
  BY Zenon DEF BootWalkStep, osVars, pluginVars, LoaderInv
<1>2. os' # "walk"
  BY <1>1, Zenon DEF LoaderInv
<1>3. cursor \in 1 .. nloads /\ cursor \in Insts
  BY <1>1, MaxLoadsAssumption DEF TypeOK, LoaderTypeOK, Insts
<1>4. kmods \subseteq Insts /\ kmods \subseteq Nat /\ cursor \in Nat
  BY MaxLoadsAssumption DEF TypeOK, LoaderTypeOK, Insts
<1>5. \A n \in kmods : n > cursor => Served(n) \/ n \in passedOver \/ Loading(n)
  BY <1>1, Zenon DEF ServedInv
<1>6. CASE /\ ProcessKext(cursor, TRUE) /\ cursor' \in Pointers /\ IsNext(cursor', cursor)
           /\ UNCHANGED passedOver
  <2>1. PICK c \in Insts : c = cursor
    BY <1>3
  <2>2. Served(c)' /\ \A m \in Insts : Served(m) => Served(m)'
    <3>1. ProcessKext(c, TRUE)
      BY <1>6, <2>1, Zenon
    <3> QED
      BY <1>1, <3>1, ProcessServes, Zenon
  <2>3. \A n \in kmods : n > cursor' => n > cursor \/ n = cursor
    BY <1>3, <1>6, NextIsBelow, Zenon DEF TypeOK, LoaderTypeOK
  <2>4. ASSUME NEW n \in kmods, n > cursor'
        PROVE  Served(n)' \/ n \in passedOver' \/ Loading(n)'
    <3>1. CASE n = cursor
      BY <2>1, <2>2, <3>1, Zenon
    <3>2. CASE n > cursor
      BY <1>1, <1>4, <1>5, <1>6, <2>2, <3>2, Zenon DEF Loading
    <3> QED
      BY <2>3, <2>4, <3>1, <3>2, Zenon
  <2> QED
    BY <1>1, <1>2, <2>4, Zenon DEF ServedInv
<1>7. CASE /\ cursor \notin kmods /\ passedOver' = passedOver \cup Below(cursor)
           /\ UNCHANGED watchVars
  <2>1. \A n \in kmods : n > cursor \/ n \in Below(cursor)
    BY <1>4, <1>7 DEF Below
  <2>2. \A n \in kmods : Served(n) => Served(n)'
    BY <1>1, <1>7, Zenon DEF Served, watchVars, infoVars
  <2>3. ASSUME NEW n \in kmods
        PROVE  Served(n)' \/ n \in passedOver' \/ Loading(n)'
    BY <1>1, <1>5, <1>7, <2>1, <2>2, Zenon DEF Loading
  <2> QED
    BY <1>1, <1>2, <2>3, Zenon DEF ServedInv
<1> QED
  BY <1>6, <1>7, Zenon DEF BootWalkStep

\* A step of the hook's walk, which the loader's lock protects.
LEMMA HookWalkServed ==
  ASSUME TypeOK, IndexInv, LoaderInv, ServedInv, HookWalkStep, UNCHANGED BigSur
  PROVE  ServedInv'
<1>1. /\ os = "walk" /\ boot = "done" /\ waiting /\ cursor # 0 /\ ~BigSur
      /\ UNCHANGED <<boot, os, osInst, kmods, nloads, kid, current, callbacks, waiting,
                     infoVars>>
  BY Zenon DEF HookWalkStep, osVars, pluginVars, flagVars, LoaderInv
<1>2. cursor \in Insts
  BY <1>1, MaxLoadsAssumption DEF TypeOK, LoaderTypeOK, Insts
<1>3. ProcessKext(cursor, TRUE) /\ cursor' \in Pointers /\ IsNext(cursor', cursor)
  BY Zenon DEF HookWalkStep
<1>4. PICK c \in Insts : c = cursor
  BY <1>2
<1>5. Served(c)' /\ \A m \in Insts : Served(m) => Served(m)'
  <2>1. ProcessKext(c, TRUE)
    BY <1>3, <1>4, Zenon
  <2> QED
    BY <1>1, <2>1, ProcessServes, Zenon
<1>6. \A n \in kmods : n > cursor' => n > cursor \/ n = cursor
  BY <1>3, NextIsBelow, Zenon DEF TypeOK, LoaderTypeOK
<1>7. kmods \subseteq Insts
  BY MaxLoadsAssumption DEF TypeOK, LoaderTypeOK, Insts
<1>8. \A n \in kmods : n > cursor => Served(n)
  BY <1>1, Zenon DEF ServedInv
<1>9. \A n \in kmods : n > cursor' => Served(n)'
  BY <1>5, <1>6, <1>7, <1>8, <1>4, Zenon
<1> QED
  BY <1>1, <1>9, Zenon DEF ServedInv

\* The hook's walk starts at the head of the list.
LEMMA WalkStartServed ==
  ASSUME TypeOK, LoaderInv, boot = "done", waiting, os' = "walk", cursor' \in Pointers,
         IsHead(cursor'), UNCHANGED <<BigSur, boot, waiting, kmods>>
  PROVE  ServedInv'
<1>1. \A n \in kmods : n <= cursor'
  BY HeadIsNewest, Zenon DEF TypeOK
<1>2. \A n \in kmods : ~(n > cursor')
  <2>1. cursor' \in Nat /\ \A n \in kmods : n \in Nat
    BY MaxLoadsAssumption DEF TypeOK, LoaderTypeOK, Pointers
  <2> QED
    BY <1>1, <2>1
<1> QED
  BY <1>2, Zenon DEF ServedInv, LoaderInv

\* The hook on a load.
LEMMA LoadHookServed ==
  ASSUME TypeOK, IndexInv, LoaderInv, LoaderInv', WantInv, ServedInv, LoadHook,
         UNCHANGED BigSur
  PROVE  ServedInv'
<1>1. /\ os = "load" /\ osInst = nloads /\ nloads \in kmods /\ ~isKextUnloading
      /\ UNCHANGED <<boot, osInst, kmods, nloads, kid, current, callbacks, that, waiting,
                     infoVars>>
  BY Zenon DEF LoadHook, pluginVars, flagVars, LoaderInv
<1>2. kmods \subseteq Insts /\ nloads \in Insts
  BY <1>1, MaxLoadsAssumption DEF TypeOK, LoaderTypeOK, Insts
<1>3. passedOver \subseteq passedOver'
  BY Zenon DEF LoadHook
<1>4. CASE boot \notin {"walk", "store", "done"}
  BY <1>1, <1>4, ServedEarly DEF TypeOK, FlagTypeOK
<1>5. ASSUME UNCHANGED <<watchVars, cursor>>, os' = "idle",
             boot = "done" => ~that
      PROVE  ServedInv'
  <2>1. CASE boot = "done"
    BY <1>1, <1>5, <2>1, Zenon DEF ServedInv
  <2>2. CASE boot \in {"walk", "store"}
    <3>1. \A n \in kmods : Served(n) => Served(n)'
      BY <1>1, <1>5, Zenon DEF Served, watchVars, infoVars
    <3>2. \A n \in kmods : Loading(n) => n \in passedOver'
      BY <2>2 DEF Loading, LoadHook
    <3> QED
      BY <1>1, <1>3, <1>5, <2>2, <3>1, <3>2, ServedFrame, Zenon
  <2> QED
    BY <1>4, <2>1, <2>2, Zenon
<1>6. CASE boot = "done" /\ that /\ waiting
  <2>1. os' = "walk" /\ cursor' \in Pointers /\ IsHead(cursor')
    BY <1>1, <1>6 DEF LoadHook, PanicListHook, activated
  <2> QED
    BY <1>1, <1>6, <2>1, WalkStartServed, Zenon
<1>7. CASE boot = "done" /\ that /\ ~waiting
  <2>1. /\ os' = "idle" /\ UNCHANGED cursor
        /\ \E m \in Pointers :
             IsHead(m) /\ IF m # 0 THEN ProcessKext(m, FALSE) ELSE UNCHANGED watchVars
    BY <1>1, <1>7, Zenon DEF LoadHook, PanicListHook, activated
  <2>2. PICK m \in Pointers :
             IsHead(m) /\ IF m # 0 THEN ProcessKext(m, FALSE) ELSE UNCHANGED watchVars
    BY <2>1, Zenon
  <2>3. m = nloads /\ m # 0
    <3>1. nloads <= m
      BY <1>1, <2>2, HeadIsNewest, Zenon DEF TypeOK
    <3>2. m \in 0 .. nloads /\ nloads \in Nat
      BY PointersType, MaxLoadsAssumption DEF TypeOK, LoaderTypeOK
    <3>3. nloads # 0
      BY <1>2 DEF Insts
    <3> QED
      BY <3>1, <3>2, <3>3
  <2>4. ProcessKext(nloads, FALSE)
    BY <2>2, <2>3, Zenon
  <2>5. Served(nloads)' /\ \A n \in Insts : Served(n) => Served(n)'
    BY <1>1, <1>2, <2>4, ProcessServes, Zenon
  <2>6. \A n \in kmods : Loading(n) => Served(n)'
    BY <1>1, <2>5, Zenon DEF Loading
  <2> QED
    BY <1>1, <1>2, <1>3, <2>1, <2>5, <2>6, ServedFrame, Zenon
<1> QED
  BY <1>1, <1>4, <1>5, <1>6, <1>7, Zenon DEF LoadHook, PanicListHook, activated,
     TypeOK, FlagTypeOK

\* The hook on an unload that began before the hooks were installed, or that is
\* flagged.
LEMMA UnloadHookServed ==
  ASSUME TypeOK, IndexInv, LoaderInv, ServedInv, UnloadHook, UNCHANGED BigSur
  PROVE  ServedInv'
<1>1. /\ os = "unlinked"
      /\ UNCHANGED <<boot, osInst, kmods, nloads, kid, current, callbacks, that, waiting,
                     infoVars, passedOver>>
  BY Zenon DEF UnloadHook, pluginVars, flagVars
<1>2. kmods \subseteq Insts
  BY MaxLoadsAssumption DEF TypeOK, LoaderTypeOK, Insts
<1>4. ASSUME os' = "unloaded", UNCHANGED cursor,
             \A n \in Insts : Served(n) => Served(n)'
      PROVE  ServedInv'
  <2>1. \A n : ~Loading(n)
    BY <1>1 DEF Loading
  <2> QED
    BY <1>1, <1>2, <1>4, <2>1, ServedFrame, Zenon
<1>5. CASE os' = "unloaded" /\ UNCHANGED <<watchVars, cursor>>
  <2>1. \A n \in Insts : Served(n) => Served(n)'
    BY <1>1, <1>5, Zenon DEF Served, watchVars, infoVars
  <2> QED
    BY <1>4, <1>5, <2>1, Zenon
<1>6. CASE /\ activated /\ waiting /\ os' = "walk"
           /\ cursor' \in {m \in Pointers : IsHead(m)}
  <2>1. cursor' \in Pointers /\ IsHead(cursor') /\ boot = "done"
    BY <1>6 DEF activated
  <2> QED
    BY <1>1, <1>6, <2>1, WalkStartServed, Zenon
<1>7. ASSUME os' = "unloaded", UNCHANGED cursor, NEW m \in Pointers, m # 0,
             ProcessKext(m, FALSE)
      PROVE  ServedInv'
  <2>1. m \in Insts
    BY <1>2, <1>7 DEF Pointers
  <2>2. \A n \in Insts : Served(n) => Served(n)'
    BY <1>1, <1>7, <2>1, ProcessServes, Zenon
  <2> QED
    BY <1>4, <1>7, <2>2, Zenon
<1> QED
  BY <1>5, <1>6, <1>7, Zenon DEF UnloadHook, PanicListHook

\* Every step preserves what has been served.
LEMMA ServedStep ==
  /\ TypeOK /\ LockInv /\ IndexInv /\ LoaderInv /\ LoaderInv' /\ WantInv /\ ServedInv
  /\ [Next]_vars
  => ServedInv'
<1> SUFFICES ASSUME TypeOK, LockInv, IndexInv, LoaderInv, LoaderInv', WantInv, ServedInv,
                    [Next]_vars
             PROVE  ServedInv'
  OBVIOUS
<1>1. UNCHANGED BigSur
  BY Zenon DEF Next, InitConsole, PluginNext, BootNext, LoaderStep, LoaderStart, vars
<1>2. kmods \subseteq Insts /\ kmods \subseteq 1 .. nloads /\ nloads \in Nat
  BY MaxLoadsAssumption DEF TypeOK, LoaderTypeOK, Insts
<1>3. ASSUME UNCHANGED <<callbacks, loadIndex, watchVars, kid, current>>
      PROVE  \A n \in kmods : Served(n) => Served(n)'
  BY <1>3, Zenon DEF Served, watchVars
<1>4. ASSUME UNCHANGED <<callbacks, infoVars, watchVars, osVars, flagVars, boot, cursor,
                         passedOver>>
      PROVE  ServedInv'
  <2>1. \A n : Loading(n) => Loading(n)'
    BY <1>4, Zenon DEF Loading, osVars
  <2>3. \A n \in kmods : Served(n) => Served(n)'
    BY <1>3, <1>4, Zenon DEF osVars, infoVars
  <2>4. UNCHANGED <<boot, that, waiting, cursor, kmods, os, passedOver>>
    BY <1>4 DEF osVars, flagVars
  <2> QED
    BY <1>1, <2>1, <2>3, <2>4, ServedFrame, Zenon
<1>5. ASSUME NEW p \in Plugins, RequestAccess(p) \/ ReleaseAccess(p) PROVE ServedInv'
  BY <1>4, <1>5, Zenon DEF RequestAccess, ReleaseAccess
<1>6. ASSUME NEW p \in Plugins, PluginStart(p) PROVE ServedInv'
  <2>1. boot \in {"open", "closing"}
    BY <1>6, NoPluginAssumption, Zenon DEF PluginStart, LockInv, apiRequestsOver
  <2> QED
    BY <1>6, <2>1, ServedEarly, Zenon DEF PluginStart
<1>7. CASE InitConsole \/ FinaliseRequests \/ ProcessRequest \/ InitUserPatcher
  BY <1>7, ServedEarly DEF InitConsole, FinaliseRequests, ProcessRequest, InitUserPatcher
<1>8. CASE Activate
  BY <1>1, <1>8, ActivateServed
<1>9. CASE BootWalkStep
  BY <1>1, <1>9, BootWalkServed
<1>10. CASE BootWalkEnd
  <2>1. /\ boot = "walk" /\ cursor = 0 /\ boot' = "store"
        /\ UNCHANGED <<callbacks, loadIndex, watchVars, os, osInst, kmods, nloads, kid,
                       current, passedOver>>
    BY <1>10, Zenon DEF BootWalkEnd, pluginVars, infoVars, osVars
  <2>2. \A n \in kmods : n > cursor
    BY <1>2, <2>1
  <2>3. \A n \in kmods : Served(n) \/ n \in passedOver \/ Loading(n)
    BY <2>1, <2>2, Zenon DEF ServedInv
  <2>4. \A n : Loading(n) => Loading(n)'
    BY <2>1 DEF Loading
  <2>5. \A n \in kmods : Served(n) => Served(n)'
    BY <1>3, <2>1, Zenon
  <2> QED
    BY <2>1, <2>3, <2>4, <2>5, Zenon DEF ServedInv, LoaderInv
<1>11. CASE StoreActivated
  <2>1. /\ boot = "store" /\ boot' = "done"
        /\ UNCHANGED <<callbacks, loadIndex, watchVars, os, osInst, kmods, nloads, kid,
                       current, passedOver, waiting>>
    BY <1>11 DEF StoreActivated, pluginVars, infoVars, osVars
  <2>2. \A n \in kmods : Served(n) => Served(n)'
    BY <1>3, <2>1, Zenon
  <2>3. \A n : Loading(n) => Loading(n)'
    BY <2>1, Zenon DEF Loading
  <2>4. os' # "walk"
    BY <2>1 DEF LoaderInv
  <2>5. ~BigSur /\ ~waiting => \A n \in kmods : Served(n)
    BY <2>1, ServedUnwanted, Zenon DEF WantInv
  <2>6. BigSur => \A n \in kmods : Served(n) \/ n \in passedOver \/ Loading(n)
    BY <2>1, Zenon DEF ServedInv
  <2> QED
    BY <1>1, <2>1, <2>2, <2>3, <2>4, <2>5, <2>6, Zenon DEF ServedInv
<1>12. CASE LoadHook
  BY <1>1, <1>12, LoadHookServed
<1>13. CASE HookWalkStep
  BY <1>1, <1>13, HookWalkServed
<1>14. CASE HookWalkEnd
  <2>1. /\ os = "walk" /\ cursor = 0 /\ os' = "idle" /\ boot = "done" /\ ~BigSur
        /\ UNCHANGED <<boot, callbacks, loadIndex, watchVars, kmods, kid, current>>
    BY <1>14, Zenon DEF HookWalkEnd, pluginVars, infoVars, LoaderInv
  <2>2. \A n \in kmods : n > cursor
    BY <1>2, <2>1
  <2>3. \A n \in kmods : Served(n)
    BY <2>1, <2>2, Zenon DEF ServedInv
  <2>4. \A n \in kmods : Served(n) => Served(n)'
    BY <1>3, <2>1, Zenon
  <2> QED
    BY <1>1, <2>1, <2>3, <2>4, Zenon DEF ServedInv
<1>15. ASSUME UNCHANGED <<callbacks, loadIndex, watchVars, boot, that, waiting, cursor, kid,
                          current, nloads, passedOver>>,
              kmods' \subseteq kmods, os \notin {"load", "walk"}, os' \notin {"load", "walk"}
       PROVE  ServedInv'
  <2>1. \A n : ~Loading(n)
    BY <1>15, Zenon DEF Loading
  <2>3. \A n \in kmods : Served(n) => Served(n)'
    BY <1>3, <1>15, Zenon
  <2> QED
    BY <1>1, <1>15, <2>1, <2>3, ServedFrame, Zenon
<1>16. CASE UnlinkKext
  BY <1>15, <1>16, Zenon DEF UnlinkKext, pluginVars, infoVars, flagVars
<1>17. CASE UnloadHook
  BY <1>1, <1>17, UnloadHookServed
<1>18. CASE UnloadEnd
  BY <1>15, <1>18 DEF UnloadEnd, pluginVars, infoVars
<1>19. ASSUME NEW k \in Kexts, LoadKext(k) PROVE ServedInv'
  <2>1. /\ os = "idle" /\ os' = "load" /\ osInst' = nloads + 1 /\ nloads' = nloads + 1
        /\ kmods' = kmods \cup {nloads + 1}
        /\ kid' = [kid EXCEPT ![nloads + 1] = k]
        /\ current' \in {current, current \cup {nloads + 1}}
        /\ UNCHANGED <<callbacks, loadIndex, watchVars, boot, that, waiting, cursor,
                       passedOver>>
    BY <1>19, Zenon DEF LoadKext, pluginVars, infoVars, flagVars
  <2>2. ASSUME NEW n \in kmods
        PROVE  n # nloads + 1 /\ kid'[n] = kid[n] /\ (n \in current' => n \in current)
    <3>1. n # nloads + 1
      BY <1>2
    <3> QED
      BY <1>2, <2>1, <3>1 DEF TypeOK, LoaderTypeOK
  <2>3. ASSUME NEW n \in kmods, Served(n) PROVE Served(n)'
    BY <1>2, <2>1, <2>2, <2>3, ServedKept, Zenon DEF watchVars
  <2>4. \A n \in kmods' : n \in kmods \/ (Loading(n)' /\ os' # "walk")
    BY <2>1, Zenon DEF Loading
  <2>5. \A n : ~Loading(n)
    BY <2>1 DEF Loading
  <2> QED
    BY <1>1, <2>1, <2>3, <2>4, <2>5, ServedFrame, Zenon
<1>20. ASSUME NEW n \in kmods, UnloadKext(n) PROVE ServedInv'
  BY <1>15, <1>20 DEF UnloadKext, pluginVars, infoVars
<1>21. CASE UNCHANGED vars
  BY <1>4, <1>21, Zenon DEF vars, pluginVars
<1> QED
  BY <1>5, <1>6, <1>7, <1>8, <1>9, <1>10, <1>11, <1>12, <1>13, <1>14, <1>16, <1>17, <1>18,
     <1>19, <1>20, <1>21
  DEF Next, PluginNext, BootNext, LoaderStep, LoaderStart

\* When the entries of a kext agree on the Loaded flag, a loaded kext that a plug-in
\* wants is missed only on Big Sur: its load hook fell between the start of the walk
\* and the store to "activated", or the walk lost its place to an unload and had not
\* reached it.
THEOREM MissedInWindow ==
  ASSUME LoadedAgrees
  PROVE  Spec => []MissedOnlyInWindow
<1> DEFINE WatchInv == LockInv /\ IndexInv /\ HitInv /\ LoaderInv /\ WantInv /\ ServedInv
<1>1. Init => WatchInv
  <2>1. Init => LockInv /\ IndexInv /\ HitInv
    BY HitInit, Zenon DEF Init, LockInv
  <2>2. Init => LoaderInv
    BY Zenon DEF Init, LoaderInv
  <2>3. Init => WantInv
    BY SeqFacts DEF Init, WantInv
  <2>4. Init => ServedInv
    BY Zenon DEF Init, ServedInv
  <2> QED
    BY <2>1, <2>2, <2>3, <2>4, Zenon
<1>2. TypeOK /\ WatchInv /\ [Next]_vars => WatchInv'
  BY LockStep, HitStep, LoaderInvStep, WantStep, ServedStep
<1>3. TypeOK /\ WatchInv => MissedOnlyInWindow
  <2> SUFFICES ASSUME TypeOK, WatchInv, Quiet, NEW p \in Plugins, NEW n \in Insts,
                      Missed(p, n)
               PROVE  BigSur /\ n \in passedOver
    BY Zenon DEF MissedOnlyInWindow
  <2>1. n \in kmods /\ ~Served(n)
    BY Zenon DEF Missed, Served
  <2>2. boot = "done" /\ that /\ ~waiting /\ ~Loading(n)
    BY DEF Quiet, Loading
  <2> QED
    BY <2>1, <2>2, Zenon DEF ServedInv
<1> QED
  BY <1>1, <1>2, <1>3, TypeCorrect, PTL DEF Spec

=============================================================================
