---------------------------- MODULE KextPatching ----------------------------
(***************************************************************************)
(* What Kryptonite does to a kext that Lilu hands it: PatchSet::processKext*)
(* calls the patches of that kext in order, each gated by boot arguments,  *)
(* each made of byte lookups and function routes that PatchApplicator      *)
(* carries out and reports.  All of them share KernelPatcher::code, the    *)
(* error of the latest operation, with Lilu and with the other plug-ins.   *)
(*                                                                         *)
(* A lookup or a route is one step whose outcomes are those of modules     *)
(* LookupPatch and FunctionRoute.  The bytes a patch looks for depend on   *)
(* the kernel and on krytbtv and are left out: whether they are found is a *)
(* choice.  In two patches those bytes live in an inner scope that has     *)
(* ended when they are read; the choice covers what the stack then holds.  *)
(***************************************************************************)
EXTENDS Naturals, Sequences, FiniteSets

CONSTANTS
  Kernels,    \* <<version_major, version_minor>> pairs tried
  BootArgs,   \* boot arguments tried
  Tables,     \* depth tables in AMDFramebuffer that bitsFind matches
  MaxKexts    \* bound: kexts handed to Kryptonite in a behaviour

Kexts == {"AppleGPUWrangler", "IOGraphicsFamily", "AppleMuxControl",
          "IOThunderboltFamily", "IOPCIFamily", "AMDRadeonX4000",
          "AMDRadeonX4000HWServices", "AMD9500Controller", "AMDFramebuffer",
          "AppleGraphicsDevicePolicy", "AppleIntelFramebufferCapri",
          "AMDSupport", "IOAcceleratorFamily2"}

\* The arguments that parse as true.
Flags == {"kryfsequoia", "kryprobe", "kryskipall", "kryigfxagdc", "kryigfxonln",
          "kryamdcompat", "kryamdshmvar", "kryamdlink", "kryamdfbval",
          "kryrad24", "kryamdsurfguard", "kryskipagdc", "kryskipagdp",
          "kryskipiogfx", "kryskipiopci", "kryskipmux", "kryskiptbroute",
          "kryskipseq", "skipthunderboltenum"}

ASSUME KernelsAssumption  == Kernels \subseteq Nat \X Nat
ASSUME BootArgsAssumption ==
  BootArgs \subseteq [gpu : {"AMD", "NVDA", "none"}, flags : SUBSET Flags]
ASSUME TablesAssumption   == Tables \in Nat /\ MaxKexts \in Nat

HighSierra == 17

\* Compatibility::isUnsupported
isUnsupported(k) == k[1] < HighSierra \/ (k[1] = HighSierra /\ k[2] < 5)

\* What a patch asks for: a graphics vendor, arguments that enable it, and
\* arguments that switch it off.  Each patch makes these tests itself: probe mode
\* and kryskipall reach only the patches that ask for them.
Gate(vendors, needs, skips) ==
  [vendors |-> vendors, needs |-> needs, skips |-> skips]

\* The two helpers some patches test with; the others write the tests out.
shouldSkipPatch(skipToggle) == {"kryprobe", "kryskipall", skipToggle}
shouldSkipAMDCompatibilityPatch ==
  Gate({"AMD"}, {"kryamdcompat"}, {"kryprobe", "kryskipall"})

AnyGPU == {"AMD", "NVDA", "none"}
Vendor == {"AMD", "NVDA"}

\* The operations of a patch.  count is how many occurrences a lookup asks for; a
\* fallback routes a second symbol if the first did not serve.
Lookup(name, n) == [kind |-> "lookup", name |-> name, count |-> n]
Route(name)     == [kind |-> "route", name |-> name, count |-> 1]
Fallback(name)  == [kind |-> "fallback", name |-> name, count |-> 1]

\* The patches of AppleGPUWrangler and of the Intel framebuffer.
AGDCPatches ==
  [unblockLegacyThunderbolt |->
     [gate |-> Gate({"AMD"}, {}, shouldSkipPatch("kryskipagdc")),
      ops |-> <<Lookup("tbt", 1)>>],
   disableIntelFramebufferAGDC |->
     [gate |-> Gate(AnyGPU, {"kryigfxagdc"}, {"kryprobe", "kryskipall"}),
      ops |-> <<Route("vendor_doDeviceAttribute"), Fallback("doAttribute")>>],
   forceIntelFramebufferOnlineDisplays |->
     [gate |-> Gate(AnyGPU, {"kryigfxonln"}, {"kryprobe", "kryskipall"}),
      ops |-> <<Route("GetOnlineInfo")>>]]

\* The functions of the Radeon drivers that are routed.
AMDRoutes ==
  [bypassAMDProjectSelection |->
     [gate |-> shouldSkipAMDCompatibilityPatch,
      ops |-> <<Route("findProjectByPartNumber")>>],
   skipAMDVRAMTest |->
     [gate |-> shouldSkipAMDCompatibilityPatch, ops |-> <<Route("TestVRAM")>>],
   stabiliseAMDAccelConfig |->
     [gate |-> shouldSkipAMDCompatibilityPatch,
      ops |-> <<Route("populateAccelConfig")>>],
   relaxAMDSharedUserClientOutputSizing |->
     [gate |-> Gate({"AMD"}, {"kryamdshmvar"}, {"kryprobe", "kryskipall"}),
      ops |-> <<Route("getTargetAndMethodForIndex")>>],
   relaxIOAccelSharedUserClientOutputSizing |->
     [gate |-> Gate({"AMD"}, {"kryamdshmvar"}, {"kryprobe", "kryskipall"}),
      ops |-> <<Route("IOAccel getTargetAndMethodForIndex")>>],
   validateAMDDetailedTiming |->
     [gate |-> Gate({"AMD"}, {"kryamdlink"}, {"kryprobe", "kryskipall"}),
      ops |-> <<Route("notifyLinkChange")>>],
   relaxAMDFramebufferTimingValidation |->
     [gate |-> Gate({"AMD"}, {"kryamdfbval"}, {"kryprobe", "kryskipall"}),
      ops |-> <<Route("validateDetailedTiming")>>]]

\* Mutant of AMDLookups: guardAMDIOSurfacePlaneInfo forgets the probe test.
AMDLookupsUnprobed ==
  [forceAMD24BitOutput |->
     [gate |-> Gate({"AMD"}, {"kryrad24"}, {"kryprobe", "kryskipall"}),
      ops |-> <<[kind |-> "walk", name |-> "BITS_PER_COMPONENT", count |-> 0],
                Lookup("masks", 2),
                [kind |-> "bits", name |-> "bits", count |-> 2]>>],
   guardAMDIOSurfacePlaneInfo |->
     [gate |-> Gate({"AMD"}, {"kryamdsurfguard"}, {"kryskipall"}),
      ops |-> <<Lookup("surface", 1)>>]]

\* The bytes of the Radeon drivers that are replaced.
AMDLookups ==
  [forceAMD24BitOutput |->
     [gate |-> Gate({"AMD"}, {"kryrad24"}, {"kryprobe", "kryskipall"}),
      ops |-> <<[kind |-> "walk", name |-> "BITS_PER_COMPONENT", count |-> 0],
                Lookup("masks", 2),
                [kind |-> "bits", name |-> "bits", count |-> 2]>>],
   guardAMDIOSurfacePlaneInfo |->
     [gate |-> Gate({"AMD"}, {"kryamdsurfguard"}, {"kryprobe", "kryskipall"}),
      ops |-> <<Lookup("surface", 1)>>]]

\* The patches of the PCI, policy, mux and Thunderbolt drivers.
OtherPatches ==
  [bypassPCITunnelled |->
     [gate |-> Gate(Vendor, {}, shouldSkipPatch("kryskipiogfx")),
      ops |-> <<Lookup("tunnelled", 1)>>],
   relaxGraphicsDevicePolicy |->
     [gate |-> Gate(Vendor, {}, shouldSkipPatch("kryskipagdp")),
      ops |-> <<Lookup("vit9696", 1), Lookup("pikera", 1)>>],
   bypassIOPCITunnelCompatible |->
     [gate |-> Gate(AnyGPU, {}, shouldSkipPatch("kryskipiopci")),
      ops |-> <<Lookup("iopci", 1)>>],
   updateMuxControlNVRAMVar |->
     [gate |-> Gate(AnyGPU, {}, shouldSkipPatch("kryskipmux")),
      ops |-> <<Lookup("mux", 1)>>],
   routeThunderboltEnumeration |->
     [gate |-> Gate(AnyGPU, {"skipthunderboltenum"},
                   shouldSkipPatch("kryskiptbroute")),
      ops |-> <<Route("shouldSkipEnumeration")>>],
   applySequoiaPatch |->
     [gate |-> Gate(AnyGPU, {"kryfsequoia"}, shouldSkipPatch("kryskipseq")),
      ops |-> <<Lookup("sequoia", 1)>>]]

PatchNames == DOMAIN AGDCPatches \union DOMAIN AMDRoutes
                \union DOMAIN AMDLookups \union DOMAIN OtherPatches

Patch == [p \in PatchNames |->
            IF p \in DOMAIN AGDCPatches THEN AGDCPatches[p]
            ELSE IF p \in DOMAIN AMDRoutes THEN AMDRoutes[p]
            ELSE IF p \in DOMAIN AMDLookups THEN AMDLookups[p] ELSE OtherPatches[p]]

\* PatchSet::processKext: the patches of each kext, in order.
PatchesOf(k) ==
  CASE k = "AppleGPUWrangler" ->
         <<"unblockLegacyThunderbolt", "bypassPCITunnelled", "applySequoiaPatch">>
    [] k = "IOGraphicsFamily"           -> <<"bypassPCITunnelled">>
    [] k = "AppleGraphicsDevicePolicy"  -> <<"relaxGraphicsDevicePolicy">>
    [] k = "AppleIntelFramebufferCapri" ->
         <<"disableIntelFramebufferAGDC", "forceIntelFramebufferOnlineDisplays">>
    [] k = "AMDSupport" -> <<"skipAMDVRAMTest", "validateAMDDetailedTiming">>
    [] k = "AMDRadeonX4000" ->
         <<"bypassPCITunnelled", "stabiliseAMDAccelConfig",
           "guardAMDIOSurfacePlaneInfo">>
    [] k = "AMD9500Controller" -> <<"bypassAMDProjectSelection">>
    [] k = "AMDFramebuffer" ->
         <<"relaxAMDFramebufferTimingValidation", "forceAMD24BitOutput">>
    [] k = "AppleMuxControl"     -> <<"updateMuxControlNVRAMVar">>
    [] k = "IOThunderboltFamily" -> <<"routeThunderboltEnumeration">>
    [] k = "IOPCIFamily"         -> <<"bypassIOPCITunnelCompatible">>
    [] OTHER -> <<>>

VARIABLES
  kernel, args,   \* the running kernel and its boot arguments
  life,           \* "off" until start() has registered for kext loads
  processed,      \* the kexts Lilu has handed over, in order
  patches,        \* patches of the current kext still to call
  ops,            \* operations of the current patch still to do
  busy,           \* processKext is running
  code,           \* KernelPatcher::code, with the operation that set it
  from, org,      \* RouteRequest::from of the latest route, non-null originals
  done,           \* what each operation did: the occurrences written, or 1 for
                  \* a route made, for each kext
  reports,        \* what PatchApplicator logged of each operation
  tens            \* depth tables that still hold 10 bits per component

patchingVars == <<kernel, args, life, processed, patches, ops, busy, code, from,
                  org, done, reports, tens>>
config == <<kernel, args, life, processed>>

NoError == [error |-> "NoError", by |-> "nobody"]

\* The errors updateRunningInfo and the operations of the other plug-ins set; the
\* two of a plug-in stand for all: only MemoryProtection is told apart below.
Inherited ==
  {[error |-> "KernRunningInitFailure", by |-> "Lilu"]} \union
  [error : {"MemoryIssue", "MemoryProtection"}, by : {"plugin"}]

kext    == processed[Len(processed)]
op      == Head(ops)
Key(o)  == <<kext, o.name>>

PatchingInit ==
  /\ kernel \in Kernels /\ args \in BootArgs
  /\ life = "off" /\ processed = <<>> /\ patches = <<>> /\ ops = <<>>
  /\ busy = FALSE /\ code = NoError /\ from = FALSE /\ org = {}
  /\ done = {} /\ reports = {} /\ tens = 1 .. Tables

------------------------------------------------------------------------------
\* start() and PatchSet::init: nothing is registered on an unsupported kernel,
\* and a failed registration is only logged.
Start ==
  /\ life = "off"
  /\ \/ ~isUnsupported(kernel) /\ life' = "registered"
     \/ life' = "dead"
  /\ UNCHANGED <<kernel, args, processed, patches, ops, busy, code, from, org,
                 done, reports, tens>>

\* processKextLoadCallbacks updates the running info and then calls every plug-in
\* with the same patcher.  None of it clears the error before Kryptonite's turn or
\* after it, so one of Lilu's or of another plug-in's, from this kext or from an
\* earlier one, may be there when Kryptonite is called.
OthersRun ==
  /\ ~busy
  /\ code' \in {NoError} \union Inherited
  /\ UNCHANGED <<config, patches, ops, busy, from, org, done, reports, tens>>

\* Lilu calls Kryptonite back for a kext.
ProcessKext(k) ==
  /\ life = "registered" /\ ~busy
  /\ Len(processed) < MaxKexts /\ \A n \in 1 .. Len(processed) : processed[n] # k
  /\ processed' = Append(processed, k) /\ patches' = PatchesOf(k) /\ busy' = TRUE
  /\ UNCHANGED <<kernel, args, life, ops, code, from, org, done, reports, tens>>

\* The patch returns at one of its own tests.
Skipped(p) ==
  \/ args.gpu \notin Patch[p].gate.vendors
  \/ ~(Patch[p].gate.needs \subseteq args.flags)
  \/ Patch[p].gate.skips \cap args.flags # {}

\* A patch is called; unless one of its gates is closed its operations follow.
CallPatch ==
  /\ busy /\ ops = <<>> /\ patches # <<>>
  /\ patches' = Tail(patches)
  /\ ops' = IF Skipped(Head(patches)) THEN <<>> ELSE Patch[Head(patches)].ops
  /\ UNCHANGED <<config, busy, code, from, org, done, reports, tens>>

\* The trailing clearError() of processKext.
KextDone ==
  /\ busy /\ ops = <<>> /\ patches = <<>>
  /\ busy' = FALSE /\ code' = NoError
  /\ UNCHANGED <<config, patches, ops, from, org, done, reports, tens>>

------------------------------------------------------------------------------
(* PatchApplicator.  c is the error code when the patcher returns.           *)

\* What is logged of the current operation.
Entry(failed, c) ==
  [op |-> Key(op), failed |-> failed, error |-> c.error, blame |-> c.by]

\* Mutant of Report: the error is kept after it was logged.
ReportKeepsError(ok, c) ==
  /\ reports' = reports \union {Entry(~ok \/ c.error # "NoError", c)}
  /\ code' = c

\* Mutant of Report: only the result of routeMultiple is looked at.
ReportResultOnly(ok, c) ==
  /\ reports' = reports \union {Entry(~ok, c)}
  /\ code' = NoError

\* An error or a false result is logged as skipped and the error is cleared.
Report(ok, c) ==
  LET failed == ~ok \/ c.error # "NoError"
  IN  /\ reports' = reports \union {Entry(failed, c)}
      /\ code' = IF failed THEN NoError ELSE c

Error(e) == [error |-> e, by |-> op.name]

\* How applyLookupPatch can end with that many occurrences there to be found:
\* kernel writing cannot be turned on; the occurrences are written, too few of
\* them being an error; or writing cannot be turned off again.
LookupOutcomes(found) ==
  {[written |-> 0, code |-> Error("MemoryProtection")],
   [written |-> found, code |-> IF found # op.count THEN Error("MemoryIssue")
                                                    ELSE code],
   [written |-> found, code |-> Error("MemoryProtection")]}

LookupEnds(outcome) ==
  /\ done' = done \union {[op |-> Key(op), count |-> outcome.written]}
  /\ Report(TRUE, outcome.code)

ApplyLookupPatch ==
  /\ busy /\ ops # <<>> /\ op.kind = "lookup"
  /\ ops' = Tail(ops)
  /\ \E found \in 0 .. op.count :
       \E outcome \in LookupOutcomes(found) : LookupEnds(outcome)
  /\ UNCHANGED <<config, patches, busy, from, org, tens>>

\* disableIntelFramebufferAGDC returns when the vendor symbol was solved and
\* the original pointer is set, whether or not the route was made.
FallbackNotNeeded ==
  /\ busy /\ ops # <<>> /\ op.kind = "fallback"
  /\ from /\ "intelFBClientDoAttribute" \in org
  /\ ops' = Tail(ops)
  /\ UNCHANGED <<config, patches, busy, code, from, org, done, reports, tens>>

\* The hook a route leads to; the two Intel symbols share one.
HookOf(o) == IF o.name \in {"vendor_doDeviceAttribute", "doAttribute"}
             THEN "intelFBClientDoAttribute" ELSE o.name

\* routeMultiple: the symbol is not found; the trampoline fails; the write
\* fails after the original pointer was set; the route is made, afresh, which
\* clears the error, or on top of another plug-in's, which does not.
ApplyRoutingPatch ==
  /\ busy /\ ops # <<>> /\ op.kind \in {"route", "fallback"}
  /\ op.kind = "fallback" => ~(from /\ "intelFBClientDoAttribute" \in org)
  /\ ops' = Tail(ops)
  /\ \/ /\ from' = FALSE /\ Report(FALSE, NoError) /\ UNCHANGED <<org, done>>
     \/ /\ from' = TRUE /\ Report(TRUE, Error("DisasmFailure"))
        /\ UNCHANGED <<org, done>>
     \/ /\ from' = TRUE /\ org' = org \union {HookOf(op)}
        /\ Report(TRUE, Error("MemoryProtection")) /\ UNCHANGED done
     \/ /\ from' = TRUE /\ org' = org \union {HookOf(op)}
        /\ done' = done \union {[op |-> Key(op), count |-> 1]}
        /\ \E c \in {code, NoError} : Report(TRUE, c)
  /\ UNCHANGED <<config, patches, busy, tens>>

\* forceAMD24BitOutput, first part: from the symbol on, up to a zero, entries of
\* 10 bits become 8.  The walk may meet any of the tables, and the write may fail
\* for any of them; then, or when the symbol is not found, the error is cleared.
WalkBitsPerComponent ==
  /\ busy /\ ops # <<>> /\ op.kind = "walk"
  /\ ops' = Tail(ops)
  /\ \E met \in SUBSET tens : tens' = tens \ met
  /\ code' \in {code, NoError}
  /\ UNCHANGED <<config, patches, busy, from, org, done, reports>>

\* The tables left at 10 bits when the first n of them are written.
AfterFirst(n) == {t \in tens : Cardinality({u \in tens : u < t}) >= n}

\* Mutant of ApplyBitsPatch: one occurrence is enough.
ApplyBitsPatchOnce ==
  /\ busy /\ ops # <<>> /\ op.kind = "bits"
  /\ ops' = Tail(ops)
  /\ LET found == IF tens = {} THEN 0 ELSE 1
     IN  \E outcome \in LookupOutcomes(found) :
           LookupEnds(outcome) /\ tens' = AfterFirst(outcome.written)
  /\ UNCHANGED <<config, patches, busy, from, org>>

\* The last part: bitsFind, on the tables that still hold 10.
ApplyBitsPatch ==
  /\ busy /\ ops # <<>> /\ op.kind = "bits"
  /\ ops' = Tail(ops)
  /\ LET found == IF Cardinality(tens) < op.count THEN Cardinality(tens)
                                                  ELSE op.count
     IN  \E outcome \in LookupOutcomes(found) :
           LookupEnds(outcome) /\ tens' = AfterFirst(outcome.written)
  /\ UNCHANGED <<config, patches, busy, from, org>>

PatchingNext ==
  \/ Start \/ OthersRun \/ \E k \in Kexts : ProcessKext(k)
  \/ CallPatch \/ KextDone
  \/ ApplyLookupPatch \/ FallbackNotNeeded \/ ApplyRoutingPatch
  \/ WalkBitsPerComponent \/ ApplyBitsPatch

PatchingSpec == PatchingInit /\ [][PatchingNext]_patchingVars

------------------------------------------------------------------------------
Operations == UNION {{Patch[p].ops[n] : n \in 1 .. Len(Patch[p].ops)} :
                       p \in PatchNames}

\* The occurrences an operation asks for.
Wanted(name) == (CHOOSE o \in Operations : o.name = name).count

\* What PatchApplicator logs as applied was carried out in full: every byte
\* occurrence asked for is written, every route logged is in place, even though
\* routeMultiple takes the EINVAL of a failed trampoline for a wrapper.
AppliedIsDone ==
  \A r \in reports : ~r.failed =>
    [op |-> r.op, count |-> Wanted(r.op[2])] \in done

\* The shared error code never makes one of Kryptonite's operations answer for
\* another: a failure is logged for an operation because of its own error or of
\* one that Lilu or another plug-in left before the callback; such a foreign error
\* is charged to at most one operation of the kext, although nothing clears it
\* when the callback starts; and Kryptonite leaves no error of its own for the
\* plug-ins called after it, whichever of its patches failed or were skipped.
ErrorsStayLocal ==
  /\ \A r \in reports :
       r.failed => r.blame \in {r.op[2], "nobody", "Lilu", "plugin"}
  /\ \A r, s \in reports :
       /\ r.blame \in {"Lilu", "plugin"} /\ s.blame \in {"Lilu", "plugin"}
       /\ r.op[1] = s.op[1]
       => r = s
  /\ ~busy => code.by \in {"nobody", "Lilu", "plugin"}

\* In probe mode, or with every patch skipped, no byte is written, no function
\* routed and no original pointer set, whatever else the arguments enable and
\* whichever kexts load.  Each patch makes the two tests itself, seven of them
\* through shouldSkipPatch, three through shouldSkipAMDCompatibilityPatch and eight
\* on lines of their own: one test forgotten writes to the kernel in a probe boot.
SwitchedOffWritesNothing ==
  {"kryprobe", "kryskipall"} \cap args.flags # {} =>
    done = {} /\ org = {} /\ tens = 1 .. Tables

\* forceAMD24BitOutput's two ways of rewriting the depth tables add up: once the
\* second has run without a protection failure, at most the tables beyond the
\* two it asks for still hold 10, also when it is logged as failed because the
\* first had already changed one of them.
DepthTablesClamped ==
  \A r \in reports : r.op[2] = "bits" /\ r.error # "MemoryProtection" =>
    Cardinality(tens) <= IF Tables < 2 THEN 0 ELSE Tables - 2
==============================================================================
