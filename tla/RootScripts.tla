----------------------------- MODULE RootScripts -----------------------------
(***************************************************************************)
(* The root-overlay scripts of src/Installer as sequences of commands for  *)
(* RootOverlay.  Bundles are named without "System/Library/..." and their  *)
(* extension; "L/..." is a copy below Library/Extensions.                  *)
(***************************************************************************)
EXTENDS Sequences, SequencesExt

NoItem == "none"
Cmd(op, item, from) == [op |-> op, item |-> item, from |-> from]
Do(op, item)        == <<Cmd(op, item, NoItem)>>

\* The commands of a loop over items.
ForEach(items, Body(_)) == FlattenSeq([n \in 1 .. Len(items) |-> Body(items[n])])
DoEach(op, items)       == ForEach(items, LAMBDA i : Do(op, i))

\* backup_and_replace.
BackupAndReplace(src, i) == Do("save", i) \o Do("drop", i) \o <<Cmd("put", i, src)>>
ReplaceEach(src, items)  == ForEach(items, LAMBDA i : BackupAndReplace(src, i))
\* backup_and_replace, then normalize_bundle_ownership.
ReplaceAndOwn(src, items) ==
  ForEach(items, LAMBDA i : BackupAndReplace(src, i) \o Do("chown", i))

rebuild_collections             == Do("rebuild", NoItem)
normalize_stashed_aux_ownership == Do("stash", NoItem)
create_root_snapshot            == Do("bless", NoItem)

-----------------------------------------------------------------------------
IntelKexts   == <<"AppleIntelFramebufferCapri", "AppleIntelHD4000Graphics">>
IntelBundles == <<"AppleIntelGraphicsShared", "AppleIntelHD4000GraphicsGLDriver",
                  "AppleIntelHD4000GraphicsMTLDriver",
                  "AppleIntelHD4000GraphicsVADriver", "AppleIntelIVBVA">>
StagedIntel  == <<"L/AppleIntelFramebufferCapri", "L/AppleIntelHD4000Graphics">>
GVA          == <<"AppleGVA", "AppleGVACore">>
AccelKexts   == <<"AMDRadeonX4000", "AMDRadeonX4000HWServices">>
StagedAccel  == <<"L/AMDRadeonX4000", "L/AMDRadeonX4000HWServices">>

PolarisItems == <<"OpenCL", "OpenGL", "AMDMTLBronzeDriver", "AMDRadeonVADriver2",
                  "AMDRadeonX4000", "AMDRadeonX4000GLDriver",
                  "AMDRadeonX4000HWServices", "AMDShared">>
ModernItems  == <<"AMDMTLBronzeDriver", "AMDRadeonVADriver2", "AMDRadeonX4000",
                  "AMDRadeonX4000GLDriver", "AMDRadeonX4000HWServices", "AMDShared">>
AlignedItems == <<"AMDSupport", "AMD10000Controller", "AMD9500Controller",
                  "AMDFramebuffer", "AMDRadeonVADriver2", "AMDRadeonX4000GLDriver">>

\* AUX_STASH_ITEM_NAMES; the five HWLibs plug-ins are one name.
AuxStashNames == IntelKexts \o AccelKexts \o <<"AMDRadeonX4000HWLibs">>

-----------------------------------------------------------------------------
(* One definition per script.                                              *)

\* HYBRID_SYNC_INTEL_BUNDLES and HYBRID_REBUILD_KC are the last two parameters.
HybridRootOverlay(intel, gva, sync, rebuild) ==
  ReplaceEach(intel, IntelKexts) \o DoEach("plist", IntelKexts)
  \o (IF sync THEN ReplaceEach(intel, IntelBundles) ELSE <<>>)
  \o ReplaceEach(gva, GVA)
  \o (IF rebuild THEN rebuild_collections ELSE <<>>)
  \o create_root_snapshot

OclpIvyBridgeRecovery == HybridRootOverlay("11.7.10", "11.7.10", TRUE, TRUE)

FullHybridGraphicsStack ==
  ReplaceEach("11.7.10", IntelKexts \o IntelBundles) \o ReplaceEach("11.7.10", GVA)
  \o DoEach("plist", IntelKexts) \o DoEach("resign", IntelKexts)
  \o ReplaceEach("stash", PolarisItems)
  \o rebuild_collections \o create_root_snapshot

PolarisOverlay ==
  ReplaceEach("stash", PolarisItems) \o rebuild_collections \o create_root_snapshot

OclpPolarisModernOverlay ==
  ReplaceEach("13.5.2", ModernItems) \o rebuild_collections \o create_root_snapshot

PolarisSplitOverlay ==
  ReplaceEach("stash", AccelKexts)
  \o ReplaceEach("13.5.2", <<"AMDMTLBronzeDriver", "AMDRadeonVADriver2",
                             "AMDRadeonX4000GLDriver", "AMDShared">>)
  \o rebuild_collections \o create_root_snapshot

BronzeCompatOverlay ==
  ReplaceAndOwn("12.5-23", <<"AMDMTLBronzeDriver">>)
  \o ReplaceAndOwn("13.5.2", <<"AMDRadeonVADriver2", "AMDRadeonX4000GLDriver",
                               "AMDShared">>)
  \o rebuild_collections \o create_root_snapshot

BmiCompatOverlay ==
  ReplaceEach("12.5-23", <<"AMDMTLBronzeDriver">>)
  \o ReplaceEach("12.5", <<"AMDShared">>)
  \o ReplaceEach("13.5.2", <<"AMDRadeonVADriver2", "AMDRadeonX4000GLDriver">>)
  \o rebuild_collections \o create_root_snapshot

\* resign_bundle_adhoc_deep, normalize_bundle_ownership, verify_bundle_signature.
ResignAndVerify(i) == Do("resign", i) \o Do("chown", i) \o Do("verify", i)

ModernBronzeBmiHotfixOverlay ==
  ReplaceAndOwn("13.5.2", <<"AMDMTLBronzeDriver">>)
  \o Do("patch", "AMDMTLBronzeDriver")
  \o ResignAndVerify("AMDMTLBronzeDriver")
  \o rebuild_collections \o create_root_snapshot

ModernUserlandBmiHotfixOverlay ==
  ReplaceAndOwn("13.5.2", <<"AMDMTLBronzeDriver", "AMDShared", "AMDRadeonVADriver2",
                            "AMDRadeonX4000GLDriver">>)
  \o DoEach("patch", <<"AMDMTLBronzeDriver", "AMDShared">>)
  \o ForEach(<<"AMDMTLBronzeDriver", "AMDShared">>, ResignAndVerify)
  \o rebuild_collections \o create_root_snapshot

PolarisScanoutAlignOverlay ==
  ReplaceAndOwn("12.5-23", <<"AMDMTLBronzeDriver">>)
  \o ReplaceAndOwn("12.5", <<"AMDShared">>)
  \o ReplaceAndOwn("aligned", AlignedItems)
  \o DoEach("chown", IntelKexts) \o DoEach("chown", StagedIntel)
  \o rebuild_collections \o normalize_stashed_aux_ownership \o create_root_snapshot

RepairIvyBridgeAuxOwnership ==
  DoEach("save", IntelKexts) \o DoEach("save", StagedIntel)
  \o DoEach("chown", IntelKexts) \o DoEach("chown", StagedIntel)
  \o rebuild_collections \o normalize_stashed_aux_ownership \o create_root_snapshot

\* The nested HWLibs plug-ins belong to AMDRadeonX4000HWServices.kext.
StageItem(n) ==
  Do("drop", StagedAccel[n]) \o <<Cmd("stage", StagedAccel[n], AccelKexts[n])>>
EnablePolarisAccelKC ==
  DoEach("save", AccelKexts)
  \o ForEach(AccelKexts, LAMBDA i : Do("drop", i) \o <<Cmd("put", i, "13.5.2")>>)
  \o DoEach("plist", AccelKexts) \o DoEach("chown", AccelKexts)
  \o StageItem(1) \o StageItem(2) \o DoEach("chown", StagedAccel)
  \o rebuild_collections \o normalize_stashed_aux_ownership \o create_root_snapshot

\* It copies only the binary away, while codesign also renews the seal of the framework
\* around it.  The preference keys it then writes are on the data volume and left out.
\* Nothing is rebuilt or blessed: a later overlay takes the edit into its snapshot.
PatchAppleGVA ==
  Do("saveBinary", "AppleGVA") \o Do("patch", "AppleGVA") \o Do("resign", "AppleGVA")

-----------------------------------------------------------------------------
ScriptNames ==
  {"hybrid", "recovery", "full", "polaris", "modern", "split", "bronze", "bmi",
   "bronzeHotfix", "userlandHotfix", "scanout", "repair", "accelKC", "applegva"}

ScriptProgram(s) ==
  CASE s = "hybrid"         -> HybridRootOverlay("BigSur", "Monterey", FALSE, FALSE)
    [] s = "recovery"       -> OclpIvyBridgeRecovery
    [] s = "full"           -> FullHybridGraphicsStack
    [] s = "polaris"        -> PolarisOverlay
    [] s = "modern"         -> OclpPolarisModernOverlay
    [] s = "split"          -> PolarisSplitOverlay
    [] s = "bronze"         -> BronzeCompatOverlay
    [] s = "bmi"            -> BmiCompatOverlay
    [] s = "bronzeHotfix"   -> ModernBronzeBmiHotfixOverlay
    [] s = "userlandHotfix" -> ModernUserlandBmiHotfixOverlay
    [] s = "scanout"        -> PolarisScanoutAlignOverlay
    [] s = "repair"         -> RepairIvyBridgeAuxOwnership
    [] s = "accelKC"        -> EnablePolarisAccelKC
    [] s = "applegva"       -> PatchAppleGVA

\* The items a script insists on finding on the target.  A half-copied framework
\* counts as found, though the test looks for its binary.
ScriptNeeds(s) ==
  CASE s \in {"hybrid", "recovery", "full"} -> {}
    [] s = "polaris" -> ToSet(IntelKexts \o GVA)
    [] s \in {"modern", "split"} -> ToSet(IntelKexts)
    [] s \in {"bronze", "bmi", "userlandHotfix", "scanout"} ->
         ToSet(IntelKexts \o AccelKexts)
    [] s = "bronzeHotfix" -> ToSet(IntelKexts \o AccelKexts) \cup {"AMDShared"}
    [] s = "repair" -> ToSet(IntelKexts \o StagedIntel)
    [] s = "accelKC" -> ToSet(AccelKexts)
    [] s = "applegva" -> {"AppleGVA"}

ScriptStashNames(s) ==
  CASE s \in {"scanout", "accelKC"} -> AuxStashNames
    [] s = "repair" -> IntelKexts
    [] OTHER -> <<>>
=============================================================================
