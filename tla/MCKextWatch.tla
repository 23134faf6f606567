----------------------------- MODULE MCKextWatch -----------------------------
(* Small instances of KextWatch: Kryptonite and one other plug-in.         *)
EXTENDS KextWatch

CONSTANTS wrangler, framebuffer, kryptonite, other

Info(k, flags) == [id |-> k, sys |-> flags]

\* kextList of kern_targetkexts.hpp: every entry has only the Loaded flag.
KryptoniteInfos == <<Info(wrangler, {"Loaded"}), Info(framebuffer, {"Loaded"})>>

\* The other plug-in shares a kext and wants it again after a reload.
SharedReloadable ==
  [p \in Plugins |->
     IF p = kryptonite THEN KryptoniteInfos
     ELSE <<Info(wrangler, {"Loaded", "Disabled"}),
            Info(framebuffer, {"Loaded", "Reloadable"})>>]
=============================================================================
