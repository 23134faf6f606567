SPECIFICATION FairSpec
CONSTANTS
  wrangler = wrangler
  framebuffer = framebuffer
  kryptonite = kryptonite
  other = other
  Kexts = {wrangler, framebuffer}
  Plugins = {kryptonite, other}
  KextInfos <- SharedReloadable
  MaxLoads = 2
  NoPlugin = NoPlugin
INVARIANTS
  RegistrationClosed
  PatchedAsItself
  PatchedAtMostOnce
  MissedOnlyInWindow
PROPERTIES
  BootFinishes
  LoadSettlesWatch
CHECK_DEADLOCK FALSE
