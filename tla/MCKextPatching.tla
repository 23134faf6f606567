--------------------------- MODULE MCKextPatching ---------------------------
(* The argument profiles the installer's scripts set, a probe boot and an    *)
(* NVIDIA boot, on a kernel just below the supported ones and on Sequoia.    *)
EXTENDS KextPatching

MCKernels == {<<17, 4>>, <<24, 6>>}

Boot(g, f) == [gpu |-> g, flags |-> f]

\* set_efi_boot_args_amdcompat and its variants
amdcompat == {"kryfsequoia", "kryigfxagdc", "kryigfxonln", "kryamdcompat",
              "kryamdlink", "kryamdfbval", "kryrad24", "kryamdsurfguard",
              "skipthunderboltenum"}

MCBootArgs ==
  {Boot("AMD", amdcompat),
   Boot("AMD", amdcompat \union {"kryprobe"}),
   Boot("AMD", amdcompat \union {"kryskipall"}),
   Boot("AMD", {"kryamdshmvar", "kryskipagdc", "kryskipiogfx", "kryskiptbroute"}),
   Boot("NVDA", {"kryfsequoia", "kryamdcompat", "kryskipagdp", "kryskipmux"}),
   Boot("none", {"kryskipiopci", "kryskipseq"})}
==============================================================================
