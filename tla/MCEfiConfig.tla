----------------------------- MODULE MCEfiConfig -----------------------------
(* Two terminals.  The initial entries: none, a bare flag, an entry that      *)
(* already holds the AMFI argument, and one that set_efi_boot_args drops.     *)
EXTENDS EfiConfig

Flag == Token("-v", "")
Tbt  == Token("krytbtv", "1")

MCEntries == {Missing, Present(<<Flag, Tbt>>), Present(<<Tbt, Amfi>>)}

MCJobs ==
  {[script |-> "set_efi_boot_args", args |-> <<Token("krytbtv", "2")>>],
   [script |-> "remove_efi_boot_arg", args |-> <<Tbt>>],
   [script |-> "disable_efi_amfi_lv_validation"],
   [script |-> "set_efi_boot_args_profile", profile |-> "amdcompat"],
   [script |-> "update_efi_kryptonite_kext"],
   [script |-> "prepare_amfi"],
   [script |-> "prepare_baseline", profile |-> "amdcompat"],
   [script |-> "prepare_validation", profile |-> "amdshmvar"]}

\* The hypothesis under which NewArgsNeedNewKext is proved holds of these.
ASSUME GivenAssumption == GivenByPrepare
==============================================================================
