--------------------------- MODULE MCFunctionRoute ---------------------------
(* The routes Kryptonite makes on the Intel framebuffer client, where the    *)
(* legacy symbol is a fallback for the vendor one and both share a hook, and *)
(* a function that two more plug-ins route as well, one of them with a long  *)
(* jump after it has tried a short one.                                      *)
EXTENDS FunctionRoute

CONSTANTS vendor, legacy, testVRAM, doAttribute, skipVRAM, other, third

Wants(h, f, j) == [hook |-> h, fn |-> f, jump |-> j, fallback |-> FALSE]

MCRequests ==
  << Wants(doAttribute, vendor, "Auto"),
     [Wants(doAttribute, legacy, "Auto") EXCEPT !.fallback = TRUE],
     Wants(other, testVRAM, "Long"),
     Wants(third, testVRAM, "Short"),
     [Wants(third, testVRAM, "Long") EXCEPT !.fallback = TRUE],
     Wants(skipVRAM, testVRAM, "Auto") >>

MCAlign == [f \in Functions |-> CASE f = vendor -> 1 [] f = legacy -> 16
                                  [] f = testVRAM -> 8]
==============================================================================
