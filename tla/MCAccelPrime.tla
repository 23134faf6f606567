---------------------------- MODULE MCAccelPrime ----------------------------
(* A PCI device (2) under the root (1), the controller (3) on it and the      *)
(* device control (4) on the controller, and a service (5) under the root.    *)
EXTENDS AccelPrime

MCProvider == <<0, 1, 2, 3, 1>>
MCMarked   == {{}, {"LoadAccelerator"}}
==============================================================================
