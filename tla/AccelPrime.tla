----------------------------- MODULE AccelPrime -----------------------------
(***************************************************************************)
(* primeAMDLoadProperties: with kryamdaccelprime the hooks of the Radeon   *)
(* drivers mark every service from theirs up to the PCI device with the    *)
(* properties the accelerator and HWServices personalities match on, and   *)
(* have the PCI device matched again if that changed anything.             *)
(*                                                                         *)
(* The hooks run on IOKit's threads, several at a time: matching itself    *)
(* starts drivers that call them.  Reading a property and setting it are   *)
(* separate calls, each atomic in the registry.                            *)
(***************************************************************************)
EXTENDS Naturals

CONSTANTS
  N,          \* services, numbered from the root
  Provider,   \* Provider[n]: the provider of service n, 0 at the root
  Pci,        \* the services with a vendor-id and a device-id
  Marked,     \* what each service may have before: a set of sets of properties
  HookThreads \* IOKit threads

Services   == 1 .. N
Properties == {"LoadAccelerator", "LoadHWServices"}

ASSUME ServicesAssumption ==
  /\ N \in Nat /\ Pci \subseteq Services /\ Marked \subseteq SUBSET Properties
  /\ Provider \in [Services -> 0 .. N]
  /\ \A n \in Services : Provider[n] < n

VARIABLES
  enabled,    \* kryamdaccelprime
  props,      \* the properties that are true of each service
  stage,      \* where each thread is in primeAMDLoadProperties
  current, key, changed, pciProvider,   \* its locals
  unannounced \* services marked since their PCI device was last registered

locals    == <<current, key, changed, pciProvider>>
primeVars == <<enabled, props, stage, locals, unannounced>>

PrimeInit ==
  /\ enabled \in BOOLEAN
  /\ props \in [Services -> Marked]
  /\ stage = [t \in HookThreads |-> "idle"] /\ current = [t \in HookThreads |-> 0]
  /\ key = [t \in HookThreads |-> "LoadAccelerator"]
  /\ changed = [t \in HookThreads |-> FALSE] /\ pciProvider = [t \in HookThreads |-> 0]
  /\ unannounced = {}

------------------------------------------------------------------------------
\* findProjectByPartNumber and TestVRAM prime first; notifyLinkChange does for
\* four events, after the original returned.
Primes(hook, event) ==
  hook \in {"findProjectByPartNumber", "TestVRAM"}
    \/ (hook = "notifyLinkChange" /\ event \in {1, 2, 91, 93})

CallHook(t, hook, event, service) ==
  /\ stage[t] = "idle" /\ enabled /\ service # 0 /\ Primes(hook, event)
  /\ stage' = [stage EXCEPT ![t] = "get"] /\ current' = [current EXCEPT ![t] = service]
  /\ key' = [key EXCEPT ![t] = "LoadAccelerator"]
  /\ changed' = [changed EXCEPT ![t] = FALSE]
  /\ pciProvider' = [pciProvider EXCEPT ![t] = 0]
  /\ UNCHANGED <<enabled, props, unannounced>>

\* After a property: the other one, or the test for the PCI device.
AfterProperty(t) ==
  IF key[t] = "LoadAccelerator"
  THEN /\ key' = [key EXCEPT ![t] = "LoadHWServices"]
       /\ stage' = [stage EXCEPT ![t] = "get"]
  ELSE /\ key' = key /\ stage' = [stage EXCEPT ![t] = "ids"]

\* Mutant of GetProperty: the property is always set again.
GetPropertyIgnored(t) ==
  /\ stage[t] = "get"
  /\ stage' = [stage EXCEPT ![t] = "set"] /\ key' = key
  /\ UNCHANGED <<enabled, props, current, changed, pciProvider, unannounced>>

\* Mutant of GetProperty: changed tells only of the latest property.
GetPropertyForgets(t) ==
  /\ stage[t] = "get"
  /\ IF key[t] \in props[current[t]]
     THEN AfterProperty(t) /\ changed' = [changed EXCEPT ![t] = FALSE]
     ELSE stage' = [stage EXCEPT ![t] = "set"] /\ UNCHANGED <<key, changed>>
  /\ UNCHANGED <<enabled, props, current, pciProvider, unannounced>>

\* ensureBooleanProperty, first half.
GetProperty(t) ==
  /\ stage[t] = "get"
  /\ IF key[t] \in props[current[t]] THEN AfterProperty(t)
     ELSE stage' = [stage EXCEPT ![t] = "set"] /\ key' = key
  /\ UNCHANGED <<enabled, props, current, changed, pciProvider, unannounced>>

\* Mutant of SetProperty: the second property is not stored.
SetPropertyFirstOnly(t) ==
  /\ stage[t] = "set"
  /\ props' = IF key[t] = "LoadHWServices" THEN props
              ELSE [props EXCEPT ![current[t]] = @ \union {key[t]}]
  /\ unannounced' = unannounced \union {current[t]}
  /\ changed' = [changed EXCEPT ![t] = TRUE]
  /\ AfterProperty(t)
  /\ UNCHANGED <<enabled, current, pciProvider>>

\* ensureBooleanProperty, second half.  It ignores the result of setProperty and
\* returns true: setProperty is assumed to store (it fails only out of memory).
SetProperty(t) ==
  /\ stage[t] = "set"
  /\ props' = [props EXCEPT ![current[t]] = @ \union {key[t]}]
  /\ unannounced' = unannounced \union {current[t]}
  /\ changed' = [changed EXCEPT ![t] = TRUE]
  /\ AfterProperty(t)
  /\ UNCHANGED <<enabled, current, pciProvider>>

\* On to the provider; at the root the hook is done, with nothing to register.
NextService(t) ==
  /\ stage[t] = "ids" /\ current[t] \notin Pci
  /\ current' = [current EXCEPT ![t] = Provider[@]]
  /\ key' = [key EXCEPT ![t] = "LoadAccelerator"]
  /\ stage' = [stage EXCEPT ![t] = IF Provider[current[t]] = 0 THEN "idle" ELSE "get"]
  /\ UNCHANGED <<enabled, props, changed, pciProvider, unannounced>>

\* The PCI device is reached; it is registered if a property was changed.
FindPciProvider(t) ==
  /\ stage[t] = "ids" /\ current[t] \in Pci
  /\ pciProvider' = [pciProvider EXCEPT ![t] = current[t]]
  /\ stage' = [stage EXCEPT ![t] = IF changed[t] THEN "register" ELSE "idle"]
  /\ UNCHANGED <<enabled, props, current, key, changed, unannounced>>

\* The PCI device a walk from service n ends at, 0 if there is none.
pciOf[n \in 0 .. N] ==
  IF n = 0 THEN 0 ELSE IF n \in Pci THEN n ELSE pciOf[Provider[n]]

\* registerService starts matching, asynchronously, for what was marked so far.
RegisterService(t) ==
  /\ stage[t] = "register" /\ stage' = [stage EXCEPT ![t] = "idle"]
  /\ unannounced' = {n \in unannounced : pciOf[n] # pciProvider[t]}
  /\ UNCHANGED <<enabled, props, locals>>

Prime(t) ==
  GetProperty(t) \/ SetProperty(t) \/ NextService(t) \/ FindPciProvider(t)
    \/ RegisterService(t)

PrimeNext == \E t \in HookThreads :
  \/ Prime(t)
  \/ \E service \in 0 .. N, event \in {1, 2, 91, 93, 4} :
       \E hook \in {"findProjectByPartNumber", "TestVRAM", "notifyLinkChange"} :
         CallHook(t, hook, event, service)

PrimeSpec == PrimeInit /\ [][PrimeNext]_primeVars

\* A thread inside a hook goes on; nothing makes a driver call one.
FairPrimeSpec == PrimeSpec /\ \A t \in HookThreads : WF_primeVars(Prime(t))

------------------------------------------------------------------------------
PrimeTypeOK ==
  /\ enabled \in BOOLEAN /\ props \in [Services -> SUBSET Properties]
  /\ stage \in [HookThreads -> {"idle", "get", "set", "ids", "register"}]
  /\ current \in [HookThreads -> 0 .. N] /\ key \in [HookThreads -> Properties]
  /\ changed \in [HookThreads -> BOOLEAN] /\ pciProvider \in [HookThreads -> Pci \union {0}]
  /\ unannounced \subseteq Services
  /\ \A t \in HookThreads : stage[t] \in {"get", "set", "ids"} => current[t] # 0
  /\ \A t \in HookThreads : stage[t] = "register" => pciProvider[t] # 0

\* No mark is left unannounced: when no hook is running, every service a hook
\* has marked has had its PCI device registered since, even when several hooks
\* marked the services of one chain between them.
MarksAnnounced ==
  (\A t \in HookThreads : stage[t] = "idle") => \A n \in unannounced : pciOf[n] = 0

\* A PCI device is registered only with both properties set: matching never
\* sees the accelerator's property without the one of HWServices.
RegisteredPrimed ==
  \A t \in HookThreads : stage[t] = "register" => props[pciProvider[t]] = Properties

\* However often matching calls the hooks again, registrations come to an end:
\* priming does not feed on the matching that it starts itself.
RegistrationsStop == <>[](\A t \in HookThreads : stage[t] # "register")
==============================================================================
