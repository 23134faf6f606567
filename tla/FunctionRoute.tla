---------------------------- MODULE FunctionRoute ----------------------------
(***************************************************************************)
(* Routing a kernel function to a hook while other processors call it:     *)
(* KernelPatcher::routeMultiple and routeFunctionInternal, driven by the   *)
(* route requests of Kryptonite and of the other plug-ins that share its   *)
(* functions.                                                              *)
(*                                                                         *)
(* The first bytes of a function are its prologue, a jump, or a half       *)
(* written jump.  A Medium jump goes through an address slot of the kext.  *)
(* A trampoline holds a function's prologue and continues in its body.     *)
(* The requests are served one after the other by the thread that patches; *)
(* the callers run on other processors.  The erasing of coverage counters  *)
(* on instrumented kernels is left out.                                    *)
(***************************************************************************)
EXTENDS Naturals, Sequences

CONSTANTS
  Functions,   \* kernel functions
  Hooks,       \* hook functions; each has one pointer to its original
  Far,         \* the hooks that are out of reach of a 32-bit displacement
  Passing,     \* the hooks that go on to their original, or may
  Answering,   \* the hooks that return without it, or may
  Align,       \* Align[f]: f's address is a multiple of this (1, 8 or 16)
  Requests,    \* route requests, in the order they are made
  SlotCount,   \* address slots of the kext
  MaxTrampolines, \* trampolines that fit in tempExecutableMemory
  Callers      \* threads that call the functions

\* fallback: the request is made only if the one before it left its symbol
\* unsolved or the hook's original pointer null.
Request == [hook : Hooks, fn : Functions, jump : {"Auto", "Long", "Short"},
            fallback : BOOLEAN]

ASSUME RequestsAssumption == Requests \in Seq(Request)
\* A hook has one original pointer, so it serves one function; a second request
\* with the same hook is the fallback of the one before it.
ASSUME HooksAssumption ==
  \A q, r \in 1 .. Len(Requests) :
    q < r /\ Requests[q].hook = Requests[r].hook =>
      r = q + 1 /\ Requests[r].fallback
ASSUME AlignAssumption    == Align \in [Functions -> {1, 8, 16}]
ASSUME BoundsAssumption   == SlotCount \in Nat /\ MaxTrampolines \in Nat
ASSUME FarAssumption      == Far \subseteq Hooks
ASSUME ReturnAssumption   == Passing \union Answering = Hooks

\* What an address can lead to.
Null          == [kind |-> "null"]
Hook(h)       == [kind |-> "hook", hook |-> h]
Trampoline(f) == [kind |-> "trampoline", fn |-> f]

Slots    == 1 .. SlotCount
Prologue == [jump |-> "none"]
Torn     == [jump |-> "torn"]

VARIABLES
  entry,       \* the first bytes of each function
  slots,       \* contents of the address slots
  usedSlots,   \* slots handed out by getAddressSlot
  usedTramps,  \* trampolines allocated
  org,         \* the original pointer of each hook
  req, pc,     \* the request being served, and where
  from,        \* the symbol of the latest request made was solved
  trampoline, addressSlot,   \* locals of routeFunctionInternal
  routed,      \* the requests that were carried out
  at           \* where each caller is

writer == <<entry, slots, usedSlots, usedTramps, org, req, pc, from,
            trampoline, addressSlot, routed>>
vars   == <<writer, at>>

Idle == [loc |-> "idle"]

Init ==
  /\ entry = [f \in Functions |-> Prologue]
  /\ slots = [s \in Slots |-> Null] /\ usedSlots = 0 /\ usedTramps = 0
  /\ org = [h \in Hooks |-> Null]
  /\ req = 1 /\ pc = "solve" /\ from = FALSE
  /\ trampoline = Null /\ addressSlot = 0 /\ routed = {}
  /\ at = [c \in Callers |-> Idle]

R == Requests[req]

\* The hook cannot be reached by a short jump, or the caller asked for a long one.
absolute == R.hook \in Far \/ R.jump = "Long"

\* The caller asked for a short jump, and it does not get there.
outOfReach == R.jump = "Short" /\ R.hook \in Far

NextRequest == req' = req + 1 /\ pc' = "solve"

------------------------------------------------------------------------------
(* Kryptonite's requests and routeMultipleInternal *)

\* Mutant of FallbackNotNeeded: the second symbol is routed as well.
FallbackAlways == FALSE

\* disableIntelFramebufferAGDC returns after its first request.
FallbackNotNeeded == R.fallback /\ from /\ org[R.hook] # Null

SkipRequest ==
  /\ req <= Len(Requests) /\ pc = "solve" /\ FallbackNotNeeded
  /\ NextRequest
  /\ UNCHANGED <<entry, slots, usedSlots, usedTramps, org, from, trampoline,
                 addressSlot, routed, at>>

\* solveSymbol finds the function or not.
SolveSymbol ==
  /\ req <= Len(Requests) /\ pc = "solve" /\ ~FallbackNotNeeded
  /\ \/ from' = TRUE /\ pc' = "chain" /\ req' = req
     \/ from' = FALSE /\ NextRequest
  /\ UNCHANGED <<entry, slots, usedSlots, usedTramps, org, trampoline,
                 addressSlot, routed, at>>

------------------------------------------------------------------------------
(* routeFunctionInternal *)

\* MachInfo::getAddressSlot, 0 when the slots are used up.
GetAddressSlot ==
  IF usedSlots < SlotCount
  THEN addressSlot' = usedSlots + 1 /\ usedSlots' = usedSlots + 1
  ELSE addressSlot' = 0 /\ usedSlots' = usedSlots

ReachFails ==
  /\ pc = "chain" /\ outOfReach
  /\ NextRequest
  /\ UNCHANGED <<entry, slots, usedSlots, usedTramps, org, from, trampoline,
                 addressSlot, routed, at>>

\* Mutant of FollowChain: the jump of an earlier route is not recognised.
IgnoreChain ==
  /\ pc = "chain" /\ entry[R.fn].jump \in {"Short", "Medium", "Long"}
  /\ IF absolute THEN GetAddressSlot ELSE addressSlot' = 0 /\ usedSlots' = usedSlots
  /\ trampoline' = Trampoline(R.fn) /\ pc' = "org"
  /\ UNCHANGED <<entry, slots, usedTramps, org, req, from, routed, at>>

\* The function starts with a jump of an earlier route: readChain returns where
\* it goes.  A short jump cannot be shared, and a slotted one needs another slot.
FollowChain ==
  /\ pc = "chain" /\ ~outOfReach
  /\ entry[R.fn].jump \in {"Short", "Medium", "Long"}
  /\ IF entry[R.fn].jump = "Medium"
     THEN trampoline' = slots[entry[R.fn].slot] /\ GetAddressSlot
     ELSE trampoline' = entry[R.fn].to /\ addressSlot' = 0
            /\ usedSlots' = usedSlots
  /\ pc' = IF \/ entry[R.fn].jump = "Short" \/ R.jump = "Short"
              \/ entry[R.fn].jump = "Medium" /\ addressSlot' = 0
           THEN "panic" ELSE "org"
  /\ UNCHANGED <<entry, slots, usedTramps, org, req, from, routed, at>>

\* createTrampoline fails: the memory is write protected or the prologue cannot be
\* disassembled, or, once room has been taken, there was none or the jump back into
\* the function cannot be routed.  routeMultipleInternal takes EINVAL for a wrapper;
\* PatchApplicator sees the error code.
TrampolineFails ==
  /\ pc = "chain" /\ ~outOfReach /\ entry[R.fn].jump = "none"
  /\ IF absolute THEN GetAddressSlot ELSE addressSlot' = 0 /\ usedSlots' = usedSlots
  /\ usedTramps' \in {usedTramps, usedTramps + 1}
  /\ NextRequest
  /\ UNCHANGED <<entry, slots, org, from, trampoline, routed, at>>

CreateTrampoline ==
  /\ pc = "chain" /\ ~outOfReach /\ entry[R.fn].jump = "none"
  /\ IF absolute THEN GetAddressSlot ELSE addressSlot' = 0 /\ usedSlots' = usedSlots
  /\ usedTramps < MaxTrampolines /\ usedTramps' = usedTramps + 1
  /\ trampoline' = Trampoline(R.fn) /\ pc' = "org"
  /\ UNCHANGED <<entry, slots, org, req, from, routed, at>>

\* Mutant of StoreOriginal: the pointer gets the hook instead of its original.
StoreHook ==
  /\ pc = "org"
  /\ org' = [org EXCEPT ![R.hook] = Hook(R.hook)] /\ pc' = "protect"
  /\ UNCHANGED <<entry, slots, usedSlots, usedTramps, req, from, trampoline,
                 addressSlot, routed, at>>

\* "Write original function before making route".
StoreOriginal ==
  /\ pc = "org"
  /\ org' = [org EXCEPT ![R.hook] = trampoline] /\ pc' = "protect"
  /\ UNCHANGED <<entry, slots, usedSlots, usedTramps, req, from, trampoline,
                 addressSlot, routed, at>>

\* The patches cannot be allocated or the memory stays write protected: the
\* original pointer keeps its new value.
ProtectFails ==
  /\ pc = "protect" /\ NextRequest
  /\ UNCHANGED <<entry, slots, usedSlots, usedTramps, org, from, trampoline,
                 addressSlot, routed, at>>

\* Writing is on; a slot gets its target before anything jumps through it.
WriteSlot ==
  /\ pc = "protect" /\ pc' = "jump"
  /\ slots' = IF addressSlot = 0 THEN slots
              ELSE [slots EXCEPT ![addressSlot] = Hook(R.hook)]
  /\ UNCHANGED <<entry, usedSlots, usedTramps, org, req, from, trampoline,
                 addressSlot, routed, at>>

Jump ==
  IF addressSlot # 0 THEN [jump |-> "Medium", slot |-> addressSlot]
  ELSE [jump |-> IF absolute THEN "Long" ELSE "Short", to |-> Hook(R.hook)]

\* Mutant of AtomicStore: only the 16-byte store is used.
AtomicAtSixteen == Align[R.fn] = 16

\* The jump fits in one aligned store of 8 or 16 bytes.
AtomicStore ==
  IF Jump.jump = "Long" THEN Align[R.fn] = 16 ELSE Align[R.fn] \in {8, 16}

Routed == routed' = routed \union {req} /\ NextRequest

StoreJump ==
  /\ pc = "jump" /\ AtomicStore
  /\ entry' = [entry EXCEPT ![R.fn] = Jump] /\ Routed
  /\ UNCHANGED <<slots, usedSlots, usedTramps, org, from, trampoline,
                 addressSlot, at>>

\* Otherwise the jump is written in pieces.
TearJump ==
  /\ pc = "jump" /\ ~AtomicStore
  /\ entry' = [entry EXCEPT ![R.fn] = Torn] /\ pc' = "rest"
  /\ UNCHANGED <<slots, usedSlots, usedTramps, org, req, from, trampoline,
                 addressSlot, routed, at>>

CompleteJump ==
  /\ pc = "rest"
  /\ entry' = [entry EXCEPT ![R.fn] = Jump] /\ Routed
  /\ UNCHANGED <<slots, usedSlots, usedTramps, org, from, trampoline,
                 addressSlot, at>>

Route == SkipRequest \/ SolveSymbol \/ ReachFails \/ FollowChain
           \/ TrampolineFails \/ CreateTrampoline \/ StoreOriginal \/ ProtectFails \/ WriteSlot
           \/ StoreJump \/ TearJump \/ CompleteJump

------------------------------------------------------------------------------
(* The callers.  A hook calls the function its original pointer names, or     *)
(* answers the call itself.  A panic stops every processor.                  *)

\* Where execution is after control reached a target during a call of f.
Arrive(f, target) ==
  [loc |-> CASE target.kind = "hook" -> "hook"
             [] target.kind = "null" -> "null"
             [] OTHER -> IF target.fn = f THEN "body" ELSE "foreign",
   fn |-> f, at |-> target]

Enter(c, f) ==
  /\ pc # "panic" /\ at[c].loc = "idle"
  /\ at' = [at EXCEPT ![c] =
       CASE entry[f].jump = "none"   -> [loc |-> "prologue", fn |-> f]
         [] entry[f].jump = "torn"   -> [loc |-> "torn", fn |-> f]
         [] entry[f].jump = "Medium" -> Arrive(f, slots[entry[f].slot])
         [] OTHER                    -> Arrive(f, entry[f].to)]
  /\ UNCHANGED writer

\* A caller stopped inside the prologue goes on with the bytes it finds there.
FinishPrologue(c) ==
  /\ pc # "panic" /\ at[c].loc = "prologue"
  /\ at' = [at EXCEPT ![c] =
       IF entry[at[c].fn] = Prologue
       THEN [loc |-> "body", fn |-> at[c].fn, at |-> Trampoline(at[c].fn)]
       ELSE [loc |-> "midway", fn |-> at[c].fn]]
  /\ UNCHANGED writer

CallOriginal(c) ==
  /\ pc # "panic" /\ at[c].loc = "hook" /\ at[c].at.hook \in Passing
  /\ at' = [at EXCEPT ![c] = Arrive(at[c].fn, org[at[c].at.hook])]
  /\ UNCHANGED writer

\* amdSupportTestVRAM, amd9500FindProjectByPartNumber, and intelFBClientDoAttribute
\* for the one attribute it blocks.
HookAnswers(c) ==
  /\ pc # "panic" /\ at[c].loc = "hook" /\ at[c].at.hook \in Answering
  /\ at' = [at EXCEPT ![c] = Idle]
  /\ UNCHANGED writer

Return(c) ==
  /\ pc # "panic" /\ at[c].loc = "body"
  /\ at' = [at EXCEPT ![c] = Idle]
  /\ UNCHANGED writer

Call(c) == FinishPrologue(c) \/ CallOriginal(c) \/ HookAnswers(c) \/ Return(c)

Next == Route \/ \E c \in Callers : Call(c) \/ \E f \in Functions : Enter(c, f)

\* The patching thread is not preempted for good, and a processor that has
\* entered a function goes on executing.
Fairness == WF_vars(Route) /\ \A c \in Callers : WF_vars(Call(c))

Spec     == Init /\ [][Next]_vars
FairSpec == Spec /\ Fairness

------------------------------------------------------------------------------
\* A call that goes through hooks ends in one that answers it or in the body of the
\* function that was called: no caller ever finds a null original pointer or an empty slot, and
\* none is sent to another function's body, whichever step of a route it meets.
OriginalReached ==
  \A c \in Callers : at[c].loc \notin {"null", "foreign"}

\* A caller executes a half-written jump only where routeFunctionInternal
\* cannot swap the bytes atomically: never in a 16-byte aligned function, and
\* in an 8-byte aligned one only when a long jump without a slot is written.
TornOnlyUnaligned ==
  \A c \in Callers : at[c].loc = "torn" =>
    \/ Align[at[c].fn] = 1
    \/ Align[at[c].fn] = 8 /\ usedSlots = SlotCount

\* The hook a call of f runs first.
FirstHook(f) ==
  CASE entry[f].jump = "Medium" -> slots[entry[f].slot]
    [] entry[f].jump \in {"Short", "Long"} -> entry[f].to
    [] OTHER -> Null

Calls(g, h) == org[g] = Hook(h)

\* With a hook that goes on to its original, S has every hook the pointer leads to.
ClosedUnderCalls(S) == \A g \in S \intersect Passing, h \in Hooks : Calls(g, h) => h \in S

\* The hooks a call of f can run: where its entry leads, and on from there.
HooksRun(f) ==
  {h \in Hooks : \A S \in SUBSET Hooks :
     ClosedUnderCalls(S) /\ (\A g \in Hooks : FirstHook(f) = Hook(g) => g \in S)
       => h \in S}

\* A later route of the same function has a hook that never goes on to its original.
CutOff(r) ==
  \E q \in routed : /\ r < q /\ Requests[q].fn = Requests[r].fn
                    /\ Requests[q].hook \notin Passing

\* A route once carried out stays in force: later routes of the same function by this
\* or another plug-in chain to its hook.  Calls stop reaching it only when a hook
\* routed later, like the one on testVRAM, never calls its original.
RoutesCompose ==
  \A r \in routed :
    entry[Requests[r].fn] # Torn =>
      Requests[r].hook \in HooksRun(Requests[r].fn) \/ CutOff(r)

\* Every call returns, or ends in one of the accidents above: hooks never call
\* each other in a circle.
CallsReturn ==
  \A c \in Callers :
    at[c].loc \in {"prologue", "hook", "body"} ~>
      pc = "panic" \/ at[c].loc \notin {"prologue", "hook", "body"}
==============================================================================
