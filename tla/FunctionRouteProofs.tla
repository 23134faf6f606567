------------------------- MODULE FunctionRouteProofs -------------------------
(***************************************************************************)
(* Theorems about routeMultiple and routeFunctionInternal, for every set   *)
(* of functions, hooks and callers and every list of requests in which a   *)
(* hook serves one function.                                               *)
(***************************************************************************)
EXTENDS FunctionRoute, TLAPS

\* What an address of the model can lead to, what the first bytes of a function can
\* be, and where a caller can be.
Target == {Null} \union {Hook(h) : h \in Hooks} \union {Trampoline(f) : f \in Functions}

Entries == {Prologue, Torn} \union [jump : {"Medium"}, slot : Slots]
             \union [jump : {"Short", "Long"}, to : Target]

Places == [loc : {"idle"}] \union [loc : {"prologue", "torn", "midway"}, fn : Functions]
            \union [loc : {"hook"}, fn : Functions, at : {Hook(h) : h \in Hooks}]
            \union [loc : {"null", "body", "foreign"}, fn : Functions, at : Target]

\* The stages in which routeFunctionInternal has its trampoline and its slot.
Holding == {"org", "protect", "jump", "rest"}

RouteTypes ==
  /\ entry \in [Functions -> Entries] /\ slots \in [Slots -> Target]
  /\ org \in [Hooks -> Target] /\ trampoline \in Target
  /\ usedSlots \in 0 .. SlotCount /\ addressSlot \in 0 .. usedSlots
  /\ req \in 1 .. Len(Requests) + 1
  /\ pc \in {"solve", "chain", "panic"} \union Holding
  /\ pc # "solve" => req <= Len(Requests)
  /\ routed \subseteq 1 .. Len(Requests)
  /\ at \in [Callers -> Places]

LEMMA TargetFacts ==
  /\ Null \in Target /\ Null.kind = "null"
  /\ \A h \in Hooks : /\ Hook(h) \in Target /\ Hook(h) # Null
                      /\ Hook(h).kind = "hook" /\ Hook(h).hook = h
  /\ \A f \in Functions : /\ Trampoline(f) \in Target /\ Trampoline(f) # Null
                          /\ Trampoline(f).kind = "trampoline" /\ Trampoline(f).fn = f
  /\ \A g, h \in Hooks : Hook(g) = Hook(h) => g = h
  /\ \A h \in Hooks, f \in Functions : Hook(h) # Trampoline(f)
<1>1. Null.kind = "null"
  BY DEF Null
<1>2. \A h : Hook(h).kind = "hook" /\ Hook(h).hook = h
  BY DEF Hook
<1>3. \A f : Trampoline(f).kind = "trampoline" /\ Trampoline(f).fn = f
  BY DEF Trampoline
<1>4. /\ Null \in Target /\ \A h \in Hooks : Hook(h) \in Target
      /\ \A f \in Functions : Trampoline(f) \in Target
  BY DEF Target
<1>. QED BY <1>1, <1>2, <1>3, <1>4

LEMMA EntryFacts ==
  /\ Prologue \in Entries /\ Prologue.jump = "none"
  /\ Torn \in Entries /\ Torn.jump = "torn"
  /\ \A s \in Slots : [jump |-> "Medium", slot |-> s] \in Entries
  /\ \A j \in {"Short", "Long"}, x \in Target : [jump |-> j, to |-> x] \in Entries
  /\ \A e \in Entries :
       /\ e.jump \in {"none", "torn", "Medium", "Short", "Long"}
       /\ e.jump = "none" => e = Prologue
       /\ e.jump = "torn" => e = Torn
       /\ e.jump = "Medium" => e.slot \in Slots
       /\ e.jump \in {"Short", "Long"} => e.to \in Target
<1>1. Prologue.jump = "none" /\ Torn.jump = "torn"
  BY DEF Prologue, Torn
<1>2. Prologue \in Entries /\ Torn \in Entries
  BY DEF Entries
<1>3. \A s \in Slots : [jump |-> "Medium", slot |-> s] \in Entries
  BY DEF Entries
<1>4. \A j \in {"Short", "Long"}, x \in Target : [jump |-> j, to |-> x] \in Entries
  BY DEF Entries
<1>5. ASSUME NEW e \in Entries
      PROVE  /\ e.jump \in {"none", "torn", "Medium", "Short", "Long"}
             /\ e.jump = "none" => e = Prologue
             /\ e.jump = "torn" => e = Torn
             /\ e.jump = "Medium" => e.slot \in Slots
             /\ e.jump \in {"Short", "Long"} => e.to \in Target
  BY <1>1, <1>5 DEF Entries
<1>. QED BY <1>1, <1>2, <1>3, <1>4, <1>5

\* The request being served.
LEMMA RequestFacts ==
  ASSUME RouteTypes, req <= Len(Requests)
  PROVE  R.hook \in Hooks /\ R.fn \in Functions /\ req \in 1 .. Len(Requests)
<1>1. req \in 1 .. Len(Requests)
  BY RequestsAssumption DEF RouteTypes
<1>2. Requests[req] \in Request
  BY <1>1, RequestsAssumption
<1>. QED BY <1>1, <1>2 DEF R, Request

LEMMA PlaceFacts ==
  \A p \in Places :
    /\ p.loc \in {"idle", "prologue", "torn", "midway", "hook", "null", "body", "foreign"}
    /\ p.loc # "idle" => p.fn \in Functions
    /\ p.loc = "hook" => \E h \in Hooks : p.at = Hook(h)
BY DEF Places

LEMMA ArriveType ==
  ASSUME NEW f \in Functions, NEW x \in Target
  PROVE  Arrive(f, x) \in Places
<1>1. CASE x = Null
  <2>1. Arrive(f, x) = [loc |-> "null", fn |-> f, at |-> x]
    BY <1>1, TargetFacts DEF Arrive
  <2>. QED BY <2>1 DEF Places
<1>2. CASE \E h \in Hooks : x = Hook(h)
  <2>1. Arrive(f, x) = [loc |-> "hook", fn |-> f, at |-> x]
    BY <1>2, TargetFacts DEF Arrive
  <2>. QED BY <1>2, <2>1 DEF Places
<1>3. CASE \E g \in Functions : x = Trampoline(g)
  <2>1. Arrive(f, x) = [loc |-> IF x.fn = f THEN "body" ELSE "foreign",
                        fn |-> f, at |-> x]
    BY <1>3, TargetFacts DEF Arrive
  <2>. QED BY <2>1 DEF Places
<1>. QED BY <1>1, <1>2, <1>3 DEF Target

\* The jump that is written.
LEMMA JumpType ==
  ASSUME RouteTypes, req <= Len(Requests) PROVE Jump \in Entries
<1>1. addressSlot # 0 => addressSlot \in Slots
  BY BoundsAssumption DEF RouteTypes, Slots
<1>2. Hook(R.hook) \in Target
  BY RequestFacts, TargetFacts
<1>. QED BY <1>1, <1>2, EntryFacts DEF Jump

LEMMA RouteTypesInit == Init => RouteTypes
<1>. SUFFICES ASSUME Init PROVE RouteTypes
  OBVIOUS
<1>1. entry \in [Functions -> Entries] /\ slots \in [Slots -> Target]
        /\ org \in [Hooks -> Target] /\ trampoline \in Target
  BY EntryFacts, TargetFacts DEF Init
<1>2. at \in [Callers -> Places]
  BY DEF Init, Idle, Places
<1>. QED BY <1>1, <1>2, BoundsAssumption, RequestsAssumption DEF Init, RouteTypes

\* Moving on to the next request.
LEMMA NextRequestType ==
  ASSUME RouteTypes, req <= Len(Requests), NextRequest
  PROVE  /\ req' \in 1 .. Len(Requests) + 1 /\ pc' = "solve"
BY RequestsAssumption DEF RouteTypes, NextRequest

LEMMA SlotType ==
  ASSUME RouteTypes, GetAddressSlot
  PROVE  usedSlots' \in 0 .. SlotCount /\ addressSlot' \in 0 .. usedSlots'
BY BoundsAssumption DEF RouteTypes, GetAddressSlot

LEMMA RouteTypesStep ==
  ASSUME RouteTypes, [Next]_vars PROVE RouteTypes'
<1>. USE DEF RouteTypes, Holding
<1>1. CASE SkipRequest
  BY <1>1, NextRequestType DEF SkipRequest
<1>2. CASE SolveSymbol
  BY <1>2, NextRequestType DEF SolveSymbol
<1>3. CASE FollowChain
  <2>1. R.fn \in Functions /\ entry[R.fn] \in Entries
    BY <1>3, RequestFacts DEF FollowChain
  <2>2. trampoline' \in Target
    BY <1>3, <2>1, EntryFacts DEF FollowChain
  <2>3. usedSlots' \in 0 .. SlotCount /\ addressSlot' \in 0 .. usedSlots'
    BY <1>3, SlotType DEF FollowChain
  <2>4. pc' \in {"panic", "org"} /\ req <= Len(Requests)
    BY <1>3 DEF FollowChain
  <2>. QED BY <1>3, <2>2, <2>3, <2>4 DEF FollowChain
<1>4. CASE TrampolineFails
  <2>1. usedSlots' \in 0 .. SlotCount /\ addressSlot' \in 0 .. usedSlots'
    BY <1>4, SlotType DEF TrampolineFails
  <2>. QED BY <1>4, <2>1, NextRequestType DEF TrampolineFails
<1>5. CASE CreateTrampoline
  <2>1. usedSlots' \in 0 .. SlotCount /\ addressSlot' \in 0 .. usedSlots'
    BY <1>5, SlotType DEF CreateTrampoline
  <2>2. trampoline' \in Target
    BY <1>5, RequestFacts, TargetFacts DEF CreateTrampoline
  <2>. QED BY <1>5, <2>1, <2>2 DEF CreateTrampoline
<1>6. CASE StoreOriginal
  BY <1>6, Zenon DEF StoreOriginal
<1>7. CASE ReachFails \/ ProtectFails
  BY <1>7, NextRequestType DEF ReachFails, ProtectFails
<1>8. CASE WriteSlot
  <2>1. slots' \in [Slots -> Target]
    BY <1>8, RequestFacts, TargetFacts, Zenon DEF WriteSlot
  <2>. QED BY <1>8, <2>1 DEF WriteSlot
<1>9. CASE StoreJump \/ CompleteJump
  <2>1. entry' \in [Functions -> Entries] /\ NextRequest /\ routed' = routed \union {req}
    BY <1>9, JumpType DEF StoreJump, CompleteJump, Routed
  <2>2. req \in 1 .. Len(Requests)
    BY <1>9, RequestFacts DEF StoreJump, CompleteJump
  <2>. QED BY <1>9, <2>1, <2>2, NextRequestType DEF StoreJump, CompleteJump
<1>10. CASE TearJump
  <2>1. entry' \in [Functions -> Entries]
    BY <1>10, EntryFacts, Zenon DEF TearJump
  <2>. QED BY <1>10, <2>1 DEF TearJump
<1>11. ASSUME NEW c \in Callers, Call(c) \/ \E f \in Functions : Enter(c, f)
       PROVE  RouteTypes'
  <2>1. UNCHANGED writer
    BY <1>11 DEF Call, FinishPrologue, CallOriginal, HookAnswers, Return, Enter
  <2>2. \E p \in Places : at' = [at EXCEPT ![c] = p]
    <3>0. at[c] \in Places
      OBVIOUS
    <3>1. CASE Return(c) \/ HookAnswers(c)
      BY <3>1, Zenon DEF Return, HookAnswers, Idle, Places
    <3>2. CASE FinishPrologue(c)
      <4>1. at[c].loc = "prologue"
        BY <3>2 DEF FinishPrologue
      <4>2. at[c].fn \in Functions
        BY <3>0, <4>1 DEF Places
      <4>3. Trampoline(at[c].fn) \in Target
        BY <4>2, TargetFacts
      <4>4. /\ [loc |-> "midway", fn |-> at[c].fn] \in Places
            /\ [loc |-> "body", fn |-> at[c].fn, at |-> Trampoline(at[c].fn)] \in Places
        BY <4>2, <4>3 DEF Places
      <4>. QED BY <3>2, <4>4, Zenon DEF FinishPrologue
    <3>3. CASE CallOriginal(c)
      <4>1. at[c].loc = "hook"
        BY <3>3 DEF CallOriginal
      <4>2. PICK h \in Hooks : at[c].at = Hook(h)
        BY <3>0, <4>1, PlaceFacts
      <4>3. at[c].fn \in Functions /\ org[at[c].at.hook] \in Target
        BY <3>0, <4>1, <4>2, PlaceFacts, TargetFacts
      <4>. QED BY <3>3, <4>3, ArriveType, Zenon DEF CallOriginal
    <3>4. ASSUME NEW f \in Functions, Enter(c, f)
          PROVE  \E p \in Places : at' = [at EXCEPT ![c] = p]
      <4>1. entry[f] \in Entries
        OBVIOUS
      <4>2. CASE entry[f].jump \in {"none", "torn"}
        <5>1. /\ [loc |-> "prologue", fn |-> f] \in Places
              /\ [loc |-> "torn", fn |-> f] \in Places
          BY DEF Places
        <5>. QED BY <3>4, <4>2, <5>1, Zenon DEF Enter
      <4>3. CASE entry[f].jump = "Medium"
        <5>1. slots[entry[f].slot] \in Target
          BY <4>1, <4>3, EntryFacts
        <5>. QED BY <3>4, <4>3, <5>1, ArriveType, Zenon DEF Enter
      <4>4. CASE entry[f].jump \in {"Short", "Long"}
        <5>1. entry[f].to \in Target
          BY <4>1, <4>4, EntryFacts
        <5>. QED BY <3>4, <4>4, <5>1, ArriveType, Zenon DEF Enter
      <4>. QED BY <4>1, <4>2, <4>3, <4>4, EntryFacts
    <3>. QED BY <1>11, <3>1, <3>2, <3>3, <3>4 DEF Call
  <2>. QED BY <2>1, <2>2 DEF writer
<1>12. CASE UNCHANGED vars
  BY <1>12 DEF vars, writer
<1>. QED BY <1>1, <1>2, <1>3, <1>4, <1>5, <1>6, <1>7, <1>8, <1>9, <1>10, <1>11, <1>12, ZenonT(40)
       DEF Next, Route

\* A step of a caller leaves what the patching thread works on alone.
LEMMA WriterSteps ==
  ASSUME [Next]_vars PROVE Route \/ UNCHANGED writer
BY DEF Next, vars, Call, FinishPrologue, CallOriginal, HookAnswers, Return, Enter

------------------------------------------------------------------------------
(* The original pointers.  A pointer is set once: a request finds that of its  *)
(* hook null, because a second request with the same hook is only made when   *)
(* the first has left it so.                                                 *)

OrgInv ==
  /\ pc \in {"chain"} \union Holding => from = TRUE
  /\ pc \in {"chain", "org"} => org[R.hook] = Null
  /\ \A h \in Hooks : org[h] # Null =>
       \E q \in 1 .. req : /\ q <= Len(Requests) /\ Requests[q].hook = h
                           /\ q < req \/ pc \in {"protect", "jump", "rest"}
  /\ pc = "solve" /\ req > 1 /\ org[Requests[req - 1].hook] # Null => from = TRUE

\* Going on to the next request.
LEMMA OrgNextRequest ==
  ASSUME RouteTypes, OrgInv, pc \in {"chain", "protect", "jump", "rest"},
         NextRequest, UNCHANGED <<org, from>>
  PROVE  OrgInv'
<1>1. from' = TRUE /\ req' = req + 1 /\ pc' = "solve" /\ req \in Nat
  BY DEF OrgInv, NextRequest, Holding, RouteTypes
<1>2. ASSUME NEW h \in Hooks, org'[h] # Null
      PROVE  \E q \in 1 .. req' : /\ q <= Len(Requests) /\ Requests[q].hook = h
                                  /\ q < req' \/ pc' \in {"protect", "jump", "rest"}
  <2>1. PICK q \in 1 .. req : q <= Len(Requests) /\ Requests[q].hook = h
    BY <1>2 DEF OrgInv
  <2>. QED BY <1>1, <2>1
<1>. QED BY <1>1, <1>2 DEF OrgInv, Holding

LEMMA OrgStep ==
  ASSUME RouteTypes, OrgInv, [Next]_vars PROVE OrgInv'
<1>1. CASE SkipRequest
  <2>1. /\ from' = from /\ from /\ req' = req + 1 /\ pc' = "solve" /\ org' = org
        /\ req \in Nat
    BY <1>1 DEF SkipRequest, NextRequest, FallbackNotNeeded, RouteTypes
  <2>2. ASSUME NEW h \in Hooks, org'[h] # Null
        PROVE  \E q \in 1 .. req' : /\ q <= Len(Requests) /\ Requests[q].hook = h
                                    /\ q < req' \/ pc' \in {"protect", "jump", "rest"}
    <3>1. PICK q \in 1 .. req : q <= Len(Requests) /\ Requests[q].hook = h
      BY <2>1, <2>2 DEF OrgInv
    <3>. QED BY <2>1, <3>1
  <2>. QED BY <2>1, <2>2 DEF OrgInv, Holding
<1>2. CASE SolveSymbol
  <2>0. /\ req \in 1 .. Len(Requests) /\ pc = "solve" /\ ~FallbackNotNeeded
        /\ org' = org /\ R.hook \in Hooks /\ Len(Requests) \in Nat
    BY <1>2, RequestFacts, RequestsAssumption DEF SolveSymbol
  <2>1. org[R.hook] = Null
    <3>. SUFFICES ASSUME org[R.hook] # Null PROVE FALSE
      OBVIOUS
    <3>1. PICK q \in 1 .. req : q < req /\ q <= Len(Requests) /\ Requests[q].hook = R.hook
      BY <2>0 DEF OrgInv
    <3>2. req = q + 1 /\ R.fallback
      BY <2>0, <3>1, HooksAssumption DEF R
    <3>3. from = TRUE
      BY <2>0, <3>1, <3>2 DEF OrgInv
    <3>. QED BY <2>0, <3>2, <3>3 DEF FallbackNotNeeded
  <2>2. CASE from' = TRUE /\ pc' = "chain" /\ req' = req
    BY <2>0, <2>1, <2>2 DEF OrgInv, Holding, R
  <2>3. CASE from' = FALSE /\ NextRequest
    <3>1. req' = req + 1 /\ pc' = "solve" /\ req' - 1 = req
      BY <2>0, <2>3 DEF NextRequest
    <3>2. ASSUME NEW h \in Hooks, org'[h] # Null
          PROVE  \E q \in 1 .. req' : /\ q <= Len(Requests) /\ Requests[q].hook = h
                                      /\ q < req' \/ pc' \in {"protect", "jump", "rest"}
      <4>1. PICK q \in 1 .. req : q <= Len(Requests) /\ Requests[q].hook = h
        BY <2>0, <3>2 DEF OrgInv
      <4>. QED BY <2>0, <3>1, <4>1
    <3>3. org'[Requests[req' - 1].hook] = Null
      BY <2>0, <2>1, <3>1, Zenon DEF R
    <3>. QED BY <3>1, <3>2, <3>3 DEF OrgInv, Holding
  <2>. QED BY <1>2, <2>2, <2>3, Zenon DEF SolveSymbol
<1>3. CASE FollowChain
  BY <1>3 DEF FollowChain, OrgInv, Holding, R
<1>4. CASE TrampolineFails
  BY <1>4, OrgNextRequest DEF TrampolineFails
<1>5. CASE CreateTrampoline
  BY <1>5 DEF CreateTrampoline, OrgInv, Holding, R
<1>6. CASE StoreOriginal
  <2>0. /\ req \in 1 .. Len(Requests) /\ req' = req /\ pc' = "protect"
        /\ org' = [org EXCEPT ![R.hook] = trampoline] /\ from' = from
        /\ R.hook \in Hooks /\ pc = "org"
    BY <1>6, RequestFacts DEF StoreOriginal, RouteTypes
  <2>1. ASSUME NEW h \in Hooks, org'[h] # Null
        PROVE  \E q \in 1 .. req' : /\ q <= Len(Requests) /\ Requests[q].hook = h
                                    /\ q < req' \/ pc' \in {"protect", "jump", "rest"}
    <3>1. CASE h = R.hook
      BY <2>0, <3>1 DEF R
    <3>2. CASE h # R.hook
      <4>1. org[h] # Null
        BY <2>0, <2>1, <3>2 DEF RouteTypes
      <4>. QED BY <2>0, <4>1 DEF OrgInv
    <3>. QED BY <3>1, <3>2
  <2>. QED BY <2>0, <2>1 DEF OrgInv, Holding
<1>7. CASE ReachFails \/ ProtectFails
  BY <1>7, OrgNextRequest DEF ReachFails, ProtectFails
<1>8. CASE WriteSlot
  BY <1>8 DEF WriteSlot, OrgInv, Holding
<1>9. CASE StoreJump \/ CompleteJump
  BY <1>9, OrgNextRequest DEF StoreJump, CompleteJump, Routed
<1>10. CASE TearJump
  BY <1>10 DEF TearJump, OrgInv, Holding
<1>11. CASE UNCHANGED writer
  BY <1>11 DEF writer, OrgInv, R
<1>. QED BY <1>1, <1>2, <1>3, <1>4, <1>5, <1>6, <1>7, <1>8, <1>9, <1>10, <1>11,
       WriterSteps DEF Route

------------------------------------------------------------------------------
(* The address slots.  The slot of the request being served is its own.      *)

SlotInv ==
  /\ \A f \in Functions : entry[f].jump = "Medium" => entry[f].slot \in 1 .. usedSlots
  /\ pc \in Holding /\ addressSlot # 0 =>
       \A f \in Functions : entry[f].jump = "Medium" => entry[f].slot # addressSlot
  /\ pc \in {"jump", "rest"} /\ addressSlot # 0 =>
       slots[addressSlot] = Hook(R.hook)

\* A slot handed out is not used by any jump.
LEMMA FreshSlot ==
  ASSUME RouteTypes, SlotInv, UNCHANGED entry,
         GetAddressSlot \/ (addressSlot' = 0 /\ usedSlots' = usedSlots)
  PROVE  /\ \A f \in Functions : entry[f].jump = "Medium" => entry[f].slot \in 1 .. usedSlots'
         /\ addressSlot' # 0 =>
              \A f \in Functions : entry[f].jump = "Medium" => entry[f].slot # addressSlot'
BY DEF RouteTypes, SlotInv, GetAddressSlot

\* The slot of the route under way is written; those that jumps go through are not.
LEMMA SlotWritten ==
  ASSUME RouteTypes, SlotInv, WriteSlot
  PROVE  \A f \in Functions : entry[f].jump = "Medium" =>
           slots'[entry[f].slot] = slots[entry[f].slot]
<1>. SUFFICES ASSUME NEW f \in Functions, entry[f].jump = "Medium", addressSlot # 0
              PROVE  slots'[entry[f].slot] = slots[entry[f].slot]
  BY DEF WriteSlot
<1>1. entry[f].slot # addressSlot /\ entry[f].slot \in Slots
  <2>1. entry[f].slot # addressSlot /\ entry[f].slot \in 1 .. usedSlots
    BY Zenon DEF SlotInv, WriteSlot, Holding
  <2>2. usedSlots \in 0 .. SlotCount /\ SlotCount \in Nat
    BY BoundsAssumption, Zenon DEF RouteTypes
  <2>. QED BY <2>1, <2>2 DEF Slots
<1>2. slots' = [slots EXCEPT ![addressSlot] = Hook(R.hook)] /\ slots \in [Slots -> Target]
  BY DEF WriteSlot, RouteTypes
<1>. QED BY <1>1, <1>2

\* No slot is handed out only when all are used.
LEMMA NoSlotLeft ==
  ASSUME RouteTypes, CreateTrampoline, absolute, addressSlot' = 0
  PROVE  usedSlots' = SlotCount
<1>1. usedSlots \in 0 .. SlotCount /\ SlotCount \in Nat
  BY BoundsAssumption, Zenon DEF RouteTypes
<1>2. GetAddressSlot
  BY Zenon DEF CreateTrampoline
<1>. QED BY <1>1, <1>2 DEF GetAddressSlot

LEMMA SlotStep ==
  ASSUME RouteTypes, SlotInv, [Next]_vars PROVE SlotInv'
<1>1. CASE SkipRequest
  BY <1>1 DEF SkipRequest, NextRequest, SlotInv, Holding
<1>2. CASE SolveSymbol
  BY <1>2 DEF SolveSymbol, NextRequest, SlotInv, Holding
<1>3. CASE FollowChain
  <2>1. GetAddressSlot \/ (addressSlot' = 0 /\ usedSlots' = usedSlots)
    BY <1>3 DEF FollowChain
  <2>2. entry' = entry /\ pc' \in {"panic", "org"}
    BY <1>3 DEF FollowChain
  <2>. QED BY <2>1, <2>2, FreshSlot DEF SlotInv, Holding
<1>4. CASE TrampolineFails
  <2>1. GetAddressSlot \/ (addressSlot' = 0 /\ usedSlots' = usedSlots)
    BY <1>4 DEF TrampolineFails
  <2>2. entry' = entry /\ pc' = "solve"
    BY <1>4 DEF TrampolineFails, NextRequest
  <2>. QED BY <2>1, <2>2, FreshSlot DEF SlotInv, Holding
<1>5. CASE CreateTrampoline
  <2>1. GetAddressSlot \/ (addressSlot' = 0 /\ usedSlots' = usedSlots)
    BY <1>5 DEF CreateTrampoline
  <2>2. entry' = entry /\ pc' = "org"
    BY <1>5 DEF CreateTrampoline
  <2>. QED BY <2>1, <2>2, FreshSlot DEF SlotInv, Holding
<1>6. CASE StoreOriginal
  BY <1>6 DEF StoreOriginal, SlotInv, Holding
<1>7. CASE ReachFails \/ ProtectFails
  BY <1>7 DEF ReachFails, ProtectFails, NextRequest, SlotInv, Holding
<1>8. CASE WriteSlot
  <2>1. addressSlot # 0 => addressSlot \in Slots
    BY BoundsAssumption DEF RouteTypes, Slots
  <2>2. addressSlot # 0 => slots'[addressSlot] = Hook(R.hook)
    BY <1>8, <2>1 DEF WriteSlot, RouteTypes
  <2>3. UNCHANGED <<entry, usedSlots, addressSlot, req>> /\ pc \in Holding
          /\ R' = R
    BY <1>8 DEF WriteSlot, Holding, R
  <2>. QED BY <2>2, <2>3 DEF SlotInv
<1>9. CASE StoreJump \/ CompleteJump
  <2>1. /\ entry' = [entry EXCEPT ![R.fn] = Jump] /\ UNCHANGED <<usedSlots, addressSlot>>
        /\ pc' = "solve"
    BY <1>9 DEF StoreJump, CompleteJump, Routed, NextRequest
  <2>2. Jump.jump = "Medium" => Jump.slot \in 1 .. usedSlots
    BY DEF Jump, RouteTypes
  <2>3. ASSUME NEW f \in Functions, entry'[f].jump = "Medium"
        PROVE  entry'[f].slot \in 1 .. usedSlots
    BY <2>1, <2>2, <2>3 DEF SlotInv, RouteTypes
  <2>. QED BY <2>1, <2>3, Zenon DEF SlotInv, Holding
<1>10. CASE TearJump
  <2>1. /\ entry' = [entry EXCEPT ![R.fn] = Torn]
        /\ UNCHANGED <<usedSlots, addressSlot, slots, req>>
        /\ pc = "jump" /\ pc' = "rest" /\ R' = R
    BY <1>10, Zenon DEF TearJump, R
  <2>2. \A f \in Functions : entry'[f].jump = "Medium" => entry'[f] = entry[f]
    BY <2>1, EntryFacts, Zenon DEF RouteTypes
  <2>. QED BY <2>1, <2>2 DEF SlotInv, Holding
<1>11. CASE UNCHANGED writer
  BY <1>11 DEF writer, SlotInv, R
<1>. QED BY <1>1, <1>2, <1>3, <1>4, <1>5, <1>6, <1>7, <1>8, <1>9, <1>10, <1>11,
       WriterSteps DEF Route

LEMMA RouteInvariant == Spec => [](RouteTypes /\ OrgInv /\ SlotInv)
<1>1. Init => OrgInv /\ SlotInv
  BY EntryFacts DEF Init, OrgInv, SlotInv, Holding
<1>2. RouteTypes /\ OrgInv /\ SlotInv /\ [Next]_vars
        => (RouteTypes /\ OrgInv /\ SlotInv)'
  BY RouteTypesStep, OrgStep, SlotStep
<1>. QED BY <1>1, <1>2, RouteTypesInit, PTL DEF Spec

------------------------------------------------------------------------------
(* Where calls lead.  own gives the function each hook was routed for.       *)

\* A call of f that is sent to x gets to f's body.
Leads(own, f, x) ==
  \/ x = Trampoline(f)
  \/ \E h \in Hooks : x = Hook(h) /\ org[h] # Null /\ own[h] = f

OwnInv(own) ==
  /\ own = [h \in Hooks |-> own[h]]
  /\ \A h \in Hooks : org[h] # Null => Leads(own, own[h], org[h])
  /\ \A f \in Functions :
       /\ entry[f].jump = "Medium" => Leads(own, f, slots[entry[f].slot])
       /\ entry[f].jump \in {"Short", "Long"} => Leads(own, f, entry[f].to)
  /\ \A c \in Callers :
       /\ at[c].loc \notin {"null", "foreign"}
       /\ at[c].loc = "hook" => Leads(own, at[c].fn, at[c].at)
  /\ pc = "org" => Leads(own, R.fn, trampoline)
  /\ pc \in {"protect", "jump", "rest"} => org[R.hook] # Null /\ own[R.hook] = R.fn

\* Who is sent where a call leads is in a hook or in the body.
LEMMA LeadsArrive ==
  ASSUME NEW own, NEW f \in Functions, NEW x, Leads(own, f, x)
  PROVE  /\ Arrive(f, x).loc \in {"hook", "body"}
         /\ Arrive(f, x).fn = f /\ Arrive(f, x).at = x
<1>1. CASE x = Trampoline(f)
  <2>1. x.kind = "trampoline" /\ x.fn = f
    BY <1>1, TargetFacts
  <2>2. Arrive(f, x) = [loc |-> "body", fn |-> f, at |-> x]
    BY <2>1 DEF Arrive
  <2>. QED BY <2>2
<1>2. CASE \E h \in Hooks : x = Hook(h)
  <2>1. x.kind = "hook"
    BY <1>2, TargetFacts
  <2>2. Arrive(f, x) = [loc |-> "hook", fn |-> f, at |-> x]
    BY <2>1, Zenon DEF Arrive
  <2>. QED BY <2>2
<1>. QED BY <1>1, <1>2 DEF Leads

LEMMA OwnCalls ==
  ASSUME RouteTypes, NEW own, OwnInv(own), NEW c \in Callers,
         Call(c) \/ \E f \in Functions : Enter(c, f)
  PROVE  OwnInv(own)'
<1>1. UNCHANGED writer
  BY DEF Call, FinishPrologue, CallOriginal, HookAnswers, Return, Enter
<1>2. \A f, x : Leads(own, f, x)' = Leads(own, f, x)
  BY <1>1 DEF writer, Leads
<1>. DEFINE Good(p) == /\ p.loc \notin {"null", "foreign"}
                       /\ p.loc = "hook" => Leads(own, p.fn, p.at)
<1>3. \E p : Good(p) /\ at' = [at EXCEPT ![c] = p]
  <2>0. at[c] \in Places /\ Good(at[c])
    BY DEF RouteTypes, OwnInv
  <2>1. CASE Return(c) \/ HookAnswers(c)
    <3>1. Good(Idle) /\ at' = [at EXCEPT ![c] = Idle]
      BY <2>1 DEF Return, HookAnswers, Idle
    <3>. QED BY <3>1, Zenon
  <2>2. CASE FinishPrologue(c)
    <3>1. /\ Good([loc |-> "midway", fn |-> at[c].fn])
          /\ Good([loc |-> "body", fn |-> at[c].fn, at |-> Trampoline(at[c].fn)])
      OBVIOUS
    <3>. HIDE DEF Good
    <3>. QED BY <2>2, <3>1, Zenon DEF FinishPrologue
  <2>3. CASE CallOriginal(c)
    <3>1. at[c].loc = "hook"
      BY <2>3 DEF CallOriginal
    <3>2. PICK h \in Hooks : at[c].at = Hook(h)
      BY <2>0, <3>1, PlaceFacts, Zenon
    <3>3. at[c].fn \in Functions /\ at[c].at.hook = h
      BY <2>0, <3>1, <3>2, PlaceFacts, TargetFacts, Zenon
    <3>4. org[h] # Null /\ own[h] = at[c].fn
      BY <2>0, <3>1, <3>2, <3>3, TargetFacts DEF Leads
    <3>5. Leads(own, at[c].fn, org[h])
      BY <3>4, Zenon DEF OwnInv
    <3>6. Good(Arrive(at[c].fn, org[h]))
      BY <3>3, <3>5, LeadsArrive, ZenonT(40)
    <3>. QED BY <2>3, <3>3, <3>6, Zenon DEF CallOriginal
  <2>4. ASSUME NEW f \in Functions, Enter(c, f)
        PROVE  \E p : Good(p) /\ at' = [at EXCEPT ![c] = p]
    <3>1. entry[f] \in Entries
      BY DEF RouteTypes
    <3>2. CASE entry[f].jump \in {"none", "torn"}
      <4>1. /\ Good([loc |-> "prologue", fn |-> f])
            /\ Good([loc |-> "torn", fn |-> f])
        OBVIOUS
      <4>. HIDE DEF Good
      <4>. QED BY <2>4, <3>2, <4>1, Zenon DEF Enter
    <3>3. CASE entry[f].jump = "Medium"
      <4>1. Good(Arrive(f, slots[entry[f].slot]))
        BY <3>3, LeadsArrive DEF OwnInv
      <4>. QED BY <2>4, <3>3, <4>1, Zenon DEF Enter
    <3>4. CASE entry[f].jump \in {"Short", "Long"}
      <4>1. Good(Arrive(f, entry[f].to))
        BY <3>4, LeadsArrive DEF OwnInv
      <4>. QED BY <2>4, <3>4, <4>1, Zenon DEF Enter
    <3>. QED BY <3>1, <3>2, <3>3, <3>4, EntryFacts
  <2>. QED BY <2>1, <2>2, <2>3, <2>4 DEF Call
<1>4. ASSUME NEW d \in Callers
      PROVE  /\ at'[d].loc \notin {"null", "foreign"}
             /\ at'[d].loc = "hook" => Leads(own, at'[d].fn, at'[d].at)
  <2>1. PICK p : Good(p) /\ at' = [at EXCEPT ![c] = p]
    BY <1>3, Zenon
  <2>2. CASE d = c
    BY <2>1, <2>2 DEF RouteTypes
  <2>3. CASE d # c
    <3>1. at'[d] = at[d]
      BY <2>1, <2>3 DEF RouteTypes
    <3>. QED BY <3>1 DEF OwnInv
  <2>. QED BY <2>2, <2>3
<1>. QED BY <1>1, <1>2, <1>4 DEF OwnInv, writer, R

\* The original pointer is set: from now on the hook belongs to the function.
LEMMA OwnStoreOriginal ==
  ASSUME RouteTypes, OrgInv, NEW own, OwnInv(own), StoreOriginal
  PROVE  \E o : OwnInv(o)'
<1>0. PICK k, g : k = R.hook /\ g = R.fn
  OBVIOUS
<1>. DEFINE new == [own EXCEPT ![k] = g]
<1>1. /\ k \in Hooks /\ g \in Functions /\ org[k] = Null /\ R' = R
      /\ org' = [org EXCEPT ![k] = trampoline] /\ pc' = "protect" /\ pc = "org"
      /\ UNCHANGED <<entry, slots, at>>
  BY <1>0, RequestFacts DEF StoreOriginal, RouteTypes, OrgInv, R
<1>2. Leads(own, g, trampoline) /\ trampoline # Null
  <2>1. Leads(own, g, trampoline)
    BY <1>0, <1>1 DEF OwnInv
  <2>. QED BY <1>1, <2>1, TargetFacts DEF Leads
<1>3. ASSUME NEW f, NEW x, Leads(own, f, x) PROVE Leads(new, f, x)'
  <2>1. CASE x = Trampoline(f)
    BY <2>1 DEF Leads
  <2>2. CASE \E h \in Hooks : x = Hook(h) /\ org[h] # Null /\ own[h] = f
    <3>1. PICK h \in Hooks : x = Hook(h) /\ org[h] # Null /\ own[h] = f
      BY <2>2
    <3>2. h # k
      BY <1>1, <3>1
    <3>3. org'[h] = org[h] /\ new[h] = own[h]
      BY <1>1, <3>2 DEF RouteTypes, OwnInv
    <3>. QED BY <3>1, <3>3 DEF Leads
  <2>. QED BY <1>3, <2>1, <2>2 DEF Leads
<1>4. new = [h \in Hooks |-> new[h]] /\ new[k] = g
  BY <1>1 DEF OwnInv
<1>5. ASSUME NEW h \in Hooks, org'[h] # Null PROVE Leads(new, new[h], org[h])'
  <2>1. CASE h = k
    BY <1>1, <1>2, <1>3, <1>4, <2>1, ZenonT(40) DEF RouteTypes, Leads
  <2>2. CASE h # k
    <3>1. org'[h] = org[h] /\ new[h] = own[h]
      BY <1>1, <2>2 DEF RouteTypes, OwnInv
    <3>2. Leads(own, own[h], org[h])
      BY <1>5, <3>1, Zenon DEF OwnInv
    <3>. QED BY <1>3, <3>1, <3>2 DEF Leads
  <2>. QED BY <2>1, <2>2
<1>6. /\ \A f \in Functions :
           /\ entry[f].jump = "Medium" => Leads(new, f, slots[entry[f].slot])'
           /\ entry[f].jump \in {"Short", "Long"} => Leads(new, f, entry[f].to)'
      /\ \A c \in Callers : at[c].loc = "hook" => Leads(new, at[c].fn, at[c].at)'
  BY <1>1, <1>3 DEF OwnInv
<1>7. org'[k] # Null
  BY <1>1, <1>2, Zenon DEF RouteTypes
<1>. HIDE DEF new
<1>8. OwnInv(new)'
  BY <1>0, <1>1, <1>4, <1>5, <1>6, <1>7, Zenon DEF OwnInv
<1>. QED BY <1>8

\* What a step must show when it leaves the pointers and the callers alone.
LEMMA OwnFrame ==
  ASSUME NEW own, OwnInv(own), UNCHANGED <<org, at>>,
         \A f \in Functions :
           /\ entry'[f].jump = "Medium" => Leads(own, f, slots'[entry'[f].slot])
           /\ entry'[f].jump \in {"Short", "Long"} => Leads(own, f, entry'[f].to),
         pc' = "org" => Leads(own, R'.fn, trampoline'),
         pc' \in {"protect", "jump", "rest"} =>
           org[R'.hook] # Null /\ own[R'.hook] = R'.fn
  PROVE  OwnInv(own)'
<1>1. \A f, x : Leads(own, f, x)' = Leads(own, f, x)
  BY Zenon DEF Leads
<1>. QED BY <1>1, ZenonT(40) DEF OwnInv

\* The function keeps its entry, and the slot it jumps through its content.
LEMMA OwnStay ==
  ASSUME NEW own, OwnInv(own), UNCHANGED <<org, at, entry, slots>>,
         pc' \in {"solve", "chain", "panic"}
  PROVE  OwnInv(own)'
BY OwnFrame DEF OwnInv

LEMMA OwnRoute ==
  ASSUME RouteTypes, OrgInv, SlotInv, NEW own, OwnInv(own), Route
  PROVE  \E o : OwnInv(o)'
<1>1. CASE SkipRequest \/ SolveSymbol \/ ReachFails \/ TrampolineFails \/ ProtectFails
  <2>1. UNCHANGED <<org, at, entry, slots>> /\ pc' \in {"solve", "chain"}
    BY <1>1 DEF SkipRequest, SolveSymbol, ReachFails, TrampolineFails, ProtectFails, NextRequest
  <2>. QED BY <2>1, OwnStay, Zenon
<1>2. CASE FollowChain
  <2>1. /\ UNCHANGED <<org, at, entry, slots, req>> /\ pc' \in {"panic", "org"}
        /\ R' = R /\ R.fn \in Functions
    BY <1>2, RequestFacts DEF FollowChain, RouteTypes, R
  <2>2. Leads(own, R.fn, trampoline')
    BY <1>2, <2>1, Zenon DEF FollowChain, OwnInv
  <2>3. OwnInv(own)'
    BY <2>1, <2>2, OwnFrame DEF OwnInv
  <2>. QED BY <2>3
<1>3. CASE CreateTrampoline
  <2>1. /\ UNCHANGED <<org, at, entry, slots, req>> /\ pc' = "org"
        /\ R' = R /\ trampoline' = Trampoline(R.fn)
    BY <1>3 DEF CreateTrampoline, R
  <2>2. Leads(own, R.fn, trampoline')
    BY <2>1, Zenon DEF Leads
  <2>3. OwnInv(own)'
    BY <2>1, <2>2, OwnFrame DEF OwnInv
  <2>. QED BY <2>3
<1>4. CASE StoreOriginal
  BY <1>4, OwnStoreOriginal
<1>5. CASE WriteSlot
  <2>1. /\ UNCHANGED <<org, at, entry, req>> /\ pc = "protect" /\ pc' = "jump"
        /\ R' = R
    BY <1>5 DEF WriteSlot, R
  <2>2. ASSUME NEW f \in Functions, entry[f].jump = "Medium"
        PROVE  slots'[entry[f].slot] = slots[entry[f].slot]
    BY <1>5, <2>2, SlotWritten, Zenon
  <2>3. OwnInv(own)'
    BY <2>1, <2>2, OwnFrame, Zenon DEF OwnInv
  <2>. QED BY <2>3
<1>6. CASE StoreJump \/ CompleteJump
  <2>1. /\ UNCHANGED <<org, at, slots>> /\ pc \in {"jump", "rest"} /\ pc' = "solve"
        /\ entry' = [entry EXCEPT ![R.fn] = Jump] /\ R.fn \in Functions /\ R.hook \in Hooks
    BY <1>6, RequestFacts, Zenon DEF StoreJump, CompleteJump, Routed, NextRequest, RouteTypes
  <2>2. Leads(own, R.fn, Hook(R.hook))
    BY <2>1, Zenon DEF OwnInv, Leads
  <2>3. /\ Jump.jump = "Medium" => slots[Jump.slot] = Hook(R.hook)
        /\ Jump.jump \in {"Short", "Long"} => Jump.to = Hook(R.hook)
    BY <2>1, Zenon DEF Jump, SlotInv
  <2>4. ASSUME NEW f \in Functions
        PROVE  /\ entry'[f].jump = "Medium" => Leads(own, f, slots[entry'[f].slot])
               /\ entry'[f].jump \in {"Short", "Long"} => Leads(own, f, entry'[f].to)
    <3>1. CASE f = R.fn
      BY <2>1, <2>2, <2>3, <3>1 DEF RouteTypes
    <3>2. CASE f # R.fn
      BY <2>1, <3>2, Zenon DEF RouteTypes, OwnInv
    <3>. QED BY <3>1, <3>2, Zenon
  <2>5. OwnInv(own)'
    BY <2>1, <2>4, OwnFrame
  <2>. QED BY <2>5
<1>7. CASE TearJump
  <2>1. /\ UNCHANGED <<org, at, slots, req>> /\ pc = "jump" /\ pc' = "rest"
        /\ entry' = [entry EXCEPT ![R.fn] = Torn] /\ R' = R
    BY <1>7 DEF TearJump, R
  <2>2. \A f \in Functions : entry'[f].jump \in {"Short", "Medium", "Long"} => entry'[f] = entry[f]
    BY <2>1, EntryFacts, Zenon DEF RouteTypes
  <2>3. OwnInv(own)'
    BY <2>1, <2>2, OwnFrame DEF OwnInv
  <2>. QED BY <2>3
<1>. QED BY <1>1, <1>2, <1>3, <1>4, <1>5, <1>6, <1>7 DEF Route

\* No call is sent to a null pointer, an empty slot or another function's body,
\* whatever step of a route it meets: every hook's original pointer is written
\* before a jump to the hook is, and leads, through earlier hooks of the same
\* function or at once, to the trampoline of that function.
THEOREM CallsReachOriginal == Spec => []OriginalReached
<1>. DEFINE Inv == RouteTypes /\ OrgInv /\ SlotInv
            Owned == \E own : OwnInv(own)
<1>1. Init => Owned
  <2>. SUFFICES ASSUME Init PROVE OwnInv([h \in Hooks |-> 0])
    OBVIOUS
  <2>. QED BY EntryFacts, Zenon DEF Init, OwnInv, Idle
<1>2. Inv /\ Owned /\ [Next]_vars => Owned'
  <2>. SUFFICES ASSUME Inv, NEW own, OwnInv(own), [Next]_vars PROVE Owned'
    OBVIOUS
  <2>1. CASE Route
    BY <2>1, OwnRoute
  <2>2. CASE \E c \in Callers : Call(c) \/ \E f \in Functions : Enter(c, f)
    <3>1. OwnInv(own)'
      BY <2>2, OwnCalls, ZenonT(40)
    <3>. QED BY <3>1
  <2>3. CASE UNCHANGED vars
    <3>1. OwnInv(own)'
      BY <2>3 DEF vars, writer, OwnInv, Leads, R
    <3>. QED BY <3>1
  <2>. QED BY <2>1, <2>2, <2>3 DEF Next
<1>3. Owned => OriginalReached
  BY DEF OwnInv, OriginalReached
<1>. HIDE DEF Owned
<1>. QED BY <1>1, <1>2, <1>3, RouteInvariant, PTL DEF Spec

------------------------------------------------------------------------------
(* Half-written jumps.  A jump without a slot to a hook out of reach is made  *)
(* only once the slots are used up, and they stay used up.                    *)

Unaligned(f) == Align[f] = 1 \/ (Align[f] = 8 /\ usedSlots = SlotCount)

TornInv ==
  /\ \A f \in Functions :
       /\ entry[f].jump = "torn" => Unaligned(f)
       /\ entry[f].jump = "Long" => usedSlots = SlotCount
  /\ pc \in Holding /\ addressSlot = 0 /\ absolute => usedSlots = SlotCount
  /\ \A c \in Callers : at[c].loc = "torn" => Unaligned(at[c].fn)

LEMMA SlotsUsedUp ==
  ASSUME RouteTypes, GetAddressSlot \/ usedSlots' = usedSlots
  PROVE  usedSlots = SlotCount => usedSlots' = SlotCount
BY BoundsAssumption DEF RouteTypes, GetAddressSlot

\* What a step of the patching thread must show.
LEMMA TornFrame ==
  ASSUME TornInv, UNCHANGED at, usedSlots = SlotCount => usedSlots' = SlotCount,
         \A f \in Functions :
           \/ entry'[f] = entry[f]
           \/ /\ entry'[f].jump = "torn" => Unaligned(f)
              /\ entry'[f].jump = "Long" => usedSlots = SlotCount,
         pc' \in Holding /\ addressSlot' = 0 /\ absolute' => usedSlots' = SlotCount
  PROVE  TornInv'
BY DEF TornInv, Unaligned

LEMMA TornStep ==
  ASSUME RouteTypes, TornInv, [Next]_vars PROVE TornInv'
<1>1. CASE SkipRequest \/ SolveSymbol \/ ReachFails \/ TrampolineFails \/ ProtectFails
  <2>1. UNCHANGED <<at, entry>> /\ pc' \notin Holding
    BY <1>1, Zenon DEF SkipRequest, SolveSymbol, ReachFails, TrampolineFails,
       ProtectFails, NextRequest, Holding
  <2>2. GetAddressSlot \/ usedSlots' = usedSlots
    BY <1>1, ZenonT(40) DEF SkipRequest, SolveSymbol, ReachFails, TrampolineFails, ProtectFails
  <2>. QED BY <2>1, <2>2, SlotsUsedUp, TornFrame
<1>2. CASE FollowChain
  <2>1. UNCHANGED <<at, entry, req>> /\ R.fn \in Functions
    BY <1>2, RequestFacts, Zenon DEF FollowChain, RouteTypes
  <2>2. GetAddressSlot \/ usedSlots' = usedSlots
    BY <1>2 DEF FollowChain
  <2>3. pc' \in Holding /\ addressSlot' = 0 => entry[R.fn].jump = "Long"
    BY <1>2 DEF FollowChain, Holding
  <2>. QED BY <2>1, <2>2, <2>3, SlotsUsedUp, TornFrame, Zenon DEF TornInv
<1>3. CASE CreateTrampoline
  <2>1. UNCHANGED <<at, entry, req>> /\ absolute' = absolute
    BY <1>3 DEF CreateTrampoline, absolute, R
  <2>2. GetAddressSlot \/ usedSlots' = usedSlots
    BY <1>3 DEF CreateTrampoline
  <2>3. addressSlot' = 0 /\ absolute => usedSlots' = SlotCount
    BY <1>3, NoSlotLeft, Zenon
  <2>. QED BY <2>1, <2>2, <2>3, SlotsUsedUp, TornFrame, Zenon
<1>4. CASE StoreOriginal \/ WriteSlot
  <2>1. UNCHANGED <<at, entry, req, usedSlots, addressSlot>> /\ pc \in Holding
          /\ absolute' = absolute
    BY <1>4, Zenon DEF StoreOriginal, WriteSlot, Holding, absolute, R
  <2>. QED BY <2>1, TornFrame DEF TornInv
<1>5. CASE StoreJump \/ CompleteJump
  <2>1. /\ UNCHANGED <<at, usedSlots>> /\ pc \in Holding /\ pc' \notin Holding
        /\ entry' = [entry EXCEPT ![R.fn] = Jump]
    BY <1>5, Zenon DEF StoreJump, CompleteJump, Routed, NextRequest, Holding
  <2>2. Jump.jump # "torn" /\ (Jump.jump = "Long" => addressSlot = 0 /\ absolute)
    BY DEF Jump
  <2>3. \A f \in Functions : entry'[f] = entry[f] \/ entry'[f] = Jump
    BY <2>1, Zenon DEF RouteTypes
  <2>. QED BY <2>1, <2>2, <2>3, TornFrame, Zenon DEF TornInv
<1>6. CASE TearJump
  <2>1. /\ UNCHANGED <<at, usedSlots, addressSlot, req>> /\ pc \in Holding
        /\ entry' = [entry EXCEPT ![R.fn] = Torn] /\ R.fn \in Functions
        /\ absolute' = absolute
    BY <1>6, RequestFacts DEF TearJump, RouteTypes, Holding, absolute, R
  <2>2. Jump.jump = "Long" => addressSlot = 0 /\ absolute
    BY Zenon DEF Jump
  <2>3. Unaligned(R.fn)
    BY <1>6, <2>1, <2>2, AlignAssumption, Zenon DEF TearJump, AtomicStore, TornInv, Unaligned
  <2>4. \A f \in Functions : entry'[f] = entry[f] \/ (f = R.fn /\ entry'[f].jump = "torn")
    BY <2>1, EntryFacts DEF RouteTypes
  <2>. QED BY <2>1, <2>3, <2>4, TornFrame, Zenon DEF TornInv
<1>7. ASSUME NEW c \in Callers, Call(c) \/ \E f \in Functions : Enter(c, f)
      PROVE  TornInv'
  <2>1. UNCHANGED writer
    BY <1>7 DEF Call, FinishPrologue, CallOriginal, HookAnswers, Return, Enter
  <2>. DEFINE Good(p) == p.loc = "torn" => Unaligned(p.fn)
  <2>2. \A f, x : Arrive(f, x).loc # "torn"
    BY DEF Arrive
  <2>3. \E p : Good(p) /\ at' = [at EXCEPT ![c] = p]
    <3>1. CASE Call(c)
      <4>1. PICK p : at' = [at EXCEPT ![c] = p] /\ p.loc # "torn"
        BY <3>1, <2>2 DEF Call, FinishPrologue, CallOriginal, HookAnswers, Return, Idle
      <4>. QED BY <4>1, Zenon
    <3>2. ASSUME NEW f \in Functions, Enter(c, f)
          PROVE  \E p : Good(p) /\ at' = [at EXCEPT ![c] = p]
      <4>1. CASE entry[f].jump = "torn"
        <5>1. Good([loc |-> "torn", fn |-> f])
          BY <4>1 DEF TornInv
        <5>. QED BY <3>2, <4>1, <5>1, Zenon DEF Enter
      <4>2. CASE entry[f].jump # "torn"
        <5>1. CASE entry[f].jump = "none"
          <6>1. Good([loc |-> "prologue", fn |-> f])
            OBVIOUS
          <6>. QED BY <3>2, <5>1, <6>1, Zenon DEF Enter
        <5>2. CASE entry[f].jump # "none"
          <6>1. /\ Good(Arrive(f, slots[entry[f].slot])) /\ Good(Arrive(f, entry[f].to))
            BY <2>2
          <6>. HIDE DEF Good
          <6>. QED BY <3>2, <4>2, <5>2, <6>1, Zenon DEF Enter
        <5>. QED BY <5>1, <5>2
      <4>. QED BY <4>1, <4>2
    <3>. QED BY <1>7, <3>1, <3>2
  <2>4. \A d \in Callers : at'[d].loc = "torn" => Unaligned(at'[d].fn)
    BY <2>3, Zenon DEF RouteTypes, TornInv
  <2>. QED BY <2>1, <2>4, Zenon DEF TornInv, Unaligned, writer, absolute, R
<1>8. CASE UNCHANGED vars
  BY <1>8 DEF vars, writer, TornInv, Unaligned, absolute, R
<1>. QED BY <1>1, <1>2, <1>3, <1>4, <1>5, <1>6, <1>7, <1>8 DEF Next, Route

\* A caller executes half a jump only in a function that is not aligned, or in
\* an 8-byte aligned one once the address slots are used up.
THEOREM TornUnaligned == Spec => []TornOnlyUnaligned
<1>1. Init => TornInv
  BY EntryFacts DEF Init, TornInv, Idle, Holding
<1>2. TornInv => TornOnlyUnaligned
  BY Zenon DEF TornInv, TornOnlyUnaligned, Unaligned
<1>. QED BY <1>1, <1>2, TornStep, RouteInvariant, PTL DEF Spec

------------------------------------------------------------------------------
(* Routes of one function compose. *)

\* A call of f that is sent to x runs the hooks of all routes of f made so far, but
\* for those that a later one has cut off.
RunsAll(f, x) ==
  \A S \in SUBSET Hooks :
    ClosedUnderCalls(S) /\ (\A g \in Hooks : x = Hook(g) => g \in S) =>
      \A q \in routed : Requests[q].fn = f => Requests[q].hook \in S \/ CutOff(q)

\* Requests are carried out in order.
OrderInv == \A q \in routed : q < req

LEMMA OrderStep ==
  ASSUME RouteTypes, OrderInv, [Next]_vars PROVE OrderInv'
<1>1. req \in Nat /\ \A q \in routed : q \in Nat
  BY RequestsAssumption DEF RouteTypes
<1>2. CASE StoreJump \/ CompleteJump
  <2>1. routed' = routed \union {req} /\ req' = req + 1
    BY <1>2 DEF StoreJump, CompleteJump, Routed, NextRequest
  <2>. QED BY <1>1, <2>1 DEF OrderInv
<1>3. CASE ~(StoreJump \/ CompleteJump)
  <2>1. routed' = routed /\ req' \in {req, req + 1}
    BY <1>3, WriterSteps, Zenon DEF Route, SkipRequest, SolveSymbol, ReachFails,
       FollowChain, TrampolineFails, CreateTrampoline, StoreOriginal, ProtectFails,
       WriteSlot, TearJump, NextRequest, writer
  <2>. QED BY <1>1, <2>1 DEF OrderInv
<1>. QED BY <1>2, <1>3

ComposeInv ==
  /\ \A f \in Functions : entry[f].jump # "torn" => RunsAll(f, FirstHook(f))
  /\ pc \in Holding => RunsAll(R.fn, trampoline)
  /\ pc \in {"protect", "jump", "rest"} => org[R.hook] = trampoline

\* What a step must show that writes no original pointer and finishes no route.
LEMMA ComposeFrame ==
  ASSUME ComposeInv, UNCHANGED <<org, routed>>,
         \A f \in Functions : \/ entry'[f].jump = "torn"
                              \/ entry[f].jump # "torn" /\ FirstHook(f)' = FirstHook(f),
         pc' \in Holding =>
           RunsAll(R'.fn, trampoline') /\ (pc' # "org" => org[R'.hook] = trampoline')
  PROVE  ComposeInv'
<1>1. \A f, x : RunsAll(f, x)' = RunsAll(f, x)
  BY DEF RunsAll, ClosedUnderCalls, Calls, CutOff
<1>. QED BY <1>1, Zenon DEF ComposeInv, Holding

LEMMA ComposeStep ==
  ASSUME RouteTypes, OrgInv, SlotInv, OrderInv, ComposeInv, [Next]_vars
  PROVE  ComposeInv'
<1>1. CASE SkipRequest \/ SolveSymbol \/ ReachFails \/ TrampolineFails \/ ProtectFails
  <2>1. UNCHANGED <<org, routed, entry, slots>> /\ pc' \notin Holding
    BY <1>1, Zenon DEF SkipRequest, SolveSymbol, ReachFails, TrampolineFails,
       ProtectFails, NextRequest, Holding
  <2>. QED BY <2>1, ComposeFrame, ZenonT(40) DEF FirstHook
<1>2. CASE FollowChain
  <2>1. /\ UNCHANGED <<org, routed, entry, slots, req>> /\ R.fn \in Functions
        /\ R' = R /\ pc' \in {"panic", "org"}
        /\ entry[R.fn].jump \in {"Short", "Medium", "Long"}
    BY <1>2, RequestFacts DEF FollowChain, RouteTypes, R
  <2>2. trampoline' = FirstHook(R.fn)
    BY <1>2, Zenon DEF FollowChain, FirstHook
  <2>3. RunsAll(R.fn, trampoline')
    BY <2>1, <2>2 DEF ComposeInv
  <2>4. \A f \in Functions : FirstHook(f)' = FirstHook(f)
    BY <2>1, Zenon DEF FirstHook
  <2>. QED BY <2>1, <2>3, <2>4, ComposeFrame, Zenon DEF Holding
<1>3. CASE CreateTrampoline
  <2>1. /\ UNCHANGED <<org, routed, entry, slots, req>> /\ R.fn \in Functions
        /\ R' = R /\ pc' = "org" /\ entry[R.fn].jump = "none"
        /\ trampoline' = Trampoline(R.fn)
    BY <1>3, RequestFacts, Zenon DEF CreateTrampoline, RouteTypes, R
  <2>2. FirstHook(R.fn) = Null
    BY <2>1, Zenon DEF FirstHook
  <2>3. RunsAll(R.fn, trampoline')
    BY <2>1, <2>2, TargetFacts DEF ComposeInv, RunsAll
  <2>4. \A f \in Functions : FirstHook(f)' = FirstHook(f)
    BY <2>1, Zenon DEF FirstHook
  <2>. QED BY <2>1, <2>3, <2>4, ComposeFrame
<1>4. CASE StoreOriginal
  <2>0. PICK k : k = R.hook
    OBVIOUS
  <2>1. /\ UNCHANGED <<routed, entry, slots, req, trampoline>> /\ R' = R
        /\ pc = "org" /\ pc' = "protect" /\ k \in Hooks /\ org[k] = Null
        /\ org' = [org EXCEPT ![k] = trampoline]
    BY <1>4, <2>0, RequestFacts, Zenon DEF StoreOriginal, RouteTypes, OrgInv, R
  <2>2. ASSUME NEW f, NEW x, RunsAll(f, x) PROVE RunsAll(f, x)'
    <3>1. \A g, h \in Hooks : org[g] = Hook(h) => org'[g] = Hook(h)
      BY <2>1, TargetFacts DEF RouteTypes
    <3>2. \A S \in SUBSET Hooks : ClosedUnderCalls(S)' => ClosedUnderCalls(S)
      BY <3>1 DEF ClosedUnderCalls, Calls
    <3>3. \A q : CutOff(q)' = CutOff(q)
      BY <2>1, Zenon DEF CutOff
    <3>. QED BY <2>1, <2>2, <3>2, <3>3, Zenon DEF RunsAll
  <2>3. org'[R.hook] = trampoline
    BY <2>0, <2>1, Zenon DEF RouteTypes
  <2>4. \A f \in Functions : entry[f].jump # "torn" => RunsAll(f, FirstHook(f))'
    <3>. TAKE f \in Functions
    <3>. HAVE entry[f].jump # "torn"
    <3>1. PICK x : x = FirstHook(f)
      OBVIOUS
    <3>2. FirstHook(f)' = x /\ RunsAll(f, x)
      BY <2>1, <3>1 DEF FirstHook, ComposeInv
    <3>3. RunsAll(f, x)'
      BY <2>2, <3>2, Zenon
    <3>. QED BY <3>2, <3>3, Zenon DEF RunsAll
  <2>5. RunsAll(R.fn, trampoline)'
    <3>1. PICK f, x : f = R.fn /\ x = trampoline
      BY Zenon
    <3>2. RunsAll(f, x)
      BY <2>1, <3>1 DEF ComposeInv, Holding
    <3>3. RunsAll(f, x)'
      BY <2>2, <3>2, ZenonT(40)
    <3>. QED BY <2>1, <3>1, <3>3 DEF RunsAll
  <2>. QED BY <2>1, <2>3, <2>4, <2>5 DEF ComposeInv
<1>5. CASE WriteSlot
  <2>1. /\ UNCHANGED <<org, routed, entry, req, trampoline>> /\ R' = R
        /\ pc = "protect" /\ pc' = "jump"
    BY <1>5, Zenon DEF WriteSlot, R
  <2>2. ASSUME NEW f \in Functions, entry[f].jump = "Medium"
        PROVE  slots'[entry[f].slot] = slots[entry[f].slot]
    BY <1>5, <2>2, SlotWritten, Zenon
  <2>3. \A f \in Functions : FirstHook(f)' = FirstHook(f)
    BY <2>1, <2>2, ZenonT(40) DEF FirstHook
  <2>. QED BY <2>1, <2>3, ComposeFrame DEF ComposeInv, Holding
<1>6. CASE StoreJump \/ CompleteJump
  <2>0. PICK k, g, n : k = R.hook /\ g = R.fn /\ n = req
    BY Zenon
  <2>1. /\ UNCHANGED <<org, slots>> /\ pc \in {"jump", "rest"} /\ pc' = "solve"
        /\ entry' = [entry EXCEPT ![g] = Jump] /\ g \in Functions /\ k \in Hooks
        /\ routed' = routed \union {n} /\ Requests[n].fn = g /\ Requests[n].hook = k
    BY <1>6, <2>0, RequestFacts, Zenon
       DEF StoreJump, CompleteJump, Routed, NextRequest, RouteTypes, R
  <2>2. FirstHook(g)' = Hook(k)
    <3>1. entry'[g] = Jump
      BY <2>1 DEF RouteTypes
    <3>2. /\ Jump.jump = "Medium" => slots[Jump.slot] = Hook(k)
          /\ Jump.jump # "Medium" => Jump.jump \in {"Short", "Long"} /\ Jump.to = Hook(k)
      BY <2>0, <2>1, Zenon DEF Jump, SlotInv
    <3>. QED BY <2>1, <3>1, <3>2 DEF FirstHook
  <2>3. ASSUME NEW S \in SUBSET Hooks, ClosedUnderCalls(S), k \in S,
               NEW q \in routed', Requests[q].fn = g
        PROVE  Requests[q].hook \in S \/ CutOff(q)'
    <3>1. CASE q = n
      BY <2>1, <2>3, <3>1, Zenon
    <3>2. CASE q # n /\ k \notin Passing
      <4>1. n \in routed' /\ q < n
        BY <2>0, <2>1, <2>3, <3>2, Zenon DEF OrderInv
      <4>. QED BY <2>1, <2>3, <3>2, <4>1, Zenon DEF CutOff
    <3>3. CASE q # n /\ k \in Passing
      <4>1. \A h \in Hooks : trampoline = Hook(h) => h \in S
        BY <2>0, <2>1, <2>3, <3>3, ZenonT(40) DEF ComposeInv, ClosedUnderCalls, Calls
      <4>2. RunsAll(g, trampoline)
        BY <2>0, <2>1 DEF ComposeInv, Holding
      <4>3. Requests[q].hook \in S \/ CutOff(q)
        BY <2>1, <2>3, <3>3, <4>1, <4>2, Zenon DEF RunsAll
      <4>4. CutOff(q) => CutOff(q)'
        BY <2>1, Zenon DEF CutOff
      <4>. QED BY <4>3, <4>4
    <3>. QED BY <3>1, <3>2, <3>3
  <2>4. ASSUME NEW f \in Functions, entry'[f].jump # "torn"
        PROVE  RunsAll(f, FirstHook(f))'
    <3>1. CASE f = g
      BY <2>1, <2>2, <2>3, <3>1, Zenon DEF RunsAll, ClosedUnderCalls, Calls
    <3>2. CASE f # g
      <4>1. entry'[f] = entry[f] /\ FirstHook(f)' = FirstHook(f)
        BY <2>1, <3>2, Zenon DEF RouteTypes, FirstHook
      <4>2. RunsAll(f, FirstHook(f))
        BY <2>4, <4>1, ZenonT(40) DEF ComposeInv
      <4>3. PICK x : x = FirstHook(f)
        BY Zenon
      <4>4. \A q \in routed : CutOff(q) => CutOff(q)'
        BY <2>1, Zenon DEF CutOff
      <4>5. \A S \in SUBSET Hooks : ClosedUnderCalls(S)' = ClosedUnderCalls(S)
        BY <2>1, Zenon DEF ClosedUnderCalls, Calls
      <4>6. RunsAll(f, x)'
        BY <2>1, <3>2, <4>2, <4>3, <4>4, <4>5, Zenon DEF RunsAll
      <4>. QED BY <4>1, <4>3, <4>6, Zenon DEF RunsAll
    <3>. QED BY <3>1, <3>2, Zenon
  <2>. QED BY <2>1, <2>4 DEF ComposeInv, Holding
<1>7. CASE TearJump
  <2>1. /\ UNCHANGED <<org, routed, slots, req, trampoline>> /\ pc = "jump" /\ pc' = "rest"
        /\ entry' = [entry EXCEPT ![R.fn] = Torn] /\ R' = R
    BY <1>7, ZenonT(40) DEF TearJump, R
  <2>2. \A f \in Functions : entry'[f].jump = "torn" \/ entry'[f] = entry[f]
    BY <2>1, EntryFacts DEF RouteTypes
  <2>3. \A f \in Functions : entry'[f].jump = "torn"
          \/ (entry[f].jump # "torn" /\ FirstHook(f)' = FirstHook(f))
    BY <2>1, <2>2 DEF FirstHook
  <2>. QED BY <2>1, <2>3, ComposeFrame DEF ComposeInv, Holding
<1>8. CASE UNCHANGED writer
  BY <1>8 DEF writer, ComposeInv, RunsAll, ClosedUnderCalls, Calls, CutOff, FirstHook, R
<1>. QED BY <1>1, <1>2, <1>3, <1>4, <1>5, <1>6, <1>7, <1>8, WriterSteps DEF Route

\* A route that was carried out stays in force: its hook is among those that a
\* call of its function runs, however many routes follow, unless one of these has a
\* hook that answers every call itself.
THEOREM LaterRoutesCompose == Spec => []RoutesCompose
<1>1. Init => OrderInv /\ ComposeInv
  BY Zenon DEF Init, OrderInv, ComposeInv, RunsAll, Holding
<1>2. RouteTypes /\ ComposeInv => RoutesCompose
  <2>. SUFFICES ASSUME RouteTypes, ComposeInv, NEW r \in routed,
                       entry[Requests[r].fn] # Torn
                PROVE  Requests[r].hook \in HooksRun(Requests[r].fn) \/ CutOff(r)
    BY DEF RoutesCompose
  <2>1. Requests[r] \in Request
    BY RequestsAssumption DEF RouteTypes
  <2>2. Requests[r].fn \in Functions /\ Requests[r].hook \in Hooks
    BY <2>1, Zenon DEF Request
  <2>3. entry[Requests[r].fn].jump # "torn"
    BY <2>2, EntryFacts DEF RouteTypes
  <2>. QED BY <2>2, <2>3, Zenon DEF ComposeInv, RunsAll, HooksRun
<1>. QED BY <1>1, <1>2, OrderStep, ComposeStep, RouteInvariant, PTL DEF Spec

------------------------------------------------------------------------------
(* What a caller has read stays true, and the hooks a call runs come to an end. *)

\* An original pointer that is set keeps its value, and so does the address slot that
\* a function's jump goes through.
TargetsStay ==
  /\ \A h \in Hooks : org[h] # Null => org'[h] = org[h]
  /\ \A f \in Functions : entry[f].jump = "Medium" =>
       slots'[entry[f].slot] = slots[entry[f].slot]

\* A processor that stands between the jump and the slot, or in a hook that is about
\* to call its original, goes where the last complete route sends it: no step of a
\* later route, of a retry or of the fallback writes a pointer or a slot that
\* somebody may already be using.
THEOREM TargetsNeverChange == Spec => [][TargetsStay]_vars
<1>1. RouteTypes /\ OrgInv /\ SlotInv /\ [Next]_vars => TargetsStay \/ UNCHANGED vars
  <2>. SUFFICES ASSUME RouteTypes, OrgInv, SlotInv, [Next]_vars PROVE TargetsStay
    OBVIOUS
  <2>1. CASE StoreOriginal
    <3>1. org[R.hook] = Null /\ R.hook \in Hooks /\ slots' = slots
            /\ org' = [org EXCEPT ![R.hook] = trampoline]
      BY <2>1, RequestFacts DEF StoreOriginal, RouteTypes, OrgInv, Holding
    <3>. QED BY <3>1, ZenonT(30) DEF TargetsStay, RouteTypes
  <2>2. CASE WriteSlot
    <3>1. org' = org
      BY <2>2, Zenon DEF WriteSlot
    <3>. QED BY <2>2, <3>1, SlotWritten, Zenon DEF TargetsStay
  <2>3. CASE ~StoreOriginal /\ ~WriteSlot
    <3>1. org' = org /\ slots' = slots
      BY <2>3, WriterSteps, Zenon DEF Route, SkipRequest, SolveSymbol, ReachFails,
        FollowChain, TrampolineFails, CreateTrampoline, ProtectFails, StoreJump, TearJump,
        CompleteJump, writer
    <3>. QED BY <3>1, Zenon DEF TargetsStay
  <2>. QED BY <2>1, <2>2, <2>3, Zenon
<1>. QED BY <1>1, RouteInvariant, PTL DEF Spec

\* Where a call is sent is set, and a hook it is sent to has its original.
Ready(x) == x # Null /\ \A h \in Hooks : x = Hook(h) => org[h] # Null

\* rank is the request that set a hook's original pointer: the hook it leads to was
\* routed by an earlier one.
RankInv(rank) ==
  /\ rank \in [Hooks -> 0 .. Len(Requests)]
  /\ \A h \in Hooks : org[h] # Null =>
       rank[h] < req \/ (rank[h] = req /\ pc \in {"protect", "jump", "rest"})
  /\ \A g, h \in Hooks : Calls(g, h) => org[h] # Null /\ rank[h] < rank[g]
  /\ \A f \in Functions : entry[f].jump \in {"Short", "Medium", "Long"} =>
       Ready(FirstHook(f))
  /\ pc = "org" => Ready(trampoline)
  /\ pc \in {"protect", "jump", "rest"} => org[R.hook] # Null

\* What a step must show that leaves the pointers alone.
LEMMA RankFrame ==
  ASSUME NEW rank, RankInv(rank), UNCHANGED org,
         \A f \in Functions : entry'[f].jump \in {"Short", "Medium", "Long"} =>
           Ready(FirstHook(f)'),
         pc' = "org" => Ready(trampoline'),
         pc' \in {"protect", "jump", "rest"} => org[R'.hook] # Null,
         \A h \in Hooks : org[h] # Null =>
           rank[h] < req' \/ (rank[h] = req' /\ pc' \in {"protect", "jump", "rest"})
  PROVE  RankInv(rank)'
<1>1. \A h \in Hooks : org'[h] = org[h]
  BY Zenon
<1>2. \A g, h : Calls(g, h)' = Calls(g, h)
  BY Zenon DEF Calls
<1>3. ASSUME NEW f \in Functions, entry'[f].jump \in {"Short", "Medium", "Long"}
      PROVE  Ready(FirstHook(f))'
  <2>1. PICK x : x = FirstHook(f)'
    BY Zenon
  <2>2. Ready(x)
    BY <1>3, <2>1, Zenon
  <2>. QED BY <2>1, <2>2, Zenon DEF Ready
<1>4. ASSUME pc' = "org" PROVE Ready(trampoline)'
  <2>1. PICK x : x = trampoline'
    BY Zenon
  <2>2. Ready(x)
    BY <1>4, <2>1, Zenon
  <2>. QED BY <2>1, <2>2, Zenon DEF Ready
<1>. QED BY <1>1, <1>2, <1>3, <1>4, Zenon DEF RankInv

LEMMA RankStep ==
  ASSUME RouteTypes, OrgInv, SlotInv, NEW rank, RankInv(rank), [Next]_vars
  PROVE  \E r : RankInv(r)'
<1>0. /\ req \in Nat /\ Len(Requests) \in Nat
      /\ \A h \in Hooks : rank[h] \in Nat
  BY RequestsAssumption DEF RouteTypes, RankInv
<1>a. \A h \in Hooks : org[h] # Null =>
        rank[h] < req \/ (rank[h] = req /\ pc \in {"protect", "jump", "rest"})
  BY Zenon DEF RankInv
<1>b. \A h \in Hooks : org[h] # Null => rank[h] < req + 1
  <2>1. \A n \in Nat, m \in Nat : n < m \/ n = m => n < m + 1
    OBVIOUS
  <2>. QED BY <1>0, <1>a, <2>1, Zenon
<1>c. pc = "solve" => \A h \in Hooks : org[h] # Null => rank[h] < req
  <2>1. "solve" \notin {"protect", "jump", "rest"}
    OBVIOUS
  <2>. QED BY <1>a, <2>1, Zenon
<1>1. CASE SkipRequest \/ SolveSymbol \/ ReachFails \/ TrampolineFails \/ ProtectFails
  <2>1. /\ UNCHANGED <<org, entry, slots>>
        /\ \/ pc' = "solve" /\ req' = req + 1
           \/ pc' = "chain" /\ req' = req /\ pc = "solve"
    BY <1>1 DEF SkipRequest, SolveSymbol, ReachFails, TrampolineFails, ProtectFails, NextRequest
  <2>2. \A f \in Functions : entry'[f] = entry[f] /\ FirstHook(f)' = FirstHook(f)
    BY <2>1, Zenon DEF FirstHook
  <2>3. \A h \in Hooks : org[h] # Null => rank[h] < req'
    BY <1>b, <1>c, <2>1, Zenon
  <2>4. RankInv(rank)'
    BY <2>1, <2>2, <2>3, RankFrame, Zenon DEF RankInv
  <2>. QED BY <2>4, Zenon
<1>2. CASE FollowChain
  <2>1. /\ UNCHANGED <<org, entry, slots, req>> /\ R.fn \in Functions /\ pc = "chain"
        /\ pc' \in {"panic", "org"}
        /\ entry[R.fn].jump \in {"Short", "Medium", "Long"}
    BY <1>2, RequestFacts DEF FollowChain, RouteTypes, R
  <2>2. trampoline' = FirstHook(R.fn)
    BY <1>2, Zenon DEF FollowChain, FirstHook
  <2>3. Ready(trampoline')
    BY <2>1, <2>2 DEF RankInv
  <2>4. \A f \in Functions : entry'[f] = entry[f] /\ FirstHook(f)' = FirstHook(f)
    BY <2>1, Zenon DEF FirstHook
  <2>5. RankInv(rank)'
    BY <2>1, <2>3, <2>4, RankFrame, Zenon DEF RankInv
  <2>. QED BY <2>5
<1>3. CASE CreateTrampoline
  <2>1. /\ UNCHANGED <<org, entry, slots, req>> /\ pc' = "org" /\ pc = "chain"
        /\ trampoline' = Trampoline(R.fn) /\ R.fn \in Functions
    BY <1>3, RequestFacts DEF CreateTrampoline, RouteTypes, R
  <2>2. Ready(trampoline')
    BY <2>1, TargetFacts, Zenon DEF Ready
  <2>3. \A f \in Functions : entry'[f] = entry[f] /\ FirstHook(f)' = FirstHook(f)
    BY <2>1, Zenon DEF FirstHook
  <2>4. RankInv(rank)'
    BY <2>1, <2>2, <2>3, RankFrame, Zenon DEF RankInv
  <2>. QED BY <2>4
<1>4. CASE StoreOriginal
  <2>0. PICK k, n, x : k = R.hook /\ n = req /\ x = trampoline
    BY Zenon
  <2>1. /\ UNCHANGED <<entry, slots, req, trampoline>> /\ R' = R
        /\ pc = "org" /\ pc' = "protect" /\ k \in Hooks /\ org[k] = Null
        /\ org' = [org EXCEPT ![k] = x] /\ n \in 1 .. Len(Requests)
    BY <1>4, <2>0, RequestFacts DEF StoreOriginal, RouteTypes, OrgInv, R
  <2>2. x # Null /\ \A h \in Hooks : x = Hook(h) => org[h] # Null
    BY <2>0, <2>1, Zenon DEF RankInv, Ready
  <2>3. \A h \in Hooks : org'[h] = IF h = k THEN x ELSE org[h]
    BY <2>1, Zenon DEF RouteTypes
  <2>. DEFINE new == [rank EXCEPT ![k] = n]
  <2>4. /\ new \in [Hooks -> 0 .. Len(Requests)]
        /\ \A h \in Hooks : new[h] = IF h = k THEN n ELSE rank[h]
    <3>1. n \in 0 .. Len(Requests)
      BY <1>0, <2>1
    <3>. QED BY <3>1, Zenon DEF RankInv
  <2>. HIDE DEF new
  <2>5. \A h \in Hooks : org'[h] # Null =>
          new[h] < req' \/ (new[h] = req' /\ pc' \in {"protect", "jump", "rest"})
    BY <2>0, <2>1, <2>3, <2>4, Zenon DEF RankInv
  <2>6. ASSUME NEW g \in Hooks, NEW h \in Hooks, org'[g] = Hook(h)
        PROVE  org'[h] # Null /\ new[h] < new[g]
    <3>1. CASE g = k
      <4>1. org[h] # Null /\ h # k
        BY <2>1, <2>2, <2>3, <2>6, <3>1, Zenon
      <4>2. rank[h] < n
        BY <2>0, <2>1, <4>1, Zenon DEF RankInv
      <4>. QED BY <2>3, <2>4, <3>1, <4>1, <4>2, Zenon
    <3>2. CASE g # k
      <4>1. org[g] = Hook(h)
        BY <2>3, <2>6, <3>2, Zenon
      <4>2. org[h] # Null /\ rank[h] < rank[g]
        BY <4>1, Zenon DEF RankInv, Calls
      <4>. QED BY <2>1, <2>3, <2>4, <3>2, <4>2, Zenon
    <3>. QED BY <3>1, <3>2, Zenon
  <2>7. ASSUME NEW f \in Functions, entry'[f].jump \in {"Short", "Medium", "Long"}
        PROVE  Ready(FirstHook(f))'
    <3>1. FirstHook(f)' = FirstHook(f) /\ Ready(FirstHook(f))
      BY <2>1, <2>7, Zenon DEF FirstHook, RankInv
    <3>. QED BY <2>2, <2>3, <3>1, Zenon DEF Ready
  <2>8. org'[R'.hook] # Null
    BY <2>0, <2>1, <2>2, <2>3, Zenon
  <2>9. RankInv(new)'
    BY <2>1, <2>4, <2>5, <2>6, <2>7, <2>8, Zenon DEF RankInv, Calls
  <2>. QED BY <2>9
<1>5. CASE WriteSlot
  <2>1. /\ UNCHANGED <<org, entry, req>> /\ pc = "protect" /\ pc' = "jump" /\ R' = R
    BY <1>5, Zenon DEF WriteSlot, R
  <2>2. ASSUME NEW f \in Functions, entry[f].jump = "Medium"
        PROVE  slots'[entry[f].slot] = slots[entry[f].slot]
    BY <1>5, <2>2, SlotWritten, Zenon
  <2>3. \A f \in Functions : entry'[f] = entry[f] /\ FirstHook(f)' = FirstHook(f)
    BY <2>1, <2>2, Zenon DEF FirstHook
  <2>4. RankInv(rank)'
    BY <2>1, <2>3, RankFrame, Zenon DEF RankInv
  <2>. QED BY <2>4
<1>6. CASE StoreJump \/ CompleteJump
  <2>0. PICK k, g : k = R.hook /\ g = R.fn
    OBVIOUS
  <2>1. /\ UNCHANGED <<org, slots>> /\ pc \in {"jump", "rest"} /\ pc' = "solve"
        /\ entry' = [entry EXCEPT ![g] = Jump] /\ g \in Functions /\ k \in Hooks
        /\ req' = req + 1
    BY <1>6, <2>0, RequestFacts
       DEF StoreJump, CompleteJump, Routed, NextRequest, RouteTypes
  <2>2. FirstHook(g)' = Hook(k)
    <3>1. entry'[g] = Jump
      BY <2>1 DEF RouteTypes
    <3>2. /\ Jump.jump = "Medium" => slots[Jump.slot] = Hook(k)
          /\ Jump.jump # "Medium" => Jump.jump \in {"Short", "Long"} /\ Jump.to = Hook(k)
      BY <2>0, <2>1, Zenon DEF Jump, SlotInv
    <3>. QED BY <2>1, <3>1, <3>2 DEF FirstHook
  <2>3. Ready(Hook(k))
    BY <2>0, <2>1, TargetFacts, Zenon DEF RankInv, Ready
  <2>4. ASSUME NEW f \in Functions, entry'[f].jump \in {"Short", "Medium", "Long"}
        PROVE  Ready(FirstHook(f)')
    <3>1. CASE f = g
      BY <2>2, <2>3, <3>1, Zenon
    <3>2. CASE f # g
      <4>1. entry'[f] = entry[f] /\ FirstHook(f)' = FirstHook(f)
        BY <2>1, <3>2, Zenon DEF RouteTypes, FirstHook
      <4>. QED BY <2>4, <4>1, Zenon DEF RankInv
    <3>. QED BY <3>1, <3>2, Zenon
  <2>5. \A h \in Hooks : org[h] # Null => rank[h] < req'
    BY <1>b, <2>1, Zenon
  <2>6. RankInv(rank)'
    BY <2>1, <2>4, <2>5, RankFrame, Zenon
  <2>. QED BY <2>6
<1>7. CASE TearJump
  <2>1. /\ UNCHANGED <<org, slots, req>> /\ pc = "jump" /\ pc' = "rest"
        /\ entry' = [entry EXCEPT ![R.fn] = Torn] /\ R' = R
    BY <1>7, ZenonT(40) DEF TearJump, R
  <2>2. \A f \in Functions : entry'[f].jump = "torn" \/ entry'[f] = entry[f]
    BY <2>1, EntryFacts DEF RouteTypes
  <2>3. ASSUME NEW f \in Functions, entry'[f].jump \in {"Short", "Medium", "Long"}
        PROVE  Ready(FirstHook(f)')
    <3>1. entry'[f] = entry[f]
      BY <2>2, <2>3
    <3>2. FirstHook(f)' = FirstHook(f)
      BY <2>1, <3>1, Zenon DEF FirstHook
    <3>. QED BY <2>3, <3>1, <3>2, Zenon DEF RankInv
  <2>4. RankInv(rank)'
    BY <2>1, <2>3, RankFrame, Zenon DEF RankInv
  <2>. QED BY <2>4
<1>8. CASE UNCHANGED writer
  <2>1. RankInv(rank)'
    BY <1>8, Zenon DEF writer, RankInv, Ready, Calls, FirstHook, R
  <2>. QED BY <2>1
<1>. QED BY <1>1, <1>2, <1>3, <1>4, <1>5, <1>6, <1>7, <1>8, WriterSteps, Zenon DEF Route

\* Hooks never call each other in a circle: they can be numbered, by the requests, so
\* that every original pointer that leads to a hook leads to one with a smaller number.
ChainsEnd ==
  \E rank \in [Hooks -> 0 .. Len(Requests)] :
    \A g, h \in Hooks : Calls(g, h) => rank[h] < rank[g]

\* However many plug-ins route the same functions, a call runs no more hooks than
\* there are requests before it is answered: what CallsReturn, which is
\* model-checked, rests on.
THEOREM ChainsAlwaysEnd == Spec => []ChainsEnd
<1>. DEFINE Inv == RouteTypes /\ OrgInv /\ SlotInv
            Numbered == \E rank : RankInv(rank)
<1>1. Init => Numbered
  <2>. SUFFICES ASSUME Init PROVE RankInv([h \in Hooks |-> 0])
    OBVIOUS
  <2>1. [h \in Hooks |-> 0] \in [Hooks -> 0 .. Len(Requests)]
    BY RequestsAssumption
  <2>2. \A h \in Hooks : org[h] = Null
    BY Zenon DEF Init
  <2>3. \A f \in Functions : entry[f].jump = "none"
    BY EntryFacts, Zenon DEF Init
  <2>4. \A h \in Hooks : Hook(h) # Null
    BY TargetFacts
  <2>5. pc = "solve"
    BY DEF Init
  <2>. QED BY <2>1, <2>2, <2>3, <2>4, <2>5, Zenon DEF RankInv, Calls
<1>2. Inv /\ Numbered /\ [Next]_vars => Numbered'
  BY RankStep
<1>3. Numbered => ChainsEnd
  BY Zenon DEF RankInv, ChainsEnd
<1>. HIDE DEF Numbered
<1>. QED BY <1>1, <1>2, <1>3, RouteInvariant, PTL DEF Spec
==============================================================================
