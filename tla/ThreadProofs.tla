----------------------------- MODULE ThreadProofs -----------------------------
(***************************************************************************)
(* Proofs about the parts that several kernel threads run at a time: the   *)
(* bookkeeping of UserPatcher, for any finite set of threads, any requests *)
(* and any number of slots; and the hooks that prime the Radeon services   *)
(* (AccelPrime), for any registry and any properties set before.           *)
(***************************************************************************)
EXTENDS UserPatcher, AccelPrime, FiniteSetTheorems, TLAPS

------------------------------------------------------------------------------
(* primeAMDLoadProperties                                                    *)

\* The types, but for the two Boolean variables, which no step depends on.
Types ==
  /\ props \in [Services -> SUBSET Properties]
  /\ stage \in [HookThreads -> {"idle", "get", "set", "ids", "register"}]
  /\ current \in [HookThreads -> 0 .. N] /\ key \in [HookThreads -> Properties]
  /\ pciProvider \in [HookThreads -> Pci \union {0}]
  /\ unannounced \subseteq Services
  /\ \A t \in HookThreads : stage[t] \in {"get", "set", "ids"} => current[t] # 0
  /\ \A t \in HookThreads : stage[t] = "register" => pciProvider[t] # 0

\* What a thread has already seen to: the first property while it deals with
\* the second, both once it looks for the ids, both of the device it registers.
Seen(t) ==
  /\ stage[t] \in {"get", "set"} /\ key[t] = "LoadHWServices" =>
       "LoadAccelerator" \in props[current[t]]
  /\ stage[t] = "ids" => Properties \subseteq props[current[t]]
  /\ stage[t] = "register" => Properties \subseteq props[pciProvider[t]]

PrimeInv == Types /\ \A t \in HookThreads : Seen(t)

\* What reading or setting a property does to the place of thread t.
PropertyStep(t) ==
  /\ \E place \in {"get", "set", "ids"} : stage' = [stage EXCEPT ![t] = place]
  /\ key' \in {key, [key EXCEPT ![t] = "LoadHWServices"]}

LEMMA PropertyStepTypes ==
  ASSUME Types, NEW t \in HookThreads, PropertyStep(t), stage[t] \in {"get", "set", "ids"}
  PROVE  /\ stage' \in [HookThreads -> {"idle", "get", "set", "ids", "register"}]
         /\ key' \in [HookThreads -> Properties]
         /\ \A u \in HookThreads : stage'[u] \in {"get", "set", "ids"} => current[u] # 0
         /\ \A u \in HookThreads : stage'[u] = "register" => pciProvider[u] # 0
<1>1. PICK place \in {"get", "set", "ids"} : stage' = [stage EXCEPT ![t] = place]
  BY Zenon DEF PropertyStep
<1>2. stage' \in [HookThreads -> {"idle", "get", "set", "ids", "register"}]
  BY <1>1 DEF Types
<1>3. key' \in [HookThreads -> Properties]
  BY DEF PropertyStep, Types, Properties
<1>4. ASSUME NEW u \in HookThreads
      PROVE  /\ stage'[u] \in {"get", "set", "ids"} => current[u] # 0
             /\ stage'[u] = "register" => pciProvider[u] # 0
  <2>1. CASE u = t
    BY <1>1, <2>1 DEF Types
  <2>2. CASE u # t
    BY <1>1, <2>2, Zenon DEF Types
  <2>. QED BY <2>1, <2>2
<1>. QED BY <1>2, <1>3, <1>4

LEMMA TypesInductive ==
  ASSUME Types, [PrimeNext]_primeVars PROVE Types'
<1>. USE ServicesAssumption DEF Types, Services, Properties
<1>1. ASSUME NEW t \in HookThreads, NEW hook, NEW event, NEW service \in 0 .. N,
             CallHook(t, hook, event, service)
      PROVE  Types'
  BY <1>1, Zenon DEF CallHook
<1>2. ASSUME NEW t \in HookThreads, GetProperty(t) PROVE Types'
  <2>0. PropertyStep(t) /\ stage[t] \in {"get", "set", "ids"}
    BY <1>2 DEF GetProperty, AfterProperty, PropertyStep
  <2>1. /\ stage' \in [HookThreads -> {"idle", "get", "set", "ids", "register"}]
        /\ key' \in [HookThreads -> Properties]
        /\ \A u \in HookThreads : stage'[u] \in {"get", "set", "ids"} => current[u] # 0
        /\ \A u \in HookThreads : stage'[u] = "register" => pciProvider[u] # 0
    BY <2>0, PropertyStepTypes
  <2>. QED BY <1>2, <2>1 DEF GetProperty
<1>3. ASSUME NEW t \in HookThreads, SetProperty(t) PROVE Types'
  <2>0. PropertyStep(t) /\ stage[t] \in {"get", "set", "ids"}
    BY <1>3 DEF SetProperty, AfterProperty, PropertyStep
  <2>1. /\ stage' \in [HookThreads -> {"idle", "get", "set", "ids", "register"}]
        /\ key' \in [HookThreads -> Properties]
        /\ \A u \in HookThreads : stage'[u] \in {"get", "set", "ids"} => current[u] # 0
        /\ \A u \in HookThreads : stage'[u] = "register" => pciProvider[u] # 0
    BY <2>0, PropertyStepTypes
  <2>2. current[t] \in Services /\ key[t] \in Properties
    BY <1>3 DEF SetProperty
  <2>3. props[current[t]] \union {key[t]} \in SUBSET Properties
    BY <2>2
  <2>4. props' \in [Services -> SUBSET Properties]
    BY <1>3, <2>3 DEF SetProperty
  <2>5. unannounced' \subseteq Services
    BY <1>3, <2>2, Zenon DEF SetProperty
  <2>. QED BY <1>3, <2>1, <2>4, <2>5, Zenon DEF SetProperty
<1>4. ASSUME NEW t \in HookThreads, NextService(t) PROVE Types'
  BY <1>4 DEF NextService
<1>5. ASSUME NEW t \in HookThreads, FindPciProvider(t) PROVE Types'
  BY <1>5 DEF FindPciProvider
<1>6. ASSUME NEW t \in HookThreads, RegisterService(t) PROVE Types'
  BY <1>6, Zenon DEF RegisterService, locals
<1>7. CASE UNCHANGED primeVars
  BY <1>7, Zenon DEF primeVars, locals
<1>. QED
  BY <1>1, <1>2, <1>3, <1>4, <1>5, <1>6, <1>7, Zenon DEF PrimeNext, Prime

\* Nobody takes a property away, so what one thread has seen to stays true
\* whatever the others do.
LEMMA SeenByOthers ==
  ASSUME Types, NEW t \in HookThreads, Seen(t),
         \A n \in Services : props[n] \subseteq props'[n],
         stage'[t] = stage[t], key'[t] = key[t], current'[t] = current[t],
         pciProvider'[t] = pciProvider[t]
  PROVE  Seen(t)'
<1>1. stage[t] \in {"get", "set", "ids"} => current[t] \in Services
  BY ServicesAssumption DEF Types, Services
<1>2. stage[t] = "register" => pciProvider[t] \in Services
  BY ServicesAssumption DEF Types
<1>. QED BY <1>1, <1>2 DEF Seen

LEMMA PrimeInductive ==
  ASSUME PrimeInv, [PrimeNext]_primeVars PROVE PrimeInv'
<1>0. Types /\ Types'
  BY TypesInductive DEF PrimeInv
<1>1. ASSUME NEW t \in HookThreads, NEW hook, NEW event, NEW service \in 0 .. N,
             CallHook(t, hook, event, service), NEW u \in HookThreads
      PROVE  Seen(u)'
  <2>1. CASE u # t
    BY <1>0, <1>1, <2>1, SeenByOthers, Zenon DEF CallHook, Types, PrimeInv
  <2>2. CASE u = t
    BY <1>0, <1>1, <2>2 DEF CallHook, Types, Seen
  <2>. QED BY <2>1, <2>2, Zenon
<1>2. ASSUME NEW t \in HookThreads, GetProperty(t), NEW u \in HookThreads
      PROVE  Seen(u)'
  <2>1. CASE u # t
    BY <1>0, <1>2, <2>1, SeenByOthers, Zenon DEF GetProperty, AfterProperty, Types, PrimeInv
  <2>2. CASE u = t
    BY <1>0, <1>2, <2>2 DEF GetProperty, AfterProperty, Types, Seen, PrimeInv,
      Properties
  <2>. QED BY <2>1, <2>2, Zenon
<1>3. ASSUME NEW t \in HookThreads, SetProperty(t), NEW u \in HookThreads
      PROVE  Seen(u)'
  <2>1. /\ \A n \in Services : props[n] \subseteq props'[n]
        /\ key[t] \in props'[current[t]]
    BY <1>0, <1>3, ServicesAssumption, Zenon DEF SetProperty, Types, Services
  <2>2. CASE u # t
    BY <1>0, <1>3, <2>1, <2>2, SeenByOthers, Zenon
       DEF SetProperty, AfterProperty, Types, PrimeInv
  <2>3. CASE u = t
    BY <1>0, <1>3, <2>1, <2>3, ServicesAssumption
       DEF SetProperty, AfterProperty, Types, Seen, PrimeInv, Properties, Services
  <2>. QED BY <2>2, <2>3
<1>4. ASSUME NEW t \in HookThreads, NextService(t), NEW u \in HookThreads
      PROVE  Seen(u)'
  <2>1. CASE u # t
    BY <1>0, <1>4, <2>1, SeenByOthers, Zenon DEF NextService, Types, PrimeInv
  <2>2. CASE u = t
    BY <1>0, <1>4, <2>2, Zenon DEF NextService, Types, Seen
  <2>. QED BY <2>1, <2>2
<1>5. ASSUME NEW t \in HookThreads, FindPciProvider(t), NEW u \in HookThreads
      PROVE  Seen(u)'
  <2>1. CASE u # t
    BY <1>0, <1>5, <2>1, SeenByOthers, Zenon DEF FindPciProvider, Types, PrimeInv
  <2>2. CASE u = t
    BY <1>0, <1>5, <2>2, Zenon DEF FindPciProvider, Types, Seen, PrimeInv
  <2>. QED BY <2>1, <2>2
<1>6. ASSUME NEW t \in HookThreads, RegisterService(t), NEW u \in HookThreads
      PROVE  Seen(u)'
  <2>1. CASE u # t
    BY <1>0, <1>6, <2>1, SeenByOthers DEF RegisterService, locals, Types, PrimeInv
  <2>2. CASE u = t
    BY <1>0, <1>6, <2>2 DEF RegisterService, Types, Seen
  <2>. QED BY <2>1, <2>2
<1>7. ASSUME UNCHANGED primeVars, NEW u \in HookThreads PROVE Seen(u)'
  BY <1>0, <1>7, SeenByOthers DEF primeVars, locals, PrimeInv
<1>8. \A u \in HookThreads : Seen(u)'
  BY <1>1, <1>2, <1>3, <1>4, <1>5, <1>6, <1>7 DEF PrimeNext, Prime
<1>. QED BY <1>0, <1>8 DEF PrimeInv

LEMMA InitPrimeInv == PrimeInit => PrimeInv
<1>1. PrimeInit => Types
  <2>. SUFFICES ASSUME PrimeInit PROVE Types
    OBVIOUS
  <2>1. props \in [Services -> SUBSET Properties]
    <3>1. Marked \subseteq SUBSET Properties
      BY ServicesAssumption
    <3>2. props \in [Services -> Marked]
      BY DEF PrimeInit
    <3>. QED BY <3>1, <3>2
  <2>2. /\ stage \in [HookThreads -> {"idle", "get", "set", "ids", "register"}]
        /\ key \in [HookThreads -> Properties] /\ unannounced \subseteq Services
        /\ \A t \in HookThreads : stage[t] = "idle"
    BY DEF PrimeInit, Properties
  <2>3. current \in [HookThreads -> 0 .. N]
    BY ServicesAssumption DEF PrimeInit
  <2>4. pciProvider \in [HookThreads -> Pci \union {0}]
    BY DEF PrimeInit
  <2>. QED BY <2>1, <2>2, <2>3, <2>4 DEF Types
<1>2. PrimeInit => \A t \in HookThreads : Seen(t)
  BY DEF PrimeInit, Seen
<1>. QED BY <1>1, <1>2 DEF PrimeInv

\* The two Boolean variables keep their type.
BooleanTypes == enabled \in BOOLEAN /\ changed \in [HookThreads -> BOOLEAN]

LEMMA BooleanTypesInductive ==
  ASSUME BooleanTypes, [PrimeNext]_primeVars PROVE BooleanTypes'
<1>. USE DEF BooleanTypes
<1>1. ASSUME NEW t \in HookThreads, Prime(t) PROVE BooleanTypes'
  <2>1. /\ enabled' = enabled
        /\ changed' \in {changed, [changed EXCEPT ![t] = TRUE]}
    BY <1>1, Zenon DEF Prime, GetProperty, SetProperty, NextService, FindPciProvider,
      RegisterService, locals
  <2>. QED BY <2>1, Zenon
<1>2. ASSUME NEW t \in HookThreads, NEW hook, NEW event, NEW service \in 0 .. N,
             CallHook(t, hook, event, service)
      PROVE  BooleanTypes'
  BY <1>2 DEF CallHook
<1>3. CASE UNCHANGED primeVars
  BY <1>3 DEF primeVars, locals
<1>. QED BY <1>1, <1>2, <1>3 DEF PrimeNext

\* Every variable of a hook's walk keeps its type: in particular a walk never
\* reads the properties of a service beyond the root, and never registers a
\* device it has not found.
THEOREM PrimeTypeCorrect == PrimeSpec => []PrimeTypeOK
<1>1. PrimeInit => Types /\ BooleanTypes
  <2>1. PrimeInit => BooleanTypes
    BY DEF PrimeInit, BooleanTypes
  <2>. QED BY <2>1, InitPrimeInv DEF PrimeInv
<1>2. Types /\ BooleanTypes /\ [PrimeNext]_primeVars => (Types /\ BooleanTypes)'
  BY TypesInductive, BooleanTypesInductive
<1>3. Types /\ BooleanTypes => PrimeTypeOK
  BY DEF Types, BooleanTypes, PrimeTypeOK
<1>. QED BY <1>1, <1>2, <1>3, PTL DEF PrimeSpec

\* A PCI device is matched again only with both load properties set, however
\* many hooks set them between each other.
THEOREM AlwaysRegisteredPrimed == PrimeSpec => []RegisteredPrimed
<1>1. PrimeInv /\ [PrimeNext]_primeVars => PrimeInv'
  BY PrimeInductive
<1>2. PrimeInv => RegisteredPrimed
  <2>. SUFFICES ASSUME PrimeInv, NEW t \in HookThreads, stage[t] = "register"
                PROVE  props[pciProvider[t]] = Properties
    BY DEF RegisteredPrimed
  <2>1. pciProvider[t] \in Services
    BY ServicesAssumption DEF PrimeInv, Types
  <2>2. props[pciProvider[t]] \in SUBSET Properties
    BY <2>1 DEF PrimeInv, Types
  <2>3. Properties \subseteq props[pciProvider[t]]
    BY DEF PrimeInv, Seen
  <2>. QED BY <2>2, <2>3, Zenon
<1>. QED BY InitPrimeInv, <1>1, <1>2, PTL DEF PrimeSpec

\* A set of numbers that is not empty has a least member.
LEMMA LeastMember ==
  ASSUME NEW T \in SUBSET Nat, T # {}
  PROVE  \E m \in T : \A k \in T : m <= k
<1>1. PICK m \in T : \A k \in T : ~(<<k, m>> \in OpToRel(<, Nat))
  BY NatLessThanWellFounded, WFMin, Zenon
<1>2. ASSUME NEW k \in T PROVE ~(k < m)
  BY <1>1, Zenon DEF OpToRel
<1>. QED BY <1>2

\* One step of a walk that goes on as f says.
WalkFrom(f, n) ==
  IF n = 0 THEN 0 ELSE IF n \in Pci THEN n ELSE f[Provider[n]]

\* f tells where the walks from 0 to m end.
Walks(f, m) == f \in [0 .. m -> 0 .. N] /\ \A n \in 0 .. m : f[n] = WalkFrom(f, n)

LEMMA WalksEnd == \E f : Walks(f, N)
<1>. DEFINE Missing == {m \in 0 .. N : ~ \E f : Walks(f, m)}
<1>1. SUFFICES ASSUME Missing # {} PROVE FALSE
  BY ServicesAssumption
<1>2. PICK m \in Missing : \A k \in Missing : m <= k
  <2>1. Missing \in SUBSET Nat
    BY ServicesAssumption
  <2>. HIDE DEF Missing
  <2>. QED BY <1>1, <2>1, LeastMember
<1>3. m \in 0 .. N /\ ~ \E f : Walks(f, m)
  BY <1>2
<1>. HIDE DEF Missing
<1>4. CASE m = 0
  <2>1. Walks([n \in 0 .. 0 |-> 0], 0)
    BY ServicesAssumption DEF Walks, WalkFrom
  <2>. QED BY <1>3, <1>4, <2>1
<1>5. CASE m # 0
  <2>1. m - 1 \in 0 .. N /\ m - 1 \notin Missing
    BY <1>2, <1>3, <1>5, ServicesAssumption
  <2>2. PICK f : Walks(f, m - 1)
    BY <2>1 DEF Missing
  <2>. DEFINE g == [n \in 0 .. m |-> IF n = m THEN WalkFrom(f, m) ELSE f[n]]
  <2>3. Provider[m] \in 0 .. m - 1
    BY <1>3, <1>5, ServicesAssumption DEF Services
  <2>4. WalkFrom(f, m) \in 0 .. N
    BY <1>3, <2>2, <2>3 DEF Walks, WalkFrom
  <2>5. g \in [0 .. m -> 0 .. N]
    BY <1>3, <2>2, <2>4 DEF Walks
  <2>6. ASSUME NEW n \in 0 .. m PROVE g[n] = WalkFrom(g, n)
    <3>1. n # 0 => Provider[n] \in 0 .. m - 1 /\ Provider[n] # m
      BY <1>3, ServicesAssumption DEF Services
    <3>2. WalkFrom(g, n) = WalkFrom(f, n)
      BY <1>3, <3>1 DEF WalkFrom
    <3>3. n # m => f[n] = WalkFrom(f, n)
      BY <1>3, <2>2 DEF Walks
    <3>. QED BY <3>2, <3>3
  <2>. HIDE DEF g
  <2>7. Walks(g, m)
    BY <2>5, <2>6 DEF Walks
  <2>. QED BY <1>3, <2>7
<1>. QED BY <1>4, <1>5

LEMMA PciOfFacts ==
  /\ pciOf[0] = 0
  /\ \A n \in Services : pciOf[n] = IF n \in Pci THEN n ELSE pciOf[Provider[n]]
<1>. DEFINE F(f) == [n \in 0 .. N |->
                       IF n = 0 THEN 0 ELSE IF n \in Pci THEN n ELSE f[Provider[n]]]
<1>1. PICK f : Walks(f, N)
  BY WalksEnd
<1>2. f = F(f)
  BY <1>1, Zenon DEF Walks, WalkFrom
<1>3. pciOf = CHOOSE g : g = F(g)
  BY Zenon DEF pciOf
<1>4. pciOf = F(pciOf)
  BY <1>2, <1>3, Zenon
<1>5. 0 \in 0 .. N /\ Services \subseteq 0 .. N /\ 0 \notin Services
  BY ServicesAssumption DEF Services
<1>. QED BY <1>4, <1>5, Zenon

\* A hook that will yet register the device d: it has marked a service below d
\* and is on its way up, or it has reached d.
Owes(t, d) ==
  \/ stage[t] \in {"get", "set", "ids"} /\ changed[t] /\ pciOf[current[t]] = d
  \/ stage[t] = "register" /\ pciProvider[t] = d

\* For every unannounced mark below a PCI device, some hook owes the
\* registration.
Owed(n) == pciOf[n] # 0 => \E t \in HookThreads : Owes(t, pciOf[n])

AnnounceInv == BooleanTypes /\ Types /\ \A n \in unannounced : Owed(n)

\* A thread that owes a registration still does when another thread steps.
LEMMA OwedFrame ==
  ASSUME NEW n, Owed(n), NEW t \in HookThreads,
         \A u \in HookThreads \ {t} :
            /\ stage'[u] = stage[u] /\ changed'[u] = changed[u] /\ current'[u] = current[u]
            /\ pciProvider'[u] = pciProvider[u],
         pciOf[n] # 0 /\ Owes(t, pciOf[n]) => Owes(t, pciOf[n])'
  PROVE  Owed(n)'
<1>. SUFFICES ASSUME pciOf[n] # 0 PROVE \E u \in HookThreads : Owes(u, pciOf[n])'
  BY Zenon DEF Owed
<1>1. PICK u \in HookThreads : Owes(u, pciOf[n])
  BY Zenon DEF Owed
<1>2. CASE u = t
  BY <1>1, <1>2, Zenon
<1>3. CASE u # t
  <2>1. Owes(u, pciOf[n])'
    BY <1>1, <1>3 DEF Owes
  <2>. QED BY <2>1, Zenon
<1>. QED BY <1>2, <1>3, Zenon

LEMMA AnnounceInductive ==
  ASSUME AnnounceInv, [PrimeNext]_primeVars PROVE AnnounceInv'
<1>0. BooleanTypes /\ BooleanTypes' /\ Types /\ Types' /\ Pci \subseteq Services
  BY TypesInductive, BooleanTypesInductive, ServicesAssumption DEF AnnounceInv
<1>1. ASSUME NEW t \in HookThreads, NEW hook, NEW event, NEW service \in 0 .. N,
             CallHook(t, hook, event, service), NEW n \in unannounced'
      PROVE  Owed(n)'
  <2>1. Owed(n) /\ ~Owes(t, pciOf[n])
    BY <1>1, Zenon DEF CallHook, AnnounceInv, Owes
  <2>. QED BY <1>0, <1>1, <2>1, OwedFrame, Zenon DEF CallHook, Types, BooleanTypes
<1>2. ASSUME NEW t \in HookThreads, GetProperty(t), NEW n \in unannounced'
      PROVE  Owed(n)'
  <2>1. Owed(n)
    BY <1>2, Zenon DEF GetProperty, AnnounceInv
  <2>2. Owes(t, pciOf[n]) => Owes(t, pciOf[n])'
    BY <1>0, <1>2, Zenon DEF GetProperty, AfterProperty, Owes, Types
  <2>. QED
    BY <1>0, <1>2, <2>1, <2>2, OwedFrame, Zenon DEF GetProperty, AfterProperty, Types
<1>3. ASSUME NEW t \in HookThreads, SetProperty(t), NEW n \in unannounced'
      PROVE  Owed(n)'
  <2>1. CASE n = current[t]
    <3>1. stage'[t] \in {"get", "set", "ids"} /\ changed'[t] /\ current'[t] = n
      BY <1>0, <1>3, <2>1, Zenon DEF SetProperty, AfterProperty, Types, BooleanTypes
    <3>2. Owes(t, pciOf[n])'
      BY <3>1, Zenon DEF Owes
    <3>. QED BY <3>2, Zenon DEF Owed
  <2>2. CASE n \in unannounced
    <3>1. Owed(n)
      BY <2>2, Zenon DEF AnnounceInv
    <3>2. Owes(t, pciOf[n]) => Owes(t, pciOf[n])'
      BY <1>0, <1>3, Zenon DEF SetProperty, AfterProperty, Owes, Types, BooleanTypes
    <3>3. \A u \in HookThreads \ {t} :
            /\ stage'[u] = stage[u] /\ changed'[u] = changed[u] /\ current'[u] = current[u]
            /\ pciProvider'[u] = pciProvider[u]
      BY <1>0, <1>3, ZenonT(30) DEF SetProperty, AfterProperty, Types, BooleanTypes
    <3>. QED BY <3>1, <3>2, <3>3, OwedFrame
  <2>. QED BY <1>3, <2>1, <2>2 DEF SetProperty
<1>4. ASSUME NEW t \in HookThreads, NextService(t), NEW n \in unannounced'
      PROVE  Owed(n)'
  <2>1. Owed(n)
    BY <1>4, Zenon DEF NextService, AnnounceInv
  <2>2. ASSUME pciOf[n] # 0, Owes(t, pciOf[n]) PROVE Owes(t, pciOf[n])'
    <3>1. current[t] \in Services /\ current[t] \notin Pci /\ changed[t]
          /\ pciOf[current[t]] = pciOf[n]
      BY <1>0, <1>4, <2>2, ServicesAssumption DEF NextService, Owes, Types, Services
    <3>2. pciOf[Provider[current[t]]] = pciOf[n] /\ Provider[current[t]] # 0
      BY <2>2, <3>1, PciOfFacts, Zenon
    <3>3. stage'[t] = "get" /\ current'[t] = Provider[current[t]] /\ changed'[t]
      BY <1>0, <1>4, <3>1, <3>2, Zenon DEF NextService, Types
    <3>. QED BY <3>2, <3>3, Zenon DEF Owes
  <2>. QED BY <1>0, <1>4, <2>1, <2>2, OwedFrame, Zenon DEF NextService, Types
<1>5. ASSUME NEW t \in HookThreads, FindPciProvider(t), NEW n \in unannounced'
      PROVE  Owed(n)'
  <2>1. Owed(n)
    BY <1>5, Zenon DEF FindPciProvider, AnnounceInv
  <2>2. ASSUME Owes(t, pciOf[n]) PROVE Owes(t, pciOf[n])'
    <3>1. changed[t] /\ pciOf[current[t]] = pciOf[n] /\ pciOf[current[t]] = current[t]
      BY <1>0, <1>5, <2>2, PciOfFacts, Zenon DEF FindPciProvider, Owes
    <3>2. stage'[t] = "register" /\ pciProvider'[t] = current[t]
      BY <1>0, <1>5, <3>1, Zenon DEF FindPciProvider, Types
    <3>. QED BY <3>1, <3>2, Zenon DEF Owes
  <2>. QED BY <1>0, <1>5, <2>1, <2>2, OwedFrame, Zenon DEF FindPciProvider, Types
<1>6. ASSUME NEW t \in HookThreads, RegisterService(t), NEW n \in unannounced'
      PROVE  Owed(n)'
  <2>1. Owed(n) /\ pciOf[n] # pciProvider[t]
    BY <1>6, Zenon DEF RegisterService, AnnounceInv
  <2>2. ~Owes(t, pciOf[n])
    BY <1>6, <2>1, Zenon DEF RegisterService, Owes
  <2>. QED BY <1>0, <1>6, <2>1, <2>2, OwedFrame DEF RegisterService, locals, Types
<1>7. ASSUME UNCHANGED primeVars, NEW n \in unannounced' PROVE Owed(n)'
  BY <1>7, Zenon DEF primeVars, locals, AnnounceInv, Owed, Owes
<1>8. \A n \in unannounced' : Owed(n)'
  BY <1>1, <1>2, <1>3, <1>4, <1>5, <1>6, <1>7 DEF PrimeNext, Prime
<1>. QED BY <1>0, <1>8 DEF AnnounceInv

\* Every mark is announced: when no hook is running, every service a hook has
\* marked below a PCI device has had that device registered since, for any
\* registry and any number of hooks walking it at once.
THEOREM EveryMarkAnnounced == PrimeSpec => []MarksAnnounced
<1>1. PrimeInit => AnnounceInv
  <2>1. PrimeInit => BooleanTypes /\ unannounced = {}
    BY Zenon DEF PrimeInit, BooleanTypes
  <2>. QED BY <2>1, InitPrimeInv DEF AnnounceInv, PrimeInv
<1>2. AnnounceInv /\ [PrimeNext]_primeVars => AnnounceInv'
  BY AnnounceInductive
<1>3. AnnounceInv => MarksAnnounced
  BY DEF AnnounceInv, Owed, Owes, MarksAnnounced
<1>. QED BY <1>1, <1>2, <1>3, PTL DEF PrimeSpec

\* No hook is about to mark a service below the device d, or to register d.
Calm(t, d) == ~Owes(t, d) /\ ~(stage[t] = "set" /\ pciOf[current[t]] = d)

\* Every service below d has both properties, and no hook is still at work on it.
Settled(d) ==
  /\ \A n \in Services : pciOf[n] = d => Properties \subseteq props[n]
  /\ \A t \in HookThreads : Calm(t, d)

\* What a step of t must show: it takes no property away and t stays calm.
LEMMA SettledFrame ==
  ASSUME NEW d, Settled(d), NEW t \in HookThreads,
         \A n \in Services : props[n] \subseteq props'[n],
         \A u \in HookThreads \ {t} :
            /\ stage'[u] = stage[u] /\ changed'[u] = changed[u] /\ current'[u] = current[u]
            /\ pciProvider'[u] = pciProvider[u],
         Calm(t, d)'
  PROVE  Settled(d)'
<1>1. ASSUME NEW u \in HookThreads PROVE Calm(u, d)'
  <2>1. CASE u # t
    BY <2>1, Zenon DEF Settled, Calm, Owes
  <2>. QED BY <2>1, Zenon
<1>. QED BY <1>1, Zenon DEF Settled

LEMMA SettledStays ==
  ASSUME Types, BooleanTypes, NEW d \in Pci, Settled(d), [PrimeNext]_primeVars
  PROVE  Settled(d)'
<1>0. Pci \subseteq Services /\ d # 0
  BY ServicesAssumption DEF Services
<1>1. ASSUME NEW t \in HookThreads, NEW hook, NEW event, NEW service \in 0 .. N,
             CallHook(t, hook, event, service)
      PROVE  Settled(d)'
  <2>1. stage'[t] = "get" /\ ~changed'[t] /\ props' = props
    BY <1>1, Zenon DEF CallHook, Types, BooleanTypes
  <2>2. Calm(t, d)'
    BY <2>1, Zenon DEF Calm, Owes
  <2>3. \A u \in HookThreads \ {t} :
          /\ stage'[u] = stage[u] /\ changed'[u] = changed[u] /\ current'[u] = current[u]
          /\ pciProvider'[u] = pciProvider[u]
    BY <1>1, Zenon DEF CallHook, Types, BooleanTypes
  <2>. QED BY <2>1, <2>2, <2>3, SettledFrame, Zenon
<1>2. ASSUME NEW t \in HookThreads, GetProperty(t) PROVE Settled(d)'
  <2>1. UNCHANGED <<props, changed, current, pciProvider>> /\ stage[t] = "get"
    BY <1>2, Zenon DEF GetProperty
  <2>2. current[t] \in Services /\ key[t] \in Properties
    BY <2>1, ServicesAssumption DEF Types, Services
  <2>3. pciOf[current[t]] = d => stage'[t] \in {"get", "ids"} /\ ~changed[t]
    <3>1. pciOf[current[t]] = d => key[t] \in props[current[t]] /\ ~changed[t]
      BY <2>1, <2>2, Zenon DEF Settled, Calm, Owes
    <3>. QED BY <1>2, <3>1, Zenon DEF GetProperty, AfterProperty, Types
  <2>4. stage'[t] \in {"get", "set", "ids"}
    BY <1>2, Zenon DEF GetProperty, AfterProperty, Types
  <2>5. Calm(t, d)'
    BY <2>1, <2>3, <2>4, Zenon DEF Calm, Owes
  <2>6. \A u \in HookThreads \ {t} : stage'[u] = stage[u]
    BY <1>2, Zenon DEF GetProperty, AfterProperty, Types
  <2>. QED BY <2>1, <2>5, <2>6, SettledFrame, Zenon
<1>3. ASSUME NEW t \in HookThreads, SetProperty(t) PROVE Settled(d)'
  <2>1. /\ UNCHANGED <<current, pciProvider>> /\ stage[t] = "set"
        /\ props' = [props EXCEPT ![current[t]] = @ \union {key[t]}]
    BY <1>3, Zenon DEF SetProperty
  <2>2. pciOf[current[t]] # d
    BY <2>1, Zenon DEF Settled, Calm
  <2>3. stage'[t] \in {"get", "ids"}
    BY <1>3, Zenon DEF SetProperty, AfterProperty, Types
  <2>4. Calm(t, d)'
    BY <2>1, <2>2, <2>3, Zenon DEF Calm, Owes
  <2>5. \A n \in Services : props[n] \subseteq props'[n]
    BY <2>1, Zenon DEF Types
  <2>6. \A u \in HookThreads \ {t} : stage'[u] = stage[u] /\ changed'[u] = changed[u]
    BY <1>3, Zenon DEF SetProperty, AfterProperty, Types, BooleanTypes
  <2>. QED BY <2>1, <2>4, <2>5, <2>6, SettledFrame, Zenon
<1>4. ASSUME NEW t \in HookThreads, NextService(t) PROVE Settled(d)'
  <2>1. /\ UNCHANGED <<props, changed, pciProvider>> /\ stage[t] = "ids"
        /\ current[t] \notin Pci /\ stage'[t] \in {"idle", "get"}
        /\ current'[t] = Provider[current[t]]
    BY <1>4, Zenon DEF NextService, Types
  <2>2. pciOf[Provider[current[t]]] = pciOf[current[t]]
    <3>1. current[t] \in Services
      BY <2>1, ServicesAssumption DEF Types, Services
    <3>. QED BY <2>1, <3>1, PciOfFacts, Zenon
  <2>3. pciOf[current[t]] = d => ~changed[t]
    BY <2>1, Zenon DEF Settled, Calm, Owes
  <2>4. Calm(t, d)'
    BY <2>1, <2>2, <2>3, Zenon DEF Calm, Owes
  <2>5. \A u \in HookThreads \ {t} : stage'[u] = stage[u] /\ current'[u] = current[u]
    BY <1>4, Zenon DEF NextService, Types
  <2>. QED BY <2>1, <2>4, <2>5, SettledFrame, Zenon
<1>5. ASSUME NEW t \in HookThreads, FindPciProvider(t) PROVE Settled(d)'
  <2>1. /\ UNCHANGED <<props, changed, current>> /\ stage[t] = "ids" /\ current[t] \in Pci
        /\ pciProvider'[t] = current[t]
        /\ stage'[t] = IF changed[t] THEN "register" ELSE "idle"
    BY <1>5, Zenon DEF FindPciProvider, Types
  <2>2. pciOf[current[t]] = current[t]
    BY <1>0, <2>1, PciOfFacts, Zenon
  <2>3. current[t] = d => ~changed[t]
    BY <2>1, <2>2, Zenon DEF Settled, Calm, Owes
  <2>4. Calm(t, d)'
    BY <2>1, <2>3, Zenon DEF Calm, Owes
  <2>5. \A u \in HookThreads \ {t} :
          stage'[u] = stage[u] /\ pciProvider'[u] = pciProvider[u]
    BY <1>5, Zenon DEF FindPciProvider, Types
  <2>. QED BY <2>1, <2>4, <2>5, SettledFrame, Zenon
<1>6. ASSUME NEW t \in HookThreads, RegisterService(t) PROVE Settled(d)'
  <2>1. UNCHANGED <<props, changed, current, pciProvider>> /\ stage'[t] = "idle"
    BY <1>6, Zenon DEF RegisterService, locals, Types
  <2>2. Calm(t, d)'
    BY <2>1, Zenon DEF Calm, Owes
  <2>3. \A u \in HookThreads \ {t} : stage'[u] = stage[u]
    BY <1>6, Zenon DEF RegisterService, Types
  <2>. QED BY <2>1, <2>2, <2>3, SettledFrame, Zenon
<1>7. CASE UNCHANGED primeVars
  BY <1>7, Zenon DEF primeVars, locals, Settled, Calm, Owes
<1>. QED BY <1>1, <1>2, <1>3, <1>4, <1>5, <1>6, <1>7 DEF PrimeNext, Prime

\* Priming does not feed on the matching it starts: once everything below a PCI
\* device is marked and the hooks at work there are through, the device is never
\* registered again, however often matching calls the hooks and whatever goes on
\* below the other devices.  RegistrationsStop, which is model-checked, rests on it.
THEOREM PrimingSettles ==
  ASSUME NEW d \in Pci
  PROVE  PrimeSpec => [](Settled(d) =>
           [](\A t \in HookThreads : stage[t] = "register" => pciProvider[t] # d))
<1>1. PrimeInit => Types /\ BooleanTypes
  <2>1. PrimeInit => BooleanTypes
    BY DEF PrimeInit, BooleanTypes
  <2>. QED BY <2>1, InitPrimeInv DEF PrimeInv
<1>2. Types /\ BooleanTypes /\ [PrimeNext]_primeVars => (Types /\ BooleanTypes)'
  BY TypesInductive, BooleanTypesInductive
<1>3. Types /\ BooleanTypes /\ Settled(d) /\ [PrimeNext]_primeVars => Settled(d)'
  BY SettledStays
<1>4. Settled(d) => \A t \in HookThreads : stage[t] = "register" => pciProvider[t] # d
  BY Zenon DEF Settled, Calm, Owes
<1>. QED BY <1>1, <1>2, <1>3, <1>4, PTL DEF PrimeSpec

------------------------------------------------------------------------------
(* UserPatcher                                                               *)

USE NoneAssumption, SlotAssumption

(***************************************************************************)
(* The inductive invariant.  A thread has at most one slot, and where it   *)
(* is in its handlers tells whether it has one; a slot nobody has is       *)
(* empty, as is one between its claim and its store or between its         *)
(* clearing and its release.                                               *)
(***************************************************************************)
OneSlot ==
    \A i, j \in Slots : owner[i] = owner[j] /\ owner[i] # None => i = j

Holding ==
    \A t \in Threads :
        /\ pc[t] \in {"store", "patch", "clear", "release"} =>
               at[t] \in Slots /\ owner[at[t]] = t
        /\ pc[t] \in {"new", "set", "scan", "free"} => \A i \in Slots : owner[i] # t
        /\ pc[t] \in {"set", "scan", "store"} => req[t] \in Requests
        /\ pc[t] = "free" => at[t] \in Slots

Filled ==
    \A i \in Slots :
        /\ owner[i] = None => value[i] = None
        /\ owner[i] # None =>
               (value[i] = None <=> pc[owner[i]] \in {"store", "release"})

(***************************************************************************)
(* The registration: while it runs every step behind it has succeeded or   *)
(* was optional, so what it routes late is routed with everything solved,  *)
(* and so is a registration that ended well.                               *)
(***************************************************************************)
Solved == {"_current_map"} \cup MapCalls

Registering ==
    /\ boot \in {"start", "listening", "failed"} =>
           reg.next = 1 /\ reg.done = {} /\ ~reg.procs /\ reg.ok
    /\ boot = "registering" =>
           reg.ok /\ \A i \in 1..(reg.next - 1) : Chain[i] \in reg.done \cup Optional
    /\ boot \in {"registered", "active"} /\ reg.procs /\ reg.ok => Solved \subseteq reg.done
    /\ QoS \in reg.done \/ Region \cap reg.done # {} => Solved \subseteq reg.done

Resolved ==
    /\ \A t \in Threads : pc[t] = "patch" => QoS \in reg.done
    /\ panic \notin {"erase", "qos", "region"}
    /\ panic = "listener" => ~reg.ok /\ Region \cap reg.done = {}

IInv == TypeOK /\ OneSlot /\ Holding /\ Filled /\ Registering /\ Resolved

(***************************************************************************)
(* Where the chain solves what is called and where it routes.              *)
(***************************************************************************)
LEMMA ChainSolves ==
    ASSUME NEW f \in Solved
    PROVE  f \notin Optional /\ \E i \in 1..9 : Chain[i] = f
<1>1. CASE f = "_current_map"
    <2>1. Chain[3] = f
        BY <1>1 DEF Chain
    <2> QED BY <1>1, <2>1 DEF Optional, QoS
<1>2. CASE f = "_get_map_min"
    <2>1. Chain[4] = f
        BY <1>2 DEF Chain
    <2> QED BY <1>2, <2>1 DEF Optional, QoS
<1>3. CASE f = "_get_task_map"
    <2>1. Chain[5] = f
        BY <1>3 DEF Chain
    <2> QED BY <1>3, <2>1 DEF Optional, QoS
<1>4. CASE f = "_vm_map_check_protection"
    <2>1. Chain[7] = f
        BY <1>4 DEF Chain
    <2> QED BY <1>4, <2>1 DEF Optional, QoS
<1>5. CASE f = "_vm_map_read_user"
    <2>1. Chain[8] = f
        BY <1>5 DEF Chain
    <2> QED BY <1>5, <2>1 DEF Optional, QoS
<1>6. CASE f = "_vm_map_write_user"
    <2>1. Chain[9] = f
        BY <1>6 DEF Chain
    <2> QED BY <1>6, <2>1 DEF Optional, QoS
<1> QED BY <1>1, <1>2, <1>3, <1>4, <1>5, <1>6 DEF Solved, MapCalls

LEMMA ChainRoutes ==
    ASSUME NEW i \in 1..9
    PROVE  Chain[i] # QoS /\ Chain[i] \notin Region
<1>1. CASE i \in 1..3
    BY <1>1 DEF Chain, QoS, Region
<1>2. CASE i \in 4..6
    BY <1>2 DEF Chain, QoS, Region
<1>3. CASE i \in 7..9
    BY <1>3 DEF Chain, QoS, Region
<1> QED BY <1>1, <1>2, <1>3

LEMMA SolvedLate ==
    ASSUME NEW D, NEW n \in 10..12, \A i \in 1..(n - 1) : Chain[i] \in D \cup Optional
    PROVE  Solved \subseteq D
<1> SUFFICES ASSUME NEW f \in Solved PROVE f \in D
    OBVIOUS
<1>1. PICK i \in 1..9 : Chain[i] = f
    BY ChainSolves
<1>2. i \in 1..(n - 1)
    OBVIOUS
<1> QED BY <1>1, <1>2, ChainSolves, Zenon

(***************************************************************************)
(* A handler's calls.                                                      *)
(***************************************************************************)
LEMMA HandlerCalls ==
    ASSUME NEW h, NEW g, CallOn(h, g)
    PROVE  /\ panic' \in {panic, h}
           /\ g \in reg.done /\ MapCalls \subseteq reg.done => panic' = panic
    BY Zenon DEF CallOn

LEMMA InitIInv == Init => IInv
<1> SUFFICES ASSUME Init PROVE IInv
    OBVIOUS
<1>1. TypeOK
    BY DEF Init, TypeOK, NoReg, Slots
<1>2. OneSlot /\ Holding /\ Filled /\ Resolved
    BY DEF Init, OneSlot, Holding, Filled, Resolved, NoReg
<1>3. Registering
    BY DEF Init, Registering, NoReg
<1> QED BY <1>1, <1>2, <1>3 DEF IInv

(***************************************************************************)
(* The boot thread touches neither slots nor threads.                      *)
(***************************************************************************)
LEMMA ChainStep ==
    ASSUME IInv, panic = "no", HookMemoryAccess
    PROVE  /\ TypeOK' /\ Registering' /\ UNCHANGED <<storeVars, threadVars, panic>>
           /\ reg.done \subseteq reg'.done
<1>1. PICK found \in BOOLEAN, left \in BOOLEAN :
          /\ reg' = [reg EXCEPT !.next = @ + 1,
                                !.done = IF found THEN @ \cup {Chain[reg.next]} ELSE @,
                                !.error = left,
                                !.ok = Chain[reg.next] \in Optional \/ (found /\ ~reg.error)]
          /\ boot' = IF (Chain[reg.next] \in Optional \/ (found /\ ~reg.error))
                         /\ reg.next < Last(reg.shared)
                     THEN "registering" ELSE "registered"
    BY Zenon DEF HookMemoryAccess
<1>a. PICK n \in 1..12 : n = reg.next /\ n <= Last(reg.shared)
    BY DEF HookMemoryAccess, IInv, TypeOK, Last
<1>b. PICK f : f = Chain[n]
    OBVIOUS
<1>2. n = reg.next /\ f = Chain[n] /\ n <= Last(reg.shared)
    BY <1>a, <1>b
<1>3. PICK good \in BOOLEAN : good = (f \in Optional \/ (found /\ ~reg.error))
    BY Zenon
<1>4. /\ reg'.next = n + 1 /\ reg'.done = (IF found THEN reg.done \cup {f} ELSE reg.done)
      /\ reg'.error = left /\ reg'.ok = good
      /\ reg'.procs = reg.procs /\ reg'.shared = reg.shared
      /\ boot' = IF good /\ n < Last(reg.shared) THEN "registering" ELSE "registered"
    BY <1>1, <1>2, <1>3 DEF IInv, TypeOK
<1>5. UNCHANGED <<storeVars, threadVars, panic>> /\ boot = "registering"
    BY DEF HookMemoryAccess
<1>6. Last(reg.shared) \in {10, 12}
    BY DEF Last
<1>7. TypeOK'
    <2>1. f \in {Chain[i] : i \in 1..12}
        BY <1>2, Zenon
    <2>2. reg'.done \in SUBSET {Chain[i] : i \in 1..12}
        <3>1. reg.done \in SUBSET {Chain[i] : i \in 1..12}
            BY DEF IInv, TypeOK
        <3> QED BY <1>4, <2>1, <3>1, Zenon
    <2>3. n + 1 \in 1..13
        BY <1>2
    <2>4. reg' \in [procs : BOOLEAN, shared : BOOLEAN, next : 1..13,
                    done : SUBSET {Chain[i] : i \in 1..12}, error : BOOLEAN, ok : BOOLEAN]
        BY <1>1, <1>4, <2>2, <2>3 DEF IInv, TypeOK
    <2>5. boot' = "registering" => reg'.next <= Last(reg'.shared)
        BY <1>2, <1>4, <1>6
    <2>6. boot' \in {"registering", "registered"}
        BY <1>4, Zenon
    <2> QED BY <1>5, <2>4, <2>5, <2>6, Zenon DEF IInv, TypeOK, storeVars, threadVars
<1>8. \A i \in 1..(n - 1) : Chain[i] \in reg.done \cup Optional
    BY <1>2, <1>5, Zenon DEF IInv, Registering
<1>9. n >= 10 => Solved \subseteq reg.done
    BY <1>2, <1>8, SolvedLate
<1>10. good => \A i \in 1..n : Chain[i] \in reg'.done \cup Optional
    <2> SUFFICES ASSUME good, NEW i \in 1..n PROVE Chain[i] \in reg'.done \cup Optional
        OBVIOUS
    <2>1. CASE i = n
        BY <1>2, <1>3, <1>4, <2>1, Zenon
    <2>2. CASE i \in 1..(n - 1)
        BY <1>4, <1>8, <2>2, Zenon
    <2> QED BY <1>2, <2>1, <2>2
<1>11. QoS \in reg'.done \/ Region \cap reg'.done # {} => Solved \subseteq reg'.done
    <2>1. CASE QoS \in reg.done \/ Region \cap reg.done # {}
        BY <1>4, <2>1, Zenon DEF IInv, Registering
    <2>2. CASE f = QoS \/ f \in Region
        <3>1. n >= 10
            BY <1>2, <2>2, ChainRoutes
        <3> QED BY <1>4, <1>9, <3>1, Zenon
    <2> QED BY <1>4, <2>1, <2>2, Zenon
<1>12. boot' = "registered" /\ reg'.ok => Solved \subseteq reg'.done
    <2>1. boot' = "registered" /\ reg'.ok => n >= 10
        BY <1>2, <1>4, <1>6
    <2> QED BY <1>4, <1>9, <2>1, Zenon
<1>13. boot' = "registering" =>
           reg'.ok /\ \A i \in 1..(reg'.next - 1) : Chain[i] \in reg'.done \cup Optional
    <2>1. reg'.next - 1 = n
        BY <1>2, <1>4
    <2> QED BY <1>4, <1>10, <2>1, Zenon
<1>14. boot' \in {"registering", "registered"}
    BY <1>4, Zenon
<1>15. Registering'
    BY <1>11, <1>12, <1>13, <1>14, Zenon DEF Registering
<1> QED BY <1>4, <1>5, <1>7, <1>15, Zenon

(***************************************************************************)
(* The boot thread touches neither slots nor threads.                      *)
(***************************************************************************)
LEMMA BootStep ==
    ASSUME IInv, panic = "no",
           InitListener \/ RegisterPatches \/ HookMemoryAccess \/ Activate
    PROVE  IInv' /\ UNCHANGED <<owner, value, pc, at>>
<1>1. UNCHANGED <<owner, value, heap, pc, job, at, req, panic>>
    BY DEF InitListener, RegisterPatches, HookMemoryAccess, Activate, storeVars, threadVars
<1>2. TypeOK' /\ Registering' /\ reg.done \subseteq reg'.done
    <2>1. CASE InitListener
        <3>1. /\ boot = "start" /\ boot' \in {"listening", "failed"}
              /\ \E s \in BOOLEAN : reg' = [reg EXCEPT !.shared = s]
            BY <2>1 DEF InitListener
        <3> QED BY <1>1, <3>1 DEF IInv, TypeOK, Registering
    <2>2. CASE RegisterPatches
        <3>1. CASE boot = "listening" /\ boot' = "registered" /\ UNCHANGED reg
            BY <1>1, <3>1 DEF IInv, TypeOK, Registering
        <3>2. CASE /\ boot = "listening" /\ boot' = "registering"
                   /\ \E p \in BOOLEAN : reg' = [reg EXCEPT !.procs = p]
            BY <1>1, <3>2 DEF IInv, TypeOK, Registering, Last
        <3> QED BY <2>2, <3>1, <3>2 DEF RegisterPatches
    <2>3. CASE HookMemoryAccess
        BY <2>3, ChainStep
    <2>4. CASE Activate
        BY <1>1, <2>4 DEF IInv, TypeOK, Registering, Activate
    <2> QED BY <2>1, <2>2, <2>3, <2>4, Zenon
<1>3. OneSlot' /\ Holding' /\ Filled'
    BY <1>1, Zenon DEF IInv, OneSlot, Holding, Filled
<1>4. Resolved'
    BY <1>1, <1>2, Zenon DEF IInv, Resolved
<1> QED BY <1>1, <1>2, <1>3, <1>4, Zenon DEF IInv

(***************************************************************************)
(* The hooks of the shared region find all they call.                      *)
(***************************************************************************)
LEMMA RegionStep ==
    ASSUME IInv, SharedRegion
    PROVE  UNCHANGED vars
<1>1. Solved \subseteq reg.done
    BY Zenon DEF IInv, Registering, SharedRegion
<1>2. panic' = panic
    BY <1>1, HandlerCalls, Zenon DEF SharedRegion, Solved
<1> QED BY <1>2, Zenon DEF SharedRegion, regVars, storeVars, threadVars, vars

(***************************************************************************)
(* A thread's step keeps the types.                                        *)
(***************************************************************************)
LEMMA ThreadTypes ==
    ASSUME IInv, panic = "no", NEW t \in Threads, Thread(t)
    PROVE  TypeOK'
<1>a. Slots \subseteq 1..(SlotCount + 1) /\ 1 \in 1..(SlotCount + 1)
    BY DEF Slots
<1>b. \A i \in Slots : i + 1 \in 1..(SlotCount + 1)
    BY DEF Slots
<1> USE DEF IInv, TypeOK, Goto, Return, regVars, storeVars, threadVars
<1>1. CASE PatchNow(t)
    <2>1. panic' \in {panic, "listener"}
        BY <1>1, HandlerCalls, Zenon DEF PatchNow
    <2> QED BY <1>1, <2>1, Zenon DEF PatchNow
<1>2. CASE OnPath(t)
    <2>1. UNCHANGED <<regVars, storeVars, req, panic>> /\ job' = [job EXCEPT ![t] = "path"]
        BY <1>2, Zenon DEF OnPath
    <2>2. CASE Goto(t, "new") /\ UNCHANGED at
        BY <2>1, <2>2, Zenon
    <2>3. ASSUME NEW i \in Slots, Goto(t, "clear"), at' = [at EXCEPT ![t] = i]
          PROVE  TypeOK'
        BY <1>a, <2>1, <2>3, Zenon
    <2> QED BY <1>2, <2>2, <2>3, Zenon DEF OnPath
<1>3. CASE NewRequest(t)
    BY <1>3, <1>a DEF NewRequest
<1>4. CASE SetBegin(t)
    <2>1. UNCHANGED <<regVars, storeVars, job, req, panic>>
        BY <1>4, Zenon DEF SetBegin
    <2>2. CASE Goto(t, "scan") /\ at' = [at EXCEPT ![t] = 1]
        BY <1>a, <2>1, <2>2, Zenon
    <2>3. ASSUME NEW i \in Slots, Goto(t, "store"), at' = [at EXCEPT ![t] = i]
          PROVE  TypeOK'
        BY <1>a, <2>1, <2>3, Zenon
    <2> QED BY <1>4, <2>2, <2>3, Zenon DEF SetBegin
<1>5. CASE Claim(t)
    BY <1>5, <1>b DEF Claim
<1>6. CASE Drop(t)
    BY <1>6, <1>a, Zenon DEF Drop
<1>7. CASE Store(t)
    BY <1>7, <1>a, Zenon DEF Store
<1>8. CASE Hook(t)
    BY <1>8, <1>a DEF Hook
<1>9. CASE PatchBinary(t)
    <2>1. panic' \in {panic, "qos"}
        BY <1>9, HandlerCalls, Zenon DEF PatchBinary
    <2> QED BY <1>9, <2>1, Zenon DEF PatchBinary
<1>10. CASE EraseClear(t)
    BY <1>10, Zenon DEF EraseClear
<1>11. CASE EraseRelease(t)
    BY <1>11, Zenon DEF EraseRelease
<1>12. CASE Free(t)
    BY <1>12, <1>a, Zenon DEF Free
<1> QED BY <1>1, <1>2, <1>3, <1>4, <1>5, <1>6, <1>7, <1>8, <1>9, <1>10, <1>11, <1>12, Zenon
        DEF Thread

(***************************************************************************)
(* A thread's step keeps the rest: one case per action.                    *)
(***************************************************************************)
LEMMA ThreadSlots ==
    ASSUME IInv, panic = "no", NEW t \in Threads, Thread(t)
    PROVE  OneSlot' /\ Holding' /\ Filled' /\ Resolved'
<1> USE DEF IInv, TypeOK, OneSlot, Holding, Filled, Resolved,
            Goto, Return, regVars, storeVars, threadVars
<1>1. CASE PatchNow(t)
    <2>1. UNCHANGED <<regVars, storeVars, threadVars>> /\ boot = "active" /\ reg.procs
        BY <1>1, Zenon DEF PatchNow, Watched
    <2>2. panic' = panic \/ (panic' = "listener" /\ ~(Solved \subseteq reg.done))
        BY <1>1, HandlerCalls, Zenon DEF PatchNow, Solved
    <2>3. OneSlot' /\ Holding' /\ Filled'
        BY <2>1, Zenon
    <2>4. panic' = "listener" => ~reg.ok /\ Region \cap reg.done = {}
        BY <2>1, <2>2, Zenon DEF Registering
    <2>5. panic' \notin {"erase", "qos", "region"}
        BY <2>2
    <2> QED BY <2>1, <2>3, <2>4, <2>5, Zenon
<1>2. CASE OnPath(t)
    BY <1>2 DEF OnPath, First, Mine
<1>3. CASE NewRequest(t)
    BY <1>3 DEF NewRequest
<1>4. CASE SetBegin(t)
    BY <1>4 DEF SetBegin, First, Mine
<1>5. CASE Claim(t)
    BY <1>5 DEF Claim
<1>6. CASE Drop(t)
    BY <1>6 DEF Drop
<1>7. CASE Store(t)
    BY <1>7 DEF Store
<1>8. CASE Hook(t)
    BY <1>8 DEF Hook, First, Mine
<1>9. CASE PatchBinary(t)
    <2>1. Solved \subseteq reg.done
        BY <1>9, Zenon DEF PatchBinary, Registering
    <2>2. panic' = panic
        <3>1. "_get_task_map" \in reg.done /\ MapCalls \subseteq reg.done
            BY <2>1, Zenon DEF Solved, MapCalls
        <3> QED BY <1>9, <3>1, HandlerCalls, Zenon DEF PatchBinary
    <2> QED BY <1>9, <2>2 DEF PatchBinary
<1>10. CASE EraseClear(t)
    BY <1>10 DEF EraseClear
<1>11. CASE EraseRelease(t)
    BY <1>11 DEF EraseRelease
<1>12. CASE Free(t)
    BY <1>12 DEF Free
<1> QED BY <1>1, <1>2, <1>3, <1>4, <1>5, <1>6, <1>7, <1>8, <1>9, <1>10, <1>11, <1>12, Zenon
        DEF Thread

LEMMA ThreadKeepsReg ==
    ASSUME NEW t \in Threads, Thread(t)
    PROVE  UNCHANGED regVars
    BY Zenon DEF Thread, PatchNow, OnPath, NewRequest, SetBegin, Claim, Drop, Store, Hook,
       PatchBinary, EraseClear, EraseRelease, Free

LEMMA Unmoved == IInv /\ UNCHANGED vars => IInv'
<1> SUFFICES ASSUME IInv, UNCHANGED vars PROVE IInv'
    OBVIOUS
<1>1. TypeOK'
    BY DEF IInv, TypeOK, vars
<1>2. OneSlot' /\ Holding' /\ Filled'
    BY Zenon DEF IInv, OneSlot, Holding, Filled, vars
<1>3. Registering' /\ Resolved'
    BY Zenon DEF IInv, Registering, Resolved, vars
<1> QED BY <1>1, <1>2, <1>3 DEF IInv

LEMMA NextIInv == IInv /\ [Next]_vars => IInv'
<1> SUFFICES ASSUME IInv, [Next]_vars PROVE IInv'
    OBVIOUS
<1>1. CASE UNCHANGED vars
    BY <1>1, Unmoved
<1>2. CASE Next
    <2>1. CASE InitListener \/ RegisterPatches \/ HookMemoryAccess \/ Activate
        BY <1>2, <2>1, BootStep, Zenon DEF Next
    <2>2. ASSUME NEW t \in Threads, Thread(t) PROVE IInv'
        <3>1. UNCHANGED regVars
            BY <2>2, ThreadKeepsReg, Zenon
        <3>2. Registering'
            BY <3>1, Zenon DEF IInv, Registering, regVars
        <3> QED BY <1>2, <2>2, <3>2, ThreadTypes, ThreadSlots, Zenon DEF Next, IInv
    <2>3. CASE SharedRegion
        BY <2>3, RegionStep, Unmoved, Zenon
    <2> QED BY <1>2, <2>1, <2>2, <2>3, Zenon DEF Next
<1> QED BY <1>1, <1>2

LEMMA Inductive == Spec => []IInv
    BY InitIInv, NextIInv, PTL DEF Spec

(***************************************************************************)
(* Types are kept.                                                         *)
(***************************************************************************)
THEOREM TypeCorrect == Spec => []TypeOK
    BY Inductive, PTL DEF IInv

(***************************************************************************)
(* The PANIC_COND after each pending.erase() never fires.                  *)
(***************************************************************************)
THEOREM EraseNeverPanics == Spec => []EraseSucceeds
<1>1. IInv => EraseSucceeds
    BY DEF IInv, Resolved, EraseSucceeds
<1> QED BY <1>1, Inductive, PTL

(***************************************************************************)
(* The hooks never call a function that was not solved, and the listener   *)
(* does so only after a failed registration without shared region hooks.   *)
(***************************************************************************)
THEOREM HooksCallSolvedFunctions == Spec => []CallsResolved
<1>1. IInv => CallsResolved
    BY Zenon DEF IInv, Resolved, CallsResolved
<1> QED BY <1>1, Inductive, PTL

(***************************************************************************)
(* What the refinement mapping reads: the value of a thread's one slot.    *)
(***************************************************************************)
LEMMA StoredInSlot ==
    ASSUME IInv, NEW i \in Slots, owner[i] \in Threads
    PROVE  StoredOf(owner[i]) = value[i]
<1>1. Mine(owner[i]) = {i}
    BY Zenon DEF IInv, TypeOK, OneSlot, Mine
<1>2. \A j \in Slots : First(owner[i], j) <=> j = i
    BY <1>1 DEF First, Slots
<1>3. (CHOOSE j \in Slots : First(owner[i], j)) = i
    BY <1>2, Zenon
<1> QED BY <1>1, <1>3, Zenon DEF StoredOf

LEMMA StoredNowhere ==
    ASSUME NEW t \in Threads, \A i \in Slots : owner[i] # t
    PROVE  StoredOf(t) = None
    BY Zenon DEF StoredOf, Mine

\* A thread's entry is what its slot holds, or nothing
LEMMA StoredCases ==
    ASSUME IInv, NEW t \in Threads
    PROVE  \/ \E i \in Slots : owner[i] = t /\ StoredOf(t) = value[i]
           \/ (\A i \in Slots : owner[i] # t) /\ StoredOf(t) = None
    BY StoredInSlot, StoredNowhere, Zenon

\* The same in the next state
LEMMA StoredCasesNext ==
    ASSUME IInv', NEW t \in Threads
    PROVE  \/ \E i \in Slots : owner'[i] = t /\ StoredOf(t)' = value'[i]
           \/ (\A i \in Slots : owner'[i] # t) /\ StoredOf(t)' = None
<1>1. CASE \A i \in Slots : owner'[i] # t
    BY <1>1, Zenon DEF StoredOf, Mine, Slots
<1>2. ASSUME NEW i \in Slots, owner'[i] = t PROVE StoredOf(t)' = value'[i]
    <2>1. Mine(t)' = {i}
        BY <1>2, Zenon DEF IInv, TypeOK, OneSlot, Mine, Slots
    <2>2. \A j \in Slots : First(t, j)' <=> j = i
        BY <2>1 DEF First, Slots
    <2>3. (CHOOSE j \in Slots : First(t, j)') = i
        BY <2>2
    <2>4. (CHOOSE j \in Slots : First(t, j))' = (CHOOSE j \in Slots : First(t, j)')
        BY DEF Slots
    <2> QED BY <2>1, <2>3, <2>4, Zenon DEF StoredOf
<1> QED BY <1>1, <1>2, Zenon

\* An entry changes only with the thread's slot or the value in it
LEMMA StoredKept ==
    ASSUME IInv, IInv', NEW u \in Threads,
           \A i \in Slots : (owner[i] = u <=> owner'[i] = u)
                            /\ (owner[i] = u => value'[i] = value[i])
    PROVE  StoredOf(u)' = StoredOf(u)
<1>1. \A i, j \in Slots : owner[i] = u /\ owner[j] = u => i = j
    BY DEF IInv, OneSlot
<1> QED BY <1>1, StoredCases, StoredCasesNext, Zenon

(***************************************************************************)
(* Every step is a Put, a Remove or a stutter of the entries.  Four        *)
(* actions write slots: the claim and the release of an empty slot change  *)
(* no entry, the store puts and the clearing removes one.                  *)
(***************************************************************************)
LEMMA RefinementStep ==
    ASSUME IInv, IInv', [Next]_vars
    PROVE  [Entries!Next]_entries
<1> USE DEF entries
<1>1. CASE UNCHANGED <<owner, value>>
    <2>1. \A u \in Threads : StoredOf(u)' = StoredOf(u)
        BY <1>1 DEF StoredOf, Mine, First
    <2>2. entries' = entries
        BY <2>1, Zenon
    <2> QED BY <2>2, Zenon
<1>2. ASSUME NEW t \in Threads, Claim(t), owner[at[t]] = None
      PROVE  entries' = entries
    <2>1. at[t] \in Slots /\ owner' = [owner EXCEPT ![at[t]] = t] /\ value' = value
          /\ pc[t] = "scan"
        BY <1>2, Zenon DEF Claim
    <2>2. value[at[t]] = None /\ \A i \in Slots : owner[i] # t
        BY <1>2, <2>1, Zenon DEF IInv, Filled, Holding
    <2>3. StoredOf(t) = None
        BY <2>2, StoredNowhere, Zenon
    <2>4. owner'[at[t]] = t
        BY <2>1, Zenon DEF IInv, TypeOK
    <2>5. \A i \in Slots : owner'[i] = t => i = at[t]
        BY <2>1, <2>2, Zenon DEF IInv, TypeOK
    <2>6. StoredOf(t)' = None
        BY <2>1, <2>2, <2>4, <2>5, StoredCasesNext, Zenon
    <2>7. ASSUME NEW u \in Threads, u # t PROVE StoredOf(u)' = StoredOf(u)
        <3>1. \A i \in Slots : (owner[i] = u <=> owner'[i] = u)
                               /\ (owner[i] = u => value'[i] = value[i])
            BY <1>2, <2>1, <2>7, Zenon DEF IInv, TypeOK
        <3> QED BY <3>1, StoredKept, Zenon
    <2> QED BY <2>3, <2>6, <2>7, Zenon
<1>3. ASSUME NEW t \in Threads, Store(t)
      PROVE  Entries!Next
    <2>1. owner' = owner /\ value' = [value EXCEPT ![at[t]] = req[t]] /\ pc[t] = "store"
        BY <1>3 DEF Store
    <2>2. at[t] \in Slots /\ owner[at[t]] = t /\ req[t] \in Requests
        BY <2>1, Zenon DEF IInv, Holding
    <2>3. value[at[t]] = None
        BY <2>1, <2>2, Zenon DEF IInv, Filled
    <2>4. StoredOf(t) = None
        BY <2>2, <2>3, StoredInSlot, Zenon
    <2>5. \A i \in Slots : owner'[i] = t => i = at[t]
        BY <2>1, <2>2, Zenon DEF IInv, OneSlot
    <2>6. value'[at[t]] = req[t]
        BY <2>1, <2>2, Zenon DEF IInv, TypeOK
    <2>7. StoredOf(t)' = req[t]
        BY <2>1, <2>2, <2>5, <2>6, StoredCasesNext, Zenon
    <2>8. ASSUME NEW u \in Threads, u # t PROVE StoredOf(u)' = StoredOf(u)
        <3>1. \A i \in Slots : (owner[i] = u <=> owner'[i] = u)
                               /\ (owner[i] = u => value'[i] = value[i])
            BY <2>1, <2>2, <2>8, Zenon DEF IInv, TypeOK
        <3> QED BY <3>1, StoredKept
    <2>9. entries' = [entries EXCEPT ![t] = req[t]]
        BY <2>7, <2>8, Zenon
    <2>10. Entries!Put(t, req[t])
        BY <2>4, <2>9, Zenon DEF Entries!Put
    <2> QED BY <2>2, <2>10, Zenon DEF Entries!Next
<1>4. ASSUME NEW t \in Threads, EraseClear(t)
      PROVE  Entries!Next
    <2>1. owner' = owner /\ value' = [value EXCEPT ![at[t]] = None] /\ pc[t] = "clear"
        BY <1>4, Zenon DEF EraseClear
    <2>2. at[t] \in Slots /\ owner[at[t]] = t
        BY <2>1, Zenon DEF IInv, Holding
    <2>3. value[at[t]] # None
        BY <2>1, <2>2 DEF IInv, Filled
    <2>4. StoredOf(t) # None
        BY <2>2, <2>3, StoredInSlot, Zenon
    <2>5. \A i \in Slots : owner'[i] = t => i = at[t]
        BY <2>1, <2>2, Zenon DEF IInv, OneSlot
    <2>6. value'[at[t]] = None
        BY <2>1, <2>2, Zenon DEF IInv, TypeOK
    <2>7. StoredOf(t)' = None
        BY <2>1, <2>2, <2>5, <2>6, StoredCasesNext, Zenon
    <2>8. ASSUME NEW u \in Threads, u # t PROVE StoredOf(u)' = StoredOf(u)
        <3>1. \A i \in Slots : (owner[i] = u <=> owner'[i] = u)
                               /\ (owner[i] = u => value'[i] = value[i])
            BY <2>1, <2>2, <2>8, Zenon DEF IInv, TypeOK
        <3> QED BY <3>1, StoredKept
    <2>9. entries' = [entries EXCEPT ![t] = None]
        BY <2>7, <2>8, Zenon
    <2>10. Entries!Remove(t)
        BY <2>4, <2>9, Zenon DEF Entries!Remove
    <2> QED BY <2>10, Zenon DEF Entries!Next
<1>5. ASSUME NEW t \in Threads, EraseRelease(t)
      PROVE  entries' = entries
    <2>1. pc[t] = "release" /\ value' = value
        BY <1>5, Zenon DEF EraseRelease
    <2>2. at[t] \in Slots /\ owner[at[t]] = t
        BY <2>1, Zenon DEF IInv, Holding
    <2>3. owner' = [owner EXCEPT ![at[t]] = None]
        BY <1>5, <2>2, Zenon DEF EraseRelease
    <2>4. value[at[t]] = None
        BY <2>1, <2>2 DEF IInv, Filled
    <2>5. StoredOf(t) = None
        BY <2>2, <2>4, StoredInSlot, Zenon
    <2>6. \A i \in Slots : owner[i] = t => i = at[t]
        BY <2>2, Zenon DEF IInv, OneSlot
    <2>7. \A i \in Slots : owner'[i] # t
        BY <2>2, <2>3, <2>6, Zenon DEF IInv, TypeOK
    <2>8. StoredOf(t)' = None
        BY <2>7, StoredCasesNext, Zenon
    <2>9. ASSUME NEW u \in Threads, u # t PROVE StoredOf(u)' = StoredOf(u)
        <3>1. \A i \in Slots : (owner[i] = u <=> owner'[i] = u)
                               /\ (owner[i] = u => value'[i] = value[i])
            BY <2>1, <2>2, <2>3, <2>9, Zenon DEF IInv, TypeOK
        <3> QED BY <3>1, StoredKept
    <2> QED BY <2>5, <2>8, <2>9
<1>6. CASE Next
    <2>1. CASE InitListener \/ RegisterPatches \/ HookMemoryAccess \/ Activate
        BY <1>1, <2>1 DEF InitListener, RegisterPatches, HookMemoryAccess, Activate, storeVars
    <2>3. CASE SharedRegion
        BY <1>1, <2>3 DEF SharedRegion, storeVars
    <2>2. ASSUME NEW t \in Threads, Thread(t),
                 ~(Claim(t) /\ owner[at[t]] = None), ~Store(t), ~EraseClear(t), ~EraseRelease(t)
          PROVE  UNCHANGED <<owner, value>>
        BY <2>2, Zenon DEF Thread, PatchNow, OnPath, NewRequest, SetBegin, Claim,
           Drop, Hook,
                    PatchBinary, Free, storeVars
    <2> QED BY <1>1, <1>2, <1>3, <1>4, <1>5, <1>6, <2>1, <2>2, <2>3, Zenon DEF Next
<1> QED BY <1>1, <1>6, Zenon DEF vars

(***************************************************************************)
(* The container implements one entry per thread.                          *)
(***************************************************************************)
THEOREM ContainerRefines == Spec => StoreRefined
<1>1. Init => Entries!Init
    BY StoredNowhere DEF Init, Entries!Init, entries
<1>2. IInv /\ IInv' /\ [Next]_vars => [Entries!Next]_entries
    BY RefinementStep, Zenon
<1> QED BY <1>1, <1>2, Inductive, PTL DEF Spec, StoreRefined, Entries!Spec

(***************************************************************************)
(* The scan.  A thread goes past slot i only when another thread has it,   *)
(* and that one neither has nor looks at a later slot.                     *)
(***************************************************************************)
LEMMA FarShrinks ==
    ASSUME IInv, IInv', [Next]_vars, NEW i \in 1..(SlotCount + 1), i # 1,
           ~\E t \in Threads : Claim(t) /\ at[t] + 1 = i /\ owner[at[t]] # None
    PROVE  Far(i)' \subseteq Far(i)
<1> SUFFICES ASSUME NEW u \in Threads, Reaches(u, i)' PROVE Reaches(u, i)
    BY Zenon DEF Far
<1> USE DEF IInv, TypeOK, Reaches, Mine, Goto, Return, storeVars, threadVars
<1>1. CASE UNCHANGED vars
    BY <1>1, Zenon DEF vars
<1>2. CASE InitListener \/ RegisterPatches \/ HookMemoryAccess \/ Activate \/ SharedRegion
    BY <1>2, Zenon DEF InitListener, RegisterPatches, HookMemoryAccess, Activate, SharedRegion
<1>3. ASSUME NEW t \in Threads, Claim(t) PROVE Reaches(u, i)
    <2>1. CASE owner[at[t]] = None
        <3>1. at[t] \in Slots /\ owner' = [owner EXCEPT ![at[t]] = t] /\ at' = at
              /\ pc[t] = "scan" /\ pc' = [pc EXCEPT ![t] = "store"]
            BY <1>3, <2>1, Zenon DEF Claim
        <3>2. CASE pc'[u] = "scan" /\ at'[u] >= i
            BY <3>1, <3>2, Zenon
        <3>3. CASE \E j \in Slots : owner'[j] = u /\ j >= i
            BY <3>1, <3>3
        <3> QED BY <3>2, <3>3, Zenon DEF Slots
    <2>2. CASE owner[at[t]] # None
        <3>1. at[t] \in Slots /\ owner' = owner /\ at' = [at EXCEPT ![t] = at[t] + 1]
              /\ pc' = pc /\ at[t] + 1 # i
            BY <1>3, <2>2, Zenon DEF Claim
        <3>2. i \in Int /\ at[t] \in Int
            BY <3>1 DEF Slots
        <3>3. CASE pc'[u] = "scan" /\ at'[u] >= i
            <4>1. u # t => at'[u] = at[u]
                BY <3>1, Zenon
            <4>2. u = t => at'[u] = at[u] + 1 /\ at[u] + 1 >= i /\ at[u] + 1 # i
                BY <3>1, <3>3, Zenon
            <4>3. at[u] >= i
                BY <3>2, <3>3, <4>1, <4>2
            <4> QED BY <3>1, <3>3, <4>3, Zenon
        <3>4. CASE \E j \in Slots : owner'[j] = u /\ j >= i
            BY <3>1, <3>4, Zenon
        <3> QED BY <3>3, <3>4 DEF Slots
    <2> QED BY <2>1, <2>2, Zenon
<1>4. ASSUME NEW t \in Threads, SetBegin(t) PROVE Reaches(u, i)
    <2>1. owner' = owner /\ (pc'[u] = "scan" => at'[u] = 1 \/ (pc[u] = "scan" /\ at'[u] = at[u]))
        <3>1. owner' = owner /\ (u = t \/ (pc'[u] = pc[u] /\ at'[u] = at[u]))
            BY <1>4, ZenonT(30) DEF SetBegin, Goto, storeVars, IInv, TypeOK
        <3>2. CASE u = t
            BY <1>4, <3>2, Zenon DEF SetBegin, Goto, IInv, TypeOK
        <3> QED BY <3>1, <3>2, Zenon
    <2>2. ~(1 >= i)
        OBVIOUS
    <2> QED BY <2>1, <2>2, Zenon DEF Slots
<1>5. ASSUME NEW t \in Threads, EraseRelease(t) PROVE Reaches(u, i)
    BY <1>5, ZenonT(30) DEF EraseRelease, Slots
<1>6. ASSUME NEW t \in Threads, Thread(t), ~Claim(t), ~SetBegin(t), ~EraseRelease(t)
      PROVE  Reaches(u, i)
    <2>1. owner' = owner
        BY <1>6, Zenon DEF Thread, PatchNow, OnPath, NewRequest, Drop, Store, Hook,
                           PatchBinary, EraseClear, Free, storeVars
    <2>2. CASE PatchNow(t)
        BY <2>1, <2>2, Zenon DEF PatchNow, threadVars
    <2>3. CASE OnPath(t) \/ NewRequest(t)
        <3>1. pc' = [pc EXCEPT ![t] = pc'[t]] /\ pc'[t] # "scan"
            BY <2>3, Zenon DEF OnPath, NewRequest, Goto, Return, IInv, TypeOK
        <3>2. u # t => at'[u] = at[u]
            BY <2>3, Zenon DEF OnPath, NewRequest, Goto, Return, IInv, TypeOK
        <3> QED BY <2>1, <3>1, <3>2, Zenon DEF IInv, TypeOK
    <2>4. CASE Drop(t) \/ Store(t) \/ Hook(t) \/ PatchBinary(t) \/ EraseClear(t) \/ Free(t)
        <3>1. pc' = [pc EXCEPT ![t] = pc'[t]] /\ pc'[t] # "scan"
            BY <2>4, Zenon DEF Drop, Store, Hook, PatchBinary, EraseClear, Free, Goto, Return,
                               IInv, TypeOK
        <3>2. u # t => at'[u] = at[u]
            BY <2>4, Zenon DEF Drop, Store, Hook, PatchBinary, EraseClear, Free, Goto, Return,
                               IInv, TypeOK
        <3> QED BY <2>1, <3>1, <3>2, Zenon DEF IInv, TypeOK
    <2> QED BY <1>6, <2>2, <2>3, <2>4, Zenon DEF Thread
<1> QED BY <1>1, <1>2, <1>3, <1>4, <1>5, <1>6, Zenon DEF Next

LEMMA FarPassed ==
    ASSUME IInv, NEW t \in Threads, Claim(t), NEW k \in Slots, at[t] = k, owner[k] # None
    PROVE  owner[k] \in Far(k) /\ Far(k + 1)' \subseteq Far(k) \ {owner[k]}
<1> DEFINE q == owner[k]
<1>1. /\ k \in Int /\ at[t] = k /\ pc[t] = "scan"
      /\ owner' = owner /\ pc' = pc /\ at' = [at EXCEPT ![t] = k + 1]
    <2>1. k \in Int
        BY DEF Slots
    <2>2. /\ pc[t] = "scan" /\ owner' = owner /\ pc' = pc
          /\ at' = [at EXCEPT ![t] = at[t] + 1]
        BY Zenon DEF Claim
    <2> QED BY <2>1, <2>2, Zenon
<1>2. q \in Threads /\ q # t /\ pc[q] # "scan"
    <2>1. q \in Threads
        BY Zenon DEF IInv, TypeOK
    <2>2. \A u \in Threads : pc[u] = "scan" => q # u
        BY Zenon DEF IInv, Holding
    <2> QED BY <1>1, <2>1, <2>2, Zenon
<1>3. q \in Far(k)
    BY <1>1, <1>2 DEF Far, Reaches, Mine
<1>4. ASSUME NEW u \in Threads, Reaches(u, k + 1)'
      PROVE  u # q /\ Reaches(u, k)
    <2>1. \A j \in Slots : owner[j] = q => j = k
        BY <1>1, <1>2, Zenon DEF IInv, OneSlot
    <2>2. CASE \E j \in Slots : owner[j] = u /\ j >= k + 1
        <3>1. PICK j \in Slots : owner[j] = u /\ j >= k + 1
            BY <2>2, Zenon
        <3>2. j \in Int /\ j >= k /\ j # k
            BY <1>1, <3>1 DEF Slots
        <3> QED BY <2>1, <3>1, <3>2, Zenon DEF Reaches, Mine
    <2>3. CASE pc[u] = "scan" /\ at'[u] >= k + 1
        <3>1. u # q
            BY <1>2, <2>3, Zenon
        <3>2. at[u] \in Int /\ (u = t \/ at'[u] = at[u])
            BY <1>1 DEF IInv, TypeOK
        <3>3. at[u] >= k
            BY <1>1, <2>3, <3>2
        <3> QED BY <2>3, <3>1, <3>3, Zenon DEF Reaches
    <2> QED BY <1>1, <1>4, <2>2, <2>3, Zenon DEF Reaches, Mine, Slots
<1> QED BY <1>1, <1>3, <1>4, Zenon DEF Far

LEMMA FarFinite ==
    ASSUME NEW i
    PROVE  IsFiniteSet(Far(i)) /\ Cardinality(Far(i)) \in Nat
           /\ Cardinality(Far(i)) <= Cardinality(Threads) /\ Cardinality(Threads) \in Nat
    BY ThreadAssumption, FS_Subset, FS_CardinalityType, Zenon DEF Far

LEMMA ScanStep == IInv /\ IInv' /\ ScanBound /\ [Next]_vars => ScanBound'
<1> SUFFICES ASSUME IInv, IInv', ScanBound, [Next]_vars, NEW i \in 1..(SlotCount + 1),
                    Far(i)' # {}
             PROVE  Cardinality(Far(i)') + i <= Cardinality(Threads) + 1
    BY Zenon DEF ScanBound
<1>1. i \in Int /\ i >= 1
    OBVIOUS
<1>2. Cardinality(Threads) \in Nat /\ Cardinality(Far(i)) \in Nat /\ IsFiniteSet(Far(i))
    BY FarFinite, Zenon
<1>3. Far(i)' \subseteq Threads
    BY Zenon DEF Far
<1>4. CASE i = 1
    BY <1>2, <1>3, <1>4, ThreadAssumption, FS_Subset, FS_CardinalityType, SMTT(30)
<1>5. CASE \E t \in Threads : Claim(t) /\ at[t] + 1 = i /\ owner[at[t]] # None
    <2>1. PICK t \in Threads : Claim(t) /\ at[t] + 1 = i /\ owner[at[t]] # None
        BY <1>5, Zenon
    <2>2. PICK j \in Slots : j = at[t]
        BY <2>1, Zenon DEF Claim
    <2>3. j \in 1..(SlotCount + 1) /\ j \in Int /\ i = j + 1
        BY <2>1, <2>2 DEF Slots
    <2>4. owner[j] \in Far(j) /\ Far(i)' \subseteq Far(j) \ {owner[j]}
        BY <2>1, <2>2, <2>3, FarPassed, Zenon
    <2>5. Cardinality(Far(j)) + j <= Cardinality(Threads) + 1
        BY <2>4, <2>3, Zenon DEF ScanBound
    <2>6. IsFiniteSet(Far(j)) /\ Cardinality(Far(j)) \in Nat
        BY FarFinite, Zenon
    <2>7. /\ IsFiniteSet(Far(j) \ {owner[j]})
          /\ Cardinality(Far(j) \ {owner[j]}) = Cardinality(Far(j)) - 1
        BY <2>4, <2>6, FS_RemoveElement, Zenon
    <2>8. Cardinality(Far(i)') <= Cardinality(Far(j)) - 1 /\ Cardinality(Far(i)') \in Nat
        BY <2>4, <2>7, FS_Subset, FS_CardinalityType
    <2> QED BY <1>1, <1>2, <2>1, <2>3, <2>5, <2>6, <2>8
<1>6. CASE i # 1 /\ ~\E t \in Threads : Claim(t) /\ at[t] + 1 = i /\ owner[at[t]] # None
    <2>1. Far(i)' \subseteq Far(i)
        BY <1>6, FarShrinks, Zenon
    <2>2. Cardinality(Far(i)') <= Cardinality(Far(i)) /\ Cardinality(Far(i)') \in Nat
        BY <1>2, <2>1, FS_Subset, FS_CardinalityType, Zenon
    <2>3. Cardinality(Far(i)) + i <= Cardinality(Threads) + 1
        BY <2>1 DEF ScanBound
    <2> QED BY <1>1, <1>2, <2>2, <2>3
<1> QED BY <1>4, <1>5, <1>6, Zenon

(***************************************************************************)
(* At most all threads but i - 1 have or look at slot i or a later one.    *)
(***************************************************************************)
THEOREM ScanBounded == Spec => []ScanBound
<1>1. Init => ScanBound
    <2>1. ASSUME Init, NEW i \in 1..(SlotCount + 1) PROVE Far(i) = {}
        BY <2>1 DEF Init, Far, Reaches, Mine
    <2> QED BY <2>1, Zenon DEF ScanBound
<1> QED BY <1>1, ScanStep, Inductive, PTL DEF Spec

(***************************************************************************)
(* With no more threads than slots the scan never runs past the last slot, *)
(* so that set succeeds and onPath drops no request.                       *)
(***************************************************************************)
THEOREM NeverDropped ==
    ASSUME Cardinality(Threads) <= SlotCount
    PROVE  Spec => [](\A t \in Threads : pc[t] = "scan" => at[t] \in Slots)
<1>1. IInv /\ ScanBound => \A t \in Threads : pc[t] = "scan" => at[t] \in Slots
    <2> SUFFICES ASSUME IInv, ScanBound, NEW t \in Threads, pc[t] = "scan", at[t] \notin Slots
                 PROVE  FALSE
        OBVIOUS
    <2>1. at[t] = SlotCount + 1 /\ SlotCount + 1 \in 1..(SlotCount + 1)
        BY DEF IInv, TypeOK, Slots
    <2>2. t \in Far(SlotCount + 1)
        BY <2>1 DEF Far, Reaches
    <2>3. Cardinality(Far(SlotCount + 1)) + (SlotCount + 1) <= Cardinality(Threads) + 1
        BY <2>1, <2>2, Zenon DEF ScanBound
    <2>4. Cardinality(Far(SlotCount + 1)) \in Nat /\ Cardinality(Threads) \in Nat
          /\ IsFiniteSet(Far(SlotCount + 1))
        BY FarFinite, Zenon
    <2>5. Cardinality(Far(SlotCount + 1)) # 0
        BY <2>2, <2>4, FS_EmptySet
    <2> QED BY <2>3, <2>4, <2>5
<1> QED BY <1>1, Inductive, ScanBounded, PTL
==============================================================================
