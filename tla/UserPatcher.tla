----------------------------- MODULE UserPatcher -----------------------------
(***************************************************************************)
(* Lilu's user patcher: threads that exec a watched binary leave a request *)
(* in a thread-specific container without locks (ThreadLocal) and pick it  *)
(* up again in the task_set_main_thread_qos hook.  The container's loads,  *)
(* compare-and-swaps and plain stores are separate steps; a thread's own   *)
(* slot is written by no other thread, so the loops that look for it are   *)
(* one step.  A request is a heap object; heap[r] is the thread that made  *)
(* it, or None.  A request's content is the path of the exec of its maker. *)
(***************************************************************************)
EXTENDS Integers, FiniteSets, Sequences

CONSTANTS Threads, Requests, SlotCount, None

ASSUME SlotAssumption == SlotCount \in Nat
ASSUME NoneAssumption == None \notin Threads /\ None \notin Requests
ASSUME ThreadAssumption == IsFiniteSet(Threads)

VARIABLES boot,   \* progress of Configuration::performCommonInit
          reg,    \* what registerPatches and hookMemoryAccess have done
          owner,  \* ThreadLocal::threads
          value,  \* ThreadLocal::values
          heap,   \* who made the live requests
          pc,     \* where each thread is in onPath or taskSetMainThreadQos
          job,    \* which of the two it runs
          at,     \* the slot it points to
          req,    \* the request it made
          panic   \* why the kernel stopped

vars == <<boot, reg, owner, value, heap, pc, job, at, req, panic>>
regVars == <<boot, reg>>
storeVars == <<owner, value, heap>>
threadVars == <<pc, job, at, req>>

Slots == 1..SlotCount

\* hookMemoryAccess and what comes before it, in order: the files and lookups,
\* the code signing route, the solved symbols, the routes
QoS == "_task_set_main_thread_qos"
Region == {"_vm_shared_region_map_file", "_vm_shared_region_slide"}

\* Mutation: the QoS hook is routed before the user map functions are solved
MutChain == <<"files", "_cs_validate", "_current_map", "_get_map_min", "_get_task_map",
              "_vm_map_switch_protect", QoS, "_vm_map_check_protection",
              "_vm_map_read_user", "_vm_map_write_user",
              "_vm_shared_region_map_file", "_vm_shared_region_slide">>

Chain == <<"files", "_cs_validate", "_current_map", "_get_map_min", "_get_task_map",
           "_vm_map_switch_protect", "_vm_map_check_protection",
           "_vm_map_read_user", "_vm_map_write_user", QoS,
           "_vm_shared_region_map_file", "_vm_shared_region_slide">>

Last(shared) == IF shared THEN 12 ELSE 10

\* "Not an error, may be missing"
Optional == {"_vm_map_switch_protect", QoS}

\* What patchBinary and patchSharedCache may call on a task's map
MapCalls == {"_get_map_min", "_get_task_map", "_vm_map_check_protection",
             "_vm_map_read_user", "_vm_map_write_user"}

\* done: the symbols solved and the functions routed; next: the place in the
\* chain; shared: patchDyldSharedCache; error: left for the next getError()
NoReg == [procs |-> FALSE, shared |-> FALSE, next |-> 1, done |-> {}, error |-> FALSE, ok |-> TRUE]

Init ==
    /\ boot = "start"
    /\ reg = NoReg
    /\ owner = [i \in Slots |-> None]
    /\ value = [i \in Slots |-> None]
    /\ heap = [r \in Requests |-> None]
    /\ pc = [t \in Threads |-> "idle"]
    /\ job = [t \in Threads |-> "path"]
    /\ at = [t \in Threads |-> 1]
    /\ req = [t \in Threads |-> None]
    /\ panic = "no"

Mine(t) == {i \in Slots : owner[i] = t}

First(t, i) == i \in Mine(t) /\ \A j \in Mine(t) : i <= j

Goto(t, label) == pc' = [pc EXCEPT ![t] = label]

\* The handler ends and its locals go out of scope
Return(t) ==
    /\ Goto(t, "idle")
    /\ job' = [job EXCEPT ![t] = "path"]
    /\ at' = [at EXCEPT ![t] = 1]
    /\ req' = [req EXCEPT ![t] = None]

(***************************************************************************)
(* The boot thread.                                                        *)
(***************************************************************************)

\* UserPatcher::init: without a listener performCommonInit gives up
InitListener ==
    /\ boot = "start"
    /\ boot' \in {"listening", "failed"}
    /\ \E s \in BOOLEAN : reg' = [reg EXCEPT !.shared = s]
    /\ UNCHANGED <<storeVars, threadVars, panic>>

\* processUserLoadCallbacks and registerPatches: with something to register,
\* and the user patcher not disabled, the process list is stored first
RegisterPatches ==
    /\ boot = "listening"
    /\ \/ boot' = "registered" /\ UNCHANGED reg
       \/ /\ boot' = "registering"
          /\ \E p \in BOOLEAN : reg' = [reg EXCEPT !.procs = p]
    /\ UNCHANGED <<storeVars, threadVars, panic>>

\* One step of the chain.  A symbol counts as solved when it was found and
\* getError() is clear: an error the route before left behind fails it too.
\* The first failure ends the registration; what was done stays.
HookMemoryAccess ==
    /\ boot = "registering"
    /\ \E found \in BOOLEAN, left \in BOOLEAN :
           LET step == Chain[reg.next]
               good == step \in Optional \/ (found /\ ~reg.error)
           IN  /\ left => step = "_cs_validate" /\ found
               /\ reg' = [reg EXCEPT !.next = @ + 1,
                                     !.done = IF found THEN @ \cup {step} ELSE @,
                                     !.error = left,
                                     !.ok = good]
               /\ boot' = IF good /\ reg.next < Last(reg.shared)
                          THEN "registering" ELSE "registered"
    /\ UNCHANGED <<storeVars, threadVars, panic>>

\* LiluAPI::activate follows whether or not the registration succeeded
Activate ==
    /\ boot = "registered"
    /\ boot' = "active"
    /\ UNCHANGED <<reg, storeVars, threadVars, panic>>

(***************************************************************************)
(* A handler obtains a map with getMap and works on it with MapCalls.  A   *)
(* call of a function that was not solved stops the kernel.                *)
(***************************************************************************)
CallOn(handler, getMap) ==
    IF getMap \notin reg.done THEN panic' = handler
    ELSE panic' \in {panic} \cup {handler : f \in MapCalls \ reg.done}

\* vmSharedRegionMapFile and vmSharedRegionSlide, on any thread, from the
\* moment they are routed
SharedRegion ==
    /\ Region \cap reg.done # {}
    /\ CallOn("region", "_current_map")
    /\ UNCHANGED <<regVars, storeVars, threadVars>>

(***************************************************************************)
(* A thread execs a watched binary: execListener and onPath.               *)
(***************************************************************************)

\* The listener acts once activated, on paths of the process list
Watched == boot = "active" /\ reg.procs

\* Without the QoS hook the binary is patched through _current_map at once
PatchNow(t) ==
    /\ Watched /\ QoS \notin reg.done
    /\ pc[t] = "idle"
    /\ CallOn("listener", "_current_map")
    /\ UNCHANGED <<regVars, storeVars, threadVars>>

\* pending.get: a request left by an exec that did not happen is removed first
OnPath(t) ==
    /\ Watched /\ QoS \in reg.done
    /\ pc[t] = "idle"
    /\ job' = [job EXCEPT ![t] = "path"]
    /\ \/ Mine(t) = {} /\ Goto(t, "new") /\ UNCHANGED at
       \/ \E i \in Slots : First(t, i) /\ Goto(t, "clear") /\ at' = [at EXCEPT ![t] = i]
    /\ UNCHANGED <<regVars, storeVars, req, panic>>

\* new PendingUser, which may fail
NewRequest(t) ==
    /\ pc[t] = "new"
    /\ \/ Return(t) /\ UNCHANGED heap
       \/ \E r \in Requests :
              /\ heap[r] = None
              /\ heap' = [heap EXCEPT ![r] = t]
              /\ req' = [req EXCEPT ![t] = r]
              /\ Goto(t, "set") /\ UNCHANGED <<job, at>>
    /\ UNCHANGED <<regVars, owner, value, panic>>

\* Mutation: the scan for an empty slot skips the first one
MutSetBegin(t) ==
    /\ pc[t] = "set"
    /\ \/ /\ Mine(t) = {} /\ Goto(t, "scan")
          /\ at' = [at EXCEPT ![t] = 2]
       \/ \E i \in Slots : First(t, i) /\ Goto(t, "store") /\ at' = [at EXCEPT ![t] = i]
    /\ UNCHANGED <<regVars, storeVars, job, req, panic>>

\* ThreadLocal::set begins: an own slot is reused, else the scan starts
SetBegin(t) ==
    /\ pc[t] = "set"
    /\ \/ /\ Mine(t) = {} /\ Goto(t, "scan")
          /\ at' = [at EXCEPT ![t] = 1]
       \/ \E i \in Slots : First(t, i) /\ Goto(t, "store") /\ at' = [at EXCEPT ![t] = i]
    /\ UNCHANGED <<regVars, storeVars, job, req, panic>>

\* Mutation: the slot is taken whoever holds it
MutClaim(t) ==
    /\ pc[t] = "scan" /\ at[t] \in Slots
    /\ owner' = [owner EXCEPT ![at[t]] = t] /\ Goto(t, "store") /\ UNCHANGED at
    /\ UNCHANGED <<regVars, value, heap, job, req, panic>>

\* One compare-and-swap of the scan for an empty slot
Claim(t) ==
    /\ pc[t] = "scan" /\ at[t] \in Slots
    /\ \/ /\ owner[at[t]] = None
          /\ owner' = [owner EXCEPT ![at[t]] = t]
          /\ Goto(t, "store") /\ UNCHANGED at
       \/ /\ owner[at[t]] # None
          /\ at' = [at EXCEPT ![t] = @ + 1]
          /\ UNCHANGED <<owner, pc>>
    /\ UNCHANGED <<regVars, value, heap, job, req, panic>>

\* No slot was free: the request is dropped
Drop(t) ==
    /\ pc[t] = "scan" /\ at[t] \notin Slots
    /\ heap' = [heap EXCEPT ![req[t]] = None]
    /\ Return(t)
    /\ UNCHANGED <<regVars, owner, value, panic>>

\* The plain store into the slot; onPath returns
Store(t) ==
    /\ pc[t] = "store"
    /\ value' = [value EXCEPT ![at[t]] = req[t]]
    /\ Return(t)
    /\ UNCHANGED <<regVars, owner, heap, panic>>

(***************************************************************************)
(* taskSetMainThreadQos on the same thread, unless the exec did not happen *)
(***************************************************************************)

Hook(t) ==
    /\ QoS \in reg.done
    /\ pc[t] = "idle"
    /\ \E i \in Slots : First(t, i) /\ at' = [at EXCEPT ![t] = i]
    /\ job' = [job EXCEPT ![t] = "qos"]
    /\ Goto(t, "patch")
    /\ UNCHANGED <<regVars, storeVars, req, panic>>

\* patchBinary on the map of the task, with the path of the request
PatchBinary(t) ==
    /\ pc[t] = "patch"
    /\ CallOn("qos", "_get_task_map")
    /\ Goto(t, "clear")
    /\ UNCHANGED <<regVars, storeVars, job, at, req>>

(***************************************************************************)
(* ThreadLocal::erase and the delete of what the slot then points to.      *)
(***************************************************************************)

\* Mutation: the slot is given back before its value is cleared
MutEraseClear(t) ==
    /\ pc[t] = "clear"
    /\ owner' = [owner EXCEPT ![at[t]] = None]
    /\ Goto(t, "release")
    /\ UNCHANGED <<regVars, value, heap, job, at, req, panic>>

EraseClear(t) ==
    /\ pc[t] = "clear"
    /\ value' = [value EXCEPT ![at[t]] = None]
    /\ Goto(t, "release")
    /\ UNCHANGED <<regVars, owner, heap, job, at, req, panic>>

\* The compare-and-swap that gives the slot back; PANIC_COND if it fails
EraseRelease(t) ==
    /\ pc[t] = "release"
    /\ IF owner[at[t]] = t
       THEN owner' = [owner EXCEPT ![at[t]] = None] /\ UNCHANGED panic
       ELSE panic' = "erase" /\ UNCHANGED owner
    /\ Goto(t, "free")
    /\ UNCHANGED <<regVars, value, heap, job, at, req>>

\* delete *previous, delete *entry: the slot is read again, after it was
\* cleared and given back
Free(t) ==
    /\ pc[t] = "free"
    /\ heap' = [r \in Requests |-> IF r = value[at[t]] THEN None ELSE heap[r]]
    /\ IF job[t] = "path" THEN Goto(t, "new") /\ UNCHANGED <<job, at, req>> ELSE Return(t)
    /\ UNCHANGED <<regVars, owner, value, panic>>

Thread(t) ==
    \/ PatchNow(t) \/ OnPath(t) \/ NewRequest(t) \/ SetBegin(t) \/ Claim(t) \/ Drop(t)
    \/ Store(t) \/ Hook(t) \/ PatchBinary(t) \/ EraseClear(t) \/ EraseRelease(t) \/ Free(t)

Next ==
    /\ panic = "no"
    /\ \/ InitListener \/ RegisterPatches \/ HookMemoryAccess \/ Activate
       \/ SharedRegion
       \/ \E t \in Threads : Thread(t)

Spec == Init /\ [][Next]_vars

(***************************************************************************)
(* Properties.                                                             *)
(***************************************************************************)

TypeOK ==
    /\ boot \in {"start", "listening", "failed", "registering", "registered", "active"}
    /\ reg \in [procs : BOOLEAN, shared : BOOLEAN, next : 1..13,
                done : SUBSET {Chain[i] : i \in 1..12}, error : BOOLEAN, ok : BOOLEAN]
    /\ boot = "registering" => reg.next <= Last(reg.shared)
    /\ owner \in [Slots -> Threads \cup {None}]
    /\ value \in [Slots -> Requests \cup {None}]
    /\ heap \in [Requests -> Threads \cup {None}]
    /\ pc \in [Threads -> {"idle", "new", "set", "scan", "store",
                           "patch", "clear", "release", "free"}]
    /\ job \in [Threads -> {"path", "qos"}]
    /\ at \in [Threads -> 1..(SlotCount + 1)]
    /\ req \in [Threads -> Requests \cup {None}]
    /\ panic \in {"no", "listener", "qos", "region", "erase"}

(***************************************************************************)
(* The PANIC_CONDs after pending.erase() in onPath and                     *)
(* taskSetMainThreadQos never fire: whatever the other threads do, the     *)
(* slot a thread gives back is still its own.                              *)
(***************************************************************************)
EraseSucceeds == panic # "erase"

(***************************************************************************)
(* The QoS hook and the shared region hooks never call a function of the   *)
(* kernel that was not solved, not even after a registration that failed   *)
(* halfway: hookMemoryAccess routes them after it solved what they call.   *)
(* The exec listener, which activate() switches on in any case, does so    *)
(* only after a registration that failed, and none of the hooks is in      *)
(* place then.                                                             *)
(***************************************************************************)
CallsResolved ==
    /\ panic \notin {"qos", "region"}
    /\ panic = "listener" => ~reg.ok /\ Region \cap reg.done = {}

(***************************************************************************)
(* The scan of ThreadLocal::set is crowded only by threads: slot i is      *)
(* reached or held by at most all threads but i - 1, however the others    *)
(* take and give back slots meanwhile.  With no more threads than slots    *)
(* (32 in the code) no request is therefore ever dropped, although a slot  *)
(* freed behind the scan is not looked at again.                           *)
(***************************************************************************)
Reaches(t, i) ==
    \/ \E j \in Mine(t) : j >= i
    \/ pc[t] = "scan" /\ at[t] >= i

Far(i) == {t \in Threads : Reaches(t, i)}

ScanBound ==
    \A i \in 1..(SlotCount + 1) :
        Far(i) # {} => Cardinality(Far(i)) + i <= Cardinality(Threads) + 1

(***************************************************************************)
(* The slots, claimed and filled in separate steps and cleared and given   *)
(* back in separate steps, behave as one entry per thread: a store is a    *)
(* Put, the clearing of erase a Remove, everything else leaves the entries *)
(* of all threads alone.                                                   *)
(***************************************************************************)
StoredOf(t) == IF Mine(t) = {} THEN None ELSE value[CHOOSE i \in Slots : First(t, i)]

entries == [t \in Threads |-> StoredOf(t)]

Entries == INSTANCE ThreadStore WITH stored <- entries

StoreRefined == Entries!Spec

(***************************************************************************)
(* "Thread specific container of T values": a request a thread has stored  *)
(* stays its own, live request until that thread removes it.               *)
(***************************************************************************)
StoredAreLive ==
    \A i \in Slots : value[i] # None => heap[value[i]] = owner[i]

==============================================================================
