----------------------------- MODULE ThreadStore -----------------------------
(***************************************************************************)
(* What Lilu's ThreadLocal container promises its user patcher: one        *)
(* pending request per thread, put where there is none and removed before  *)
(* the next one is put.  One step changes the entry of one thread.         *)
(***************************************************************************)
CONSTANTS Threads, Requests, None

VARIABLE stored

Init == stored = [t \in Threads |-> None]

Put(t, r) == stored[t] = None /\ stored' = [stored EXCEPT ![t] = r]

Remove(t) == stored[t] # None /\ stored' = [stored EXCEPT ![t] = None]

Next == \E t \in Threads : Remove(t) \/ \E r \in Requests : Put(t, r)

Spec == Init /\ [][Next]_stored

==============================================================================
