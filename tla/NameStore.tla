----------------------------- MODULE NameStore -----------------------------
(***************************************************************************)
(* What the name server of exercise 59-04 promises: name-value pairs that  *)
(* anybody may add and read, and only their creator may change or delete,  *)
(* every request taking effect at once.                                    *)
(***************************************************************************)
CONSTANTS Names, Values, Users, None

VARIABLES
  store,   \* the pair [value, own] of each name, or None
  served   \* the request just served and its result, or None

vars == <<store, served>>

Init ==
  /\ store = [n \in Names |-> None]
  /\ served = None

Done(u, cmd, n, v, result) ==
  served' = [user |-> u, cmd |-> cmd, name |-> n, value |-> v, result |-> result]

Add(u, n, v) ==
  \/ /\ Done(u, "ADD", n, v, "OK")
     /\ store[n] = None
     /\ store' = [store EXCEPT ![n] = [value |-> v, own |-> u]]
  \/ /\ Done(u, "ADD", n, v, "EXIST")
     /\ store[n] # None
     /\ UNCHANGED store

Get(u, n, v) ==
  /\ \/ Done(u, "GET", n, v, "OK") /\ store[n] # None
     \/ Done(u, "GET", n, v, "NOEXT") /\ store[n] = None
  /\ UNCHANGED store

\* a change of a pair by a user: new is the pair afterwards
Update(u, cmd, n, v, new) ==
  \/ /\ Done(u, cmd, n, v, "NOEXT")
     /\ store[n] = None
     /\ UNCHANGED store
  \/ /\ Done(u, cmd, n, v, "PERM")
     /\ store[n] # None /\ store[n].own # u
     /\ UNCHANGED store
  \/ /\ Done(u, cmd, n, v, "OK")
     /\ store[n] # None /\ store[n].own = u
     /\ store' = [store EXCEPT ![n] = new]

Set(u, n, v) == Update(u, "SET", n, v, [value |-> v, own |-> u])
Del(u, n, v) == Update(u, "DEL", n, v, None)

\* the answer is on its way
Sent == served # None /\ served' = None /\ UNCHANGED store

Next ==
  \/ Sent
  \/ \E u \in Users, n \in Names, v \in Values :
       Add(u, n, v) \/ Get(u, n, v) \/ Set(u, n, v) \/ Del(u, n, v)

Spec == Init /\ [][Next]_vars
=============================================================================
