----------------------------- MODULE ThreadTree -----------------------------
(***************************************************************************)
(* Exercise 30-02: a "tree" (in fact a doubly linked list) of key-value    *)
(* elements, updated and searched by any number of threads under one       *)
(* mutex: tree_init(), tree_add(), tree_del() and tree_look().             *)
(*                                                                         *)
(* Elements are the addresses malloc() hands out in turn; they are never   *)
(* freed, so none is used twice, and malloc() fails when they run out.     *)
(* The caller allocates a key and a value for each element it adds, so an  *)
(* element also stands for its value; tree_del() frees those two.  One     *)
(* action per lock, loop iteration, change of the list or unlock.          *)
(***************************************************************************)
EXTENDS Naturals

CONSTANTS
  Callers,   \* the threads
  Nobody,    \* the owner of a free mutex
  Keys,
  MaxElems,  \* how many times malloc() succeeds
  Null,      \* the null pointer
  Ok, Fail,  \* RET_SUCCESS and RET_FAILURE
  Nothing    \* no result yet

Elems == 1..MaxElems
Pointers == Elems \cup {Null}
Ops == {"add", "del", "look"}

\* The null pointer and the results are none of the addresses.
TreeConstants ==
  /\ MaxElems \in Nat /\ Null \notin Nat
  /\ Nothing \notin Pointers \cup {Ok, Fail}
  /\ Nobody \notin Callers

VARIABLES
  first, last,  \* the two ends of the list
  key,          \* elem->key
  prev, next,   \* elem->prev and elem->next
  used,         \* how many elements have been allocated
  freed,        \* elements whose key and value tree_del() has freed
  root_mutex,   \* owner of root->mutex
  at,           \* where each thread is in its call
  call,         \* the function and the key of that call
  elem,         \* its local variable elem
  reply         \* the result, Nothing before it is determined; for tree_look
                \* the pointer stored through value

list == <<first, last, key, prev, next, used, freed>>
vars_30_02 == <<first, last, key, prev, next, used, freed, root_mutex, at, call, elem, reply>>

TypeOK_30_02 ==
  /\ {first, last} \subseteq Pointers
  /\ key \in [Elems -> Keys \cup {Null}]
  /\ prev \in [Elems -> Pointers]
  /\ next \in [Elems -> Pointers]
  /\ used \in 0..MaxElems
  /\ freed \subseteq 1..used
  /\ root_mutex \in Callers \cup {Nobody}
  /\ at \in [Callers -> {"idle", "lock", "walk", "unlock"}]
  /\ call \in [Callers -> (Ops \X Keys) \cup {Nothing}]
  /\ elem \in [Callers -> Pointers]
  /\ reply \in [Callers -> Pointers \cup {Nothing, Ok, Fail}]

\* tree_init(); no thread has called anything yet
Init_30_02 ==
  /\ first = Null /\ last = Null
  /\ key = [n \in Elems |-> Null]
  /\ prev = [n \in Elems |-> Null]
  /\ next = [n \in Elems |-> Null]
  /\ used = 0 /\ freed = {}
  /\ root_mutex = Nobody
  /\ at = [t \in Callers |-> "idle"]
  /\ call = [t \in Callers |-> Nothing]
  /\ elem = [t \in Callers |-> Null]
  /\ reply = [t \in Callers |-> Null]

\* a member of an element, if there is one
After(p, member) == IF p = Null THEN Null ELSE member[p]

Moves(t, to) == at' = [at EXCEPT ![t] = to]
Reply(t, r) == reply' = [reply EXCEPT ![t] = r]
Return(t) ==
  /\ Moves(t, "idle")
  /\ call' = [call EXCEPT ![t] = Nothing]
  /\ elem' = [elem EXCEPT ![t] = Null]

-----------------------------------------------------------------------------
\* a thread calls one of the functions, tree_look() with *value == NULL
Call(t) ==
  /\ at[t] = "idle"
  /\ \E op \in Ops, k \in Keys : call' = [call EXCEPT ![t] = <<op, k>>]
  /\ Moves(t, "lock")
  /\ Reply(t, Nothing)
  /\ UNCHANGED <<list, root_mutex, elem>>

\* pthread_mutex_lock(&root->mutex); elem = root->first
LockRootAs(t, owner) ==
  /\ at[t] = "lock"
  /\ root_mutex = Nobody
  /\ root_mutex' = owner
  /\ elem' = [elem EXCEPT ![t] = first]
  /\ Moves(t, "walk")
  /\ UNCHANGED <<list, call, reply>>

\* Mutant of LockRoot: the mutex stays free.
LockRootMissing(t) == LockRootAs(t, Nobody)

LockRoot(t) == LockRootAs(t, t)

\* an iteration over an element with another key
Walk(t) ==
  /\ at[t] = "walk"
  /\ elem[t] # Null
  /\ key[elem[t]] # call[t][2]
  /\ elem' = [elem EXCEPT ![t] = next[elem[t]]]
  /\ UNCHANGED <<list, root_mutex, at, call, reply>>

\* tree_add() meets its key: return RET_FAILURE, the mutex stays locked
AddExists(t) ==
  /\ at[t] = "walk" /\ call[t][1] = "add"
  /\ elem[t] # Null /\ key[elem[t]] = call[t][2]
  /\ Reply(t, Fail)
  /\ Return(t)
  /\ UNCHANGED <<list, root_mutex>>

\* malloc() fails: return RET_FAILURE, the mutex stays locked
AddNoMemory(t) ==
  /\ at[t] = "walk" /\ call[t][1] = "add" /\ elem[t] = Null
  /\ used = MaxElems
  /\ Reply(t, Fail)
  /\ Return(t)
  /\ UNCHANGED <<list, root_mutex>>

\* the key is new: allocate an element and append it
AddAfter(t, p) ==
  /\ at[t] = "walk" /\ call[t][1] = "add" /\ elem[t] = Null
  /\ used < MaxElems
  /\ LET n == used + 1 IN
       /\ used' = n
       /\ key' = [key EXCEPT ![n] = call[t][2]]
       /\ first' = IF first = Null THEN n ELSE first
       /\ next' = IF first = Null THEN [next EXCEPT ![n] = Null] ELSE [next EXCEPT ![n] = Null, ![last] = n]
       /\ prev' = [prev EXCEPT ![n] = IF first = Null THEN Null ELSE p]
       /\ last' = n
  /\ Moves(t, "unlock")
  /\ Reply(t, Ok)
  /\ UNCHANGED <<freed, root_mutex, call, elem>>

\* Mutant of AddLast: elem->prev is not set.
AddLastNoPrev(t) == AddAfter(t, Null)

AddLast(t) == AddAfter(t, last)

\* tree_del() meets its key: unlink the element as first, last or middle one,
\* free its key and value, and go on behind its predecessor
DelWith(t, newLast) ==
  /\ at[t] = "walk" /\ call[t][1] = "del"
  /\ elem[t] # Null /\ key[elem[t]] = call[t][2]
  /\ LET e == elem[t] p == prev[e] n == next[e] IN
       /\ first' = IF p = Null THEN n ELSE first
       /\ last' = IF n = Null THEN newLast ELSE last
       /\ prev' = IF n = Null THEN prev ELSE [prev EXCEPT ![n] = p]
       /\ next' = IF p = Null THEN next ELSE [next EXCEPT ![p] = n]
       /\ freed' = freed \cup {e}
       /\ elem' = [elem EXCEPT ![t] = IF p = Null THEN Null ELSE n]
       /\ Moves(t, IF p = Null THEN "unlock" ELSE "walk")
  /\ Reply(t, Ok)
  /\ UNCHANGED <<key, used, root_mutex, call>>

\* Mutant of DelFound: root->last is not moved.
DelFoundNoLast(t) == DelWith(t, last)

DelFound(t) == DelWith(t, After(elem[t], prev))

\* tree_del() reaches the end of the list
DelEnd(t) ==
  /\ at[t] = "walk" /\ call[t][1] = "del" /\ elem[t] = Null
  /\ Moves(t, "unlock")
  /\ Reply(t, IF reply[t] = Ok THEN Ok ELSE Fail)
  /\ UNCHANGED <<list, root_mutex, call, elem>>

\* tree_look() stores the value of the element it meets, or leaves NULL
LookEnd(t) ==
  /\ at[t] = "walk" /\ call[t][1] = "look"
  /\ elem[t] # Null => key[elem[t]] = call[t][2]
  /\ Moves(t, "unlock")
  /\ Reply(t, elem[t])
  /\ UNCHANGED <<list, root_mutex, call, elem>>

\* pthread_mutex_unlock(&root->mutex) and the return
UnlockRootTo(t, owner) ==
  /\ at[t] = "unlock"
  /\ root_mutex' = owner
  /\ Return(t)
  /\ UNCHANGED <<list, reply>>

\* Mutant of UnlockRoot: the mutex is kept.
UnlockRootMissing(t) == UnlockRootTo(t, t)

UnlockRoot(t) == UnlockRootTo(t, Nobody)

-----------------------------------------------------------------------------
Step(t) ==
  \/ LockRoot(t) \/ Walk(t)
  \/ AddExists(t) \/ AddNoMemory(t) \/ AddLast(t)
  \/ DelFound(t) \/ DelEnd(t)
  \/ LookEnd(t)
  \/ UnlockRoot(t)

Next_30_02 == \E t \in Callers : Call(t) \/ Step(t)

Spec_30_02 == Init_30_02 /\ [][Next_30_02]_vars_30_02

-----------------------------------------------------------------------------
(* Properties                                                              *)

\* The elements that were appended and not unlinked since.  malloc() hands
\* the elements out in turn and each is appended behind the last one, so the
\* list is in increasing order.
Live == (1..used) \ freed

IsLeast(p, S) == IF S = {} THEN p = Null ELSE p \in S /\ \A m \in S : p <= m
IsGreatest(p, S) == IF S = {} THEN p = Null ELSE p \in S /\ \A m \in S : m <= p

\* The list the four functions maintain is a proper doubly linked list
\* whatever the interleaving: over next it goes from first through all live
\* elements to last and over prev back, and no key is in it twice.
WellLinked ==
  /\ IsLeast(first, Live) /\ IsGreatest(last, Live)
  /\ \A n \in Live :
       /\ IsLeast(next[n], {m \in Live : m > n})
       /\ IsGreatest(prev[n], {m \in Live : m < n})
  /\ \A m, n \in Live : key[m] = key[n] => m = n

\* A thread inside one of the functions owns the mutex.  It walks over live
\* elements, and those it has passed, or all when it has deleted one, have
\* other keys.
Passed(t, n) == elem[t] = Null \/ n < elem[t] \/ reply[t] # Nothing
WalkSound ==
  /\ \A t \in Callers : at[t] \in {"walk", "unlock"} => root_mutex = t
  /\ \A t \in Callers : at[t] = "walk" =>
       /\ elem[t] \in Live \cup {Null}
       /\ reply[t] # Nothing => call[t][1] = "del" /\ reply[t] = Ok
       /\ \A n \in Live : Passed(t, n) => key[n] # call[t][2]

\* A call that comes back leaves the mutex free for the next one, unless it
\* reports a failure: only tree_add() that fails keeps it locked.
MutexGivenBack ==
  \A t \in Callers : at[t] = "idle" /\ root_mutex = t => reply[t] = Fail

TreeSound == WellLinked /\ WalkSound /\ MutexGivenBack

\* The list implements the map of KeyMap: every call takes effect at once,
\* between call and return, and is answered accordingly.
Mapping == [k \in Keys |->
            IF \E n \in Live : key[n] = k
              THEN CHOOSE n \in Live : key[n] = k
              ELSE Null]
Asked == [t \in Callers |-> IF reply[t] = Nothing THEN call[t] ELSE Nothing]
Map == INSTANCE KeyMap WITH Threads <- Callers, Values <- Elems, store <- Mapping, call <- Asked
ImplementsMap == Map!Spec
=============================================================================
