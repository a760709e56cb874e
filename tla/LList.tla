------------------------------- MODULE LList -------------------------------
(***************************************************************************)
(* The linked list of exercise 59-04 (ll_init, ll_add, ll_get, ll_set,     *)
(* ll_del) at pointer level.  Items are heap addresses; malloc() returns   *)
(* any address that is not allocated, so a freed one may come back.        *)
(* Each function runs to its end in one step: the server has one thread.   *)
(* The functions set lerrno, which the caller has cleared before.  The     *)
(* specification calls them in any order with any arguments, as the name   *)
(* server does; NameServer composes their abstract form with the clients.  *)
(***************************************************************************)
EXTENDS Naturals, FiniteSets

CONSTANTS
  Names, Values, Users,
  Addrs,      \* heap addresses, at least one more than there are names
  Null        \* the null pointer

ASSUME ListAssumption ==
  /\ Null \notin Addrs
  /\ IsFiniteSet(Addrs) /\ IsFiniteSet(Names)

VARIABLES
  first,      \* list->first
  alloc,      \* addresses in use
  nv,         \* the item_nv stored at each address
  next, prev,
  served      \* the call just made and the lerrno it left

list == <<first, alloc, nv, next, prev>>
vars == <<first, alloc, nv, next, prev, served>>

Lerrnos == {"OK", "EXIST", "NOEXT", "PERM"}
Items == [name : Names, value : Values, own : Users]
Pointers == Addrs \cup {Null}

TypeOK ==
  /\ first \in Pointers
  /\ served = Null \/ served.result \in Lerrnos
  /\ alloc \subseteq Addrs
  /\ nv \in [Addrs -> Items \cup {Null}]
  /\ next \in [Addrs -> Pointers]
  /\ prev \in [Addrs -> Pointers]

\* ll_init()
ll_init ==
  /\ first = Null
  /\ alloc = {}
  /\ nv = [a \in Addrs |-> Null]
  /\ next = [a \in Addrs |-> Null]
  /\ prev = [a \in Addrs |-> Null]

\* The items met from list->first over next.
After(p) == IF p = Null THEN Null ELSE next[p]
Path[i \in 0..Cardinality(Addrs)] == IF i = 0 THEN first ELSE After(Path[i-1])

Listed == {Path[i] : i \in 0..Cardinality(Addrs)} \ {Null}

\* The search loop at the head of each function: the first item with that
\* name on the way from list->first, Null when the loop ends without one.
Find(name) ==
  LET hits == {i \in 0..Cardinality(Addrs) : Path[i] # Null /\ nv[Path[i]].name = name}
  IN IF hits = {} THEN Null
     ELSE Path[CHOOSE i \in hits : \A j \in hits : i <= j]

\* ll_add(): refuse an existing name, else put a copy of the item in front
ll_add(item, lerrno) ==
  \/ /\ Find(item.name) # Null
     /\ lerrno = "EXIST"
     /\ UNCHANGED list
  \/ /\ Find(item.name) = Null
     /\ lerrno = "OK"
     /\ \E a \in Addrs \ alloc :
          /\ alloc' = alloc \cup {a}
          /\ nv' = [nv EXCEPT ![a] = item]
          /\ next' = [next EXCEPT ![a] = first]
          /\ prev' = [x \in Addrs |->
                        CASE x = a -> Null [] x = first -> a [] OTHER -> prev[x]]
          /\ first' = a

\* malloc() fails in ll_add(): nothing is added and lerrno stays 0
ll_add_no_memory(item, lerrno) ==
  /\ Find(item.name) = Null
  /\ lerrno = "OK"
  /\ UNCHANGED list

\* ll_get(): copies the item out
ll_get(item, lerrno) ==
  /\ lerrno = IF Find(item.name) = Null THEN "NOEXT" ELSE "OK"
  /\ UNCHANGED list

\* the two refusals of ll_set() and ll_del()
Refused(item, lerrno) ==
  LET a == Find(item.name) IN
  /\ \/ a = Null /\ lerrno = "NOEXT"
     \/ a # Null /\ nv[a].own # item.own /\ lerrno = "PERM"
  /\ UNCHANGED list

Owned(item) == Find(item.name) # Null /\ nv[Find(item.name)].own = item.own

\* ll_set(): the owner may change the value
SetValue(item, lerrno, value) ==
  \/ Refused(item, lerrno)
  \/ /\ Owned(item)
     /\ lerrno = "OK"
     /\ nv' = [nv EXCEPT ![Find(item.name)].value = value]
     /\ UNCHANGED <<first, alloc, next, prev>>

\* Mutant of ll_set: the value is kept.
ll_set_nothing(item, lerrno) == SetValue(item, lerrno, nv[Find(item.name)].value)

ll_set(item, lerrno) == SetValue(item, lerrno, item.value)

\* ll_del(): the owner may unlink and free the item; what free() leaves at its
\* address is never read and is written here as Null
Unlink(item, lerrno, back) ==
  LET a == Find(item.name) p == prev[a] n == next[a] IN
  \/ Refused(item, lerrno)
  \/ /\ Owned(item)
     /\ lerrno = "OK"
     /\ first' = IF p = Null THEN n ELSE first
     /\ next' = [x \in Addrs |-> CASE x = a -> Null [] x = p -> n [] OTHER -> next[x]]
     /\ prev' = [x \in Addrs |-> CASE x = a -> Null [] x = n -> back[a] [] OTHER -> prev[x]]
     /\ alloc' = alloc \ {a}
     /\ nv' = [nv EXCEPT ![a] = Null]

\* Mutant of ll_del: the item behind is linked back to itself.
ll_del_wrong_prev(item, lerrno) == Unlink(item, lerrno, next)

ll_del(item, lerrno) == Unlink(item, lerrno, prev)

-----------------------------------------------------------------------------
Called(cmd, item, lerrno) ==
  served' = [user |-> item.own, cmd |-> cmd, name |-> item.name,
             value |-> item.value, result |-> lerrno]

Init == ll_init /\ served = Null

\* the caller goes on to the next request: lerrno = 0
Reset ==
  /\ served # Null
  /\ served' = Null
  /\ UNCHANGED list

Call(f(_, _), cmd) ==
  /\ served = Null
  /\ \E item \in Items, lerrno \in Lerrnos : f(item, lerrno) /\ Called(cmd, item, lerrno)

Next ==
  \/ Reset
  \/ Call(ll_add, "ADD") \/ Call(ll_get, "GET") \/ Call(ll_set, "SET") \/ Call(ll_del, "DEL")

Spec == Init /\ [][Next]_vars

\* the same where malloc() may fail
SpecNoMemory == Init /\ [][Next \/ Call(ll_add_no_memory, "ADD")]_vars

-----------------------------------------------------------------------------
\* The list after any sequence of calls: it ends, its items are exactly the
\* allocated ones (nothing leaks, nothing freed is reachable), prev undoes
\* next, and no name occurs twice.
ListOK ==
  /\ Path[Cardinality(Addrs)] = Null
  /\ Listed = alloc
  /\ first # Null => prev[first] = Null
  /\ \A a \in alloc : next[a] # Null => prev[next[a]] = a
  /\ \A a, b \in alloc : nv[a].name = nv[b].name => a = b

\* The list as a map from names to pairs
Contents ==
  [n \in Names |->
     LET a == Find(n) IN
     IF a = Null THEN Null ELSE [value |-> nv[a].value, own |-> nv[a].own]]

\* As long as malloc() succeeds, the pointer-level list implements the name
\* store: each call changes the pairs as its description in 59-04-llist.h
\* says, and lerrno tells which of the cases it was.
Store == INSTANCE NameStore WITH store <- Contents, None <- Null
ImplementsStore == Store!Spec

\* 59-04-llist.h:37-38, of ll_add(): "On success return FN_OK. On fail return
\* FN_ER and lerrno set to error number".  The server looks at lerrno alone: a
\* call that left it 0 has stored its item.
AddReported ==
  served # Null /\ served.cmd = "ADD" /\ served.result = "OK" =>
    Contents[served.name] = [value |-> served.value, own |-> served.user]
=============================================================================
