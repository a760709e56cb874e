---------------------------- MODULE StoreProofs -----------------------------
(***************************************************************************)
(* Safety of three programs that keep something for their callers, for every*)
(* value of their constants: the list of 30-02, which implements the map of*)
(* KeyMap, the echo servers, and the name server of 59-04 with its store.  *)
(***************************************************************************)
EXTENDS ThreadTree, Sequences, FiniteSets, TLAPS

-----------------------------------------------------------------------------
(* The list of 30-02                                                       *)

\* What a thread's place says about its call and its answer.
CallSound ==
  \A t \in Callers :
    /\ at[t] # "idle" => call[t] \in Ops \X Keys
    /\ reply[t] = Nothing => at[t] \in {"lock", "walk"}
    /\ at[t] = "lock" => reply[t] = Nothing

IInv_30_02 == TypeOK_30_02 /\ CallSound /\ TreeSound

-----------------------------------------------------------------------------
\* The list is empty at first, and nobody walks in it.
LEMMA InitInv_30_02 == TreeConstants /\ Init_30_02 => IInv_30_02
<1> SUFFICES ASSUME TreeConstants, Init_30_02 PROVE IInv_30_02
  OBVIOUS
<1> USE DEF TreeConstants, Init_30_02, Elems, Pointers
<1>1. TypeOK_30_02
  BY DEF TypeOK_30_02
<1>2. CallSound
  BY DEF CallSound
<1>3. Live = {}
  BY DEF Live
<1>4. TreeSound
  BY <1>3 DEF TreeSound, WellLinked, WalkSound, MutexGivenBack, IsLeast, IsGreatest
<1> QED BY <1>1, <1>2, <1>4 DEF IInv_30_02

\* The steps that leave the list alone.
LEMMA ListUnchanged ==
  ASSUME IInv_30_02, UNCHANGED list
  PROVE  WellLinked' /\ Live' = Live
BY DEF IInv_30_02, TreeSound, WellLinked, Live, list, IsLeast, IsGreatest

\* A call changes neither the list nor the mutex.
LEMMA CallInv == ASSUME TreeConstants, IInv_30_02, NEW t \in Callers, Call(t) PROVE IInv_30_02'
<1>1. WellLinked' /\ Live' = Live
  BY ListUnchanged DEF Call
<1>2. TypeOK_30_02' /\ CallSound'
  BY DEF TreeConstants, IInv_30_02, TypeOK_30_02, CallSound, Call, Moves, Reply, list
<1>3. WalkSound' /\ MutexGivenBack'
  BY <1>1 DEF TreeConstants, IInv_30_02, TypeOK_30_02, CallSound, TreeSound, WalkSound, MutexGivenBack, Passed, Call, Moves, Reply, list
<1> QED BY <1>1, <1>2, <1>3 DEF IInv_30_02, TreeSound

\* A thread that has the mutex begins at the first element.
LEMMA LockInv == ASSUME TreeConstants, IInv_30_02, NEW t \in Callers, LockRoot(t) PROVE IInv_30_02'
<1>1. WellLinked' /\ Live' = Live
  BY ListUnchanged DEF LockRoot, LockRootAs
<1>2. TypeOK_30_02' /\ CallSound'
  BY DEF TreeConstants, IInv_30_02, TypeOK_30_02, CallSound, LockRoot, LockRootAs, Moves, list
<1>3. WalkSound' /\ MutexGivenBack'
  BY <1>1 DEF TreeConstants, IInv_30_02, TypeOK_30_02, CallSound, TreeSound, WellLinked, IsLeast, Live, Elems, Pointers,
     WalkSound, MutexGivenBack, Passed, LockRoot, LockRootAs, Moves, list
<1> QED BY <1>1, <1>2, <1>3 DEF IInv_30_02, TreeSound

\* A walk passes an element whose key is not the one looked for.
LEMMA WalkInv == ASSUME TreeConstants, IInv_30_02, NEW t \in Callers, Walk(t) PROVE IInv_30_02'
<1>1. WellLinked' /\ Live' = Live
  BY ListUnchanged DEF Walk
<1>2. TypeOK_30_02' /\ CallSound'
  BY DEF TreeConstants, IInv_30_02, TypeOK_30_02, CallSound, Walk, Elems, Pointers, list
<1> DEFINE e == elem[t]
<1>3. e \in Live /\ key[e] # call[t][2]
  BY DEF IInv_30_02, TreeSound, WalkSound, Walk
<1>4. next[e] \in Live \cup {Null} /\ \A n \in Live : next[e] = Null \/ n < next[e] => n <= e
  <2>1. Live \subseteq Nat /\ Null \notin Live
    BY DEF TreeConstants, IInv_30_02, TypeOK_30_02, Live
  <2>2. IsLeast(next[e], {m \in Live : m > e})
    BY <1>3, Zenon DEF IInv_30_02, TreeSound, WellLinked
  <2> HIDE DEF e
  <2>3. CASE {m \in Live : m > e} = {}
    <3>1. next[e] = Null /\ \A m \in Live : ~(m > e)
      BY <2>2, <2>3 DEF IsLeast
    <3> QED BY <1>3, <2>1, <3>1
  <2>4. CASE {m \in Live : m > e} # {}
    <3>1. next[e] \in Live /\ next[e] > e /\ \A m \in Live : m > e => next[e] <= m
      BY <2>2, <2>4 DEF IsLeast
    <3>2. next[e] \in Nat /\ next[e] # Null /\ e \in Nat
      BY <1>3, <2>1, <3>1, Zenon
    <3>3. ASSUME NEW n \in Live, n < next[e] PROVE n <= e
      BY <2>1, <3>1, <3>2, <3>3
    <3> QED BY <3>1, <3>2, <3>3
  <2> QED BY <2>3, <2>4
<1>5. \A n \in Live : n <= e => n < e \/ n = e
  <2>1. Live \subseteq Nat
    BY DEF IInv_30_02, TypeOK_30_02, Live
  <2> HIDE DEF e
  <2> QED BY <1>3, <2>1
<1>6. /\ elem' = [elem EXCEPT ![t] = next[e]]
      /\ UNCHANGED <<key, root_mutex, at, call, reply>>
  BY DEF Walk, list
<1>7. elem'[t] = next[e] /\ \A u \in Callers \ {t} : elem'[u] = elem[u]
  BY <1>6 DEF IInv_30_02, TypeOK_30_02
<1>8. \A n \in Live : Passed(t, n)' => key[n] # call[t][2]
  BY <1>3, <1>4, <1>5, <1>6, <1>7 DEF Passed, IInv_30_02, TreeSound, WalkSound, Walk
<1>9. WalkSound'
  BY <1>1, <1>4, <1>6, <1>7, <1>8 DEF IInv_30_02, TreeSound, WalkSound, Passed
<1>10. MutexGivenBack'
  BY <1>6 DEF IInv_30_02, TreeSound, MutexGivenBack
<1> QED BY <1>1, <1>2, <1>9, <1>10 DEF IInv_30_02, TreeSound

\* The returns and the answers that leave the list as it is.
LEMMA AnswerInv ==
  ASSUME TreeConstants, IInv_30_02, NEW t \in Callers,
         AddExists(t) \/ AddNoMemory(t) \/ DelEnd(t) \/ LookEnd(t) \/ UnlockRoot(t)
  PROVE  IInv_30_02'
<1>1. WellLinked' /\ Live' = Live
  BY ListUnchanged DEF AddExists, AddNoMemory, DelEnd, LookEnd, UnlockRoot, UnlockRootTo
<1> USE DEF Moves, Reply, Return, list
<1>2. TypeOK_30_02'
  <2> USE DEF IInv_30_02, TypeOK_30_02
  <2>1. CASE AddExists(t) \/ AddNoMemory(t)
    <3>1. Null \in Pointers
      BY DEF Pointers
    <3>2. /\ reply' = [reply EXCEPT ![t] = Fail] /\ at' = [at EXCEPT ![t] = "idle"]
          /\ call' = [call EXCEPT ![t] = Nothing] /\ elem' = [elem EXCEPT ![t] = Null]
          /\ UNCHANGED <<first, last, key, prev, next, used, freed, root_mutex>>
      BY <2>1 DEF AddExists, AddNoMemory
    <3> QED BY <3>1, <3>2
  <2>2. CASE DelEnd(t)
    BY <2>2 DEF DelEnd
  <2>3. CASE LookEnd(t)
    BY <2>3 DEF LookEnd
  <2>4. CASE UnlockRoot(t)
    BY <2>4 DEF UnlockRoot, UnlockRootTo, Pointers
  <2> QED BY <2>1, <2>2, <2>3, <2>4
<1>3. CallSound'
  BY DEF TreeConstants, IInv_30_02, TypeOK_30_02, CallSound, Pointers, AddExists, AddNoMemory, DelEnd, LookEnd, UnlockRoot, UnlockRootTo
<1>4. WalkSound'
  BY <1>1 DEF TreeConstants, IInv_30_02, TypeOK_30_02, TreeSound, WalkSound, Passed, AddExists, AddNoMemory, DelEnd, LookEnd, UnlockRoot, UnlockRootTo
<1>5. MutexGivenBack'
  BY DEF TreeConstants, IInv_30_02, TypeOK_30_02, TreeSound, MutexGivenBack, AddExists, AddNoMemory, DelEnd, LookEnd, UnlockRoot, UnlockRootTo
<1> QED BY <1>1, <1>2, <1>3, <1>4, <1>5 DEF IInv_30_02, TreeSound

\* A new element is above all others and goes behind the last.
LEMMA AddLastInv == ASSUME TreeConstants, IInv_30_02, NEW t \in Callers, AddLast(t) PROVE IInv_30_02'
<1> DEFINE n == used + 1
<1>1. /\ n \in Elems /\ n \notin Live /\ Live' = Live \cup {n} /\ \A m \in Live : m < n
      /\ Live \subseteq Elems /\ Elems \subseteq Nat
  BY DEF TreeConstants, IInv_30_02, TypeOK_30_02, Live, Elems, AddLast, AddAfter
<1>2. /\ key' = [key EXCEPT ![n] = call[t][2]]
      /\ last' = n
      /\ first' = IF first = Null THEN n ELSE first
      /\ next' = IF first = Null THEN [next EXCEPT ![n] = Null] ELSE [next EXCEPT ![n] = Null, ![last] = n]
      /\ prev' = [prev EXCEPT ![n] = IF first = Null THEN Null ELSE last]
      /\ at' = [at EXCEPT ![t] = "unlock"] /\ reply' = [reply EXCEPT ![t] = Ok]
      /\ UNCHANGED <<freed, root_mutex, call, elem>> /\ used' = n
  BY DEF AddLast, AddAfter, Moves, Reply
<1>3. /\ call[t] \in Ops \X Keys /\ root_mutex = t
      /\ \A m \in Live : key[m] # call[t][2]
  BY DEF IInv_30_02, CallSound, TreeSound, WalkSound, Passed, AddLast, AddAfter
<1>a. last \in Live \cup {Null} /\ (first = Null <=> Live = {}) /\ (last = Null <=> Live = {})
      /\ \A m \in Live : m <= last
  BY <1>1, Zenon DEF TreeConstants, IInv_30_02, TreeSound, WellLinked, IsLeast, IsGreatest
<1> HIDE DEF n
<1>b. n \in Nat /\ ~(n > n) /\ ~(n < n) /\ \A m \in Live : m \in Nat /\ n > m /\ ~(m > n) /\ ~(n < m)
  BY <1>1
<1>4. TypeOK_30_02'
  <2>1. key' \in [Elems -> Keys \cup {Null}]
    BY <1>1, <1>2, <1>3 DEF IInv_30_02, TypeOK_30_02
  <2>2. prev' \in [Elems -> Pointers] /\ next' \in [Elems -> Pointers] /\ {first', last'} \subseteq Pointers
    BY <1>1, <1>2, <1>a DEF IInv_30_02, TypeOK_30_02, Pointers
  <2>3. used' \in 0..MaxElems /\ freed' \subseteq 1..used'
    BY <1>1, <1>2 DEF IInv_30_02, TypeOK_30_02, Elems, TreeConstants, n
  <2> QED BY <1>2, <2>1, <2>2, <2>3 DEF IInv_30_02, TypeOK_30_02
<1>5. CallSound'
  BY <1>2, <1>3, SMTT(60) DEF TreeConstants, IInv_30_02, TypeOK_30_02, CallSound
<1>6. WalkSound' /\ MutexGivenBack'
  BY <1>2, <1>3 DEF IInv_30_02, TypeOK_30_02, TreeSound, WalkSound, MutexGivenBack, AddLast, AddAfter
<1>7. \A k, m \in Live' : key'[k] = key'[m] => k = m
  BY <1>1, <1>2, <1>3 DEF IInv_30_02, TypeOK_30_02, TreeSound, WellLinked
<1>8. IsLeast(first', Live') /\ IsGreatest(last', Live')
  <2>1. IsGreatest(n, Live')
    BY <1>1 DEF IsGreatest
  <2>2. CASE Live = {}
    BY <1>1, <1>2, <1>a, <2>1, <2>2 DEF IsLeast
  <2>3. CASE Live # {}
    BY <1>1, <1>2, <1>a, <2>1, <2>3 DEF IsLeast, IInv_30_02, TreeSound, WellLinked
  <2> QED BY <2>2, <2>3
<1>9. \A m \in Live' : IsLeast(next'[m], {k \in Live' : k > m}) /\ IsGreatest(prev'[m], {k \in Live' : k < m})
  <2> TAKE m \in Live'
  <2>1. IsLeast(next'[m], {k \in Live' : k > m})
    <3>1. CASE m = n
      <4>1. {k \in Live' : k > m} = {}
        BY <1>1, <1>b, <3>1, Zenon
      <4>2. next'[m] = Null
        BY <1>1, <1>2, <1>a, <3>1 DEF IInv_30_02, TypeOK_30_02
      <4> QED BY <4>1, <4>2 DEF IsLeast
    <3>2. CASE m = last /\ m # n
      <4>1. {k \in Live' : k > m} = {n}
        <5>1. m \in Live /\ \A k \in Live : ~(k > m)
          BY <1>1, <1>a, <1>b, <3>2
        <5> QED BY <1>1, <1>b, <5>1, Zenon
      <4>2. next'[m] = n
        BY <1>1, <1>2, <1>a, <3>2 DEF IInv_30_02, TypeOK_30_02, TreeConstants
      <4> QED BY <1>1, <4>1, <4>2 DEF IsLeast
    <3>3. CASE m # last /\ m # n
      <4>1. m \in Live /\ next'[m] = next[m] /\ last \in Live /\ last > m
        BY <1>1, <1>2, <1>a, <3>3 DEF IInv_30_02, TypeOK_30_02
      <4>2. IsLeast(next[m], {k \in Live : k > m})
        BY <4>1, Zenon DEF IInv_30_02, TreeSound, WellLinked
      <4>3. next[m] \in Live /\ next[m] > m /\ \A k \in Live : k > m => next[m] <= k
        BY <4>1, <4>2 DEF IsLeast
      <4>4. next[m] <= n
        BY <1>b, <4>3
      <4> QED BY <1>1, <4>1, <4>3, <4>4 DEF IsLeast
    <3> QED BY <3>1, <3>2, <3>3
  <2>2. IsGreatest(prev'[m], {k \in Live' : k < m})
    <3>1. CASE m = n
      <4>1. {k \in Live' : k < m} = Live
        BY <1>1, <1>b, <3>1, Zenon
      <4>2. prev'[m] = last
        BY <1>1, <1>2, <1>a, <3>1 DEF IInv_30_02, TypeOK_30_02
      <4> QED BY <4>1, <4>2 DEF IInv_30_02, TreeSound, WellLinked
    <3>2. CASE m # n
      <4>1. m \in Live /\ prev'[m] = prev[m]
        BY <1>1, <1>2, <3>2 DEF IInv_30_02, TypeOK_30_02
      <4>2. {k \in Live' : k < m} = {k \in Live : k < m}
        BY <1>1, <4>1
      <4> QED BY <4>1, <4>2, Zenon DEF IInv_30_02, TreeSound, WellLinked
    <3> QED BY <3>1, <3>2
  <2> QED BY <2>1, <2>2
<1> QED BY <1>4, <1>5, <1>6, <1>7, <1>8, <1>9 DEF IInv_30_02, TreeSound, WellLinked

\* tree_del() takes an element out of the order of the others.
LEMMA DelFoundInv == ASSUME TreeConstants, IInv_30_02, NEW t \in Callers, DelFound(t) PROVE IInv_30_02'
<1> DEFINE e == elem[t]
           p == prev[e]
           n == next[e]
<1>1. /\ e \in Live /\ key[e] = call[t][2] /\ root_mutex = t /\ at[t] = "walk" /\ call[t][1] = "del"
      /\ Live \subseteq Elems /\ Elems \subseteq Nat /\ Null \notin Live /\ Null \notin Elems
  BY DEF TreeConstants, IInv_30_02, TypeOK_30_02, TreeSound, WalkSound, Live, Elems, DelFound, DelWith
<1>2. /\ first' = IF p = Null THEN n ELSE first
      /\ last' = IF n = Null THEN p ELSE last
      /\ prev' = IF n = Null THEN prev ELSE [prev EXCEPT ![n] = p]
      /\ next' = IF p = Null THEN next ELSE [next EXCEPT ![p] = n]
      /\ freed' = freed \cup {e}
      /\ elem' = [elem EXCEPT ![t] = IF p = Null THEN Null ELSE n]
      /\ at' = [at EXCEPT ![t] = IF p = Null THEN "unlock" ELSE "walk"]
      /\ reply' = [reply EXCEPT ![t] = Ok]
      /\ UNCHANGED <<key, used, root_mutex, call>>
  BY <1>1 DEF DelFound, DelWith, After, Moves, Reply
<1>3. Live' = Live \ {e}
  BY <1>2 DEF Live
<1>4. IsLeast(n, {m \in Live : m > e}) /\ IsGreatest(p, {m \in Live : m < e})
  BY <1>1, Zenon DEF IInv_30_02, TreeSound, WellLinked
<1>5. /\ n \in Live \cup {Null} /\ p \in Live \cup {Null} /\ e \in Nat
      /\ n # Null => n > e
      /\ p # Null => p < e
      /\ \A m \in Live : m > e => n # Null /\ n <= m
      /\ \A m \in Live : m < e => p # Null /\ m <= p
  BY <1>1, <1>4, Zenon DEF IsLeast, IsGreatest
<1>6. \A m, k \in Live : key[m] = key[k] => m = k
  BY SMTT(60) DEF IInv_30_02, TreeSound, WellLinked
<1>7. TypeOK_30_02'
  <2>1. e \in Elems /\ n \in Pointers /\ p \in Pointers /\ Null \in Pointers /\ e \in 1..used
    BY <1>1, <1>5 DEF Pointers, Live
  <2> HIDE DEF e, n, p
  <2>2. {first', last'} \subseteq Pointers /\ prev' \in [Elems -> Pointers] /\ next' \in [Elems -> Pointers]
    BY <1>1, <1>2, <1>5, <2>1, Zenon DEF IInv_30_02, TypeOK_30_02
  <2>3. elem' \in [Callers -> Pointers] /\ at' \in [Callers -> {"idle", "lock", "walk", "unlock"}]
    BY <1>2, <2>1 DEF IInv_30_02, TypeOK_30_02
  <2>4. freed' \subseteq 1..used'
    BY <1>2, <2>1, SMTT(60) DEF IInv_30_02, TypeOK_30_02
  <2> QED BY <1>2, <2>2, <2>3, <2>4, SMTT(60) DEF IInv_30_02, TypeOK_30_02
<1>8. CallSound'
  BY <1>1, <1>2 DEF TreeConstants, IInv_30_02, TypeOK_30_02, CallSound
<1>9. WalkSound'
  <2>1. \A m \in Live' : key'[m] # call'[t][2]
    BY <1>1, <1>2, <1>3, <1>6, SMTT(60)
  <2>2. elem'[t] \in Live' \cup {Null}
    BY <1>1, <1>2, <1>3, <1>5, SMTT(60) DEF IInv_30_02, TypeOK_30_02
  <2>3. \A u \in Callers \ {t} : at[u] \notin {"walk", "unlock"} /\ at'[u] = at[u]
    BY <1>1, <1>2, SMTT(60) DEF IInv_30_02, TreeSound, WalkSound, TypeOK_30_02
  <2>4. reply'[t] = Ok
    BY <1>2, SMTT(60) DEF IInv_30_02, TypeOK_30_02
  <2> QED BY <1>1, <1>2, <2>1, <2>2, <2>3, <2>4 DEF WalkSound
<1>10. MutexGivenBack'
  BY <1>1, <1>2 DEF IInv_30_02, TypeOK_30_02, TreeSound, MutexGivenBack
<1> HIDE DEF e, n, p
<1>11. IsLeast(first', Live') /\ IsGreatest(last', Live')
  <2>1. IsLeast(first, Live) /\ IsGreatest(last, Live)
    BY DEF IInv_30_02, TreeSound, WellLinked
  <2>2. /\ first \in Live /\ \A m \in Live : first <= m
        /\ last \in Live /\ \A m \in Live : m <= last
    BY <1>1, <2>1 DEF IsLeast, IsGreatest
  <2>3. \A m \in Live' : m \in Nat /\ m # e /\ (m > e \/ m < e)
    BY <1>1, <1>3, <1>5
  <2>4. CASE p = Null
    <3>1. \A m \in Live' : m > e /\ n # Null /\ n <= m
      BY <1>3, <1>5, <2>3, <2>4
    <3>2. IsLeast(n, Live')
      BY <1>1, <1>3, <1>5, <3>1 DEF IsLeast
    <3> QED
      <4>1. CASE n = Null
        BY <1>2, <2>4, <3>1, <3>2, <4>1, SMTT(60) DEF IsLeast, IsGreatest
      <4>2. CASE n # Null
        BY <1>1, <1>2, <1>3, <1>5, <2>2, <2>4, <3>2, <4>2 DEF IsGreatest
      <4> QED BY <4>1, <4>2
  <2>5. CASE p # Null
    <3>1. IsLeast(first', Live')
      BY <1>1, <1>2, <1>3, <1>5, <2>2, <2>5 DEF IsLeast
    <3>2. CASE n = Null
      <4>1. \A m \in Live' : m <= p
        BY <1>3, <1>5, <2>3, <3>2
      <4> QED BY <1>2, <1>3, <1>5, <2>5, <3>1, <3>2, <4>1 DEF IsGreatest
    <3>3. CASE n # Null
      BY <1>1, <1>2, <1>3, <1>5, <2>2, <3>1, <3>3 DEF IsGreatest
    <3> QED BY <3>2, <3>3
  <2> QED BY <2>4, <2>5
<1>12. ASSUME NEW m \in Live' PROVE IsLeast(next'[m], {k \in Live' : k > m})
  <2>1. m \in Live /\ m # e /\ m \in Nat /\ IsLeast(next[m], {k \in Live : k > m})
    BY <1>1, <1>3, Zenon DEF IInv_30_02, TreeSound, WellLinked
  <2>2. CASE m = p
    <3>1. next'[m] = n
      BY <1>1, <1>2, <1>5, <2>1, <2>2 DEF IInv_30_02, TypeOK_30_02
    <3>2. ASSUME NEW k \in Live' PROVE k > m <=> k > e
      <4>1. k \in Live /\ k \in Nat /\ k # e /\ m \in Nat /\ e \in Nat /\ m < e
        BY <1>1, <1>3, <1>5, <2>1, <2>2, Zenon
      <4>2. k < e => k <= m
        BY <1>1, <1>5, <2>2, <4>1
      <4> QED BY <4>1, <4>2
    <3>3. {k \in Live' : k > m} = {k \in Live : k > e}
      BY <1>3, <1>5, <3>2
    <3> QED BY <1>4, <3>1, <3>3
  <2>3. CASE m # p
    <3>1. next'[m] = next[m]
      BY <1>1, <1>2, <1>5, <2>1, <2>3 DEF IInv_30_02, TypeOK_30_02
    <3>2. next[m] # e
      <4> SUFFICES ASSUME next[m] = e PROVE FALSE
        OBVIOUS
      <4>1. e > m /\ \A k \in Live : k > m => e <= k
        BY <1>1, <2>1 DEF IsLeast
      <4>2. p # Null /\ m <= p /\ p \in Live /\ p < e
        BY <1>1, <1>5, <2>1, <4>1, SMTT(60)
      <4>3. p \in Nat /\ m \in Nat /\ e \in Nat /\ p > m
        BY <1>1, <1>5, <2>1, <2>3, <4>2
      <4> QED BY <4>1, <4>2, <4>3
    <3>3. CASE {k \in Live : k > m} = {}
      BY <1>3, <2>1, <3>1, <3>3 DEF IsLeast
    <3>4. CASE {k \in Live : k > m} # {}
      <4>1. next[m] \in Live /\ next[m] > m /\ \A k \in Live : k > m => next[m] <= k
        BY <2>1, <3>4 DEF IsLeast
      <4> QED BY <1>3, <3>1, <3>2, <4>1 DEF IsLeast
    <3> QED BY <3>3, <3>4, SMTT(60)
  <2> QED BY <2>2, <2>3
<1>13. ASSUME NEW m \in Live' PROVE IsGreatest(prev'[m], {k \in Live' : k < m})
  <2>1. m \in Live /\ m # e /\ m \in Nat /\ IsGreatest(prev[m], {k \in Live : k < m})
    BY <1>1, <1>3, Zenon DEF IInv_30_02, TreeSound, WellLinked
  <2>2. CASE m = n
    <3>1. prev'[m] = p
      BY <1>1, <1>2, <1>5, <2>1, <2>2 DEF IInv_30_02, TypeOK_30_02
    <3>2. ASSUME NEW k \in Live' PROVE k < m <=> k < e
      <4>1. k \in Live /\ k \in Nat /\ k # e /\ m \in Nat /\ e \in Nat /\ m > e
        BY <1>1, <1>3, <1>5, <2>1, <2>2, Zenon
      <4>2. k > e => k >= m
        BY <1>1, <1>5, <2>2, <4>1
      <4> QED BY <4>1, <4>2
    <3>3. {k \in Live' : k < m} = {k \in Live : k < e}
      BY <1>3, <1>5, <3>2
    <3> QED BY <1>4, <3>1, <3>3, SMTT(60)
  <2>3. CASE m # n
    <3>1. prev'[m] = prev[m]
      BY <1>1, <1>2, <1>5, <2>1, <2>3 DEF IInv_30_02, TypeOK_30_02
    <3>2. prev[m] # e
      <4> SUFFICES ASSUME prev[m] = e PROVE FALSE
        OBVIOUS
      <4>1. e < m /\ \A k \in Live : k < m => k <= e
        BY <1>1, <2>1, SMTT(60) DEF IsGreatest
      <4>2. n # Null /\ n <= m /\ n \in Live /\ n > e
        BY <1>1, <1>5, <2>1, <4>1
      <4>3. n \in Nat /\ m \in Nat /\ e \in Nat /\ n < m
        BY <1>1, <1>5, <2>1, <2>3, <4>2
      <4> QED BY <4>1, <4>2, <4>3, SMTT(60)
    <3>3. CASE {k \in Live : k < m} = {}
      BY <1>3, <2>1, <3>1, <3>3 DEF IsGreatest
    <3>4. CASE {k \in Live : k < m} # {}
      <4>1. prev[m] \in Live /\ prev[m] < m /\ \A k \in Live : k < m => k <= prev[m]
        BY <2>1, <3>4 DEF IsGreatest
      <4> QED BY <1>3, <3>1, <3>2, <4>1 DEF IsGreatest
    <3> QED BY <3>3, <3>4, SMTT(60)
  <2> QED BY <2>2, <2>3
<1>14. \A m, k \in Live' : key'[m] = key'[k] => m = k
  BY <1>2, <1>3, <1>6
<1> QED BY <1>7, <1>8, <1>9, <1>10, <1>11, <1>12, <1>13, <1>14, Zenon DEF IInv_30_02, TreeSound, WellLinked

\* Every step keeps the invariant.
LEMMA NextInv_30_02 == TreeConstants /\ IInv_30_02 /\ [Next_30_02]_vars_30_02 => IInv_30_02'
<1> SUFFICES ASSUME TreeConstants, IInv_30_02, [Next_30_02]_vars_30_02 PROVE IInv_30_02'
  BY SMTT(60)
<1>1. CASE UNCHANGED vars_30_02
  BY <1>1 DEF vars_30_02, IInv_30_02, TypeOK_30_02, CallSound, TreeSound, WellLinked, WalkSound, MutexGivenBack,
     Live, IsLeast, IsGreatest, Passed
<1>2. ASSUME NEW t \in Callers, Call(t) \/ Step(t) PROVE IInv_30_02'
  BY <1>2, CallInv, LockInv, WalkInv, AnswerInv, AddLastInv, DelFoundInv DEF Step
<1> QED BY <1>1, <1>2 DEF Next_30_02

\* The invariant holds in every state.
LEMMA Invariance_30_02 == TreeConstants => (Spec_30_02 => []IInv_30_02)
<1> SUFFICES ASSUME TreeConstants PROVE Spec_30_02 => []IInv_30_02
  OBVIOUS
<1> QED BY InitInv_30_02, NextInv_30_02, PTL DEF Spec_30_02

\* Exercise 30-02: with any number of threads in tree_add(), tree_del() and
\* tree_look(), the list stays linked in both directions without a double
\* key, is walked only by the owner of the mutex, and the mutex is kept only
\* by a tree_add() that fails.
THEOREM TreeAlwaysSound == TreeConstants => (Spec_30_02 => []TreeSound)
<1>1. IInv_30_02 => TreeSound
  BY DEF IInv_30_02
<1> QED BY <1>1, Invariance_30_02, PTL

-----------------------------------------------------------------------------
(* The refinement of KeyMap                                                *)

\* The map gives the one live element that has the key.
LEMMA StoreValue ==
  ASSUME IInv_30_02, NEW k \in Keys
  PROVE  /\ \A n \in Live : key[n] = k => Mapping[k] = n
         /\ (\A n \in Live : key[n] # k) => Mapping[k] = Null
BY DEF IInv_30_02, TreeSound, WellLinked, Mapping

\* A step that changes neither the list nor an answer does nothing to the map.
LEMMA StoreUnchanged ==
  ASSUME UNCHANGED <<key, used, freed>>
  PROVE  Mapping' = Mapping
BY DEF Mapping, Live

\* A thread whose call is not answered yet.
LEMMA AskedOpen ==
  ASSUME IInv_30_02, NEW t \in Callers, at[t] = "walk", reply[t] = Nothing
  PROVE  /\ Asked[t] = <<call[t][1], call[t][2]>>
         /\ call[t][2] \in Keys
BY DEF IInv_30_02, CallSound, Asked

\* An answer takes the call back.
LEMMA AskedAnswered ==
  ASSUME IInv_30_02, NEW t \in Callers, NEW r, r # Nothing, reply' = [reply EXCEPT ![t] = r],
         \A u \in Callers \ {t} : call'[u] = call[u]
  PROVE  Asked' = [Asked EXCEPT ![t] = Nothing]
BY Zenon DEF IInv_30_02, TypeOK_30_02, Asked

\* The empty list is the empty map.
LEMMA InitRefines == Init_30_02 => Map!Init
BY DEF Init_30_02, Map!Init, Mapping, Live, Asked

\* A function call is the request of the map's caller.
LEMMA CallRefines == ASSUME TreeConstants, IInv_30_02, NEW t \in Callers, Call(t) PROVE Map!Ask(t)
<1>1. PICK op \in Ops, k \in Keys : call' = [call EXCEPT ![t] = <<op, k>>]
  BY Zenon DEF Call
<1>2. Mapping' = Mapping
  BY StoreUnchanged DEF Call, list
<1>3. reply' = [reply EXCEPT ![t] = Nothing] /\ Asked[t] = Nothing
  BY DEF Call, Reply, Asked, IInv_30_02, CallSound
<1>4. Asked' = [Asked EXCEPT ![t] = <<op, k>>]
  BY <1>1, <1>3, Zenon DEF Asked, IInv_30_02, TypeOK_30_02
<1>5. op \in Map!Ops
  BY DEF Ops, Map!Ops
<1> QED BY <1>2, <1>3, <1>4, <1>5, Zenon DEF Map!Ask

\* pthread_mutex_lock(), a step of the walk and pthread_mutex_unlock() are
\* nothing to the map.
LEMMA SilentRefines ==
  ASSUME TreeConstants, IInv_30_02, NEW t \in Callers,
         LockRoot(t) \/ Walk(t) \/ UnlockRoot(t) \/ (DelEnd(t) /\ reply[t] # Nothing)
  PROVE  UNCHANGED <<Mapping, Asked, reply>>
<1>1. Mapping' = Mapping
  BY StoreUnchanged, Zenon DEF LockRoot, LockRootAs, Walk, UnlockRoot, UnlockRootTo, DelEnd, list
<1>2. reply' = reply
  BY DEF LockRoot, LockRootAs, Walk, UnlockRoot, UnlockRootTo, DelEnd, Reply, IInv_30_02, TreeSound, WalkSound, TypeOK_30_02
<1>3. Asked' = Asked
  <2>1. CASE LockRoot(t) \/ Walk(t) \/ DelEnd(t)
    BY <1>2, <2>1, SMTT(60) DEF LockRoot, LockRootAs, Walk, DelEnd, Asked
  <2>2. CASE UnlockRoot(t)
    BY <1>2, <2>2 DEF UnlockRoot, UnlockRootTo, Return, Asked, IInv_30_02, TypeOK_30_02, CallSound
  <2> QED BY <2>1, <2>2, SMTT(60)
<1> QED BY <1>1, <1>2, <1>3, SMTT(60)

\* tree_add() fails or puts a new element into the map.
LEMMA AddRefines ==
  ASSUME TreeConstants, IInv_30_02, NEW t \in Callers, AddExists(t) \/ AddNoMemory(t) \/ AddLast(t)
  PROVE  Map!Answer(t)
<1> DEFINE k == call[t][2]
<1>1. at[t] = "walk" /\ call[t][1] = "add" /\ reply[t] = Nothing
  BY DEF AddExists, AddNoMemory, AddLast, AddAfter, IInv_30_02, TreeSound, WalkSound
<1>2. Asked[t] = <<"add", k>> /\ k \in Keys
  BY <1>1, AskedOpen, SMTT(60)
<1>3. CASE AddExists(t) \/ AddNoMemory(t)
  <2>1. Mapping' = Mapping
    BY <1>3, StoreUnchanged, SMTT(60) DEF AddExists, AddNoMemory, list
  <2>2. reply' = [reply EXCEPT ![t] = Fail]
    BY <1>3 DEF AddExists, AddNoMemory, Reply
  <2>3. Asked' = [Asked EXCEPT ![t] = Nothing]
    <3>1. \A u \in Callers \ {t} : call'[u] = call[u]
      BY <1>3 DEF AddExists, AddNoMemory, Return, IInv_30_02, TypeOK_30_02
    <3> QED BY <2>2, <3>1, AskedAnswered, ZenonT(30) DEF TreeConstants
  <2> QED BY <1>2, <2>1, <2>2, <2>3, SMTT(60) DEF Map!Answer, Map!Add
<1>4. CASE AddLast(t)
  <2> DEFINE n == used + 1
  <2>1. /\ n \in Elems /\ n \notin Live /\ Live' = Live \cup {n}
        /\ key' = [key EXCEPT ![n] = k] /\ Live \subseteq Elems
    <3>1. /\ used \in Nat /\ MaxElems \in Nat /\ used < MaxElems /\ used <= MaxElems
          /\ freed \subseteq 1..used
      BY <1>4, SMTT(30) DEF TreeConstants, IInv_30_02, TypeOK_30_02, AddLast, AddAfter
    <3>2. used' = n /\ freed' = freed /\ key' = [key EXCEPT ![n] = k]
      BY <1>4 DEF AddLast, AddAfter
    <3>3. /\ n \in 1..MaxElems /\ n \notin 1..used /\ 1..n = (1..used) \cup {n}
          /\ 1..used \subseteq 1..MaxElems
      BY <3>1
    <3>4. n \notin freed
      BY <3>1, <3>3
    <3> HIDE DEF n, k
    <3> QED BY <3>2, <3>3, <3>4, SMTT(30) DEF Live, Elems
  <2>2. reply' = [reply EXCEPT ![t] = Ok] /\ call' = call
    BY <1>4 DEF AddLast, AddAfter, Reply
  <2>3. Asked' = [Asked EXCEPT ![t] = Nothing]
    BY <2>2, AskedAnswered, ZenonT(30) DEF TreeConstants
  <2>4. \A m \in Live : key[m] # k
    BY <1>4, SMTT(30) DEF IInv_30_02, TreeSound, WalkSound, Passed, AddLast, AddAfter
  <2>5. Mapping[k] = Null
    BY <1>2, <2>4, StoreValue
  <2>6. Mapping' = [Mapping EXCEPT ![k] = n]
    <3> HIDE DEF n, k
    <3>1. \A m \in Live : key'[m] = key[m]
      BY <2>1 DEF IInv_30_02, TypeOK_30_02
    <3>2. key'[n] = k
      BY <2>1 DEF IInv_30_02, TypeOK_30_02
    <3>3. ASSUME NEW j \in Keys PROVE Mapping'[j] = IF j = k THEN n ELSE Mapping[j]
      <4>1. CASE j = k
        BY <2>1, <2>4, <3>1, <3>2, <4>1 DEF Mapping
      <4>2. CASE j # k
        <5>1. \A m \in Live' : key'[m] = j <=> m \in Live /\ key[m] = j
          BY <2>1, <3>1, <3>2, <4>2
        <5>2. CASE \E m \in Live : key[m] = j
          <6>1. PICK m \in Live : key[m] = j
            BY <5>2
          <6>2. Mapping[j] = m
            BY <6>1, StoreValue, SMTT(60)
          <6>3. \A l \in Live' : key'[l] = j => l = m
            BY <5>1, <6>1 DEF IInv_30_02, TreeSound, WellLinked
          <6>4. m \in Live' /\ key'[m] = j
            BY <2>1, <3>1, <6>1
          <6> QED BY <4>2, <6>2, <6>3, <6>4, Zenon DEF Mapping
        <5>3. CASE ~\E m \in Live : key[m] = j
          BY <4>2, <5>1, <5>3 DEF Mapping
        <5> QED BY <5>2, <5>3
      <4> QED BY <4>1, <4>2
    <3> QED BY <3>3, Zenon DEF Mapping
  <2> QED BY <1>2, <2>1, <2>2, <2>3, <2>5, <2>6, Zenon DEF Map!Answer, Map!Add
<1> QED BY <1>3, <1>4, SMTT(60)

\* tree_look() answers what the map has.
LEMMA LookRefines == ASSUME TreeConstants, IInv_30_02, NEW t \in Callers, LookEnd(t) PROVE Map!Answer(t)
<1> DEFINE k == call[t][2]
<1>1. at[t] = "walk" /\ call[t][1] = "look" /\ reply[t] = Nothing
  BY DEF LookEnd, IInv_30_02, TreeSound, WalkSound
<1>2. Asked[t] = <<"look", k>> /\ k \in Keys
  BY <1>1, AskedOpen, SMTT(60)
<1>3. Mapping' = Mapping
  BY StoreUnchanged DEF LookEnd, list
<1>4. reply' = [reply EXCEPT ![t] = elem[t]] /\ call' = call
  BY DEF LookEnd, Reply
<1>5. elem[t] # Nothing
  BY DEF TreeConstants, IInv_30_02, TypeOK_30_02
<1>6. Asked' = [Asked EXCEPT ![t] = Nothing]
  BY <1>4, <1>5, AskedAnswered, Zenon
<1>7. Mapping[k] = elem[t]
  <2>1. CASE elem[t] = Null
    <3>1. \A n \in Live : key[n] # k
      BY <2>1, SMTT(30) DEF IInv_30_02, TreeSound, WalkSound, Passed, LookEnd
    <3> QED BY <1>2, <2>1, <3>1, StoreValue, SMTT(60)
  <2>2. CASE elem[t] # Null
    <3>1. elem[t] \in Live /\ key[elem[t]] = k
      BY <2>2 DEF IInv_30_02, TreeSound, WalkSound, LookEnd
    <3> QED BY <1>2, <3>1, StoreValue, SMTT(60)
  <2> QED BY <2>1, <2>2, SMTT(30)
<1> QED BY <1>2, <1>3, <1>4, <1>6, <1>7, Zenon DEF Map!Answer, Map!Look

\* tree_del() takes the key out of the map when it meets the element, and
\* fails at the end of the list.
LEMMA DelRefines ==
  ASSUME TreeConstants, IInv_30_02, NEW t \in Callers, DelFound(t) \/ (DelEnd(t) /\ reply[t] = Nothing)
  PROVE  Map!Answer(t)
<1> DEFINE k == call[t][2]
<1>1. at[t] = "walk" /\ call[t][1] = "del" /\ reply[t] = Nothing
  BY DEF DelFound, DelWith, DelEnd, IInv_30_02, TreeSound, WalkSound, Passed
<1>2. Asked[t] = <<"del", k>> /\ k \in Keys
  BY <1>1, AskedOpen, SMTT(60)
<1>3. CASE DelEnd(t) /\ reply[t] = Nothing
  <2>1. Mapping' = Mapping
    BY <1>3, StoreUnchanged, ZenonT(60) DEF DelEnd, list
  <2>2. call' = call
    BY <1>3, Zenon DEF DelEnd
  <2>3. Ok # Nothing
    BY DEF TreeConstants
  <2>4. reply' = [reply EXCEPT ![t] = Fail]
    BY <1>3, <2>3, Zenon DEF DelEnd, Reply
  <2>5. Asked' = [Asked EXCEPT ![t] = Nothing]
    BY <2>2, <2>4, AskedAnswered, Zenon DEF TreeConstants
  <2>6. \A n \in Live : key[n] # k
    BY <1>3, ZenonT(60) DEF IInv_30_02, TreeSound, WalkSound, Passed, DelEnd
  <2>7. Mapping[k] = Null
    BY <1>2, <2>6, StoreValue, SMTT(60)
  <2> QED BY <1>2, <2>1, <2>4, <2>5, <2>7, SMTT(60) DEF Map!Answer, Map!Del
<1>4. CASE DelFound(t)
  <2> DEFINE e == elem[t]
  <2>1. /\ e \in Live /\ key[e] = k /\ Live' = Live \ {e} /\ key' = key
        /\ reply' = [reply EXCEPT ![t] = Ok] /\ call' = call
    BY <1>4 DEF DelFound, DelWith, IInv_30_02, TreeSound, WalkSound, Live, Reply
  <2>2. Asked' = [Asked EXCEPT ![t] = Nothing]
    BY <2>1, AskedAnswered, ZenonT(30) DEF TreeConstants
  <2>3. Mapping[k] = e /\ e # Null
    BY <1>2, <1>4, <2>1, StoreValue DEF DelFound, DelWith
  <2>4. Mapping' = [Mapping EXCEPT ![k] = Null]
    <3> HIDE DEF e, k
    <3>1. \A m \in Live : key[m] = k => m = e
      BY <2>1 DEF IInv_30_02, TreeSound, WellLinked
    <3>2. ASSUME NEW j \in Keys PROVE Mapping'[j] = IF j = k THEN Null ELSE Mapping[j]
      <4>1. CASE j = k
        BY <2>1, <3>1, <4>1 DEF Mapping
      <4>2. CASE j # k
        <5>1. \A m : m \in Live' /\ key'[m] = j <=> m \in Live /\ key[m] = j
          BY <2>1, <4>2
        <5>2. CASE \E m \in Live : key[m] = j
          <6>1. PICK m \in Live : key[m] = j
            BY <5>2
          <6>2. Mapping[j] = m
            BY <6>1, StoreValue
          <6>3. \A l \in Live' : key'[l] = j => l = m
            BY <5>1, <6>1 DEF IInv_30_02, TreeSound, WellLinked
          <6>4. m \in Live' /\ key'[m] = j
            BY <5>1, <6>1
          <6> QED BY <4>2, <6>2, <6>3, <6>4, Zenon DEF Mapping
        <5>3. CASE ~\E m \in Live : key[m] = j
          BY <4>2, <5>1, <5>3 DEF Mapping
        <5> QED BY <5>2, <5>3
      <4> QED BY <4>1, <4>2
    <3> QED BY <3>2, Zenon DEF Mapping
  <2> QED BY <1>2, <2>1, <2>2, <2>3, <2>4, ZenonT(30) DEF Map!Answer, Map!Del
<1> QED BY <1>3, <1>4

\* Every step is a step of the map or nothing to it.
LEMMA NextRefines == TreeConstants /\ IInv_30_02 /\ [Next_30_02]_vars_30_02 => [Map!Next]_Map!vars
<1> SUFFICES ASSUME TreeConstants, IInv_30_02, [Next_30_02]_vars_30_02 PROVE Map!Next \/ UNCHANGED <<Mapping, Asked, reply>>
  BY DEF Map!vars
<1>1. CASE UNCHANGED vars_30_02
  BY <1>1 DEF vars_30_02, Mapping, Live, Asked
<1>2. ASSUME NEW t \in Callers, Call(t) \/ Step(t)
      PROVE  Map!Ask(t) \/ Map!Answer(t) \/ UNCHANGED <<Mapping, Asked, reply>>
  BY <1>2, CallRefines, SilentRefines, AddRefines, LookRefines, DelRefines DEF Step
<1> QED BY <1>1, <1>2 DEF Next_30_02, Map!Next

\* Exercise 30-02: every call of tree_add(), tree_del() or tree_look() takes
\* effect at one moment between call and return, on one map from keys to
\* values, and its answer is the one that this map gives.
THEOREM TreeIsMap == TreeConstants => (Spec_30_02 => ImplementsMap)
<1> SUFFICES ASSUME TreeConstants PROVE Spec_30_02 => ImplementsMap
  OBVIOUS
<1>1. Spec_30_02 => []IInv_30_02
  BY Invariance_30_02
<1> QED BY <1>1, InitRefines, NextRefines, PTL DEF Spec_30_02, ImplementsMap, Map!Spec

-----------------------------------------------------------------------------
(* The echo servers                                                        *)

CONSTANTS Clients, Single, Chunks, Room, Bounded, MAX_CHILDREN, MaxForkFails, None
VARIABLES cl, rd, sent, up, down, got, spc, cfd, child, csem, chld, fails

INSTANCE EchoServer

\* The parts of a stream are somewhere; the child of a stream at its end has
\* sent everything back unless its client is dead, and its client reads the
\* end after all of it.
StreamOK(st, r, s, u, d, g, ch) ==
  /\ g + d + u = s
  /\ st = "new" => ch = "none"
  /\ ch \in {"zombie", "reaped"} => r = "gone" \/ (u = 0 /\ st # "open")
  /\ r = "gone" => st = "killed"
  /\ r = "end" => d = 0 /\ ch \notin {"none", "run"}

\* The inductive invariant for EchoExact.
EchoInv ==
  /\ cl \in [Clients -> {"new", "open", "shut", "killed"}]
  /\ rd \in [Clients -> {"none", "read", "end", "gone"}]
  /\ sent \in [Clients -> Nat] /\ up \in [Clients -> Nat]
  /\ down \in [Clients -> Nat] /\ got \in [Clients -> Nat]
  /\ child \in [Clients -> {"none", "run", "zombie", "reaped", "refused"}]
  /\ spc \in {"wait", "fork"} => cfd \in Clients /\ child[cfd] = "none" /\ cl[cfd] # "new"
  /\ \A c \in Clients : StreamOK(cl[c], rd[c], sent[c], up[c], down[c], got[c], child[c])

\* The clients.
LEMMA EchoClientInv ==
  ASSUME EchoInv, NEW c \in Clients, Conversation(c)
  PROVE  EchoInv'
<1>1. UNCHANGED server
  BY DEF Conversation, Connect, Send, Shut, ClientRead, Die
<1>2. CASE Connect(c)
  BY <1>1, <1>2 DEF Connect, server, EchoInv, StreamOK
<1>3. CASE Send(c)
  BY <1>1, <1>3 DEF Send, server, EchoInv, StreamOK
<1>4. CASE Shut(c)
  BY <1>1, <1>4 DEF Shut, server, EchoInv, StreamOK
<1>5. CASE ClientRead(c)
  <2>1. CASE down[c] > 0 /\ down' = [down EXCEPT ![c] = @ - 1] /\ got' = [got EXCEPT ![c] = @ + 1]
             /\ rd' = rd
    BY <1>1, <1>5, <2>1 DEF ClientRead, server, EchoInv, StreamOK
  <2>2. CASE /\ down[c] = 0 /\ child[c] \notin {"none", "run"}
             /\ rd' = [rd EXCEPT ![c] = "end"] /\ UNCHANGED <<down, got>>
    BY <1>1, <1>5, <2>2 DEF ClientRead, server, EchoInv, StreamOK
  <2> QED BY <1>5, <2>1, <2>2 DEF ClientRead
<1>6. CASE Die(c)
  BY <1>1, <1>6 DEF Die, server, EchoInv, StreamOK
<1> QED BY <1>2, <1>3, <1>4, <1>5, <1>6 DEF Conversation

\* A child echoes a part or ends.
LEMMA EchoChildInv ==
  ASSUME EchoInv, NEW c \in Clients, handleRequest(c)
  PROVE  EchoInv'
BY DEF handleRequest, EchoInv, StreamOK

\* main() of the server.
LEMMA EchoServerInv ==
  ASSUME EchoInv, Server
  PROVE  EchoInv'
<1>1. Concurrent \/ sem_wait
  BY DEF Server, is_echo_sv, is_echo_v2_sv, is_echo_sv_60_1, is_echo_sv_60_2
<1>2. CASE \E c \in Clients : Accept(c)
  BY <1>2 DEF Accept, client, EchoInv
<1>3. CASE sem_wait
  BY <1>3 DEF sem_wait, client, EchoInv
<1>4. ASSUME NEW to \in {"run", "refused"}, ForkTo(to)
      PROVE  EchoInv'
  BY <1>4 DEF ForkTo, client, EchoInv, StreamOK
<1> QED BY <1>1, <1>2, <1>3, <1>4 DEF Concurrent, Fork, ForkFails

\* The handlers of signals.
LEMMA EchoSignalInv ==
  ASSUME EchoInv, grimReaper \/ term_handle
  PROVE  EchoInv'
<1>1. CASE grimReaper
  BY <1>1, SMTT(30) DEF grimReaper, Reaped, Zombies, client, EchoInv, StreamOK
<1>2. CASE term_handle
  BY <1>2 DEF term_handle, client, EchoInv, StreamOK
<1> QED BY <1>1, <1>2, SMTT(30)

\* The echo servers, with any clients, data and sizes of sockets, whichever
\* forks fail and whichever clients die: what a client prints, what is on the
\* way and what the server has not read is what it sent, and nothing is
\* missing at the end of file unless its connection was refused.
THEOREM EchoAlwaysExact == Spec => []EchoExact
<1>1. Init => EchoInv
  BY DEF Init, EchoInv, StreamOK
<1>2. EchoInv /\ [Next]_vars => EchoInv'
  <2> SUFFICES ASSUME EchoInv, [Next]_vars
               PROVE  EchoInv'
    OBVIOUS
  <2>1. CASE UNCHANGED vars
    BY <2>1 DEF vars, EchoInv
  <2>2. CASE \E c \in Clients : is_echo_cl(c) \/ is_echo_cl_61_1(c) \/ handleRequest(c)
    BY <2>2, EchoClientInv, EchoChildInv DEF is_echo_cl, is_echo_cl_61_1
  <2>3. CASE Server \/ grimReaper \/ term_handle
    BY <2>3, EchoServerInv, EchoSignalInv, SMTT(30)
  <2> QED BY <2>1, <2>2, <2>3 DEF Next
<1>3. EchoInv => EchoExact
  <2> SUFFICES ASSUME EchoInv, NEW c \in Clients
               PROVE  /\ got[c] + down[c] + up[c] = sent[c]
                      /\ rd[c] = "end" /\ child[c] # "refused" => got[c] = sent[c]
    BY DEF EchoExact
  <2>1. /\ got[c] \in Nat /\ down[c] \in Nat /\ up[c] \in Nat
        /\ StreamOK(cl[c], rd[c], sent[c], up[c], down[c], got[c], child[c])
        /\ child[c] \in {"none", "run", "zombie", "reaped", "refused"}
    BY DEF EchoInv
  <2> QED BY <2>1, SMTT(30) DEF StreamOK
<1> QED BY <1>1, <1>2, <1>3, PTL DEF Spec

-----------------------------------------------------------------------------
(* The name server                                                         *)

CONSTANTS Names, Values, Users, User, Backlog
VARIABLES store, served, pfd, queue, cpc, req, res

Name == INSTANCE NameServer

\* The clients have users and the sign for nothing is no client.
NameConstants == User \in [Clients -> Users] /\ None \notin Clients

\* The inductive invariant: the server works for a client, and a request is
\* one, so that the store always holds pairs.
NameInv ==
  /\ store \in [Names -> [value : Values, own : Users] \cup {None}]
  /\ queue \in Seq(Clients)
  /\ spc \in {"read", "write"} => pfd \in Clients
  /\ req \in [Clients -> Name!Requests \cup {None}]

\* A step of the server while it lives is one step of the store, or none.
StoreStep == spc' # "down" => Name!Next \/ UNCHANGED Name!vars

\* The clients.
LEMMA NameClientInv ==
  ASSUME NameInv, NEW c \in Clients,
         Name!Connect(c) \/ Name!Client(c) \/ Name!Kill(c) \/ Name!Reap(c)
  PROVE  NameInv' /\ UNCHANGED <<store, served>>
<1>1. UNCHANGED <<store, served, spc, pfd>>
  BY DEF Name!Connect, Name!Client, Name!WriteRequest, Name!ReadResponse, Name!Kill, Name!Reap, Name!server
<1>2. queue' \in Seq(Clients)
  <2>1. queue' = queue \/ queue' = Append(queue, c)
    BY DEF Name!Connect, Name!Client, Name!WriteRequest, Name!ReadResponse, Name!Kill, Name!Reap, Name!server
  <2> QED BY <2>1, SMTT(30) DEF NameInv
<1>3. req' \in [Clients -> Name!Requests \cup {None}]
  <2>1. PICK r \in Name!Requests \cup {None} : req' = req \/ req' = [req EXCEPT ![c] = r]
    <3>1. CASE Name!Connect(c)
      BY <3>1, ZenonT(30) DEF Name!Connect, Name!Requests
    <3>2. CASE Name!Client(c) \/ Name!Kill(c) \/ Name!Reap(c)
      BY <3>2 DEF Name!Client, Name!WriteRequest, Name!ReadResponse, Name!Kill, Name!Reap
    <3> QED BY <3>1, <3>2
  <2> QED BY <2>1 DEF NameInv
<1> QED BY <1>1, <1>2, <1>3, SMTT(30) DEF NameInv

\* The server executes a request of the client it works for.
LEMMA NameExecuteInv ==
  ASSUME NameConstants, NameInv, Name!Execute
  PROVE  NameInv' /\ Name!OwnerStep /\ Name!Next
<1>1. PICK c \in Clients : c = pfd /\ spc = "read" /\ req[c] # None
  BY ZenonT(30) DEF Name!Execute, Name!ExecuteAs, NameInv
<1>2. PICK u \in Users, r \in Name!Requests : u = User[c] /\ r = req[c]
  BY <1>1, SMTT(30) DEF NameConstants, NameInv
<1>3. PICK k \in Names, v \in Values : k = r.name /\ v = r.value
  BY <1>2, SMTT(30) DEF Name!Requests
<1>4. Name!Add(u, k, v) \/ Name!Get(u, k, v) \/ Name!Set(u, k, v) \/ Name!Del(u, k, v)
  BY <1>1, <1>2, <1>3, ZenonT(30) DEF Name!Execute, Name!ExecuteAs
<1>5. UNCHANGED <<cpc, req, res, pfd, queue>>
  BY DEF Name!Execute, Name!ExecuteAs, Name!client
<1>6. PICK new \in [value : Values, own : Users] \cup {None} :
        \/ store' = store
        \/ store' = [store EXCEPT ![k] = new] /\ (store[k] = None \/ store[k].own = u)
  <2>1. CASE Name!Add(u, k, v)
    BY <2>1 DEF Name!Add
  <2>2. CASE Name!Get(u, k, v)
    BY <2>2 DEF Name!Get
  <2>3. CASE Name!Set(u, k, v)
    BY <2>3 DEF Name!Set, Name!Update
  <2>4. CASE Name!Del(u, k, v)
    BY <2>4 DEF Name!Del, Name!Update
  <2> QED BY <1>4, <2>1, <2>2, <2>3, <2>4
<1>7. store' \in [Names -> [value : Values, own : Users] \cup {None}]
  BY <1>6 DEF NameInv
<1>8. NameInv'
  BY <1>1, <1>5, <1>7, SMTT(30) DEF NameInv
<1>9. Name!OwnerStep
  <2>1. \A x \in Names : store[x] # None /\ store'[x] # store[x] => store[x].own = u
    BY <1>6 DEF NameInv
  <2> QED BY <1>1, <1>2, <2>1 DEF Name!OwnerStep, NameConstants
<1>10. Name!Next
  BY <1>4 DEF Name!Next
<1> QED BY <1>8, <1>9, <1>10, SMTT(30)

\* The server accepts a connection, closes one, answers or is terminated.
LEMMA NameServerInv ==
  ASSUME NameInv, Name!Accept \/ Name!ReadEof \/ Name!WriteResponse \/ Name!term_handle
  PROVE  NameInv' /\ Name!OwnerStep /\ StoreStep
<1>1. req' = req
  BY DEF Name!Accept, Name!AcceptAt, Name!ReadEof, Name!WriteResponse, Name!WriteOut, Name!term_handle, Name!client
<1>2. CASE Name!Accept
  <2>1. /\ queue # <<>> /\ pfd' = queue[1] /\ UNCHANGED <<store, served>>
        /\ queue' = [k \in 1..(Len(queue) - 1) |-> queue[IF k < 1 THEN k ELSE k + 1]]
    BY <1>2 DEF Name!Accept, Name!AcceptAt
  <2>2. Len(queue) \in Nat /\ Len(queue) >= 1
    BY <2>1 DEF NameInv
  <2>3. pfd' \in Clients
    BY <2>1, <2>2 DEF NameInv
  <2>4. \A k \in 1..(Len(queue) - 1) : queue[IF k < 1 THEN k ELSE k + 1] \in Clients
    <3>1. \A k \in 1..(Len(queue) - 1) : (IF k < 1 THEN k ELSE k + 1) \in 1..Len(queue)
      BY <2>2
    <3> QED BY <3>1 DEF NameInv
  <2>5. queue' \in Seq(Clients)
    BY <2>1, <2>2, <2>4, SMTT(30)
  <2> QED BY <1>1, <2>1, <2>3, <2>5 DEF NameInv, Name!OwnerStep, StoreStep, Name!vars
<1>3. CASE Name!ReadEof
  BY <1>1, <1>3, SMTT(30) DEF Name!ReadEof, NameInv, Name!OwnerStep, StoreStep, Name!vars
<1>4. CASE Name!WriteResponse
  BY <1>1, <1>4, ZenonT(30) DEF Name!WriteResponse, Name!WriteOut, NameInv, Name!OwnerStep, StoreStep,
                    Name!Next, Name!Sent, Name!vars
<1>5. CASE Name!term_handle
  BY <1>1, <1>5 DEF Name!term_handle, NameInv, Name!OwnerStep, StoreStep
<1> QED BY <1>2, <1>3, <1>4, <1>5

\* The invariant, and what each step does to the store.
LEMMA NameNext ==
  ASSUME NameConstants, NameInv, [Name!ServerNext]_Name!allVars
  PROVE  NameInv' /\ Name!OwnerStep /\ StoreStep
<1>1. CASE UNCHANGED Name!allVars
  BY <1>1, SMTT(30) DEF Name!allVars, Name!server, Name!client, NameInv, Name!OwnerStep, StoreStep, Name!vars
<1>2. CASE \E c \in Clients : Name!Connect(c) \/ Name!Client(c) \/ Name!Kill(c) \/ Name!Reap(c)
  BY <1>2, NameClientInv DEF Name!OwnerStep, StoreStep, Name!vars
<1>3. CASE Name!Execute
  BY <1>3, NameExecuteInv DEF StoreStep
<1>4. CASE Name!Accept \/ Name!ReadEof \/ Name!WriteResponse \/ Name!term_handle
  BY <1>4, NameServerInv
<1> QED BY <1>1, <1>2, <1>3, <1>4, SMTT(30) DEF Name!ServerNext, Name!Server, Name!Clientele

\* 59-04, for any clients, users, names and values: "allows only the client
\* that created the name to delete it or to modify the value": a pair changes
\* or goes only by a request of its owner, or with the server.
THEOREM OnlyOwnersChange ==
  NameConstants => (Name!ServerSpec => Name!OwnerOnly)
<1> SUFFICES ASSUME NameConstants PROVE Name!ServerSpec => Name!OwnerOnly
  OBVIOUS
<1>1. Name!ServerInit => NameInv
  BY DEF Name!ServerInit, Name!Init, NameInv
<1>2. NameInv /\ [Name!ServerNext]_Name!allVars => NameInv' /\ [Name!OwnerStep]_Name!allVars
  BY NameNext
<1> QED BY <1>1, <1>2, PTL DEF Name!ServerSpec, Name!OwnerOnly

\* The clients, the connections and their failures in between, the server
\* does to its pairs what NameStore says, one request at a time and each at
\* once, until it is terminated.
THEOREM ServerKeepsStore ==
  NameConstants => (Name!ServerSpec => Name!Init /\ [][StoreStep]_Name!allVars)
<1> SUFFICES ASSUME NameConstants
             PROVE  Name!ServerSpec => Name!Init /\ [][StoreStep]_Name!allVars
  OBVIOUS
<1>1. Name!ServerInit => NameInv /\ Name!Init
  BY DEF Name!ServerInit, Name!Init, NameInv
<1>2. NameInv /\ [Name!ServerNext]_Name!allVars => NameInv' /\ [StoreStep]_Name!allVars
  BY NameNext
<1> QED BY <1>1, <1>2, PTL DEF Name!ServerSpec

-----------------------------------------------------------------------------
(* The children of the bounded echo server                                 *)

INSTANCE FiniteSetTheorems

\* The children that hold a place of the semaphore of 60-1.
Held == {c \in Clients : child[c] \in {"run", "zombie"}}

\* Forks in hand, of which there is one at most.
Forking == IF spc = "fork" THEN 1 ELSE 0

\* The inductive invariant for ChildLimit.
LimitInv ==
  /\ EchoInv /\ csem \in Nat /\ fails \in Nat
  /\ Bounded /\ spc # "dead" => csem + Cardinality(Held) + fails + Forking = MAX_CHILDREN

\* The set of children is finite before and after each step.
LEMMA HeldFinite ==
  ASSUME IsFiniteSet(Clients)
  PROVE  /\ IsFiniteSet(Held) /\ Cardinality(Held) \in Nat
         /\ IsFiniteSet(Zombies) /\ Cardinality(Zombies) \in Nat
<1>1. Held \in SUBSET Clients /\ Zombies \in SUBSET Clients
  BY DEF Held, Zombies
<1>2. IsFiniteSet(Held) /\ IsFiniteSet(Zombies)
  BY <1>1, FS_Subset
<1> QED BY <1>2, FS_CardinalityType

\* The steps that change neither the places in use nor the server.
LEMMA LimitSame ==
  ASSUME LimitInv, EchoInv', UNCHANGED <<spc, csem, fails>>, Held' = Held
  PROVE  LimitInv'
BY DEF LimitInv, Forking

\* main() of the server: a place is taken before fork(), and stays taken when
\* fork() fails.
LEMMA LimitServerInv ==
  ASSUME IsFiniteSet(Clients), LimitInv, EchoInv', Server
  PROVE  LimitInv'
<1>1. Concurrent \/ sem_wait
  BY DEF Server, is_echo_sv, is_echo_v2_sv, is_echo_sv_60_1, is_echo_sv_60_2
<1>2. IsFiniteSet(Held) /\ Cardinality(Held) \in Nat /\ csem \in Nat /\ fails \in Nat
  BY HeldFinite DEF LimitInv
<1>3. CASE \E c \in Clients : Accept(c)
  <2>1. /\ UNCHANGED <<child, csem, fails>> /\ spc = "accept"
        /\ spc' = IF Bounded THEN "wait" ELSE "fork"
    BY <1>3 DEF Accept
  <2>2. Held' = Held
    BY <2>1 DEF Held
  <2> QED BY <2>1, <2>2, SMTT(30) DEF LimitInv, Forking
<1>4. CASE sem_wait
  <2>1. /\ UNCHANGED <<child, fails>> /\ spc = "wait" /\ csem > 0 /\ csem' = csem - 1 /\ spc' = "fork"
    BY <1>4 DEF sem_wait
  <2>2. Held' = Held /\ csem' \in Nat /\ csem' + 1 = csem
    BY <1>2, <2>1 DEF Held
  <2>3. Forking = 0 /\ Forking' = 1
    BY <2>1 DEF Forking
  <2>4. \A k \in Nat : csem + k + fails + 0 = csem' + k + fails + 1
    <3>1. \A d, k, f \in Nat : (d + 1) + k + f + 0 = d + k + f + 1
      OBVIOUS
    <3> QED BY <1>2, <2>2, <3>1, ZenonT(30)
  <2>5. csem + Cardinality(Held) + fails + 0 = csem' + Cardinality(Held) + fails + 1
    BY <1>2, <2>4
  <2> QED BY <2>1, <2>2, <2>3, <2>5 DEF LimitInv
<1>5. ASSUME NEW to \in {"run", "refused"}, ForkTo(to)
      PROVE  /\ spc # "dead" /\ Forking = 1 /\ Forking' = 0 /\ csem' = csem
             /\ to = "refused" => Held' = Held
             /\ to = "run" => Cardinality(Held') = Cardinality(Held) + 1
  <2>1. PICK c \in Clients : c = cfd /\ child[c] = "none"
    BY <1>5 DEF ForkTo, LimitInv, EchoInv
  <2>2. spc = "fork" /\ spc' = "accept" /\ csem' = csem /\ child' = [child EXCEPT ![c] = to]
    BY <1>5, <2>1, SMTT(30) DEF ForkTo
  <2>3. child'[c] = to /\ \A x \in Clients \ {c} : child'[x] = child[x]
    BY <2>2 DEF LimitInv, EchoInv
  <2>4. c \notin Held
    BY <2>1, SMTT(30) DEF Held
  <2>5. to = "refused" => Held' = Held
    BY <2>1, <2>3, SMTT(30) DEF Held
  <2>6. to = "run" => Held' = Held \cup {c}
    BY <2>1, <2>3 DEF Held
  <2>7. Cardinality(Held \cup {c}) = Cardinality(Held) + 1
    BY <1>2, <2>4, FS_AddElement, ZenonT(30)
  <2> QED BY <2>2, <2>5, <2>6, <2>7, SMTT(30) DEF Forking
<1>6. CASE Fork
  <2>1. ForkTo("run") /\ fails' = fails
    BY <1>6 DEF Fork
  <2>2. /\ spc # "dead" /\ Forking = 1 /\ Forking' = 0 /\ csem' = csem
        /\ Cardinality(Held') = Cardinality(Held) + 1
    BY <1>5, <2>1
  <2>3. \A k \in Nat : csem + k + fails + 1 = csem + (k + 1) + fails + 0
    BY <1>2
  <2>4. csem + Cardinality(Held) + fails + 1 = csem + (Cardinality(Held) + 1) + fails + 0
    BY <1>2, <2>3
  <2> QED BY <2>1, <2>2, <2>4 DEF LimitInv
<1>7. CASE ForkFails
  <2>1. ForkTo("refused") /\ fails' = fails + 1 /\ fails' \in Nat
    BY <1>2, <1>7 DEF ForkFails
  <2>2. spc # "dead" /\ Forking = 1 /\ Forking' = 0 /\ csem' = csem /\ Held' = Held
    BY <1>5, <2>1
  <2>3. \A k \in Nat : csem + k + fails + 1 = csem + k + (fails + 1) + 0
    BY <1>2
  <2>4. csem + Cardinality(Held) + fails + 1 = csem + Cardinality(Held) + (fails + 1) + 0
    BY <1>2, <2>3, SMTT(30)
  <2> QED BY <2>1, <2>2, <2>4 DEF LimitInv
<1> QED BY <1>1, <1>3, <1>4, <1>6, <1>7 DEF Concurrent

\* The handler of SIGCHLD gives back a place for each child it waited for.
LEMMA LimitReapInv ==
  ASSUME IsFiniteSet(Clients), LimitInv, EchoInv', grimReaper
  PROVE  LimitInv'
<1> DEFINE Z == Zombies
<1>1. /\ IsFiniteSet(Held) /\ Cardinality(Held) \in Nat /\ csem \in Nat /\ fails \in Nat
      /\ IsFiniteSet(Z) /\ Cardinality(Z) \in Nat
  BY HeldFinite DEF LimitInv
<1>2. /\ child' = [c \in Clients |-> IF c \in Z THEN "reaped" ELSE child[c]]
      /\ csem' = IF Bounded THEN csem + Cardinality(Z) ELSE csem
      /\ UNCHANGED <<spc, fails>>
  <2>1. Reaped(Z, Cardinality(Z))
    BY DEF grimReaper
  <2> HIDE DEF Z
  <2> QED BY <2>1 DEF Reaped
<1>3. Held = Held' \cup Z /\ Held' \cap Z = {}
  BY <1>2 DEF Held, Zombies
<1>4. IsFiniteSet(Held') /\ Cardinality(Held') \in Nat
  <2>1. Held' \in SUBSET Held
    BY <1>3
  <2>2. IsFiniteSet(Held')
    BY <1>1, <2>1, FS_Subset
  <2> QED BY <2>2, FS_CardinalityType
<1> HIDE DEF Z
<1>5. PICK L : L = Held'
  OBVIOUS
<1>6. Cardinality(L \cup Z) = Cardinality(L) + Cardinality(Z) - Cardinality(L \cap Z)
  BY <1>1, <1>4, <1>5, FS_Union
<1>7. Cardinality(L \cap Z) = 0
  BY <1>3, <1>5, FS_EmptySet, SMTT(30)
<1>8. Cardinality(Held) = Cardinality(L) + Cardinality(Z)
  BY <1>1, <1>3, <1>4, <1>5, <1>6, <1>7, SMTT(30)
<1>9. \A k, z \in Nat : csem + (k + z) + fails + Forking = (csem + z) + k + fails + Forking
  BY <1>1 DEF Forking
<1>10. csem + Cardinality(Held) + fails + Forking
         = (csem + Cardinality(Z)) + Cardinality(L) + fails + Forking
  BY <1>1, <1>4, <1>5, <1>8, <1>9, SMTT(30)
<1>11. Forking' = Forking /\ csem' \in Nat
  BY <1>1, <1>2 DEF Forking
<1> QED BY <1>2, <1>5, <1>10, <1>11 DEF LimitInv

\* is_echo_sv_60-1, with any clients and any number of failed forks: the
\* semaphore and the children it pays for always make up MAX_CHILDREN, so that
\* never more than MAX_CHILDREN run; a fork that fails costs a place.
THEOREM ChildrenAlwaysLimited ==
  IsFiniteSet(Clients) /\ MAX_CHILDREN \in Nat => (Spec => []ChildLimit)
<1> SUFFICES ASSUME IsFiniteSet(Clients), MAX_CHILDREN \in Nat
             PROVE  Spec => []ChildLimit
  OBVIOUS
<1>1. Init => LimitInv
  <2> SUFFICES ASSUME Init PROVE LimitInv
    BY SMTT(30)
  <2>1. EchoInv /\ csem = MAX_CHILDREN /\ fails = 0 /\ spc = "accept"
    BY DEF Init, EchoInv, StreamOK
  <2>2. Held = {}
    BY DEF Init, Held
  <2>3. Cardinality(Held) = 0 /\ Forking = 0
    BY <2>1, <2>2, FS_EmptySet DEF Forking
  <2> QED BY <2>1, <2>3 DEF LimitInv
<1>2. LimitInv /\ [Next]_vars => LimitInv'
  <2> SUFFICES ASSUME LimitInv, [Next]_vars
               PROVE  LimitInv'
    OBVIOUS
  <2>0. EchoInv
    BY SMTT(30) DEF LimitInv
  <2>1. CASE UNCHANGED vars
    BY <2>1 DEF vars, EchoInv, LimitInv, Held, Forking
  <2>2. ASSUME NEW c \in Clients, Conversation(c)
        PROVE  LimitInv'
    <3>1. UNCHANGED server
      BY <2>2, ZenonT(30) DEF Conversation, Connect, Send, Shut, ClientRead, Die
    <3>2. EchoInv'
      BY <2>0, <2>2, EchoClientInv
    <3> QED BY <3>1, <3>2, LimitSame, SMTT(30) DEF server, Held
  <2>3. ASSUME NEW c \in Clients, handleRequest(c)
        PROVE  LimitInv'
    <3>1. EchoInv' /\ UNCHANGED <<spc, csem, fails>>
      BY <2>0, <2>3, EchoChildInv, ZenonT(30) DEF handleRequest
    <3>2. child[c] = "run" /\ (child' = child \/ child' = [child EXCEPT ![c] = "zombie"])
      BY <2>3, ZenonT(30) DEF handleRequest
    <3>3. Held' = Held
      BY <2>0, <3>2 DEF Held, EchoInv
    <3> QED BY <3>1, <3>3, LimitSame
  <2>4. CASE Server
    BY <2>0, <2>4, EchoServerInv, LimitServerInv
  <2>5. CASE grimReaper
    BY <2>0, <2>5, EchoSignalInv, LimitReapInv
  <2>6. CASE term_handle
    <3>1. EchoInv' /\ spc' = "dead" /\ UNCHANGED <<csem, fails>>
      BY <2>0, <2>6, EchoSignalInv DEF term_handle
    <3> QED BY <3>1, SMTT(30) DEF LimitInv
  <2> QED BY <2>1, <2>2, <2>3, <2>4, <2>5, <2>6 DEF Next, is_echo_cl, is_echo_cl_61_1
<1>3. LimitInv => ChildLimit
  <2> SUFFICES ASSUME LimitInv, Bounded, spc # "dead"
               PROVE  csem + Cardinality({c \in Clients : child[c] \in {"run", "zombie"}})
                        + fails + (IF spc = "fork" THEN 1 ELSE 0) = MAX_CHILDREN
    BY DEF ChildLimit
  <2>1. csem + Cardinality(Held) + fails + Forking = MAX_CHILDREN
    BY DEF LimitInv
  <2> QED BY <2>1 DEF Held, Forking
<1> QED BY <1>1, <1>2, <1>3, PTL DEF Spec
=============================================================================
