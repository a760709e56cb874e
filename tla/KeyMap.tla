------------------------------- MODULE KeyMap -------------------------------
(***************************************************************************)
(* What the tree of exercise 30-02 promises its callers: a map from keys   *)
(* to values on which the calls of all threads take effect one at a time,  *)
(* each at some moment between the call and its reply.                     *)
(***************************************************************************)
CONSTANTS Threads, Keys, Values, Null, Nothing, Ok, Fail

VARIABLES
  store,   \* the value of each key, or Null
  call,    \* what each thread has asked for, Nothing when answered
  reply    \* what it has been told, Nothing until the call takes effect

vars == <<store, call, reply>>

Ops == {"add", "del", "look"}

Init ==
  /\ store = [k \in Keys |-> Null]
  /\ call = [t \in Threads |-> Nothing]
  /\ reply = [t \in Threads |-> Null]

Ask(t) ==
  /\ call[t] = Nothing
  /\ \E op \in Ops, k \in Keys : call' = [call EXCEPT ![t] = <<op, k>>]
  /\ reply' = [reply EXCEPT ![t] = Nothing]
  /\ UNCHANGED store

\* add() stores a new value, or fails when the key is there or memory is not
Add(t, k) ==
  /\ call[t] = <<"add", k>>
  /\ \/ /\ store[k] = Null
        /\ \E v \in Values : store' = [store EXCEPT ![k] = v]
        /\ reply' = [reply EXCEPT ![t] = Ok]
     \/ /\ reply' = [reply EXCEPT ![t] = Fail]
        /\ UNCHANGED store

Del(t, k) ==
  /\ call[t] = <<"del", k>>
  /\ \/ /\ store[k] # Null
        /\ store' = [store EXCEPT ![k] = Null]
        /\ reply' = [reply EXCEPT ![t] = Ok]
     \/ /\ store[k] = Null
        /\ reply' = [reply EXCEPT ![t] = Fail]
        /\ UNCHANGED store

Look(t, k) ==
  /\ call[t] = <<"look", k>>
  /\ reply' = [reply EXCEPT ![t] = store[k]]
  /\ UNCHANGED store

Answer(t) ==
  /\ \E k \in Keys : Add(t, k) \/ Del(t, k) \/ Look(t, k)
  /\ call' = [call EXCEPT ![t] = Nothing]

Next == \E t \in Threads : Ask(t) \/ Answer(t)

Spec == Init /\ [][Next]_vars
=============================================================================
