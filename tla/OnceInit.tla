------------------------------ MODULE OnceInit ------------------------------
(***************************************************************************)
(* Exercise 31-01: one_time_init(control, init), a replacement for         *)
(* pthread_once().  main() creates the threads one by one, each calls      *)
(* one_time_init(&control, init_fn) once, and main() returns after a       *)
(* sleep, which ends every thread with the process.                        *)
(*                                                                         *)
(* control.mutex is a default mutex: locking it never fails, it has one    *)
(* owner, and a thread that terminates does not give it back.              *)
(***************************************************************************)
EXTENDS Naturals

CONSTANTS
  Threads,   \* the threads main() creates
  NoThread   \* the owner of a free mutex

ASSUME ThreadAssumption == NoThread \notin Threads

VARIABLES
  pc,       \* where each thread is
  main,     \* where main() is
  mutex,    \* owner of control.mutex
  called,   \* control.called
  started,  \* threads that have begun to run init_fn()
  ended     \* threads for which init_fn() has returned

vars_31_01 == <<pc, main, mutex, called, started, ended>>

InCall == {"check", "init", "mark", "unlock"}
ThreadPc == {"none", "lock", "returned"} \cup InCall

TypeOK_31_01 ==
  /\ pc \in [Threads -> ThreadPc]
  /\ main \in {"create", "sleep", "exited"}
  /\ mutex \in Threads \cup {NoThread}
  /\ called \in {0, 1}
  /\ started \subseteq Threads
  /\ ended \subseteq started

Init_31_01 ==
  /\ pc = [t \in Threads |-> "none"]
  /\ main = "create"
  /\ mutex = NoThread
  /\ called = 0
  /\ started = {}
  /\ ended = {}

-----------------------------------------------------------------------------
(* main()                                                                  *)

\* pthread_create() of one more thread
Create(t) ==
  /\ main = "create"
  /\ pc[t] = "none"
  /\ pc' = [pc EXCEPT ![t] = "lock"]
  /\ UNCHANGED <<main, mutex, called, started, ended>>

\* pthread_create() fails: exit_err() ends the process with the threads
\* created so far
CreateFails ==
  /\ main = "create"
  /\ \E t \in Threads : pc[t] = "none"
  /\ main' = "exited"
  /\ UNCHANGED <<pc, mutex, called, started, ended>>

\* all threads exist: sleep(3)
Sleep ==
  /\ main = "create"
  /\ \A t \in Threads : pc[t] # "none"
  /\ main' = "sleep"
  /\ UNCHANGED <<pc, mutex, called, started, ended>>

\* the sleep is over and main() returns
Exit ==
  /\ main = "sleep"
  /\ main' = "exited"
  /\ UNCHANGED <<pc, mutex, called, started, ended>>

-----------------------------------------------------------------------------
(* one_time_init(), called by thread_entry()                               *)

\* pthread_mutex_lock(&control->mutex)
LockAs(t, owner) ==
  /\ main # "exited"
  /\ pc[t] = "lock"
  /\ mutex = NoThread
  /\ mutex' = owner
  /\ pc' = [pc EXCEPT ![t] = "check"]
  /\ UNCHANGED <<main, called, started, ended>>

\* Mutant of Lock: the mutex stays free.
LockMissing(t) == LockAs(t, NoThread)

Lock(t) == LockAs(t, t)

\* if (control->called) return RET_SUCCESS, with the mutex still locked;
\* otherwise init() begins
CheckFor(t, yes) ==
  /\ main # "exited"
  /\ pc[t] = "check"
  /\ \/ /\ called = yes
        /\ pc' = [pc EXCEPT ![t] = "returned"]
        /\ UNCHANGED started
     \/ /\ called # yes
        /\ pc' = [pc EXCEPT ![t] = "init"]
        /\ started' = started \cup {t}
  /\ UNCHANGED <<main, mutex, called, ended>>

\* Mutant of Check: the test of control->called is inverted.
CheckInverted(t) == CheckFor(t, 0)

Check(t) == CheckFor(t, 1)

\* init() returns
InitReturns(t) ==
  /\ main # "exited"
  /\ pc[t] = "init"
  /\ ended' = ended \cup {t}
  /\ pc' = [pc EXCEPT ![t] = "mark"]
  /\ UNCHANGED <<main, mutex, called, started>>

\* control->called = 1
MarkAs(t, value) ==
  /\ main # "exited"
  /\ pc[t] = "mark"
  /\ called' = value
  /\ pc' = [pc EXCEPT ![t] = "unlock"]
  /\ UNCHANGED <<main, mutex, started, ended>>

\* Mutant of Mark: called is counted up by 2.
MarkCounts(t) == MarkAs(t, called + 2)

Mark(t) == MarkAs(t, 1)

\* pthread_mutex_unlock(&control->mutex); return RET_SUCCESS
Unlock(t) ==
  /\ main # "exited"
  /\ pc[t] = "unlock"
  /\ mutex' = NoThread
  /\ pc' = [pc EXCEPT ![t] = "returned"]
  /\ UNCHANGED <<main, called, started, ended>>

-----------------------------------------------------------------------------
Thread(t) == Lock(t) \/ Check(t) \/ InitReturns(t) \/ Mark(t) \/ Unlock(t)

Next_31_01 ==
  \/ CreateFails \/ Sleep \/ Exit
  \/ \E t \in Threads : Create(t) \/ Thread(t)

Spec_31_01 == Init_31_01 /\ [][Next_31_01]_vars_31_01

\* Runnable threads are scheduled and a freed mutex is given to some waiter.
\* The three seconds of sleep(3) are long but not promised to be long
\* enough, so main() may leave at any moment and need not leave.
Fairness ==
  /\ WF_vars_31_01(\E t \in Threads : Create(t))
  /\ \A t \in Threads : SF_vars_31_01(Thread(t))

FairSpec_31_01 == Spec_31_01 /\ Fairness

-----------------------------------------------------------------------------
(* Properties                                                              *)

\* "call init one time in multi thread": whatever the interleaving of the
\* calls, at most one thread ever begins init().
InitOnce == \A t, u \in started : t = u

\* The promise of pthread_once(): a caller returns only after init() has
\* completed, also the caller that finds control->called set.
ReturnAfterInit == \A t \in Threads : pc[t] = "returned" => ended # {}

\* A thread that is inside the protected part of one_time_init() owns
\* control.mutex, so control->called is read and written by one at a time.
CallOwnsMutex == \A t \in Threads : pc[t] \in InCall => mutex = t

\* "performs the equivalent of pthread_once()": every thread that calls
\* one_time_init() gets an answer, or the process ends.
EveryCallReturns ==
  \A t \in Threads : pc[t] = "lock" ~> pc[t] = "returned" \/ main = "exited"
=============================================================================
