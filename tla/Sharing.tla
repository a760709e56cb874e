------------------------------ MODULE Sharing ------------------------------
(***************************************************************************)
(* Threads and processes that share memory, a mutex with a condition       *)
(* variable, barriers, semaphores and file locks, as pthreads and the      *)
(* kernel give them to small programs.  A program is, for each of its      *)
(* tasks, the sequence of the calls that it makes: M is its main thread,   *)
(* A, B and C are further threads of the same process, N and O processes   *)
(* of one thread each.  A task that no other creates is started by the     *)
(* user.  Time is left out: sleep() returns whenever it likes, and a       *)
(* condition variable may wake a thread for nothing.                       *)
(*                                                                         *)
(* task[t] has where a task is (pc), a register, a counter for its loop,   *)
(* whether it is to be cancelled, the lock it has on the file, and what it *)
(* returned.  obj has the values of named objects, semaphores or memory.   *)
(***************************************************************************)
EXTENDS Calls, FiniteSets

CONSTANT Code   \* [program -> [task -> sequence of calls]]

VARIABLES prog, task, mem, mutex, obj, used, out
vars == <<prog, task, mem, mutex, obj, used, out>>

Tasks == {"M", "A", "B", "C", "N", "O"}
Here == IF prog \in DOMAIN Code THEN DOMAIN Code[prog] ELSE {}
Cells == {"x", "y", "z"}
Objects == {"a", "b", "shm"}
None == -1
CANCELED == -1
\* whom exit() ends
Together(t) == IF t \in {"N", "O"} THEN {t} ELSE {"M", "A", "B", "C"}
Created == {t \in Here : \E q \in Here : \E i \in DOMAIN Code[prog][q] : Code[prog][q][i] = create(t)}

Init ==
  /\ prog \in DOMAIN Code
  /\ task = [t \in Tasks |-> [st |-> IF t \in Here \ Created THEN "run" ELSE "none", pc |-> 1,
                              reg |-> 0, cnt |-> 0, canc |-> FALSE, file |-> "", res |-> 0]]
  /\ mem = [c \in Cells |-> 0] /\ mutex = "none"
  /\ obj = [o \in Objects |-> None] /\ used = {} /\ out = <<>>
-----------------------------------------------------------------------------
Call(t) == Code[prog][t][task[t].pc]
Go(t, r) == task' = [task EXCEPT ![t] = r]
To(t, k) == [task[t] EXCEPT !.pc = k]
Past(t) == To(t, task[t].pc + 1)
Living == {"run", "cond", "wake", "bar"}
\* the process of t ends, with all its threads; its file locks are given back
Exit(t, n) ==
  task' = [q \in Tasks |-> IF q \in Together(t) /\ task[q].st \in Living
                           THEN [task[q] EXCEPT !.st = "end", !.res = n, !.file = ""] ELSE task[q]]
Return(t, n) == Go(t, [task[t] EXCEPT !.st = "end", !.res = n])
Display(t, x, r) == out' = Append(out, [who |-> t, what |-> x, reg |-> r])
Still(v) == UNCHANGED v /\ UNCHANGED prog

\* what a task does for itself
Compute(t) ==
  LET c == Call(t) IN
  /\ Still(<<mutex, obj, used>>)
  /\ \/ c[1] = "print" /\ Display(t, c[2], 0) /\ Go(t, Past(t)) /\ UNCHANGED mem
     \/ c[1] = "show" /\ Display(t, c[2], task[t].reg) /\ Go(t, Past(t)) /\ UNCHANGED mem
     \/ c[1] = "load" /\ Go(t, [Past(t) EXCEPT !.reg = mem[c[2]]]) /\ UNCHANGED <<mem, out>>
     \/ c[1] = "store" /\ mem' = [mem EXCEPT ![c[2]] = task[t].reg] /\ Go(t, Past(t)) /\ UNCHANGED out
     \/ c[1] = "bump" /\ mem' = [mem EXCEPT ![c[2]] = @ + c[3]] /\ Go(t, Past(t)) /\ UNCHANGED out
     \/ c[1] = "set" /\ Go(t, [Past(t) EXCEPT !.reg = c[2]]) /\ UNCHANGED <<mem, out>>
     \/ c[1] = "add" /\ Go(t, [Past(t) EXCEPT !.reg = @ + c[2]]) /\ UNCHANGED <<mem, out>>
     \/ c[1] = "count" /\ Go(t, [Past(t) EXCEPT !.cnt = @ + 1]) /\ UNCHANGED <<mem, out>>
     \/ c[1] = "ifcount" /\ Go(t, IF task[t].cnt >= c[2] THEN To(t, c[3]) ELSE Past(t)) /\ UNCHANGED <<mem, out>>
     \/ c[1] = "jump" /\ Go(t, To(t, c[2])) /\ UNCHANGED <<mem, out>>
     \/ c[1] = "jumpif" /\ Go(t, IF task[t].reg \in c[2] THEN To(t, c[3]) ELSE Past(t)) /\ UNCHANGED <<mem, out>>

\* the life of tasks; a pthread_create() or fork() may fail, and the program ends
Live(t) ==
  LET c == Call(t) IN
  /\ Still(<<mem, mutex, obj, used, out>>)
  /\ \/ c[1] = "create" /\ task' = [task EXCEPT ![t] = Past(t), ![c[2]].st = "run"]
     \/ c[1] = "create" /\ Exit(t, 1)
     \/ c[1] = "join" /\ task[c[2]].st = "end"
        /\ task' = [task EXCEPT ![t] = [Past(t) EXCEPT !.reg = task[c[2]].res], ![c[2]].st = "joined"]
     \/ c[1] = "cancel" /\ task' = [task EXCEPT ![t] = Past(t), ![c[2]].canc = TRUE]
     \/ c[1] = "sleep" /\ (IF task[t].canc THEN Return(t, CANCELED) ELSE Go(t, Past(t)))
     \/ c[1] = "finish" /\ Return(t, c[2])
     \/ c[1] = "exit" /\ Exit(t, c[2])

\* the mutex, its condition variable, and barriers; a thread that is cancelled in
\* pthread_cond_wait() has the mutex again when its cleanup handler starts
Meet(t) ==
  LET c == Call(t)
      waiting == {q \in Tasks : task[q].st = "cond"}
      met == {q \in Tasks : task[q].st = "bar"} \cup {t} IN
  /\ Still(<<mem, obj, used, out>>)
  /\ \/ c[1] = "lock" /\ mutex = "none" /\ mutex' = t /\ Go(t, Past(t))
     \/ c[1] = "unlock" /\ mutex = t /\ mutex' = "none" /\ Go(t, Past(t))
     \/ c[1] = "condwait" /\ mutex = t /\ mutex' = "none" /\ Go(t, [task[t] EXCEPT !.st = "cond"])
     \/ c[1] = "signal" /\ UNCHANGED mutex
        /\ (waiting = {} => Go(t, Past(t)))
        /\ (waiting # {} => \E q \in waiting : task' = [task EXCEPT ![t] = Past(t), ![q].st = "wake"])
     \/ c[1] = "barrier" /\ UNCHANGED mutex
        /\ (Cardinality(met) < c[2] => Go(t, [task[t] EXCEPT !.st = "bar"]))
        /\ (Cardinality(met) = c[2] =>
              \E serial \in met :
                task' = [q \in Tasks |-> IF q \in met THEN [Past(q) EXCEPT !.st = "run", !.reg = IF q = serial THEN 1 ELSE 0]
                                         ELSE task[q]])
Wake(t) ==
  /\ Still(<<mem, obj, used, out>>)
  /\ \/ task[t].st = "cond" /\ task[t].canc /\ Go(t, [task[t] EXCEPT !.st = "wake"]) /\ UNCHANGED mutex
     \/ /\ task[t].st = "wake" /\ mutex = "none" /\ mutex' = t
        /\ LET handler == Call(t)[2] IN
           Go(t, [IF task[t].canc /\ handler # 0 THEN To(t, handler) ELSE Past(t) EXCEPT !.st = "run"])

Spurious(t) ==
  task[t].st = "cond" /\ Go(t, [task[t] EXCEPT !.st = "wake"]) /\ Still(<<mem, mutex, obj, used, out>>)

\* semaphores and other named objects: k is where a call that fails goes
Becomes(o, v) == obj' = [obj EXCEPT ![o] = v]
Done(t, o) == Go(t, Past(t)) /\ used' = used \cup {o}
Fails(t, k) == Go(t, To(t, k)) /\ UNCHANGED <<obj, used>>
Share(t) ==
  LET c == Call(t)
      o == c[2] IN
  /\ Still(<<mem, mutex, out>>)
  /\ \/ c[1] = "get" /\ obj[o] # None /\ Go(t, Past(t)) /\ UNCHANGED <<obj, used>>
     \/ c[1] = "get" /\ obj[o] = None /\ Fails(t, c[3])
     \/ c[1] = "make" /\ obj[o] = None /\ Becomes(o, c[3]) /\ Go(t, Past(t)) /\ UNCHANGED used
     \/ c[1] = "make" /\ obj[o] # None /\ Fails(t, c[4])
     \/ c[1] = "setval" /\ Becomes(o, c[3]) /\ Go(t, Past(t)) /\ UNCHANGED used
     \/ c[1] = "stat" /\ Go(t, [Past(t) EXCEPT !.reg = IF o \in used THEN 1 ELSE 0]) /\ UNCHANGED <<obj, used>>
     \/ c[1] = "down" /\ obj[o] > 0 /\ Becomes(o, obj[o] - 1) /\ Done(t, o)
     \/ c[1] = "down" /\ obj[o] = 0 /\ c[4] /\ Fails(t, c[3])      \* sem_trywait(), or a timeout
     \/ c[1] = "zero" /\ obj[o] = 0 /\ Done(t, o) /\ UNCHANGED obj
     \/ c[1] = "up" /\ Becomes(o, obj[o] + 1) /\ Done(t, o)
     \/ c[1] = "remove" /\ Becomes(o, None) /\ Go(t, Past(t)) /\ UNCHANGED used

\* the lock on a file, shared or exclusive; k = 0: the call waits for it
FileLock(t) ==
  LET c == Call(t)
      others == {q \in Tasks \ {t} : task[q].file # ""}
      free == IF c[2] = "x" THEN others = {} ELSE \A q \in others : task[q].file = "s" IN
  /\ c[1] = "flock" /\ Still(<<mem, mutex, obj, used, out>>)
  /\ \/ (c[2] = "" \/ free) /\ Go(t, [Past(t) EXCEPT !.file = c[2]])
     \/ c[2] # "" /\ ~free /\ c[3] # 0 /\ Go(t, To(t, c[3]))

Step(t) ==
  \/ task[t].st = "run" /\ (Compute(t) \/ Live(t) \/ Meet(t) \/ Share(t) \/ FileLock(t))
  \/ Wake(t)
Next == \E t \in Here : Step(t) \/ Spurious(t)
Fairness == \A t \in Tasks : SF_vars(t \in Here /\ Step(t))

\* a task that lives is before one of its calls; only a living one has the mutex
TypeOK ==
  /\ \A t \in Here : /\ task[t].st \in Living \cup {"none", "end", "joined"}
                      /\ task[t].st \in Living => task[t].pc \in DOMAIN Code[prog][t]
                      /\ task[t].file \in {"", "s", "x"}
  /\ mutex \in Tasks \cup {"none"}
  /\ \A o \in Objects : obj[o] >= None
=============================================================================
