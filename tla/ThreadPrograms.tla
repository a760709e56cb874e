--------------------------- MODULE ThreadPrograms ---------------------------
(***************************************************************************)
(* Programs of threads, and of processes that share semaphores, memory and *)
(* file locks, as the calls they make.                                     *)
(***************************************************************************)
EXTENDS Calls, FiniteSets, TLC

-----------------------------------------------------------------------------
(***************************************************************************)
(* The programs of tlpi/threads, and of psem and mmap with them, as the    *)
(* calls their threads make.  Loops run twice, two or three threads start. *)
(* A thread function that two threads share is one definition.             *)
(***************************************************************************)
Loops == 2
Tot == 3

\* prod_condvar.c, prod_no_condvar.c: A produces two units, B one
Produce(n, last) == <<lock, load("x"), add(1), store("x"), unlock, last, count, ifcount(n, 10), jump(1), finish(0)>>
prod_condvar_late == [A |-> <<signal, lock, load("x"), add(1), store("x"), unlock, count, ifcount(2, 10), jump(1), finish(0)>>,
                      B |-> <<signal, lock, load("x"), add(1), store("x"), unlock, count, ifcount(1, 10), jump(1), finish(0)>>]
prod_condvar_threadFunc == [A |-> Produce(2, signal), B |-> Produce(1, signal)]
prod_condvar_main ==
  [M |-> <<create("A"), create("B"), lock, load("x"), jumpif(1..Tot, 8), condwait(0), jump(4),
           load("x"), jumpif({0}, 13), bump("x", -1), count, jump(8), unlock, ifcount(Tot, 16), jump(3),
           print("consumed"), exit(0)>>]
prod_no_condvar_threadFunc == [A |-> Produce(2, jump(7)), B |-> Produce(1, jump(7))]
prod_no_condvar_main ==
  [M |-> <<create("A"), create("B"), lock, load("x"), jumpif({0}, 9), bump("x", -1), count, jump(4),
           unlock, ifcount(Tot, 12), jump(3), print("consumed"), exit(0)>>]

\* thread_multijoin.c: x is numUnjoined, y and z the states of A and B
Died(s) == <<sleep, lock, bump("x", 1), set(1), store(s), unlock, signal, finish(0)>>
multijoin_unlocked == [A |-> <<sleep, bump("x", 1), set(1), store("y"), signal, finish(0)>>,
                       B |-> <<sleep, bump("x", 1), set(1), store("z"), signal, finish(0)>>]
multijoin_threadFunc == [A |-> Died("y"), B |-> Died("z")]
multijoin_main ==
  [M |-> <<create("A"), create("B"), lock, load("x"), jumpif(1..2, 8), condwait(0), jump(4),
           load("y"), jumpif({0, 2}, 16), join("A"), set(2), store("y"), count, bump("x", -1), print("reaped A"),
           load("z"), jumpif({0, 2}, 24), join("B"), set(2), store("z"), count, bump("x", -1), print("reaped B"),
           unlock, ifcount(2, 27), jump(3), exit(0)>>]

\* thread_incr*.c: x is glob; before and after are what protects it
Incr(before, after) == <<before, load("x"), add(1), store("x"), after, count, ifcount(Loops, 9), jump(1), finish(0)>>
Both(f) == [A |-> f, B |-> f]
IncrMain == [M |-> <<create("A"), create("B"), join("A"), join("B"), load("x"), show("glob"), exit(0)>>]
thread_incr == IncrMain @@ Both(Incr(jump(2), jump(6)))
incr_mutex_early == IncrMain @@ Both(<<load("x"), lock, add(1), store("x"), unlock, count, ifcount(Loops, 9), jump(1), finish(0)>>)
thread_incr_mutex == IncrMain @@ Both(Incr(lock, unlock))
thread_incr_rwlock == IncrMain @@ Both(Incr(lock, unlock))
thread_incr_spinlock == IncrMain @@ Both(Incr(lock, unlock))
thread_incr_psem ==
  [M |-> <<make("a", 1, 8), create("A"), create("B"), join("A"), join("B"), load("x"), show("glob"), exit(0)>>]
  @@ Both(Incr(down("a"), up("a")))
\* thread_lock_speed.c: one critical section for all of the inner loop
lock_speed_threadFunc ==
  Both(<<lock, load("x"), add(1), store("x"), load("x"), add(1), store("x"), unlock, count, ifcount(Loops, 12), jump(1), finish(0)>>)
lock_speed_main == IncrMain

\* pthread_barrier_demo.c: three threads, two barriers; x counts the serial threads
BarrierThread(n) == <<sleep, count, barrier(n), jumpif({0}, 6), bump("x", 1), ifcount(Loops, 8), jump(1), finish(0)>>
barrier_demo_short == Both(BarrierThread(2)) @@ [C |-> BarrierThread(2)]
barrier_demo_threadFunc == Both(BarrierThread(3)) @@ [C |-> BarrierThread(3)]
barrier_demo_main ==
  [M |-> <<create("A"), create("B"), create("C"), join("A"), join("B"), join("C"), exit(0)>>]

\* simple_thread.c, thread_cancel.c
simple_thread ==
  [M |-> <<create("A"), print("main"), join("A"), show("returned"), exit(0)>>,
   A |-> <<print("hello"), finish(12)>>]
thread_cancel ==
  [M |-> <<create("A"), sleep, cancel("A"), join("A"), show("result"), exit(0)>>,
   A |-> <<sleep, jump(1)>>]

\* thread_cleanup.c, with and without an argument: x is glob, y counts the free()s
cleanup_keeps_mutex == <<bump("y", 1), jump(11), finish(-1)>>
cleanupHandler == <<bump("y", 1), unlock, finish(-1)>>
cleanup_threadFunc ==
  [A |-> <<lock, load("x"), jumpif({1}, 6), condwait(9), jump(2), bump("y", 1), unlock, finish(0)>> \o cleanupHandler]
cleanup_main == [M |-> <<create("A"), sleep, cancel("A"), join("A"), show("result"), exit(0)>>]
cleanup_main_signal ==
  [M |-> <<create("A"), sleep, lock, set(1), store("x"), unlock, signal, join("A"), show("result"), exit(0)>>]

\* one_time_init.c: x is called
one_time_init(k) == <<lock, load("x"), jumpif({1}, k + 6), print("init"), set(1), store("x"), unlock>>
one_time_init_threadFunc ==
  LET f == one_time_init(1) \o one_time_init(8) \o <<print("done"), finish(0)>> IN Both(f)
one_time_init_main ==
  [M |-> <<create("A"), create("B"), join("A"), print("first"), join("B"), print("second"), exit(0)>>]

\* strerror_test.c with three strerror()s: EINVAL is 22, EPERM is 1; x is the static
\* buffer, y and z the ones of the two threads
strerror_test(bufM, bufA) ==
  [M |-> <<set(22), store(bufM), create("A"), join("A"), load(bufM), show("main"), exit(0)>>,
   A |-> <<set(1), store(bufA), load(bufA), show("other"), finish(0)>>]
strerror == strerror_test("x", "x")
tls_static == strerror_test("y", "y")
strerror_tls == strerror_test("y", "z")
\* strerror_tsd.c: x is 1 once pthread_once() has called createKey()
createKey == <<load("x"), jumpif({1}, 6), set(1), store("x"), print("key")>>
strerror_tsd ==
  [M |-> createKey \o <<set(22), store("y"), create("A"), join("A"), load("y"), show("main"), exit(0)>>,
   A |-> createKey \o <<set(1), store("z"), load("z"), show("other"), finish(0)>>]

\* timers/ptmr_sigev_thread.c: two timers have expired when the threads A and B are
\* started for them; x is expireCnt, and y the one that is displayed last
sigev_thread_unlocked == Both(<<load("x"), add(1), store("x"), signal, finish(0)>>)
sigev_thread_threadFunc == Both(<<lock, load("x"), add(1), store("x"), unlock, signal, finish(0)>>)
sigev_thread_main == [M |-> <<create("A"), create("B"), lock, condwait(0), load("x"), store("y"), jump(4)>>]

\* mmap/anon_mmap.c: the child N and its parent share x
anon_mmap ==
  [M |-> <<set(1), store("x"), create("N"), join("N"), load("x"), show("parent"), exit(0)>>,
   N |-> <<load("x"), show("child"), bump("x", 1), exit(0)>>]

ThreadCode ==
  "prod_condvar" :> (prod_condvar_main @@ prod_condvar_threadFunc) @@
  "prod_no_condvar" :> (prod_no_condvar_main @@ prod_no_condvar_threadFunc) @@
  "multijoin" :> (multijoin_main @@ multijoin_threadFunc) @@
  "incr" :> thread_incr @@ "incr_mutex" :> thread_incr_mutex @@ "incr_rwlock" :> thread_incr_rwlock @@
  "incr_spinlock" :> thread_incr_spinlock @@ "incr_psem" :> thread_incr_psem @@
  "lock_speed" :> (lock_speed_main @@ lock_speed_threadFunc) @@
  "barrier" :> (barrier_demo_main @@ barrier_demo_threadFunc) @@
  "simple" :> simple_thread @@ "cancel" :> thread_cancel @@
  "cleanup" :> (cleanup_main @@ cleanup_threadFunc) @@ "cleanup_signal" :> (cleanup_main_signal @@ cleanup_threadFunc) @@
  "once" :> (one_time_init_main @@ one_time_init_threadFunc) @@
  "strerror" :> strerror @@ "strerror_tls" :> strerror_tls @@ "strerror_tsd" :> strerror_tsd @@
  "sigev_thread" :> (sigev_thread_main @@ sigev_thread_threadFunc) @@ "anon_mmap" :> anon_mmap
-----------------------------------------------------------------------------
\* What the programs display (o) and leave behind: memory (m) and mutex (x)
ThreadsRight(p, o, tk, m, x) ==
  LET shown(w, n) == Seen(o, w) => Regs(o, w) = <<n>> IN
  CASE p \in {"prod_condvar", "prod_no_condvar"} ->
         tk.M.cnt <= Tot /\ (Seen(o, "consumed") => m.x = 0 /\ tk.A.cnt <= 2 /\ tk.B.cnt <= 1)
    [] p = "multijoin" -> \A w \in {"reaped A", "reaped B"} : Len(Lines(o, w)) <= 1
    [] p = "incr" -> Seen(o, "glob") => Regs(o, "glob")[1] \in 2..(2 * Loops)
    [] p \in {"incr_mutex", "incr_rwlock", "incr_spinlock", "incr_psem"} -> shown("glob", 2 * Loops)
    [] p = "lock_speed" -> shown("glob", 4 * Loops)
    [] p = "barrier" ->
         /\ \A t \in {"A", "B", "C"}, u \in {"A", "B", "C"} : tk[t].pc > 3 => tk[u].cnt >= tk[t].cnt
         /\ tk.M.st = "end" /\ tk.M.res = 0 => m.x = Loops
    [] p = "simple" -> shown("returned", 12) /\ After(o, "hello", "returned")
    [] p = "cancel" -> shown("result", -1)
    [] p = "cleanup" -> shown("result", -1) /\ (Seen(o, "result") => m.y = 1 /\ x = "none")
    [] p = "cleanup_signal" -> shown("result", 0) /\ (Seen(o, "result") => m.y = 1 /\ x = "none")
    [] p = "once" -> Len(Lines(o, "init")) <= 1 /\ After(o, "init", "done") /\ After(o, "done", "first")
    [] p = "strerror" -> shown("main", 1) /\ shown("other", 1)
    [] p = "strerror_tls" -> shown("main", 22) /\ shown("other", 1)
    [] p = "strerror_tsd" -> shown("main", 22) /\ shown("other", 1) /\ Len(Lines(o, "key")) <= 1
    [] p = "sigev_thread" ->
         /\ m.y <= m.x
         /\ tk.A.st = "end" /\ tk.B.st = "end" /\ tk.M.st = "cond" => m.x = 2
    [] p = "anon_mmap" -> shown("child", 1) /\ shown("parent", 2)

-----------------------------------------------------------------------------
(***************************************************************************)
(* The programs of svsem, svshm, psem and filelock, as the calls their     *)
(* processes make; the processes are started in any order.                 *)
(***************************************************************************)
\* binary_sems.c: WRITE_SEM is a, READ_SEM is b
initSemAvailable(s) == setval(s, 1)
initSemInUse(s) == setval(s, 0)
reserveSem(s) == down(s)
releaseSem(s) == up(s)

\* svshm_xfr_writer.c: two blocks, 1 and 2, and the empty one at end of file; x is
\* the shared segment
svshm_xfr_writer ==
  <<make("a", 0, 2), make("b", 0, 3), initSemAvailable("a"), initSemInUse("b"), make("shm", 1, 6),
    reserveSem("a"), count, ifcount(3, 11), bump("x", 1), jump(13), set(0), store("x"),
    releaseSem("b"), load("x"), jumpif({0}, 17), jump(6),
    reserveSem("a"), remove("a"), remove("b"), remove("shm"), print("sent"), exit(0), exit(1)>>
xfr_reader_early ==
  <<get("a", 11), get("shm", 11), reserveSem("b"), releaseSem("a"), load("x"), jumpif({0}, 10), show("block"),
    jump(3), jump(9), exit(0), exit(1)>>
svshm_xfr_reader ==
  <<get("a", 11), get("shm", 11), reserveSem("b"), load("x"), jumpif({0}, 9), show("block"),
    releaseSem("a"), jump(3), releaseSem("a"), exit(0), exit(1)>>

\* svsem_bad_init.c, svsem_good_init.c: a System V semaphore starts with 0 on Linux;
\* good_init gives up after MAX_TRIES looks at sem_otime
svsem_bad_init == <<make("a", 0, 3), initSemInUse("a"), up("a"), exit(0), exit(1)>>
MaxTries == 2
svsem_good_init ==
  <<make("a", 0, 6), sleep, initSemInUse("a"), zero("a"), jump(11),
    stat("a"), jumpif({1}, 11), count, ifcount(MaxTries, 13), jump(6), up("a"), exit(0), exit(1)>>

\* psem_*.c, without initial units; a timeout may end a wait at any time
psem_create == <<make("a", 0, 2)>>
psem_post(k) == <<get("a", k + 3), up("a"), exit(0), exit(1)>>
psem_wait == <<get("a", 5), down("a"), print("succeeded"), exit(0), exit(1)>>
psem_trywait == <<get("a", 4), trydown("a", 4), exit(0), exit(1)>>
psem_timedwait_ignores == <<get("a", 5), trydown("a", 3), print("succeeded"), exit(0), exit(1)>>
psem_timedwait == <<get("a", 5), trydown("a", 5), print("succeeded"), exit(0), exit(1)>>
psem_wait_53_2 == <<get("a", 5), trydown("a", 5), print("succeeded"), exit(0), exit(1)>>

\* t_flock.c
t_flock(mode, nonblocking) ==
  <<flock(mode, IF nonblocking THEN 7 ELSE 0), print("granted"), sleep, print("releasing"), flock("", 0), exit(0), exit(1)>>
\* create_pid_file.c, called by daemons with process IDs 1 and 2; x is the file
pid_file_first(pid) == <<set(pid), store("x"), flock("x", 7), print("running"), sleep, exit(0), exit(1)>>
createPidFile(pid) == <<flock("x", 9), set(0), store("x"), set(pid), store("x"), print("running"), sleep, exit(0), exit(1)>>

Psem(waiter) == [M |-> psem_create \o psem_post(2), N |-> psem_wait, O |-> waiter]
ShareCode ==
  "xfr" :> [M |-> svshm_xfr_writer, N |-> svshm_xfr_reader] @@
  "bad_init" :> [N |-> svsem_bad_init, O |-> svsem_bad_init] @@
  "good_init" :> [N |-> svsem_good_init, O |-> svsem_good_init] @@
  "psem_try" :> Psem(psem_trywait) @@ "psem_timed" :> Psem(psem_timedwait) @@ "psem_53_2" :> Psem(psem_wait_53_2) @@
  "flock" :> [M |-> t_flock("x", FALSE), N |-> t_flock("s", FALSE), O |-> t_flock("s", TRUE)] @@
  "flock_x" :> [M |-> t_flock("x", FALSE), N |-> t_flock("x", TRUE), O |-> t_flock("s", FALSE)] @@
  "pid_file" :> [N |-> createPidFile(1), O |-> createPidFile(2)]
-----------------------------------------------------------------------------
\* those that t has been granted the lock, in what o shows, and has not released
Holds(o, t) == \E i \in DOMAIN o : /\ o[i] = [who |-> t, what |-> "granted", reg |-> 0]
                                   /\ \A j \in DOMAIN o : j > i => o[j].who # t
Ended(tk, T) == \A t \in T : tk[t].st = "end" /\ tk[t].res = 0
\* What the programs display (o) and leave behind: tasks, memory and objects
SharesRight(p, o, tk, m, ob) ==
  CASE p = "xfr" ->
         /\ Regs(o, "block") \in {<<>>, <<1>>, <<1, 2>>}
         /\ Seen(o, "sent") => Regs(o, "block") = <<1, 2>> /\ \A x \in DOMAIN ob : ob[x] = -1
    [] p = "bad_init" -> Ended(tk, {"N", "O"}) => ob.a \in {1, 2}
    [] p = "good_init" -> Ended(tk, {"N", "O"}) => ob.a = 2
    [] p \in {"psem_try", "psem_timed", "psem_53_2"} ->
         Ended(tk, {"M"}) => ob.a + Cardinality({t \in {"N", "O"} : tk[t].st = "end" /\ tk[t].res = 0}) <= 1
    [] p \in {"flock", "flock_x"} -> \A t \in {"M", "N", "O"}, u \in {"M", "N", "O"} :
         t # u /\ Holds(o, t) /\ Holds(o, u) => p = "flock" /\ {t, u} = {"N", "O"}
    [] p = "pid_file" ->
         \A t \in {"N", "O"} : tk[t].st = "run" /\ (\E i \in DOMAIN o : o[i].who = t) => m.x = (IF t = "N" THEN 1 ELSE 2)

\* the ones that wait for good: a writer without a reader, psem_wait when another
\* has taken the unit
ShareStuck(p, tk) ==
  \/ p = "xfr" /\ tk.N.res = 1
  \/ p \in {"psem_try", "psem_timed", "psem_53_2"} /\ tk.O.st = "end" /\ tk.O.res = 0
=============================================================================
