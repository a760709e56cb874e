---------------------------- MODULE SmallThreads ----------------------------
(***************************************************************************)
(* Exercises 30-01, 33-01 and 53-01: two threads of one process.  The      *)
(* programs share no state; the names that several of them use end in the  *)
(* number of the exercise.                                                 *)
(***************************************************************************)
EXTENDS Integers

Ids == {1, 2}

-----------------------------------------------------------------------------
(***************************************************************************)
(* Exercise 30-01: two threads count a shared variable up without a lock.  *)
(* Each of the Loops iterations reads glob_incvar into tmp in one step and *)
(* stores tmp + 1 in another.  main() joins both and shows the result.     *)
(***************************************************************************)
CONSTANT Loops   \* ninc

VARIABLES
  glob_incvar,
  i, tmp,    \* the local variables of each thread
  tpc,       \* "none", "read", "store" or "end"
  shown      \* what main() displays, -1 before that

vars_30_01 == <<glob_incvar, i, tmp, tpc, shown>>

TypeOK_30_01 ==
  /\ glob_incvar \in 0..(2 * Loops)
  /\ i \in [Ids -> 0..Loops]
  /\ tmp \in [Ids -> 0..(2 * Loops)]
  /\ tpc \in [Ids -> {"none", "read", "store", "end"}]
  /\ shown \in -1..(2 * Loops)

Init_30_01 ==
  /\ glob_incvar = 0
  /\ i = [t \in Ids |-> 0] /\ tmp = [t \in Ids |-> 0]
  /\ tpc = [t \in Ids |-> "none"]
  /\ shown = -1

\* pthread_create() of the two threads, in order
Create_30_01(t) ==
  /\ tpc[t] = "none" /\ (t = 2 => tpc[1] # "none")
  /\ tpc' = [tpc EXCEPT ![t] = "read"]
  /\ UNCHANGED <<glob_incvar, i, tmp, shown>>

\* the head of the loop and tmp = glob_incvar
Read(t) ==
  /\ tpc[t] = "read"
  /\ \/ /\ i[t] < Loops
        /\ tmp' = [tmp EXCEPT ![t] = glob_incvar]
        /\ tpc' = [tpc EXCEPT ![t] = "store"]
     \/ /\ i[t] >= Loops
        /\ tpc' = [tpc EXCEPT ![t] = "end"]
        /\ UNCHANGED tmp
  /\ UNCHANGED <<glob_incvar, i, shown>>

\* tmp++ and glob_incvar = tmp, by a step of d
StoreBy(t, d) ==
  /\ tpc[t] = "store"
  /\ glob_incvar' = tmp[t] + d
  /\ i' = [i EXCEPT ![t] = @ + 1]
  /\ tpc' = [tpc EXCEPT ![t] = "read"]
  /\ UNCHANGED <<tmp, shown>>

\* Mutants of Store: tmp is not counted up, or twice.
StoreSame(t) == StoreBy(t, 0)
StoreTwice(t) == StoreBy(t, 2)

Store(t) == StoreBy(t, 1)

\* both pthread_join() have returned
Show_30_01 ==
  /\ \A t \in Ids : tpc[t] = "end"
  /\ shown = -1
  /\ shown' = glob_incvar
  /\ UNCHANGED <<glob_incvar, i, tmp, tpc>>

Next_30_01 == Show_30_01 \/ \E t \in Ids : Create_30_01(t) \/ Read(t) \/ Store(t)

Spec_30_01 == Init_30_01 /\ [][Next_30_01]_vars_30_01

-----------------------------------------------------------------------------
\* Updates are lost, but never all of them: however the two threads
\* interleave, the result shown is at least 2 once each thread counts twice
\* or more, and at most the 2 * Loops of an undisturbed run.
ResultBounds ==
  shown # -1 => /\ Loops >= 2 => shown >= 2
                /\ shown <= 2 * Loops

-----------------------------------------------------------------------------
(***************************************************************************)
(* Exercise 33-01: each of two threads blocks a signal of its own, waits   *)
(* for a second one with sigwait() and shows its pending signals.  main()  *)
(* sends the four signals with pthread_kill(); only a sleep(3) separates   *)
(* that from the setup, so it may happen at any moment.                    *)
(***************************************************************************)
VARIABLES thread,    \* where each thread is in thread_entry()
          actions,   \* the signals whose disposition is sighandler()
          pending,   \* per thread, the signals pending for it
          handled,   \* the signals for which sighandler() has run
          signals,   \* number of signals main() has sent
          process,   \* "running", "exited" or "killed"
          shownSet   \* per thread, what showsigset() displays

\* the signals <<thread, kind>> in the order main() sends them
Order == << <<1, "block">>, <<1, "wait">>, <<2, "block">>, <<2, "wait">> >>
Unseen == {<<0, "unseen">>}

vars_33_01 == <<thread, actions, pending, handled, signals, process, shownSet>>

Steps == {"none", "action_block", "action_wait", "mask", "sigwait", "show", "end"}

TypeOK_33_01 ==
  /\ thread \in [Ids -> Steps]
  /\ actions \subseteq {Order[k] : k \in 1..4} /\ handled \subseteq actions
  /\ pending \in [Ids -> SUBSET {Order[k] : k \in 1..4}]
  /\ signals \in 0..4
  /\ process \in {"running", "exited", "killed"}
  /\ \A t \in Ids : shownSet[t] = Unseen \/ shownSet[t] \subseteq pending[t]

At(t, step) == process = "running" /\ thread[t] = step
Go(t, step) == thread' = [thread EXCEPT ![t] = step]

Init_33_01 ==
  /\ thread = [t \in Ids |-> "none"] /\ actions = {} /\ handled = {}
  /\ pending = [t \in Ids |-> {}] /\ shownSet = [t \in Ids |-> Unseen]
  /\ signals = 0 /\ process = "running"

\* pthread_create()
Create_33_01(t) ==
  /\ At(t, "none") /\ (t = 2 => ~At(1, "none"))
  /\ Go(t, "action_block")
  /\ UNCHANGED <<actions, pending, handled, signals, process, shownSet>>

\* sigaction() of the two signals, one after the other
Action(t) ==
  /\ \/ At(t, "action_block") /\ actions' = actions \cup {<<t, "block">>} /\ Go(t, "action_wait")
     \/ At(t, "action_wait") /\ actions' = actions \cup {<<t, "wait">>} /\ Go(t, "mask")
  /\ UNCHANGED <<pending, handled, signals, process, shownSet>>

\* pthread_sigmask(SIG_BLOCK) of the first signal; sigwait() follows
Mask(t) ==
  /\ At(t, "mask")
  /\ Go(t, "sigwait")
  /\ UNCHANGED <<actions, pending, handled, signals, process, shownSet>>

Blocked(t, kind) == kind = "block" /\ thread[t] \in {"sigwait", "show", "end"}

\* pthread_kill(): a blocked signal becomes pending, a thread inside
\* sigwait() takes its signal, any other runs the handler or ends the process
SendFrom(order) ==
  /\ process = "running" /\ \A t \in Ids : ~At(t, "none") /\ signals < 4
  /\ signals' = signals + 1
  /\ LET s == order[signals + 1] t == s[1] IN
       \/ /\ Blocked(t, s[2])
          /\ pending' = [pending EXCEPT ![t] = @ \cup {s}]
          /\ UNCHANGED <<thread, handled, process>>
       \/ /\ s[2] = "wait" /\ At(t, "sigwait")
          /\ Go(t, "show")
          /\ UNCHANGED <<pending, handled, process>>
       \/ /\ ~Blocked(t, s[2]) /\ ~(s[2] = "wait" /\ At(t, "sigwait"))
          /\ handled' = IF s \in actions THEN handled \cup {s} ELSE handled
          /\ process' = IF s \in actions THEN process ELSE "killed"
          /\ UNCHANGED <<thread, pending>>
  /\ UNCHANGED <<actions, shownSet>>

\* Mutant of Send_33_01: the signal that is waited for is sent first.
SendSwapped == SendFrom(<<Order[2], Order[1], Order[4], Order[3]>>)

Send_33_01 == SendFrom(Order)

\* sigpending(), showsigset() and the end of the thread
Show_33_01(t) ==
  /\ At(t, "show")
  /\ shownSet' = [shownSet EXCEPT ![t] = pending[t]]
  /\ Go(t, "end")
  /\ UNCHANGED <<actions, pending, handled, signals, process>>

\* the second sleep(3) is over and main() returns
Exit_33_01 ==
  /\ process = "running" /\ signals = 4
  /\ process' = "exited"
  /\ UNCHANGED <<thread, actions, pending, handled, signals, shownSet>>

Next_33_01 == Send_33_01 \/ Exit_33_01 \/ \E t \in Ids : Create_33_01(t) \/ Action(t) \/ Mask(t) \/ Show_33_01(t)

Spec_33_01 == Init_33_01 /\ [][Next_33_01]_vars_33_01

-----------------------------------------------------------------------------
\* "It must show T1_SIG_BLOCK": a thread that has seen its second signal
\* shows its own blocked signal as pending, and nothing sent to the other
\* thread; only a signal that came before pthread_sigmask() is missing.
ShowsOwnSignal ==
  \A t \in Ids : shownSet[t] # Unseen =>
    shownSet[t] = {<<t, "block">>} \ handled

-----------------------------------------------------------------------------
(***************************************************************************)
(* Exercise 53-01: thread 0 reads lines into one buffer, thread 1 displays *)
(* them; the named semaphores sem_w and sem_r pass the buffer between      *)
(* them.  Both names are created with O_EXCL and unlinked by               *)
(* free_resouces().  The program may be started again after it has ended.  *)
(***************************************************************************)
CONSTANTS MaxRead,   \* lines on standard input
          MaxRuns    \* times the program is started

VARIABLES writer,                   \* where thread 0 is; "ended" when the process is gone
          reader,                 \* where thread 1 is
          names,                  \* the semaphore names that exist
          sem_w, sem_r, buffer,   \* number of the line in the buffer
          taken,                  \* lines read so far
          displayed,              \* the last line displayed; lines are displayed in order
          how,                    \* how the last process ended
          runs
vars_53_01 == <<writer, reader, names, sem_w, sem_r, buffer, taken, displayed, how, runs>>

TypeOK_53_01 ==
  /\ writer \in {"open_r", "open_w", "create", "wait", "getline", "post", "ended"}
  /\ reader \in {"none", "wait", "display", "post"}
  /\ names \subseteq {"r", "w"}
  /\ sem_w \in 0..1 /\ sem_r \in 0..1
  /\ taken \in 0..MaxRead /\ buffer \in 0..taken /\ displayed \in 0..taken
  /\ how \in {"never", "eof", "signal", "crash"} /\ runs \in 0..MaxRuns

Init_53_01 ==
  /\ writer = "ended" /\ reader = "none" /\ names = {}
  /\ sem_w = 1 /\ sem_r = 0 /\ buffer = 0 /\ taken = 0 /\ displayed = 0
  /\ how = "never" /\ runs = 0

Start ==
  /\ writer = "ended" /\ runs < MaxRuns
  /\ runs' = runs + 1 /\ writer' = "open_r"
  /\ sem_w' = 1 /\ sem_r' = 0 /\ buffer' = 0 /\ taken' = 0 /\ displayed' = 0
  /\ UNCHANGED <<reader, names, how>>

\* free_resouces() and the end of the process.  Before thread_1 exists
\* pthread_cancel() is called with an identifier that is null and the
\* process crashes there, before the names are unlinked.
Leave(why) ==
  /\ writer' = "ended" /\ reader' = "none"
  /\ names' = IF reader = "none" THEN names ELSE {}
  /\ how' = IF reader = "none" THEN "crash" ELSE why
  /\ UNCHANGED <<sem_w, sem_r, buffer, taken, displayed, runs>>

\* sem_open(O_CREAT | O_EXCL) of one semaphore
OpenName(n, here, next) ==
  /\ writer = here
  /\ \/ /\ n \in names
        /\ Leave("eof")
     \/ /\ n \notin names
        /\ names' = names \cup {n} /\ writer' = next
        /\ UNCHANGED <<reader, sem_w, sem_r, buffer, taken, displayed, how, runs>>
Open == OpenName("r", "open_r", "open_w") \/ OpenName("w", "open_w", "create")

\* malloc() and pthread_create()
Create_53_01 ==
  /\ writer = "create"
  /\ \/ Leave("eof")    \* malloc() fails
     \/ /\ writer' = "wait" /\ reader' = "wait"
        /\ UNCHANGED <<names, sem_w, sem_r, buffer, taken, displayed, how, runs>>

\* sem_wait(sem_w)
WriterWait_53_01 ==
  /\ writer = "wait" /\ sem_w > 0
  /\ sem_w' = sem_w - 1 /\ writer' = "getline"
  /\ UNCHANGED <<reader, names, sem_r, buffer, taken, displayed, how, runs>>

\* getline(): the next line, or end of file and exit_err()
Getline ==
  /\ writer = "getline"
  /\ \/ /\ taken < MaxRead
        /\ taken' = taken + 1 /\ buffer' = taken + 1 /\ writer' = "post"
        /\ UNCHANGED <<reader, names, sem_w, sem_r, displayed, how, runs>>
     \/ taken = MaxRead /\ Leave("eof")

\* sem_post(sem_r)
WriterPost_53_01 ==
  /\ writer = "post"
  /\ sem_r' = sem_r + 1 /\ writer' = "wait"
  /\ UNCHANGED <<reader, names, sem_w, buffer, taken, displayed, how, runs>>

\* sem_wait(sem_r) in thread 1
ReaderWait_53_01 ==
  /\ reader = "wait" /\ sem_r > 0
  /\ sem_r' = sem_r - 1 /\ reader' = "display"
  /\ UNCHANGED <<writer, names, sem_w, buffer, taken, displayed, how, runs>>

\* printf() of the buffer
DisplayLine(n) ==
  /\ reader = "display"
  /\ displayed' = n /\ reader' = "post"
  /\ UNCHANGED <<writer, names, sem_w, sem_r, buffer, taken, how, runs>>

\* Mutant of Display: the line is dropped.
DisplayNothing == DisplayLine(displayed)

Display == DisplayLine(buffer)

\* sem_post(sem_w)
ReaderPost_53_01 ==
  /\ reader = "post"
  /\ sem_w' = sem_w + 1 /\ reader' = "wait"
  /\ UNCHANGED <<writer, names, sem_r, buffer, taken, displayed, how, runs>>

\* SIGINT or SIGTERM: term_handle()
Terminate == writer # "ended" /\ Leave("signal")

Reader == ReaderWait_53_01 \/ Display \/ ReaderPost_53_01
Next_53_01 ==
  \/ Start \/ Terminate \/ Open \/ Create_53_01
  \/ WriterWait_53_01 \/ Getline \/ WriterPost_53_01 \/ Reader

Spec_53_01 == Init_53_01 /\ [][Next_53_01]_vars_53_01

-----------------------------------------------------------------------------
\* Thread 1 displays every line once and in order, and the end of the input
\* ends the process only when the last line has been displayed.
EveryLineDisplayed ==
  /\ displayed \in {taken, taken - 1}
  /\ writer = "ended" /\ how = "eof" => displayed = MaxRead

\* What the two programs show is right.
ShownRight == ShowsOwnSignal /\ EveryLineDisplayed
=============================================================================
