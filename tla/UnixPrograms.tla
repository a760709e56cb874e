---------------------------- MODULE UnixPrograms ----------------------------
(***************************************************************************)
(* The programs of ProcessPrograms and SignalPrograms, run by the kernel   *)
(* of Processes, and the ones of ThreadPrograms, run by Sharing; Init      *)
(* chooses one, and the variables of the other machine keep still.         *)
(***************************************************************************)
EXTENDS ProcessPrograms, SignalPrograms, ThreadPrograms

CONSTANT PipeSize
VARIABLES prog, out,
          proc, pipe, fg,                \* Processes
          task, mem, mutex, obj, used    \* Sharing
kvars == <<proc, pipe, fg>>
svars == <<task, mem, mutex, obj, used>>
vars == <<prog, out, kvars, svars>>

AllCode == PipeCode @@ ForkCode @@ JobCode @@ SignalCode @@ TimerCode @@ NamespaceCode
K == INSTANCE Processes WITH Code <- AllCode
SharedCode == ThreadCode @@ ShareCode
S == INSTANCE Sharing WITH Code <- SharedCode
Init ==
  \/ K!Init /\ task = <<>> /\ mem = <<>> /\ mutex = "none" /\ obj = <<>> /\ used = {}
  \/ S!Init /\ proc = <<>> /\ pipe = <<>> /\ fg = "none"
Next ==
  \/ prog \in DOMAIN AllCode /\ K!Next /\ UNCHANGED svars
  \/ prog \in DOMAIN SharedCode /\ S!Next /\ UNCHANGED kvars

-----------------------------------------------------------------------------
\* A process that runs is before one of its calls, and past the last one
\* only for a signal to end it, and no pipe holds more than fits.
TypeOK ==
  /\ \A p \in K!Here :
       /\ proc[p].st \in {"none", "run", "stop", "zombie", "gone"}
       /\ proc[p].st \in {"run", "stop"} => proc[p].pc \in DOMAIN AllCode[prog][p] \/ K!Due(p) # {}
  /\ \A f \in DOMAIN pipe : Len(pipe[f]) <= PipeSize
  /\ prog \in DOMAIN SharedCode => S!TypeOK

\* What a program displays, and how its processes end, is what its source is
\* for, in whatever order the processes run, whichever fork() fails and
\* wherever a signal arrives: data comes through a pipe whole and in order, a
\* barrier holds until everybody is there, a status is the one of the right
\* child, a job is stopped, continued or hung up as the program says.
OutputsRight ==
  /\ prog \in DOMAIN PipeCode => PipesRight(prog, out, proc)
  /\ prog \in DOMAIN ForkCode => ForksRight(prog, out, proc)
  /\ prog \in DOMAIN JobCode => JobsRight(prog, out, proc)
  /\ prog \in DOMAIN SignalCode => SignalsRight(prog, out, proc)
  /\ prog \in DOMAIN TimerCode => TimersRight(prog, out, proc)
  /\ prog \in DOMAIN NamespaceCode => NamespacesRight(prog, out, proc)
  /\ prog \in DOMAIN ThreadCode => ThreadsRight(prog, out, task, mem, mutex)
  /\ prog \in DOMAIN ShareCode => SharesRight(prog, out, task, mem, obj)

\* 20-04.c, of its siginterrupt(): "if flag = 1 and no data has been transferred,
\* system call return -1 and errno = EINTR".  A read() that waits when the signal
\* comes is not restarted.
ReadInterrupted == prog \in DOMAIN SignalCode => NotRestarted(prog, proc)

\* the processes that stay for good, for reasons given with these definitions
Exempt ==
  \/ JobStuck(prog, proc) \/ SignalStuck(prog, out, proc) \/ TimerStuck(prog, out, proc) \/ ShareStuck(prog, task)
  \/ NamespaceStuck(prog, proc)
  \/ prog = "imp_26_02" /\ proc.C.how = 1
  \/ prog = "sigev_thread" /\ task.A.st = "end" /\ task.B.st = "end"
AllOver ==
  /\ \A p \in K!Here \ {"U"} : proc[p].st \in {"none", "gone", "zombie"}
  /\ \A t \in S!Here : task[t].st \in {"none", "end", "joined"}
\* Every process and every thread of every program ends, if the user does all
\* that is left to do: nobody waits for the end of a pipe that it keeps open
\* itself, for a child that has been waited for, or for a lock that is kept.
\* Excepted are the programs for which this is not so (Exempt): catch_rtsigs.c,
\* 20-02.c, timed_read.c and simple_init.c wait for a signal that may have come
\* before; processes that stop in an orphaned group, a writer without a reader,
\* those who come second to a semaphore and those whose fork() failed wait for
\* somebody who is not there; ptmr_null_evp.c, ptmr_sigev_signal.c, the daemon
\* and ptmr_sigev_thread.c go on waiting when all their signals have come.
AllEnd == []<>(Exempt \/ AllOver \/ K!UserCanAct)
Spec == Init /\ [][Next]_vars /\ K!Fairness /\ S!Fairness
=============================================================================
