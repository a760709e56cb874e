----------------------------- MODULE SignalWaits ----------------------------
(***************************************************************************)
(* Exercises 22-02, 22-03, 23-02 and 27-06: a process that waits for       *)
(* signals, for the end of a sleep or for its children, and what signals   *)
(* that merge, are discarded or come early do to it; processes that wait   *)
(* for locks.  The programs share no state.                                *)
(***************************************************************************)
EXTENDS Sequences, FiniteSets, Integers

-----------------------------------------------------------------------------
(***************************************************************************)
(* Exercise 22-02: the process blocks all signals, raises each standard    *)
(* signal once in random order and each realtime signal Times times, and   *)
(* unblocks them.  A pending SIGCONT is discarded by a signal that stops   *)
(* the process, and the other way round.                                   *)
(***************************************************************************)
CONSTANTS StdSigs,    \* standard signals
          RtSigs,     \* realtime signals, their numbers are higher
          Sync,       \* those a fault raises: SIGILL, SIGSEGV, ...
          Uncaught,   \* SIGKILL and SIGSTOP
          Stops,      \* the other signals that stop a process
          SIGCONT, Times

VARIABLES pc, blocked,   \* the signal mask is full
          sig_done,      \* standard signals that need not be raised any more
          pending,       \* standard signals pending
          queued,        \* realtime signals pending, with their values
          nrt,           \* realtime signals raised
          caught         \* what the handlers have shown
vars_22_02 == <<pc, blocked, sig_done, pending, queued, nrt, caught>>

TypeOK_22_02 ==
  /\ pc \in {"setup", "raise_std", "raise_rt", "unblock", "deliver", "end"}
  /\ blocked \in BOOLEAN
  /\ sig_done \subseteq StdSigs /\ pending \subseteq StdSigs
  /\ queued \in Seq(RtSigs \X Nat) /\ nrt \in 0..Times * Cardinality(RtSigs)
  /\ caught \in Seq((StdSigs \X {0}) \cup (RtSigs \X Nat))

Init_22_02 ==
  /\ pc = "setup" /\ blocked = FALSE /\ sig_done = Uncaught
  /\ pending = {} /\ queued = <<>> /\ nrt = 0 /\ caught = <<>>

\* setup_stdsignal() and setup_rtsignal(): handlers, and the full mask
SetupWith(mask) ==
  /\ pc = "setup" /\ pc' = "raise_std" /\ blocked' = mask
  /\ UNCHANGED <<sig_done, pending, queued, nrt, caught>>
setup_no_block == SetupWith(FALSE)
setup == SetupWith(TRUE)

\* the signals that the kernel discards when sig is generated
Discarded(sig) ==
  CASE sig = SIGCONT  -> Stops
    [] sig \in Stops  -> {SIGCONT}
    [] OTHER          -> {}

\* raise_stdsignal(): SIGKILL and SIGSTOP count as done from the start
raise_stdsignal ==
  /\ pc = "raise_std"
  /\ \/ \E sig \in StdSigs \ sig_done :
          /\ sig_done' = sig_done \cup {sig}
          /\ pending' = (pending \ Discarded(sig)) \cup {sig}
          /\ UNCHANGED pc
     \/ /\ sig_done = StdSigs
        /\ pc' = "raise_rt" /\ UNCHANGED <<sig_done, pending>>
  /\ UNCHANGED <<blocked, queued, nrt, caught>>

\* the lowest number of S
Lowest(S) == CHOOSE n \in S : \A m \in S : n <= m

\* raise_rtsignal(): the k-th sigqueue() is of the k-th signal of a round
raise_rtsignal ==
  /\ pc = "raise_rt"
  /\ IF nrt = Times * Cardinality(RtSigs)
       THEN pc' = "unblock" /\ UNCHANGED <<queued, nrt>>
       ELSE /\ nrt' = nrt + 1 /\ UNCHANGED pc
            /\ queued' = Append(queued, <<Lowest(RtSigs) + (nrt % Cardinality(RtSigs)), nrt>>)
  /\ UNCHANGED <<blocked, sig_done, pending, caught>>

\* unblock_signal() returns when no signal is pending any more
unblock_signal ==
  /\ pc = "unblock" /\ pc' = "deliver" /\ blocked' = FALSE
  /\ UNCHANGED <<sig_done, pending, queued, nrt, caught>>
Return ==
  /\ pc = "deliver" /\ pending = {} /\ queued = <<>> /\ pc' = "end"
  /\ UNCHANGED <<blocked, sig_done, pending, queued, nrt, caught>>

\* Linux delivers the pending signal with the lowest number, but those in Sync
\* before all others, and of several instances of a realtime signal the oldest;
\* the handlers block all signals
FirstOf(P) == Lowest(IF P \cap Sync # {} THEN P \cap Sync ELSE P)
Deliver ==
  /\ ~blocked
  /\ IF pending # {}
       THEN /\ caught' = Append(caught, <<FirstOf(pending), 0>>)
            /\ pending' = pending \ {FirstOf(pending)} /\ UNCHANGED queued
       ELSE /\ queued # <<>>
            /\ LET low == Lowest({queued[k][1] : k \in 1..Len(queued)})
                   at == Lowest({k \in 1..Len(queued) : queued[k][1] = low})
               IN /\ caught' = Append(caught, queued[at])
                  /\ queued' = [k \in 1..(Len(queued) - 1) |-> queued[IF k < at THEN k ELSE k + 1]]
            /\ UNCHANGED pending
  /\ UNCHANGED <<pc, blocked, sig_done, nrt>>

Next_22_02 == setup \/ raise_stdsignal \/ raise_rtsignal \/ unblock_signal \/ Return \/ Deliver

-----------------------------------------------------------------------------
\* the standard signals caught
Std == {caught[k][1] : k \in 1..Len(caught)} \cap StdSigs

\* At the end each signal raised has been caught, the standard ones before the
\* realtime ones, and a realtime signal as often as it was raised and in that
\* order; except for SIGCONT or the stop signals, whichever were raised first:
\* that is what "catch missing" shows.
OnlyJobControlMissing ==
  pc = "end" =>
    /\ (sig_done \ Uncaught) \ Std \subseteq Stops \cup {SIGCONT}
    /\ SIGCONT \in Std <=> Stops \cap Std = {}
    /\ Len(caught) = Cardinality(Std) + nrt
    /\ \A j, k \in 1..Len(caught) : j < k =>
         /\ caught[j][1] \in RtSigs => caught[k][1] \in RtSigs
         /\ caught[j][1] = caught[k][1] => caught[j][2] < caught[k][2]

-----------------------------------------------------------------------------
(***************************************************************************)
(* Exercise 22-03: parent and child send TEST_SIG to each other nsig       *)
(* times, in turn.  The signal is blocked before fork(), so that it stays  *)
(* pending until sigsuspend() or sigwaitinfo() takes it.  TEST_SIG is not  *)
(* a realtime signal: a second one that arrives meanwhile is lost.         *)
(***************************************************************************)
CONSTANTS nsig

\* pc, pending are declared above
VARIABLES i,      \* their loop counters
          kills   \* history: the signals sent to each process
vars_22_03 == <<pc, i, pending, kills>>

Procs == {"parent", "child"}
Other(p) == IF p = "parent" THEN "child" ELSE "parent"

TypeOK_22_03 ==
  /\ pc \in [Procs -> {"none", "fork", "kill", "wait", "suspended", "end"}]
  /\ i \in [Procs -> 0..nsig] /\ pending \subseteq Procs
  /\ kills \in [Procs -> 0..nsig]

Init_22_03 ==
  /\ pc = [parent |-> "fork", child |-> "none"]
  /\ i = [p \in Procs |-> 0] /\ pending = {} /\ kills = [p \in Procs |-> 0]

\* the parent waits first, the child begins with kill(); fork() may fail
Fork_22_03 ==
  /\ pc["parent"] = "fork"
  /\ \/ pc' = [parent |-> "wait", child |-> "kill"]
     \/ pc' = [pc EXCEPT !["parent"] = "end"]
  /\ UNCHANGED <<i, pending, kills>>

\* i++ and the loop's condition, after the last call of its body
Loop(p, next) ==
  /\ i' = [i EXCEPT ![p] = @ + 1]
  /\ pc' = [pc EXCEPT ![p] = IF i[p] + 1 < nsig THEN next ELSE "end"]

\* what becomes of a signal: it is kept for a process that is not waiting if
\* that process has it blocked
KeptIfWaiting(q) == IF pc[q] = "suspended" THEN pending \cup {q} ELSE pending
Kept(q) == pending \cup {q}

Kill(p) ==
  /\ pc[p] = "kill"
  /\ pending' = Kept(Other(p))
  /\ kills' = [kills EXCEPT ![Other(p)] = @ + 1]
  /\ IF p = "parent" THEN Loop(p, "wait")
                     ELSE pc' = [pc EXCEPT ![p] = "wait"] /\ UNCHANGED i

\* sigsuspend() with an empty mask, or sigwaitinfo(), is entered and returns
Suspend(p) ==
  /\ pc[p] = "wait" /\ pc' = [pc EXCEPT ![p] = "suspended"]
  /\ UNCHANGED <<i, pending, kills>>
Wait_22_03(p) ==
  /\ pc[p] = "suspended" /\ p \in pending
  /\ pending' = pending \ {p}
  /\ IF p = "child" THEN Loop(p, "kill")
                    ELSE pc' = [pc EXCEPT ![p] = "kill"] /\ UNCHANGED i
  /\ UNCHANGED kills

Run(p) == Kill(p) \/ Suspend(p) \/ Wait_22_03(p)
Parent_22_03 == Fork_22_03 \/ Run("parent")
Child_22_03 == Run("child")
Next_22_03 == Parent_22_03 \/ Child_22_03
Spec_22_03 == Init_22_03 /\ [][Next_22_03]_vars_22_03

-----------------------------------------------------------------------------
\* Once there is a child, both processes exchange all their signals and end.
Exchanged == pc["child"] # "none" => \A p \in Procs : pc[p] = "end" /\ kills[p] = nsig

\* No signal merges with one still pending, and none goes to a process that
\* has ended: either would be an exchange less, or an error of kill().
NoneMerges == \A p \in Procs : pc[p] = "kill" => Other(p) \notin pending /\ pc[Other(p)] # "end"

-----------------------------------------------------------------------------
(***************************************************************************)
(* Sleeping on with signals: t_nanosleep.c, which sleeps for what remains, *)
(* t_clock_nanosleep.c, which does so or sleeps until an absolute time,    *)
(* and 23-02.c, always until an absolute time.  Time is a number; between  *)
(* two calls the program works for at most Work.  23-02.c adds its         *)
(* microseconds to tv_nsec, where they are next to nothing; carry says     *)
(* that the sum is a second or more, which it does not carry.              *)
(***************************************************************************)
CONSTANTS Secs,        \* how long to sleep: the seconds,
          Fraction,    \* and the nanoseconds or microseconds
          Work,        \* the longest time between two calls
          MaxSignals   \* bound: SIGINTs sent

\* pc is declared above
VARIABLES kind, carry, now, request, wakeAt, worked, signals
vars_23_02 == <<kind, carry, now, request, wakeAt, worked, signals, pc>>

Kinds == {"nanosleep", "relative", "absolute", "23-02"}
Absolute == kind \in {"absolute", "23-02"}
Asked == IF kind = "23-02" THEN Secs ELSE Secs + Fraction
TypeOK_23_02 ==
  /\ kind \in Kinds /\ carry \in BOOLEAN /\ pc \in {"ready", "asleep", "done", "error"}
  /\ now \in Nat /\ request \in 0..Asked /\ wakeAt \in Nat /\ worked \in 0..Work /\ signals \in 0..MaxSignals

\* main() has installed the handler and made the request, at time 0
Init_23_02 ==
  /\ kind \in Kinds /\ carry \in BOOLEAN
  /\ now = 0 /\ request = Asked /\ wakeAt = 0 /\ worked = 0 /\ signals = 0 /\ pc = "ready"

\* nanosleep() or clock_nanosleep()
Call ==
  /\ pc = "ready"
  /\ IF kind = "23-02" /\ carry THEN pc' = "error" /\ UNCHANGED wakeAt    \* EINVAL
     ELSE pc' = "asleep" /\ wakeAt' = IF ~Absolute THEN now + request ELSE IF request > now THEN request ELSE now
  /\ worked' = 0 /\ UNCHANGED <<kind, carry, now, request, signals>>
Wake ==
  /\ pc = "asleep" /\ now = wakeAt /\ pc' = "done"
  /\ UNCHANGED <<kind, carry, now, request, wakeAt, worked, signals>>
InterruptRemain ==
  /\ pc = "asleep" /\ now < wakeAt /\ signals < MaxSignals
  /\ pc' = "ready" /\ signals' = signals + 1 /\ request' = wakeAt - now
  /\ UNCHANGED <<kind, carry, now, wakeAt, worked>>
\* EINTR: what remains is the next request, unless the time is absolute
Interrupt ==
  /\ pc = "asleep" /\ now < wakeAt /\ signals < MaxSignals
  /\ pc' = "ready" /\ signals' = signals + 1
  /\ request' = IF Absolute THEN request ELSE wakeAt - now
  /\ UNCHANGED <<kind, carry, now, wakeAt, worked>>
Tick ==
  /\ \/ pc = "asleep" /\ now < wakeAt /\ UNCHANGED worked
     \/ pc = "ready" /\ worked < Work /\ worked' = worked + 1
  /\ now' = now + 1 /\ UNCHANGED <<kind, carry, request, wakeAt, signals, pc>>
Sleeper == Call \/ Wake \/ Tick
Next_23_02 == Sleeper \/ Interrupt
Spec_23_02 == Init_23_02 /\ [][Next_23_02]_vars_23_02
-----------------------------------------------------------------------------
\* No signal makes the sleep shorter.  One until an absolute time ends by that
\* time, or at once when the last interruption ends later; one for the
\* remaining time gets longer with every signal, by the work between the calls.
\* 23-02.c sleeps for the seconds it is given, without the microseconds.
SleptRight ==
  /\ pc = "done" => now \in Asked..(Asked + (IF Absolute THEN Work ELSE (signals + 1) * Work))
  /\ pc = "error" => kind = "23-02" /\ carry
\* The sleep comes to an end.
SleepOver == pc \in {"done", "error"}

-----------------------------------------------------------------------------
(***************************************************************************)
(* Exercise 27-06: a parent with a handler for SIGCHLD, which -b blocks,   *)
(* creates children and waits for all of them.  The handler only prints    *)
(* and is not restarting: it may interrupt wait(), which the parent takes  *)
(* for an error.                                                           *)
(***************************************************************************)
CONSTANTS Children

\* pc, caught are declared above
VARIABLES child,             \* where the parent is, and the state of each child
          sigblk, sigchld,   \* SIGCHLD is blocked; it is pending
          waited             \* calls of the handler, children wait() returned
vars_27_06 == <<pc, child, sigblk, sigchld, caught, waited>>

TypeOK_27_06 ==
  /\ pc \in {"block", "fork", "wait", "end", "error"}
  /\ child \in [Children -> {"none", "run", "zombie", "gone"}]
  /\ sigblk \in BOOLEAN /\ sigchld \in BOOLEAN
  /\ caught \in 0..Cardinality(Children) /\ waited \in 0..Cardinality(Children)

Init_27_06 ==
  /\ pc = "block" /\ child = [c \in Children |-> "none"]
  /\ sigblk = FALSE /\ sigchld = FALSE /\ caught = 0 /\ waited = 0

\* the options, sigprocmask(), sigaction()
Setup ==
  /\ pc = "block" /\ pc' = "fork" /\ sigblk' \in BOOLEAN
  /\ UNCHANGED <<child, sigchld, caught, waited>>

Fork_27_06 ==
  /\ pc = "fork"
  /\ \/ \E c \in Children : child[c] = "none" /\ child' = [child EXCEPT ![c] = "run"] /\ UNCHANGED pc
     \/ (\A c \in Children : child[c] # "none") /\ pc' = "wait" /\ UNCHANGED child
     \/ (\E c \in Children : child[c] = "none") /\ pc' = "error" /\ UNCHANGED child
  /\ UNCHANGED <<sigblk, sigchld, caught, waited>>

\* _exit(1): SIGCHLD for the parent, one even if several are due
Exit(c) ==
  /\ child[c] = "run"
  /\ child' = [child EXCEPT ![c] = "zombie"] /\ sigchld' = TRUE
  /\ UNCHANGED <<pc, sigblk, caught, waited>>

\* sighandler(); a wait() that it interrupts fails, and so does the parent
sighandler ==
  /\ pc \in {"fork", "wait"} /\ sigchld /\ ~sigblk
  /\ sigchld' = FALSE /\ caught' = caught + 1
  /\ pc' \in IF pc = "wait" THEN {"wait", "error"} ELSE {pc}
  /\ UNCHANGED <<child, sigblk, waited>>

\* wait() for children in the states due, ECHILD without one
WaitWhile(due) ==
  /\ pc = "wait"
  /\ \/ \E c \in Children :
          /\ child[c] = "zombie" /\ child' = [child EXCEPT ![c] = "gone"]
          /\ waited' = waited + 1 /\ UNCHANGED pc
     \/ (\A c \in Children : child[c] \notin due) /\ pc' = "end" /\ UNCHANGED <<child, waited>>
  /\ UNCHANGED <<sigblk, sigchld, caught>>

WaitForRunning == WaitWhile({"run"})
Wait_27_06 == WaitWhile({"run", "zombie"})

Parent_27_06 == Setup \/ Fork_27_06 \/ sighandler \/ Wait_27_06
Child_27_06 == \E c \in Children : Exit(c)
Next_27_06 == Parent_27_06 \/ Child_27_06
Spec_27_06 == Init_27_06 /\ [][Next_27_06]_vars_27_06

-----------------------------------------------------------------------------
\* wait(), sighandler(): with success all children have been waited for,
\* whatever the handler took; with -b it ends in success if fork() did not fail,
\* and the handler is never called, nor more often than children have ended.
AllWaited ==
  /\ pc = "end" => waited = Cardinality(Children)
  /\ sigblk => caught = 0 /\ (pc = "error" => \E c \in Children : child[c] = "none")
  /\ caught <= Cardinality({c \in Children : child[c] \in {"zombie", "gone"}})

\* The parent's loop ends.
WaitOver == pc \in {"end", "error"}

-----------------------------------------------------------------------------
(***************************************************************************)
(* Locks on parts of a file, as i_fcntl_locking.c sets them at the         *)
(* commands of its users, and lockRegion() and lockRegionWait() of         *)
(* region_locking.c do.  A process has two owners of locks: itself, for    *)
(* the commands s and w, and its open file description, for S and W.       *)
(* Displaying with g and G, and commands that are not understood, change   *)
(* nothing and are left out.                                               *)
(***************************************************************************)
CONSTANTS Lockers,      \* processes that run i_fcntl_locking on one file
          Bytes,        \* its bytes, 1..n
          MaxCommands   \* bound: commands of a user

VARIABLES held, waits, cmds, on
vars_locks == <<held, waits, cmds, on>>

OwnerKinds == {"process", "ofd"}
Owners == Lockers \X OwnerKinds
Idle == [kind |-> "process", type |-> "u", region |-> {}]
\* l_len = 0 is up to the end
Region(st, len) == {b \in Bytes : b >= st /\ (len = 0 \/ b < st + len)}
Regions == {Region(st, len) : st \in Bytes, len \in 0..1}
TypeOK_locks ==
  /\ held \in [Owners -> [Bytes -> {"u", "r", "w"}]] /\ cmds \in [Lockers -> 0..MaxCommands] /\ on \in [Lockers -> BOOLEAN]
  /\ waits \in [Lockers -> {Idle} \cup [kind : OwnerKinds, type : {"r", "w"}, region : Regions]]

Init_locks ==
  /\ held = [o \in Owners |-> [b \in Bytes |-> "u"]] /\ waits = [p \in Lockers |-> Idle]
  /\ cmds = [p \in Lockers |-> 0] /\ on = [p \in Lockers |-> TRUE]

-----------------------------------------------------------------------------
(* The kernel                                                              *)

\* the owners whose locks deny o a lock of this type
Deniers(o, type, region) ==
  {q \in Owners \ {o} : \E b \in region : held[q][b] = "w" \/ (type = "w" /\ held[q][b] = "r")}
Placed(o, type, region) == [held EXCEPT ![o] = [b \in Bytes |-> IF b \in region THEN type ELSE @[b]]]
\* for whom p waits, when only the locks of processes are looked at
WaitsFor(w, p) == {q \in Lockers : w[p].kind = "process" /\ <<q, "process">> \in Deniers(<<p, "process">>, w[p].type, w[p].region)}
\* everybody in S waits for somebody in S
Cycle(w, S) == S # {} /\ \A p \in S : WaitsFor(w, p) \cap S # {}
\* there is no other cycle than the one that p would close
EDEADLK(w, p) == \E S \in SUBSET Lockers : p \in S /\ Cycle(w, S)

-----------------------------------------------------------------------------
(* The commands                                                            *)

Reads(p) == on[p] /\ waits[p] = Idle
Command(p) == Reads(p) /\ cmds[p] < MaxCommands /\ cmds' = [cmds EXCEPT ![p] = @ + 1] /\ UNCHANGED on
\* F_SETLK: got, or failed because of an incompatible lock
SetLk(p) ==
  /\ Command(p) /\ UNCHANGED waits
  /\ \E k \in OwnerKinds, type \in {"u", "r", "w"}, region \in Regions :
       /\ type # "u" => Deniers(<<p, k>>, type, region) = {}
       /\ held' = Placed(<<p, k>>, type, region)
\* F_SETLKW, of a lock that is not to be had at once: wait, or fail for a deadlock
SetLkwUnchecked(p) ==
  /\ Command(p) /\ UNCHANGED held
  /\ \E k \in OwnerKinds, type \in {"r", "w"}, region \in Regions :
       /\ Deniers(<<p, k>>, type, region) # {}
       /\ waits' = [waits EXCEPT ![p] = [kind |-> k, type |-> type, region |-> region]]
SetLkw(p) ==
  /\ Command(p) /\ UNCHANGED held
  /\ \E k \in OwnerKinds, type \in {"r", "w"}, region \in Regions :
       LET w == [waits EXCEPT ![p] = [kind |-> k, type |-> type, region |-> region]] IN
       /\ Deniers(<<p, k>>, type, region) # {}
       /\ waits' = IF k = "process" /\ EDEADLK(w, p) THEN waits ELSE w
Granted(p) ==
  /\ waits[p] # Idle /\ Deniers(<<p, waits[p].kind>>, waits[p].type, waits[p].region) = {}
  /\ held' = Placed(<<p, waits[p].kind>>, waits[p].type, waits[p].region)
  /\ waits' = [waits EXCEPT ![p] = Idle] /\ UNCHANGED <<cmds, on>>
\* end of input: the file is closed
Leave(p) ==
  /\ Reads(p) /\ on' = [on EXCEPT ![p] = FALSE]
  /\ held' = [o \in Owners |-> IF o[1] = p THEN [b \in Bytes |-> "u"] ELSE held[o]]
  /\ UNCHANGED <<waits, cmds>>
Holder(p) == Granted(p) \/ Leave(p)
Holders == \E p \in Lockers : Holder(p)
Next_locks == Holders \/ \E p \in Lockers : SetLk(p) \/ SetLkw(p)
-----------------------------------------------------------------------------
\* a process waits with W, or for a lock that was set with S or W
OfdDeadlock ==
  \E p \in Lockers : waits[p].kind = "ofd" \/
    \E q \in Lockers : <<q, "ofd">> \in Deniers(<<p, "process">>, waits[p].type, waits[p].region)
\* All users get their locks, or are told of a deadlock, and can leave; only the
\* locks of open file descriptions, for which there is no EDEADLK, keep them.
LocksOver == (\A p \in Lockers : ~on[p]) \/ OfdDeadlock
=============================================================================
