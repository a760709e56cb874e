--------------------------- MODULE ProcessPrograms --------------------------
(***************************************************************************)
(* Programs that create processes, connect them by pipes and start them in *)
(* namespaces, as the calls their processes make.                          *)
(***************************************************************************)
EXTENDS Calls

-----------------------------------------------------------------------------
(***************************************************************************)
(* Programs whose processes talk through pipes: pipes/simple_pipe.c,       *)
(* change_case.c, pipe_sync.c, pipe_ls_wc.c, popen_glob.c, and the         *)
(* solutions 35-04.c, 43-01.c and 44-01.c.  Data are two blocks, 1 and 2;  *)
(* upper case adds 10.                                                     *)
(***************************************************************************)
\* the child keeps the write end
simple_pipe_open == [
  P |-> <<fork("C"), close("a", "r"), write("a", 1), write("a", 2), close("a", "w"), wait(7), exit(0)>>,
  C |-> <<read("a", 4), show("data"), jump(1), print("end"), close("a", "r"), exit(0)>>]
simple_pipe == [
  P |-> <<fork("C"), close("a", "r"), write("a", 1), write("a", 2), close("a", "w"), wait(7), exit(0)>>,
  C |-> <<close("a", "w"), read("a", 5), show("data"), jump(2), print("end"), close("a", "r"), exit(0)>>]

\* a line is sent to the child, and its answer waited for; at the end of the
\* input the parent exits, and the child sees the end of its pipe
change_case == [
  P |-> <<fork("C"), close("a", "r"), close("b", "w"),
          write("a", 1), read("b", 7), show("data"),
          write("a", 2), read("b", 10), show("data"), exit(0)>>,
  C |-> <<close("a", "w"), close("b", "r"), read("a", 7), add(10), pass("b"), jump(3), exit(0)>>]

\* pfd[1] is not closed in the parent
pipe_sync_open == [
  P |-> <<print("started"), fork("C"), fork("D"), read("a", 6), exit(1), print("ready"), exit(0)>>,
  C |-> <<close("a", "r"), sleep, print("C closing"), close("a", "w"), exit(0)>>,
  D |-> <<close("a", "r"), sleep, print("D closing"), close("a", "w"), exit(0)>>]
pipe_sync == [
  P |-> <<print("started"), fork("C"), fork("D"), close("a", "w"), read("a", 7), exit(1), print("ready"), exit(0)>>,
  C |-> <<close("a", "r"), sleep, print("C closing"), close("a", "w"), exit(0)>>,
  D |-> <<close("a", "r"), sleep, print("D closing"), close("a", "w"), exit(0)>>]

\* C becomes ls, D becomes wc
pipe_ls_wc == [
  P |-> <<fork("C"), fork("D"), close("a", "r"), close("a", "w"), wait(6), wait(7), exit(0)>>,
  C |-> <<close("a", "r"), exec, write("a", 1), write("a", 1), exit(0)>>,
  D |-> <<close("a", "w"), exec, set(0), read("a", 8), show("line"), jump(4), exit(1), print("total"), exit(0)>>]

\* input: 0 is its end, 1 an empty line, 2 a bad pattern, of which there is at
\* most one, and 3 a good one
popen_glob == [
  P |-> <<choose(0..3), jumpif({0, 3}, 4), choose({0, 3}), jumpif({0}, 14),
          open("a"), fork("C"), close("a", "w"), read("a", 11), print("file"), jump(8),
          close("a", "r"), wait(14), show("status"), exit(0)>>,
  C |-> <<close("a", "r"), exec, write("a", 1), write("a", 1), exit(0)>>]

\* the child sends three blocks, the parent receives them until the end
imp_43_01 == [
  P |-> <<fork("C"), close("a", "w"), print("receive"), read("a", 6), jump(4), wait(8), show("status"),
          close("a", "r"), exit(0)>>,
  C |-> <<close("a", "r"), print("send"), write("a", 1), write("a", 2), write("a", 1), close("a", "w"), exit(0)>>]

\* two strings; then the user interrupts both processes
imp_44_01 == [
  P |-> <<print("type"), fork("C"), close("a", "r"), close("b", "w"),
          write("a", 1), read("b", 7), show("data"), write("a", 2), read("b", 10), show("data"),
          print("enough"), sleep, jump(12)>>,
  C |-> <<close("a", "w"), close("b", "r"), read("a", 4), add(10), pass("b"), jump(3)>>,
  U |-> <<see("enough"), kill("group", "INT"), exit(0)>>]

\* do_pipe() twice, with three blocks: the parent keeps its write end, the child
\* counts what it reads, and may fail to get its processor
do_pipe(c, f) == <<fork(c), close(f, "r"), print("sending"), write(f, 1), write(f, 1), write(f, 1)>>
do_pipe_child(f, done) ==
  <<close(f, "w"), choose({0, 1}), jumpif({1}, 10), print("receiving"), read(f, 6), read(f, 7), read(f, 8),
    print(done), exit(0), exit(1)>>
imp_35_04 == [
  P |-> do_pipe("C", "a") \o <<wait(8), open("b")>> \o do_pipe("D", "b") \o <<wait(16), exit(0)>>,
  C |-> do_pipe_child("a", "first"), D |-> do_pipe_child("b", "second")]

PipeCode == [simple_pipe |-> simple_pipe, change_case |-> change_case, pipe_sync |-> pipe_sync,
             pipe_ls_wc |-> pipe_ls_wc, popen_glob |-> popen_glob,
             imp_35_04 |-> imp_35_04, imp_43_01 |-> imp_43_01, imp_44_01 |-> imp_44_01]

-----------------------------------------------------------------------------
(* What is displayed, o, when the processes are in state ps                *)

Finished(ps) == ps.P.st = "gone" /\ ps.P.how = 0
PipesRight(k, o, ps) ==
  CASE k = "simple_pipe" -> Finished(ps) => Regs(o, "data") = <<1, 2>> /\ o[Len(o)].what = "end"
    [] k = "change_case" -> Finished(ps) => Regs(o, "data") = <<11, 12>>
    [] k = "imp_44_01" -> Seen(o, "enough") => Regs(o, "data") = <<11, 12>>
    [] k = "pipe_sync" -> After(o, "C closing", "ready") /\ After(o, "D closing", "ready")
    [] k = "pipe_ls_wc" -> Finished(ps) => Seen(o, "total") /\ Len(Lines(o, "line")) = 2
    [] k = "popen_glob" -> Seen(o, "status") => Len(Lines(o, "file")) = 2 /\ Regs(o, "status") = <<0>>
    [] k = "imp_35_04" -> /\ After(o, "first", "second") \/ ps.C.how = 1
                          /\ ps.P.how = Killed => ps.C.how = 1 \/ ps.D.how = 1
                          /\ Seen(o, "second") => Len(Lines(o, "sending")) = 2
    [] k = "imp_43_01" -> Finished(ps) => Regs(o, "status") = <<0>>

-----------------------------------------------------------------------------
(***************************************************************************)
(* Programs that create processes and wait for them: from procexec,        *)
(* t_fork.c, fork_whos_on_first.c, fork_sig_sync.c, multi_wait.c,          *)
(* orphan.c, make_zombie.c, child_status.c, multi_SIGCHLD.c, footprint.c,  *)
(* t_vfork.c, vfork_fd_test.c, system.c with t_system.c, simple_system.c;  *)
(* and the solutions 24-02.c to 28-01.c.  The register is the variable a   *)
(* program displays: istack, a status, the number of live children.        *)
(***************************************************************************)
\* istack is 222; each process has its own
t_fork == [
  P |-> <<set(222), fork("C"), sleep, show("parent"), exit(0)>>,
  C |-> <<add(444), show("child"), exit(0)>>]

\* numChildren is 2
fork_whos_on_first == [
  P |-> <<fork("C"), print("0"), wait(4), fork("D"), print("1"), wait(7), exit(0)>>,
  C |-> <<print("0"), exit(0)>>,
  D |-> <<print("1"), exit(0)>>]
imp_24_04 == fork_whos_on_first

\* SYNC_SIG is not blocked when the child starts
fork_sig_sync_unblocked == [
  P |-> <<sigaction("USR1", Fn(8, {})), fork("C"), print("wait"), sigsuspend({}), print("got"), setmask({}), exit(0),
          return>>,
  C |-> <<print("started"), sleep, print("signal"), kill("parent", "USR1"), exit(0)>>]
fork_sig_sync == [
  P |-> <<block({"USR1"}), sigaction("USR1", Fn(9, {})), fork("C"),
          print("wait"), sigsuspend({}), print("got"), setmask({}), exit(0),
          return>>,
  C |-> <<print("started"), sleep, print("signal"), kill("parent", "USR1"), exit(0)>>]

multi_wait == [
  P |-> <<fork("C"), fork("D"), wait(6), print("dead"), jump(3), print("no more"), exit(0)>>,
  C |-> <<print("C"), sleep, exit(0)>>,
  D |-> <<print("D"), sleep, exit(0)>>]

orphan == [
  P |-> <<fork("C"), print("sleeping"), sleep, print("exiting"), exit(0)>>,
  C |-> <<iforphan(4), sleep, jump(1), print("orphaned"), exit(0)>>]

make_zombie == [
  P |-> <<fork("C"), sleep, list("ps", "C"), kill("C", "KILL"), sleep, list("ps", "C"), exit(0)>>,
  C |-> <<print("exiting"), exit(0)>>]
imp_26_04 == [
  P |-> <<block({"CHLD"}), fork("C"), sigwait({"CHLD"}), list("ps", "C"), kill("C", "KILL"), sleep,
          list("ps", "C"), wait(9), sleep, list("ps", "C"), exit(0)>>,
  C |-> <<print("exiting"), exit(0)>>]

\* the child pauses, the user stops, continues and ends it
child_status == [
  P |-> <<fork("C"), waitid(5), show("status"), jumpif({0, Killed}, 6), jump(2), exit(0)>>,
  C |-> <<print("started"), pause, jump(2)>>,
  U |-> <<see("started"), kill("C", "STOP"), kill("C", "CONT"), kill("C", "TERM"), exit(0)>>]
imp_26_03 == child_status

\* two children; the handler, at 9, reaps every child that has ended, here
\* only one of them
multi_SIGCHLD_once == [
  P |-> <<sigaction("CHLD", Fn(9, {})), setmask({"CHLD"}), set(2), fork("C"), fork("D"),
          jumpif({0}, 14), sigsuspend({}), jump(6),
          reap(12), add(-1), jump(12), sleep, return,
          print("all"), exit(0)>>,
  C |-> <<sleep, print("C exiting"), exit(0)>>,
  D |-> <<sleep, print("D exiting"), exit(0)>>]
multi_SIGCHLD == [
  P |-> <<sigaction("CHLD", Fn(9, {})), setmask({"CHLD"}), set(2), fork("C"), fork("D"),
          jumpif({0}, 14), sigsuspend({}), jump(6),
          reap(12), add(-1), jump(9), sleep, return,
          print("all"), exit(0)>>,
  C |-> <<sleep, print("C exiting"), exit(0)>>,
  D |-> <<sleep, print("D exiting"), exit(0)>>]

\* func() returns its argument, here 3
footprint == [
  P |-> <<print("break"), fork("C"), wait(4), print("break"), show("status"), exit(0)>>,
  C |-> <<print("child break"), exit(3)>>]
imp_25_01 == [
  P |-> <<fork("C"), wait(3), jumpif({Killed}, 6), show("status"), exit(0), exit(1)>>,
  C |-> <<exit((-1) % 256)>>]
imp_24_03 == [
  P |-> <<print("before"), fork("C"), print("running"), exit(0)>>,
  C |-> <<raise("ABRT")>>]

\* the memory is shared until the child exits
t_vfork == [
  P |-> <<set(222), vfork("C"), print("parent"), show("istack"), exit(0)>>,
  C |-> <<sleep, print("child"), add(444), exit(0)>>]
\* the descriptors are not: <<"a", "w">> stands for the standard output
vfork_fd_test_falls == [
  P |-> <<vfork("C"), ifclosed("a", "w", 4), close("a", "w"), ifclosed("a", "w", 6), close("a", "w"),
          print("error"), exit(0)>>,
  C |-> <<close("a", "w")>>]
vfork_fd_test == [
  P |-> <<vfork("C"), ifclosed("a", "w", 4), close("a", "w"), ifclosed("a", "w", 6), close("a", "w"),
          print("error"), exit(0)>>,
  C |-> <<close("a", "w"), exit(0)>>]
imp_24_02 == [
  P |-> <<vfork("C"), print("parent"), wait(4), ifclosed("a", "w", 7), print("use"), exit(0), exit(1)>>,
  C |-> <<print("child"), close("a", "w"), exit(0)>>]
imp_28_01 == [
  P |-> <<fork("C"), wait(3), vfork("D"), wait(5), print("times"), exit(0)>>,
  C |-> <<exit(0)>>, D |-> <<exit(0)>>]

\* the child polls the parent with kill(pid, 0)
imp_26_01 == [
  P |-> <<fork("C"), exit(0)>>,
  C |-> <<ifgone("P", 4), sleep, jump(1), ppid("parent"), exit(0)>>]
\* child_entry() starts a grandchild G and exits
imp_26_02 == [
  P |-> <<block({"RTMAX"}), fork("C"), print("wait"), sigwait({"RTMAX"}), wait(6), print("done"), exit(0)>>,
  C |-> <<fork("G"), exit(0)>>,
  G |-> <<sleep, ppid("before"), kill("P", "RTMAX"), sleep, ppid("after"), exit(0)>>]

\* system(): the command is interrupted from the terminal; simple_system()
\* leaves the signals as they are
simple_system == [
  P |-> <<fork("C"), wait(3), show("returned"), exit(0)>>,
  C |-> <<exec, print("command"), sleep, exit(0)>>,
  U |-> <<see("command"), kill("group", "INT"), exit(0)>>]
system == [
  P |-> <<block({"CHLD"}), sigaction("INT", IGN), sigaction("QUIT", IGN), fork("C"), wait(6),
          setmask({}), sigaction("INT", DFL), sigaction("QUIT", DFL), show("returned"), exit(0)>>,
  C |-> <<sigaction("INT", DFL), sigaction("QUIT", DFL), setmask({}), exec, print("command"), sleep, exit(0)>>,
  U |-> <<see("command"), kill("group", "INT"), exit(0)>>]

\* do_limit_as() in C, do_limit_cpu() in D: U is the kernel, which sends SIGXCPU at
\* the soft limit and SIGKILL at the hard one
do_overload(c, k) == <<fork(c), wait(k), show("status")>>
do_limit_as == <<print("as"), exit(1)>>
do_limit_cpu == <<print("cpu"), sigaction("XCPU", Fn(5, {})), print("limited"), jump(4), print("catch"), return>>
imp_36_03 == [
  P |-> do_overload("C", 3) \o do_overload("D", 6) \o <<exit(0)>>, C |-> do_limit_as, D |-> do_limit_cpu,
  U |-> <<see("limited"), kill("D", "XCPU"), kill("D", "XCPU"), kill("D", "KILL"), exit(0)>>]

ForkCode == [t_fork |-> t_fork, fork_whos_on_first |-> fork_whos_on_first, imp_24_04 |-> imp_24_04,
             fork_sig_sync |-> fork_sig_sync, multi_wait |-> multi_wait, orphan |-> orphan,
             make_zombie |-> make_zombie, imp_26_04 |-> imp_26_04, child_status |-> child_status,
             imp_26_03 |-> imp_26_03, multi_SIGCHLD |-> multi_SIGCHLD, footprint |-> footprint,
             imp_25_01 |-> imp_25_01, imp_24_03 |-> imp_24_03, t_vfork |-> t_vfork,
             vfork_fd_test |-> vfork_fd_test, imp_24_02 |-> imp_24_02, imp_28_01 |-> imp_28_01,
             imp_26_01 |-> imp_26_01, imp_26_02 |-> imp_26_02, simple_system |-> simple_system,
             system |-> system, imp_36_03 |-> imp_36_03]

-----------------------------------------------------------------------------
(* What is displayed, o, when the processes are in state ps                *)

Over(ps) == ps.P.st = "gone" /\ ps.P.how = 0
States(o) == [i \in DOMAIN Lines(o, "ps") |-> Lines(o, "ps")[i].ps]
ForksRight(k, o, ps) ==
  CASE k = "t_fork" -> \A i \in DOMAIN o : o[i].reg = IF o[i].by = "P" THEN 222 ELSE 666
    [] k \in {"fork_whos_on_first", "imp_24_04"} ->
         \A i \in DOMAIN o : o[i].what = "1" => Len(Lines(SubSeq(o, 1, i), "0")) = 2
    [] k = "fork_sig_sync" -> After(o, "signal", "got")
    [] k = "multi_wait" -> Over(ps) => Len(o) = 5 /\ o[5].what = "no more"
    [] k = "orphan" -> After(o, "exiting", "orphaned") \/ ps.P.how # 0
    [] k = "make_zombie" -> "gone" \notin {States(o)[i] : i \in DOMAIN States(o)}
    [] k = "imp_26_04" -> Over(ps) => States(o) = <<"zombie", "zombie", "gone">>
    [] k \in {"child_status", "imp_26_03"} ->
         Over(ps) => Regs(o, "status") \in {<<Killed>>, <<Continued, Killed>>, <<Stopped, Killed>>, <<Stopped, Continued, Killed>>}
    [] k = "multi_SIGCHLD" -> After(o, "C exiting", "all") /\ After(o, "D exiting", "all")
    [] k = "footprint" -> Over(ps) => Regs(o, "status") = <<3>>
    [] k = "imp_25_01" -> Over(ps) => Regs(o, "status") = <<255>>
    [] k = "imp_24_03" -> ps.C.st = "gone" => ps.C.how = Killed
    [] k = "t_vfork" -> Over(ps) => Regs(o, "istack") = <<666>> /\ After(o, "child", "parent")
    [] k = "vfork_fd_test" -> Over(ps) => Len(o) = 1
    [] k = "imp_24_02" -> Over(ps) => o[3].what = "use"
    [] k = "imp_28_01" -> Over(ps) => ps.C.st = "gone" /\ ps.D.st = "gone"
    [] k = "imp_26_01" -> \A i \in DOMAIN o : o[i].reg = 1
    [] k = "imp_26_02" -> \A i \in DOMAIN o : Seen(SubSeq(o, 1, i), "done") /\ o[i].what = "after" => o[i].reg = 1
    [] k = "simple_system" -> Over(ps) => Seen(o, "command")
    [] k = "imp_36_03" -> Over(ps) => Regs(o, "status") = <<1, Killed>> /\ After(o, "as", "cpu")
    [] k = "system" -> ps.P.how = Killed => ps.C.how # Killed

-----------------------------------------------------------------------------
(***************************************************************************)
(* Programs that start processes in namespaces of their own, from          *)
(* namespaces: userns_child_exec.c, simple_init.c, ns_child_exec.c,        *)
(* ns_run.c, multi_pidns.c, pidns_init_sleep.c, demo_uts_namespaces.c and  *)
(* orphan.c.  clone() is a fork().  Of a namespace only what is displayed  *)
(* is kept: the host name of demo_uts_namespaces is the register, of which *)
(* each process has its own.                                               *)
(***************************************************************************)
\* a file of /proc/PID is written; if it cannot be, that is only reported
update_map(file) == print(file)
proc_setgroups_write == print("setgroups")
\* the child does not wait for its maps
childFunc_early == <<close("a", "w"), choose({0, 1}), jumpif({1}, 6), exec, print("command"), exit(0)>>
\* the end of the pipe says that the maps are written
childFunc == <<close("a", "w"), read("a", 4), exit(1), choose({0, 1}), jumpif({1}, 3), exec, print("command"), exit(0)>>
\* 1: a user map is written, 2: a group map, 3: both, 0: none, or no file can
\* be; with -D nothing is written to setgroups
userns_child_exec == [
  P |-> <<fork("C"), choose(0..3), jumpif({0}, 11), jumpif({2}, 7), update_map("uid_map"), jumpif({1}, 11),
          choose({0, 1}), jumpif({0}, 10), proc_setgroups_write, update_map("gid_map"),
          close("a", "w"), wait(13), exit(0)>>,
  C |-> childFunc]

\* the words of a command are expanded and it is executed, or one of these
\* fails; nobody looks at the status
expand_and_exec(p) == <<choose({0, 1}), jumpif({1}, 6), setpgid(p, 6), exec, print(p), exit(1)>>
\* each child that has ended, or none: child_handler() is entered at k
child_handler(k) == <<reap(k + 2), jump(k), return>>
init_signals == <<sigaction("CHLD", Fn(17, {"RESTART"})), setpgid("P", 16)>>
\* does not wait for the first command
simple_init_on == [
  P |-> init_signals \o
        <<choose(0..2), jumpif({0}, 16), jumpif({2}, 8), choose({0, 2}), jumpif({0}, 16),
          forkor("C", 16), print("created"), sleep,
          choose({0, 2}), jumpif({0}, 16), forkor("D", 16), print("created"), pause, exit(0)>> \o child_handler(17),
  C |-> expand_and_exec("C"), D |-> expand_and_exec("D")]
\* input: 0 is its end, 1 an empty line, of which there is at most one, and 2
\* a command; a fork() that fails ends the loop
simple_init == [
  P |-> init_signals \o
        <<choose(0..2), jumpif({0}, 16), jumpif({2}, 8), choose({0, 2}), jumpif({0}, 16),
          forkor("C", 16), print("created"), pause,
          choose({0, 2}), jumpif({0}, 16), forkor("D", 16), print("created"), pause, exit(0)>> \o child_handler(17),
  C |-> expand_and_exec("C"), D |-> expand_and_exec("D")]

Command == <<choose({0, 1}), jumpif({1}, 5), exec, print("command"), exit(1)>>
ns_child_exec == [P |-> <<fork("C"), print("pid"), wait(4), print("terminating"), exit(0)>>, C |-> Command]
\* with -f the program is executed by a child
ns_run == [P |-> <<choose({0, 1}), jumpif({0}, 6), fork("C"), wait(5), exit(0), exec, print("command"), exit(0)>>,
           C |-> Command]
pidns_init_sleep == [
  P |-> <<fork("C"), print("pid"), wait(4), exit(0)>>,
  C |-> <<print("childFunc"), choose({0, 1}), jumpif({1}, 6), exec, sleep, exit(1)>>]

\* two levels; each but the first mounts its /proc, which may fail
multi_pidns == [
  P |-> <<fork("C"), wait(3), exit(0)>>,
  C |-> <<choose({0, 1}), jumpif({1}, 7), print("/proc1"), fork("D"), wait(6), exit(0), exit(1)>>,
  D |-> <<choose({0, 1}), jumpif({1}, 6), print("/proc0"), print("sleeping"), exec, exit(1)>>]

\* the host name is 1, and in the child 2, if it can be set
demo_uts_namespaces == [
  P |-> <<set(1), fork("C"), print("pid"), sleep, show("parent"), wait(7), print("child has terminated"), exit(0)>>,
  C |-> <<choose({1, 2}), jumpif({1}, 5), show("child"), sleep, exit(1)>>]

ns_orphan == [
  P |-> <<fork("C"), print("created"), print("terminating"), exit(0)>>,
  C |-> <<sleep, iforphan(4), jump(1), ppid("orphan"), sleep, print("child terminating"), exit(0)>>]

NamespaceCode ==
  [userns_child_exec |-> userns_child_exec, simple_init |-> simple_init, ns_child_exec |-> ns_child_exec,
   ns_run |-> ns_run, pidns_init_sleep |-> pidns_init_sleep, multi_pidns |-> multi_pidns,
   demo_uts_namespaces |-> demo_uts_namespaces, ns_orphan |-> ns_orphan]

-----------------------------------------------------------------------------
(* What is displayed, o, when the processes are in state ps                *)

Left(ps, p) == ps[p].st \in {"none", "gone"}
NamespacesRight(k, o, ps) ==
  CASE k = "userns_child_exec" ->
         /\ \A i, j \in DOMAIN o : o[i].what = "command" /\ j > i => o[j].what = "command"
         /\ After(o, "setgroups", "gid_map") \/ ~Seen(o, "setgroups")
    [] k = "simple_init" -> ps.D.st # "none" => ps.C.st = "gone"
    [] k \in {"ns_child_exec", "ns_run", "pidns_init_sleep"} -> ps.P.st = "gone" => Left(ps, "C")
    [] k = "multi_pidns" -> /\ After(o, "/proc1", "/proc0")
                            /\ ps.P.st = "gone" => Left(ps, "C") /\ Left(ps, "D")
    [] k = "demo_uts_namespaces" -> /\ Regs(o, "parent") \in {<<>>, <<1>>} /\ Regs(o, "child") \in {<<>>, <<2>>}
                                    /\ Seen(o, "child has terminated") => ps.C.st = "gone"
    [] k = "ns_orphan" -> Regs(o, "orphan") \in {<<>>, <<1>>} /\ After(o, "terminating", "orphan")
\* pause() is called when the child has ended already
NamespaceStuck(k, ps) ==
  k = "simple_init" /\ ps.P.pc \in {10, 15} /\ \A p \in {"C", "D"} : Left(ps, p)
=============================================================================
