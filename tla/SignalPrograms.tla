--------------------------- MODULE SignalPrograms ---------------------------
(***************************************************************************)
(* Programs with signals, timers and job control, as the calls their       *)
(* processes make.                                                         *)
(***************************************************************************)
EXTENDS Calls, TLC

-----------------------------------------------------------------------------
(***************************************************************************)
(* Programs that send, block, wait for and handle signals: those of the    *)
(* signals directory, and the solutions 20-01.c to 22-01.c.  U is the user *)
(* or the sending program.  A counter that a handler increments is the     *)
(* number of times a line is displayed.                                    *)
(***************************************************************************)
\* U is sig_sender P 3 SIGUSR1 SIGINT; handlers at 11 and 13
sig_sender == <<see("sleeping"), kill("P", "USR1"), kill("P", "USR1"), kill("P", "USR1"), kill("P", "INT"), exit(0)>>
sig_receiver == [
  P |-> <<sigaction("USR1", Fn(11, {"RESTART"})), sigaction("INT", Fn(13, {"RESTART"})), setmask({"USR1", "INT"}),
          print("sleeping"), sleep, setmask({}),
          jumpif({1}, 9), jump(7), print("report"), exit(0),
          print("count"), return,
          set(1), return>>,
  U |-> sig_sender]
imp_20_01 == sig_receiver

\* without the blocking at 1 a signal in the critical section is lost to
\* sigsuspend()
t_sigsuspend_open == [
  P |-> <<block({}), sigaction("INT", Fn(10, {})), sigaction("QUIT", Fn(12, {})),
          jumpif({1}, 8), print("LOOP"), sigsuspend({}), jump(4), setmask({}), exit(0),
          print("Caught"), return,
          print("Caught"), set(1), return>>,
  U |-> <<see("LOOP"), kill("P", "INT"), kill("P", "QUIT"), exit(0)>>]
t_sigsuspend == [
  P |-> <<block({"INT", "QUIT"}), sigaction("INT", Fn(10, {})), sigaction("QUIT", Fn(12, {})),
          jumpif({1}, 8), print("LOOP"), sigsuspend({}), jump(4), setmask({}), exit(0),
          print("Caught"), return,
          print("Caught"), set(1), return>>,
  U |-> <<see("LOOP"), kill("P", "INT"), kill("P", "QUIT"), exit(0)>>]

\* numSigs is 2; the handler is at 9
sig_speed_sigsuspend == [
  P |-> <<sigaction("USR1", Fn(9, {})), setmask({"USR1"}), fork("C"),
          sigsuspend({}), kill("C", "USR1"), sigsuspend({}), kill("C", "USR1"), exit(0), return>>,
  C |-> <<kill("parent", "USR1"), sigsuspend({}), kill("parent", "USR1"), sigsuspend({}), exit(0),
          exit(1), exit(1), exit(1), return>>]

\* U is t_sigqueue with data 1, 2, 3, then a user who sends SIGTERM, once
t_sigqueue == <<see("blocked"), sigqueue("P", "RTMIN", 1), sigqueue("P", "RTMIN", 2), sigqueue("P", "RTMIN", 3),
                kill("P", "TERM"), exit(0)>>
catch_rtsigs == [
  P |-> <<sigaction("RTMIN", Fn(11, {"ALL"})), sigaction("TERM", Fn(14, {"ALL"})), setmask(Sigs \ {"INT", "TERM"}),
          print("blocked"), sleep, setmask({}),
          ifseen("allDone", 10), pause, jump(7), exit(0),
          show("caught"), sleep, return,
          print("allDone"), return>>,
  U |-> t_sigqueue]
t_sigwaitinfo == [
  P |-> <<setmask(Sigs), print("blocked"), sigwait(Sigs), jumpif({0}, 7), show("caught"), jump(3), exit(0)>>,
  U |-> t_sigqueue]
signalfd_sigval == [
  P |-> <<block({"RTMIN"}), print("blocked"), sigwait({"RTMIN"}), show("caught"), jump(3)>>,
  U |-> t_sigqueue]

ignore_pending_sig == [
  P |-> <<sigaction("INT", Fn(11, {})), setmask({"INT"}), print("BLOCKING"), sleep,
          print("Ignoring"), sigaction("INT", IGN), sleep, sigaction("INT", Fn(11, {})), setmask({}), exit(0),
          print("Caught"), return>>,
  U |-> <<see("BLOCKING"), kill("P", "INT"), print("sent"), exit(0)>>]

intquit == [
  P |-> <<sigaction("INT", Fn(5, {"RESTART"})), sigaction("QUIT", Fn(7, {"RESTART"})), pause, jump(3),
          print("INT"), return,
          print("that's all folks"), exit(0)>>,
  U |-> <<kill("P", "INT"), kill("P", "INT"), kill("P", "QUIT"), exit(0)>>]
ouch == [
  P |-> <<sigaction("INT", Fn(5, {"RESTART"})), print("0"), sleep, jump(3), print("Ouch!"), return>>,
  U |-> <<see("0"), kill("P", "INT"), see("Ouch!"), kill("P", "QUIT"), exit(0)>>]

\* the register is the static buffer of crypt(): 1 for str1, 2 for str2
nonreentrant == [
  P |-> <<sigaction("INT", Fn(7, {})), print("ready"), set(1), jumpif({1}, 3), print("Mismatch"), jump(3),
          set(2), print("handled"), return>>,
  U |-> <<see("ready"), kill("P", "INT"), kill("P", "INT"), kill("P", "QUIT"), exit(0)>>]

\* setjmp() and longjmp() leave the signal mask as it is; canJump is the register
sigmask_longjmp == [
  P |-> <<sigaction("INT", Fn(6, {})), print("setjmp"), set(1), pause, jump(4),
          print("Received"), jumpif({1}, 9), return, longjmp(10), print("After jump"), jump(4)>>,
  U |-> <<see("setjmp"), kill("P", "INT"), kill("P", "INT"), see("Received"), kill("P", "QUIT"), exit(0)>>]

\* SIGUSR1 is ignored; a SIGUSR2 before the sigwait() goes to the handler, which
\* does nothing, and is lost
imp_20_02 == [
  P |-> <<sigaction("USR1", IGN), sigaction("USR2", Fn(6, {})), sigwait({"USR1", "USR2"}), show("received"), exit(0),
          return>>,
  U |-> <<kill("P", "USR1"), kill("P", "USR2"), exit(0)>>]

\* nraise is 3 here
setup_resethand == Fn(9, {"RESETHAND"})
setup_nodefer == Fn(9, {"NODEFER"})
main_20_03(sigact) == [
  P |-> <<sigaction("INT", sigact), print("raise"), raise("INT"), print("raise"), raise("INT"), print("raise"),
          raise("INT"), exit(0),
          print("catch"), return>>]

\* siginterrupt() of 20-04.c sets SA_RESTART whatever its flag; u and f are the
\* options
siginterrupt_20_04(flags, flag) == flags \cup {"RESTART"}
\* siginterrupt() of the book
siginterrupt(flags, flag) == IF flag THEN flags \ {"RESTART"} ELSE flags \cup {"RESTART"}
setup_signal(u, f) == IF u THEN siginterrupt_20_04({}, f) ELSE {}
main_20_04(u, f) == [
  P |-> <<sigaction("USR1", Fn(8, setup_signal(u, f))), print("enter"), readi("a", 4, 6), show("received"), exit(0),
          print("interrupted"), exit(0),
          print("handler"), return>>,
  U |-> <<see("enter"), kill("P", "USR1"), see("handler"), write("a", 1), exit(0)>>]

\* inherited dispositions of SIGABRT: the default, or to be ignored
abort_x_once == <<raise("ABRT"), sigaction("ABRT", DFL)>>
abort_x == <<raise("ABRT"), sigaction("ABRT", DFL), raise("ABRT")>>
imp_21_01(inherited) == [
  P |-> <<sigaction("ABRT", inherited), print("abort")>> \o abort_x \o <<print("not success"), exit(0)>>]

\* option -u at 7
imp_22_01 == [
  P |-> <<sigaction("CONT", Fn(10, {})), block({"CONT"}), raise("STOP"), print("continue"),
          choose({0, 1}), jumpif({0}, 9), print("unblock"), setmask({}), exit(0),
          print("handle"), return>>,
  U |-> <<until("P", "stop"), kill("P", "CONT"), exit(0)>>]

SignalCode == [
  sig_receiver |-> sig_receiver, imp_20_01 |-> imp_20_01, t_sigsuspend |-> t_sigsuspend,
  sig_speed_sigsuspend |-> sig_speed_sigsuspend, catch_rtsigs |-> catch_rtsigs, t_sigwaitinfo |-> t_sigwaitinfo,
  signalfd_sigval |-> signalfd_sigval, ignore_pending_sig |-> ignore_pending_sig, intquit |-> intquit,
  ouch |-> ouch, nonreentrant |-> nonreentrant, sigmask_longjmp |-> sigmask_longjmp, imp_20_02 |-> imp_20_02,
  imp_20_03r |-> main_20_03(setup_resethand), imp_20_03n |-> main_20_03(setup_nodefer),
  imp_20_04n |-> main_20_04(FALSE, FALSE), imp_20_04y |-> main_20_04(TRUE, TRUE), imp_20_04f |-> main_20_04(TRUE, FALSE),
  imp_21_01 |-> imp_21_01(DFL), imp_21_01i |-> imp_21_01(IGN), imp_22_01 |-> imp_22_01]

-----------------------------------------------------------------------------
(* What is displayed, o, when the processes are in state ps                *)

Times(o, x) == Len(Lines(o, x))
IsPrefixOf123(s) == \E n \in 0..3 : s = SubSeq(<<1, 2, 3>>, 1, n)
SignalsRight(k, o, ps) ==
  CASE k \in {"sig_receiver", "imp_20_01"} -> Seen(o, "report") => Times(o, "count") \in 1..3
    [] k = "t_sigsuspend" -> Times(o, "LOOP") <= Times(o, "Caught") + 1
    [] k = "sig_speed_sigsuspend" -> ps.C.st \in {"zombie", "gone"} => ps.C.how = 0
    [] k = "catch_rtsigs" -> IsPrefixOf123(Regs(o, "caught")) /\ (ps.P.st = "gone" => Times(o, "caught") = 3)
    [] k \in {"t_sigwaitinfo", "signalfd_sigval"} -> IsPrefixOf123(Regs(o, "caught"))
    [] k = "ignore_pending_sig" -> Seen(o, "Caught") => ~After(o, "sent", "Ignoring")
    [] k = "intquit" -> ps.P.st = "gone" /\ ps.P.how = 0 => Seen(o, "that's all folks")
    [] k = "ouch" -> ps.P.st = "gone" => Seen(o, "Ouch!")
    [] k = "nonreentrant" -> Times(o, "Mismatch") <= Times(o, "handled")
    [] k = "sigmask_longjmp" -> Seen(o, "After jump") /\ ps.P.st = "run" => "INT" \in ps.P.mask /\ Times(o, "After jump") = 1
    [] k = "imp_20_02" -> \A i \in DOMAIN o : o[i].reg = SigNo("USR2")
    [] k = "imp_20_03r" -> ps.P.st = "gone" => ps.P.how = Killed /\ Times(o, "catch") = 1 /\ Times(o, "raise") = 2
    [] k = "imp_20_03n" -> ps.P.st = "gone" => ps.P.how = 0 /\ Times(o, "catch") = 3
    [] k \in {"imp_20_04n", "imp_20_04y"} -> /\ k = "imp_20_04n" => ~ps.P.again
                                             /\ ps.P.st = "gone" => (Seen(o, "received") <=> ~Seen(o, "interrupted"))
    [] k = "imp_20_04f" -> ps.P.st = "gone" => Seen(o, "received")
    [] k \in {"imp_21_01", "imp_21_01i"} -> ~Seen(o, "not success") /\ (ps.P.st = "gone" => ps.P.how = Killed)
    [] k = "imp_22_01" -> After(o, "continue", "handle") /\ After(o, "unblock", "handle")

\* what 20-04.c says of its siginterrupt() when the flag is 1
NotRestarted(k, ps) == k = "imp_20_04y" => ~ps.P.again

\* a signal that is handled before its program waits for it does not end the wait:
\* between the test of allDone and pause() in catch_rtsigs.c, before the sigwait()
\* of 20-02.c
SignalStuck(k, o, ps) ==
  \/ k = "catch_rtsigs" /\ Seen(o, "allDone") /\ ps.P.pc = 8
  \/ k = "imp_20_02" /\ ps.U.st = "gone" /\ ps.P.pc = 3

-----------------------------------------------------------------------------
(***************************************************************************)
(* Programs with timers, and daemons: those of the timers and daemons      *)
(* directories, and the solutions 23-01.c, 23-03.c and 23-04.c.  U is the  *)
(* timer, which fires at any time once it is armed, or the user.  Two      *)
(* timers are armed; RTMIN stands for TIMER_SIG.                           *)
(***************************************************************************)
\* timed_read.c: pipe a is the standard input, on which 7 may be typed before the
\* timer fires.  alarm(0) is IGN: no alarm comes from there on.  The handler is at 10
timed_read_main(flags, eintr) ==
  <<sigaction("ALRM", Fn(10, flags)), print("armed"), readi("a", 9, eintr), sigaction("ALRM", IGN), show("read"), jump(9),
    sigaction("ALRM", IGN), print("timed out"), exit(0), print("Caught"), return>>
timed_read == [
  P |-> timed_read_main({}, 7),
  U |-> <<see("armed"), choose({0, 1}), jumpif({0}, 5), write("a", 7), kill("P", "ALRM"), exit(0)>>]
timed_read_restart == [
  P |-> timed_read_main({"RESTART"}, 7),
  U |-> <<see("armed"), kill("P", "ALRM"), write("a", 7), exit(0)>>]

\* 23-01.c, 23-03.c, ptmr_null_evp.c: one alarm; the handler is the last two calls
Alarm == <<see("armed"), kill("P", "ALRM"), exit(0)>>
imp_23_01_late == [P |-> <<print("armed"), sigaction("ALRM", Fn(5, {})), sleep, exit(0), print("catch"), return>>, U |-> Alarm]
imp_23_01 == [P |-> <<sigaction("ALRM", Fn(5, {})), print("armed"), sleep, exit(0), print("catch"), return>>, U |-> Alarm]
imp_23_03 == [P |-> <<sigaction("ALRM", Fn(5, {})), print("armed"), sleep, exit(0), print("catch"), return>>, U |-> Alarm]
ptmr_null_evp == [P |-> <<sigaction("ALRM", Fn(5, {})), print("armed"), pause, jump(3), print("catch"), return>>, U |-> Alarm]

\* 23-04.c, ptmr_sigev_signal.c: the timers 1 and 2 tell their numbers, in any order
Timers == <<choose({1, 2}), jumpif({2}, 8), see("timer 1"), sigqueue("P", "RTMIN", 1), see("timer 2"), sigqueue("P", "RTMIN", 2), exit(0),
            see("timer 2"), sigqueue("P", "RTMIN", 2), sigqueue("P", "RTMIN", 1), exit(0)>>
imp_23_04_open == [
  P |-> <<print("timer 1"), print("timer 2"), block({"RTMIN"}), sigwait({"RTMIN"}), show("catch"), sigwait({"RTMIN"}), show("catch"), exit(0)>>,
  U |-> Timers]
imp_23_04 == [
  P |-> <<block({"RTMIN"}), print("timer 1"), print("timer 2"), sigwait({"RTMIN"}), show("catch"), sigwait({"RTMIN"}), show("catch"), exit(0)>>,
  U |-> Timers]
ptmr_sigev_signal == [
  P |-> <<sigaction("RTMIN", Fn(6, {})), print("timer 1"), print("timer 2"), pause, jump(4), show("catch"), return>>,
  U |-> Timers]

\* real_timer.c with an interval: two alarms may be one for gotAlarm, but there are
\* more to come;
\* the register is gotAlarm, and the handler is at 14
real_timer == [
  P |-> <<sigaction("ALRM", Fn(14, {})), print("armed"), jumpif({1}, 5), jump(3), set(0),
          ifseen("ALARM 1", 9), print("ALARM 1"), jump(3), ifseen("ALARM 2", 12), print("ALARM 2"), jump(3),
          print("ALARM 3"), exit(0), set(1), return>>,
  U |-> <<see("armed"), kill("P", "ALRM"), kill("P", "ALRM"), see("ALARM 1"), kill("P", "ALRM"),
          see("ALARM 2"), kill("P", "ALRM"), exit(0)>>]

\* become_daemon.c: G is the daemon, C leads its session; the handlers of all
\* three are at 6
becomeDaemon == [
  P |-> <<sigaction("HUP", Fn(6, {"RESTART"})), jump(3), forkor("C", 5), exit(0), exit(1), set(1), print("hup"), return>>,
  C |-> <<setsid(5), jump(3), forkor("G", 5), exit(0), exit(1), set(1), print("hup"), return>>]
test_become_daemon == becomeDaemon @@ [G |-> <<sleep, exit(0)>>]
\* daemon_SIGHUP.c: the register is hupReceived, which the user's kill -HUP sets
daemon_SIGHUP_late == becomeDaemon @@ [
  G |-> <<print("config"), sleep, jumpif({1}, 9), jump(2), exit(1), set(1), print("hup"), return,
          print("config"), set(0), jump(2)>>,
  U |-> <<see("config"), kill("G", "HUP"), kill("G", "HUP"), exit(0)>>]
daemon_SIGHUP == becomeDaemon @@ [
  G |-> <<print("config"), sleep, jumpif({1}, 9), jump(2), exit(1), set(1), print("hup"), return,
          set(0), print("config"), jump(2)>>,
  U |-> <<see("config"), kill("G", "HUP"), kill("G", "HUP"), exit(0)>>]

TimerCode ==
  "timed_read" :> timed_read @@ "timed_read_restart" :> timed_read_restart @@
  "imp_23_01" :> imp_23_01 @@ "imp_23_03" :> imp_23_03 @@ "imp_23_04" :> imp_23_04 @@
  "ptmr_null_evp" :> ptmr_null_evp @@ "ptmr_sigev_signal" :> ptmr_sigev_signal @@ "real_timer" :> real_timer @@
  "test_become_daemon" :> test_become_daemon @@ "daemon_SIGHUP" :> daemon_SIGHUP
-----------------------------------------------------------------------------
\* What program k displays, o, and how its processes, ps, are
TimersRight(k, o, ps) ==
  /\ ps.P.how # Killed
  /\ CASE k = "timed_read" -> /\ After(o, "Caught", "timed out")
                              /\ Seen(o, "read") => Regs(o, "read") = <<7>> /\ ~Seen(o, "timed out")
       [] k = "timed_read_restart" -> ~Seen(o, "timed out")
       [] k \in {"imp_23_01", "imp_23_03", "ptmr_null_evp"} -> Len(Lines(o, "catch")) <= 1
       [] k \in {"imp_23_04", "ptmr_sigev_signal"} -> Regs(o, "catch") \in {<<>>, <<1>>, <<2>>, <<1, 2>>, <<2, 1>>}
       [] k = "real_timer" -> ps.P.st = "gone" => Seen(o, "ALARM 3")
       [] k = "test_become_daemon" -> ps.G.st = "run" => ps.G.sid = "C"
       [] k = "daemon_SIGHUP" ->
            /\ ps.G.st = "run" => ps.G.sid = "C"
            /\ ps.G.st = "run" /\ ps.G.pc = 2 /\ ps.G.reg = 0 /\ ps.G.ret = <<>> =>
                 \A i \in DOMAIN o : o[i].what = "hup" => \E j \in DOMAIN o : j > i /\ o[j].what = "config"
\* the processes that stay for good: a read() that starts after the alarm, the
\* handlers that have had all their signals, and the daemon that has seen all
TimerStuck(k, o, ps) ==
  \/ k = "timed_read" /\ Seen(o, "Caught") /\ ps.P.pc = 3
  \/ k = "ptmr_null_evp" /\ Seen(o, "catch")
  \/ k = "ptmr_sigev_signal" /\ Len(Lines(o, "catch")) = 2
  \/ k = "daemon_SIGHUP" /\ ps.U.st = "gone" /\ Seen(o, "hup") /\ ps.G.reg = 0 /\ ps.G.pend = {}
  \/ k = "daemon_SIGHUP" /\ ps.G.st = "none"

-----------------------------------------------------------------------------
(***************************************************************************)
(* Programs about process groups, sessions and job control: all of pgsjc,  *)
(* and the solutions 34-02.c, 34-03.c, 34-04.c, 34-06.c and 34-07.c.  U is *)
(* the user, and the clock of alarm().                                     *)
(***************************************************************************)
\* with an argument: the child has a group of its own
catch_SIGHUP == [
  P |-> <<sigaction("HUP", Fn(7, {})), fork("C"), print("P"), pause, print("P caught"), jump(4), return>>,
  C |-> <<setpgid("C", 7), print("C"), pause, print("C caught"), jump(3), return, exit(1)>>,
  U |-> <<see("P"), see("C"), kill("group", "HUP"), kill("P", "ALRM"), kill("C", "ALRM"), exit(0)>>]

\* arguments d s: C has a group of its own, D does not
disc_SIGHUP == [
  P |-> <<lead, fork("C"), fork("D"), print("P"), pause, jump(5)>>,
  C |-> <<setpgid("C", 8), sigaction("HUP", Fn(6, {})), print("C"), pause, jump(4), print("C caught"), return, exit(1)>>,
  D |-> <<sigaction("HUP", Fn(5, {})), print("D"), pause, jump(3), print("D caught"), return>>,
  U |-> <<see("P"), see("C"), see("D"), kill("P", "HUP"), see("D caught"), kill("C", "ALRM"), kill("D", "ALRM"), exit(0)>>]
\* here the parent exits by itself
imp_34_04 == [
  P |-> <<lead, fork("C"), fork("D"), sleep, exit(0)>>,
  C |-> <<setpgid("C", 3), sigaction("HUP", Fn(6, {})), print("C"), sleep, exit(0), print("C caught"), return>>,
  D |-> <<sigaction("HUP", Fn(5, {})), print("D"), sleep, exit(0), print("D caught"), return>>]

\* the handler is at 6; its signal is unblocked at 9 so that it stops there
handling_SIGTSTP_default == [
  P |-> <<sigaction("TSTP", Fn(6, {})), print("ready"), pause, print("Main"), jump(3),
          print("Caught"), sigaction("TSTP", DFL), raise("TSTP"), setmask({}), setmask({"TSTP"}),
          print("Exiting"), return>>,
  U |-> <<see("ready"), kill("P", "TSTP"), until("P", "stop"), kill("P", "CONT"),
          kill("P", "TSTP"), until("P", "stop"), kill("P", "CONT"), kill("P", "TERM"), exit(0)>>]
handling_SIGTSTP == [
  P |-> <<sigaction("TSTP", Fn(6, {})), print("ready"), pause, print("Main"), jump(3),
          print("Caught"), sigaction("TSTP", DFL), raise("TSTP"), setmask({}), setmask({"TSTP"}),
          sigaction("TSTP", Fn(6, {})), print("Exiting"), return>>,
  U |-> <<see("ready"), kill("P", "TSTP"), until("P", "stop"), kill("P", "CONT"),
          kill("P", "TSTP"), until("P", "stop"), kill("P", "CONT"), kill("P", "TERM"), exit(0)>>]

\* handlers of SIGINT at 7, of SIGTSTP at 9, of SIGCONT at 12
job_mon == [
  P |-> <<sigaction("INT", Fn(7, {})), sigaction("TSTP", Fn(9, {})), sigaction("CONT", Fn(12, {})), print("ready"),
          pause, jump(5),
          print("INT"), return,
          print("TSTP"), raise("STOP"), return,
          print("CONT"), return>>,
  U |-> <<see("ready"), kill("group", "TSTP"), until("P", "stop"), kill("P", "CONT"), kill("group", "INT"),
          see("INT"), see("CONT"), kill("P", "TERM"), exit(0)>>]

\* arguments s p; handlers of SIGHUP and SIGCONT
orphaned_pgrp_SIGHUP == [
  P |-> <<sigaction("HUP", Fn(8, {})), sigaction("CONT", Fn(10, {})), fork("C"), fork("D"), sleep, print("exiting"),
          exit(0), return, exit(1), return>>,
  C |-> <<print("C stopping"), raise("STOP"), exit(0), exit(1), exit(1), exit(1), exit(1),
          print("C HUP"), return, print("C CONT"), return>>,
  D |-> <<print("D pausing"), pause, exit(0), exit(1), exit(1), exit(1), exit(1),
          print("D HUP"), return, print("D CONT"), return>>,
  U |-> <<see("D pausing"), kill("D", "ALRM"), exit(0)>>]

\* without a controlling terminal /dev/tty cannot be opened
t_setsid == [
  P |-> <<fork("C"), exit(0)>>,
  C |-> <<setsid(3), print("leader"), exit(1)>>]
imp_34_03 == [P |-> <<print("group leader"), setsid(4), exit(0), exit(1)>>]

imp_34_02 == [
  P |-> <<fork("C"), sleep, setpgid("C", 9), print("changed 1"),
          fork("D"), sleep, setpgid("D", 9), print("changed 2"), exit(1)>>,
  C |-> <<print("C"), sleep, exit(0)>>,
  D |-> <<print("D"), exec, sleep, exit(0)>>]

\* the grandchild's group is orphaned when its parent has exited; without a
\* grandchild the child itself goes on
imp_34_06 == [
  P |-> <<fork("C"), wait(3), exit(0)>>,
  C |-> <<setpgid("C", 8), forkor("G", 4), exit(0), sleep, readtty(8), print("wrong"), exit(0), exit(1)>>,
  G |-> <<sleep, print("G"), readtty(6), print("wrong"), exit(0), exit(1)>>]
imp_34_07 == [
  P |-> <<fork("C"), wait(3), exit(0)>>,
  C |-> <<setpgid("C", 6), fork("G"), print("2"), fork("D"), exit(0), exit(1)>>,
  G |-> <<print("1"), sleep, raise("TTIN"), raise("TTOU"), raise("TSTP"), print("continue"), exit(0)>>,
  D |-> <<sleep, sigaction("TTIN", Fn(9, {})), sigaction("TTOU", Fn(9, {})), sigaction("TSTP", Fn(9, {})),
          raise("TTIN"), raise("TTOU"), raise("TSTP"), exit(0),
          print("catch"), return>>]

JobCode == [catch_SIGHUP |-> catch_SIGHUP, disc_SIGHUP |-> disc_SIGHUP, imp_34_04 |-> imp_34_04,
            handling_SIGTSTP |-> handling_SIGTSTP, job_mon |-> job_mon,
            orphaned_pgrp_SIGHUP |-> orphaned_pgrp_SIGHUP, t_setsid |-> t_setsid,
            imp_34_03 |-> imp_34_03, imp_34_02 |-> imp_34_02, imp_34_06 |-> imp_34_06, imp_34_07 |-> imp_34_07]

-----------------------------------------------------------------------------
(* What is displayed, o, when the processes are in state ps                *)

Count(o, x) == Len(Lines(o, x))
JobsRight(k, o, ps) ==
  CASE k = "catch_SIGHUP" -> ~Seen(o, "C caught")
    [] k = "disc_SIGHUP" -> ps.P.how # 1 => ~Seen(o, "C caught") /\ Count(o, "D caught") < 2
    [] k = "imp_34_04" -> \A q \in {"C", "D"} : Seen(o, q) /\ ps[q].st = "gone" => ps[q].how = 0
    [] k = "handling_SIGTSTP" -> ps.P.st = "stop" => Count(o, "Caught") = Count(o, "Exiting") + 1
    [] k = "job_mon" -> /\ ps.P.st = "stop" => Seen(o, "TSTP")
                        /\ ps.P.st = "gone" => Seen(o, "INT") /\ Count(o, "CONT") = 1
    [] k = "orphaned_pgrp_SIGHUP" -> ps.C.st = "gone" => Seen(o, "C HUP") /\ Seen(o, "C CONT")
    [] k = "t_setsid" -> ps.C.st = "gone" => Seen(o, "leader") /\ ps.C.how = 1
    [] k = "imp_34_03" -> ps.P.st = "gone" => ps.P.how = 1
    [] k = "imp_34_02" -> Seen(o, "changed 2") /\ ps.D.st = "run" => ps.D.pgid = "D"
    [] k = "imp_34_06" -> ~Seen(o, "wrong")
    [] k = "imp_34_07" -> ps.D.st = "gone" /\ ps.G.st = "gone" =>
                            /\ ps.D.how = Killed => ps.G.how = Killed
                            /\ ps.D.how = 0 /\ Seen(o, "2") /\ ps.C.how = 0 => Count(o, "catch") = 3

\* a process that stops when its group is orphaned already stays so; and the
\* user waits for processes that could not be started
JobStuck(k, ps) ==
  \/ k \in DOMAIN JobCode /\ ps.P.how = 1
  \/ k = "orphaned_pgrp_SIGHUP" /\ ps.C.st = "stop" /\ ps.P.st = "gone"
  \/ k = "imp_34_06" /\ ps.C.st = "stop"
=============================================================================
