----------------------------- MODULE Processes -----------------------------
(***************************************************************************)
(* Processes, signals, pipes and process groups as the kernel gives them   *)
(* to small programs.  A program is, for each of its processes, the        *)
(* sequence of the calls that it makes: P is the process the shell starts, *)
(* the others are started by fork(), and a process U, where there is one,  *)
(* stands for the user at the terminal.  Time is left out: sleep() returns *)
(* whenever it likes.                                                      *)
(*                                                                         *)
(* proc[p] has the state of a process: where it is (pc), its parent,       *)
(* process group and session, its open pipe ends, its signals (pending,    *)
(* blocked, what is done with them, what a handler returns to), a register *)
(* for results, and how it ended; again says that a read() of it was       *)
(* restarted after a handler.  out is what was displayed, by whom.         *)
(***************************************************************************)
EXTENDS Calls, FiniteSets

CONSTANTS Code,      \* [program -> [process -> sequence of calls]]
          PipeSize   \* what a pipe holds

VARIABLES prog, proc, pipe, out, fg
vars == <<prog, proc, pipe, out, fg>>

Procs == {"P", "C", "D", "G", "U"}
Here == IF prog \in DOMAIN Code THEN DOMAIN Code[prog] ELSE {}
Pipes == {"a", "b"}

New(p) == [st |-> "none", pc |-> 1, par |-> "sh", pgid |-> "P", sid |-> "sh", fds |-> {},
           pend |-> {}, rt |-> <<>>, mask |-> {}, act |-> <<>>, ret |-> <<>>,
           reg |-> 0, how |-> 0, news |-> 0, execd |-> FALSE, again |-> FALSE]
Init ==
  /\ prog \in DOMAIN Code
  /\ proc = [p \in Procs |->
       IF p \notin Here \cap {"P", "U"} THEN New(p)
       ELSE [New(p) EXCEPT !.st = "run", !.pgid = p,
                           !.fds = IF p = "P" THEN {<<f, e>> : f \in Pipes, e \in {"r", "w"}} ELSE {}]]
  /\ pipe = [f \in Pipes |-> <<>>] /\ out = <<>> /\ fg = "P"

-----------------------------------------------------------------------------
(* The kernel                                                              *)

Live(q) == proc[q].st \in {"run", "stop"}
\* no member of the group has its parent in the session but in another group
Orphaned(ps, g) ==
  \A q \in Here : ps[q].st \in {"run", "stop"} /\ ps[q].pgid = g =>
    /\ ps[q].par = "sh" => ps[q].sid # "sh"
    /\ ps[q].par \in Here => ps[ps[q].par].pgid = g \/ ps[ps[q].par].sid # ps[q].sid

\* dispositions: of the signals in the domain of act, else the default
ActOf(r, s) == IF s \in DOMAIN r.act THEN r.act[s] ELSE DFL
Disposed(act, s, a) == [t \in (DOMAIN act \cup {s}) |-> IF t = s THEN a ELSE act[t]]
Ignored(r, s) == ActOf(r, s) = IGN \/ (ActOf(r, s) = DFL /\ s \in NoAction)
\* a signal for a process: it is pending, unless it is ignored and not blocked;
\* a stopped process continues
Signalled(r, s) ==
  LET kept == IF Ignored(r, s) /\ s \notin r.mask THEN {} ELSE {s} IN
  IF r.st \notin {"run", "stop"} \/ s = "0" THEN r
  ELSE IF s = "CONT"
  THEN [r EXCEPT !.pend = (@ \ Stops) \cup kept, !.st = "run", !.news = IF r.st = "stop" THEN Continued ELSE @]
  ELSE [r EXCEPT !.pend = (IF s \in Stops THEN @ \ {"CONT"} ELSE @) \cup kept]
Send(ps, Q, s) == [q \in Procs |-> IF q \in Q THEN Signalled(ps[q], s) ELSE ps[q]]
Group(ps, g) == {q \in Here : ps[q].pgid = g /\ ps[q].st \in {"run", "stop"}}

\* the end of p: its descriptors are closed, its children adopted, a zombie is
\* left for a parent; the end of the leader of the session hangs up the terminal
\* for the foreground group, and groups that become orphaned with a stopped member
\* get SIGHUP and SIGCONT
Ended(ps, p, status) ==
  LET gone == ps[p].par \in {"init", "sh"}
      dead == [ps EXCEPT ![p] = [New(p) EXCEPT !.st = IF gone THEN "gone" ELSE "zombie",
                                               !.par = ps[p].par, !.how = status, !.reg = ps[p].reg]]
      left == [q \in Procs |->
                IF dead[q].par # p THEN dead[q]
                ELSE IF dead[q].st = "zombie" THEN [dead[q] EXCEPT !.st = "gone"]
                ELSE [dead[q] EXCEPT !.par = "init"]]
      told == IF gone THEN left ELSE Send(left, {ps[p].par}, "CHLD")
      hung == IF p = "P" /\ ps[p].sid = p THEN Send(told, Group(told, fg), "HUP") ELSE told
      orphans == {q \in Here : /\ told[q].st \in {"run", "stop"}
                               /\ ~Orphaned(ps, told[q].pgid) /\ Orphaned(told, told[q].pgid)
                               /\ \E m \in Group(told, told[q].pgid) : told[m].st = "stop"}
  IN Send(Send(hung, orphans, "HUP"), orphans, "CONT")

\* a pending signal is taken; realtime signals are queued, with their data
Taken(r, s) ==
  IF s = "RTMIN"
  THEN [r EXCEPT !.rt = Tail(@), !.pend = IF Len(r.rt) = 1 THEN @ \ {s} ELSE @, !.reg = Head(r.rt)]
  ELSE [r EXCEPT !.pend = @ \ {s}]
\* what is done with signal s of process p, which would go on at k
Acted(ps, p, s, k) ==
  LET r == ps[p]
      q == Taken(r, s) IN
  IF Ignored(r, s) THEN [ps EXCEPT ![p] = q]
  ELSE IF ActOf(r, s) # DFL
  THEN [ps EXCEPT ![p] =
         [q EXCEPT !.pc = ActOf(r, s)[2], !.ret = <<[pc |-> k, mask |-> r.mask]>> \o @,
                   !.mask = IF "ALL" \in ActOf(r, s)[3] THEN Sigs ELSE IF "NODEFER" \in ActOf(r, s)[3] THEN @ ELSE @ \cup {s},
                   !.act = IF "RESETHAND" \in ActOf(r, s)[3] THEN Disposed(@, s, DFL) ELSE @]]
  ELSE IF s \in Stops
  THEN IF s # "STOP" /\ Orphaned(ps, r.pgid) THEN [ps EXCEPT ![p] = q]
       ELSE [ps EXCEPT ![p] = [q EXCEPT !.st = "stop", !.news = Stopped]]
  ELSE Ended(ps, p, Killed)

-----------------------------------------------------------------------------
(* The calls of a process                                                  *)

Op(p) == Code[prog][p][proc[p].pc]
Before(p, name) == p \in Here /\ proc[p].st = "run" /\ proc[p].pc \in DOMAIN Code[prog][p] /\ Op(p)[1] = name
\* the signals that act before the program goes on; sigwait() takes its own
Due(p) == (proc[p].pend \ (proc[p].mask \ {"KILL", "STOP"})) \ (IF Before(p, "sigwait") THEN Op(p)[2] ELSE {})
At(p, name) == Before(p, name) /\ Due(p) = {}
On(r) == [r EXCEPT !.pc = @ + 1]
Go(p, r) == proc' = [proc EXCEPT ![p] = On(r)]
Children(p) == {q \in Here : proc[q].par = p /\ proc[q].st # "none" /\ proc[q].st # "gone"}
Unpiped == UNCHANGED <<prog, out, fg>>
Alone == UNCHANGED <<prog, pipe, out, fg>>

Child(p) == [proc[p] EXCEPT !.st = "run", !.pc = 1, !.par = p, !.pend = {}, !.rt = <<>>, !.ret = <<>>, !.news = 0]
Fork(p) ==
  /\ At(p, "fork")
  /\ \/ proc' = [proc EXCEPT ![p] = On(@), ![Op(p)[2]] = Child(p)]
     \/ IF Op(p)[3] = 0 THEN proc' = Ended(proc, p, 1) ELSE proc' = [proc EXCEPT ![p].pc = Op(p)[3]]
  /\ Alone
\* the parent goes on, with the memory they share, when the child has ended or called exec()
Vfork(p) ==
  /\ At(p, "vfork")
  /\ LET c == Op(p)[2] IN
     IF proc[c].st = "none" THEN proc' = [proc EXCEPT ![c] = Child(p)]
     ELSE (~Live(c) \/ proc[c].execd) /\ Go(p, [proc[p] EXCEPT !.reg = proc[c].reg])
  /\ Alone
Exec(p) ==
  /\ At(p, "exec")
  /\ Go(p, [proc[p] EXCEPT !.execd = TRUE, !.act = [s \in {t \in DOMAIN @ : @[t] = IGN} |-> IGN]])
  /\ Alone
Exit(p) == At(p, "exit") /\ proc' = Ended(proc, p, Op(p)[2]) /\ Alone

Reaped(p, q) == proc' = [proc EXCEPT ![p] = On([@ EXCEPT !.reg = proc[q].how]), ![q].st = "gone"]
NoChild(p) == Children(p) = {} /\ proc' = [proc EXCEPT ![p].pc = Op(p)[2], ![p].reg = -1]
Wait(p) ==
  /\ At(p, "wait") \/ At(p, "waitid")
  /\ \/ \E q \in Children(p) : proc[q].st = "zombie" /\ Reaped(p, q)
     \/ NoChild(p)
     \/ /\ At(p, "waitid") /\ \E q \in Children(p) :
             /\ proc[q].news # 0
             /\ proc' = [proc EXCEPT ![p] = On([@ EXCEPT !.reg = proc[q].news]), ![q].news = 0]
  /\ Alone
Reap(p) ==
  /\ At(p, "reap")
  /\ IF \E q \in Children(p) : proc[q].st = "zombie"
     THEN \E q \in Children(p) : proc[q].st = "zombie" /\ proc' = [proc EXCEPT ![p] = On(@), ![q].st = "gone"]
     ELSE proc' = [proc EXCEPT ![p].pc = Op(p)[2]]
  /\ Alone

Ends(f, e) == {q \in Here : <<f, e>> \in proc[q].fds}
Open(p) == At(p, "open") /\ Go(p, [proc[p] EXCEPT !.fds = @ \cup {<<Op(p)[2], "r">>, <<Op(p)[2], "w">>}]) /\ Alone
Close(p) == At(p, "close") /\ Go(p, [proc[p] EXCEPT !.fds = @ \ {<<Op(p)[2], Op(p)[3]>>}]) /\ Alone
\* write() waits for room; without a reader there is SIGPIPE
Write(p) ==
  /\ At(p, "write") \/ At(p, "pass")
  /\ LET f == Op(p)[2] IN
     IF Ends(f, "r") = {} THEN proc' = Acted(proc, p, "PIPE", proc[p].pc + 1) /\ UNCHANGED pipe
     ELSE /\ Len(pipe[f]) < PipeSize /\ Go(p, proc[p])
          /\ pipe' = [pipe EXCEPT ![f] = Append(@, IF At(p, "pass") THEN proc[p].reg ELSE Op(p)[3])]
  /\ Unpiped
\* read() waits for data; without a writer it is the end of the file
Read(p) ==
  /\ At(p, "read")
  /\ LET f == Op(p)[2] IN
     \/ /\ pipe[f] # <<>> /\ pipe' = [pipe EXCEPT ![f] = Tail(@)]
        /\ Go(p, [proc[p] EXCEPT !.reg = Head(pipe[f])])
     \/ /\ pipe[f] = <<>> /\ Ends(f, "w") = {} /\ UNCHANGED pipe
        /\ proc' = [proc EXCEPT ![p].pc = Op(p)[3]]
  /\ Unpiped
\* read() of the terminal by a process of a background group
ReadTty(p) ==
  /\ At(p, "readtty")
  /\ proc[p].pgid # fg
  /\ IF Orphaned(proc, proc[p].pgid) THEN proc' = [proc EXCEPT ![p].pc = Op(p)[2]]
     ELSE proc' = Send(proc, Group(proc, proc[p].pgid), "TTIN")
  /\ Alone

Display(p) ==
  /\ At(p, "print") \/ At(p, "show") \/ At(p, "list") \/ At(p, "ppid")
  /\ out' = Append(out, [by |-> p, what |-> Op(p)[2],
                         reg |-> CASE At(p, "show") -> proc[p].reg
                                   [] At(p, "ppid") /\ proc[p].par = "init" -> 1
                                   [] OTHER -> 0,
                         ps |-> IF At(p, "list") THEN proc[Op(p)[3]].st ELSE "-"])
  /\ Go(p, proc[p]) /\ UNCHANGED <<prog, pipe, fg>>

Target(p) == CASE Op(p)[2] = "parent" -> {proc[p].par} \cap Here
               [] Op(p)[2] = "self" -> {p}
               [] Op(p)[2] = "group" -> Group(proc, fg)
               [] OTHER -> {Op(p)[2]}
Kill(p) ==
  /\ At(p, "kill") /\ Alone
  /\ LET sent == Send(proc, Target(p), Op(p)[3]) IN
     proc' = [q \in Procs |->
               IF q \in Target(p) /\ Op(p)[3] = "RTMIN" /\ Live(q) THEN [sent[q] EXCEPT !.rt = Append(@, Op(p)[4])]
               ELSE IF q = p THEN On(sent[q]) ELSE sent[q]]
Sigaction(p) ==
  /\ At(p, "sigaction")
  /\ Go(p, [proc[p] EXCEPT !.act = Disposed(@, Op(p)[2], Op(p)[3]),
                           !.pend = IF Op(p)[3] = IGN THEN @ \ {Op(p)[2]} ELSE @])
  /\ Alone
Mask(p) ==
  /\ \/ At(p, "block") /\ Go(p, [proc[p] EXCEPT !.mask = @ \cup Op(p)[2]])
     \/ At(p, "setmask") /\ Go(p, [proc[p] EXCEPT !.mask = Op(p)[2]])
  /\ Alone
\* sigsuspend() lets a signal through that is blocked otherwise; pause() waits
\* for one that is not
Sigsuspend(p) ==
  /\ At(p, "sigsuspend")
  /\ \E s \in proc[p].pend \ Op(p)[2] :
       /\ ~Ignored(proc[p], s)
       /\ LET a == Acted([proc EXCEPT ![p].mask = Op(p)[2]], p, s, proc[p].pc + 1) IN
          proc' = IF a[p].ret = <<>> THEN a ELSE [a EXCEPT ![p].ret[1].mask = proc[p].mask]
  /\ Alone
Sigwait(p) ==
  /\ At(p, "sigwait")
  /\ \E s \in proc[p].pend \cap Op(p)[2] :
       Go(p, IF s = "RTMIN" THEN Taken(proc[p], s) ELSE [Taken(proc[p], s) EXCEPT !.reg = SigNo(s)])
  /\ Alone
Sleep(p) == At(p, "sleep") /\ Go(p, proc[p]) /\ Alone
Longjmp(p) == At(p, "longjmp") /\ proc' = [proc EXCEPT ![p].pc = Op(p)[2], ![p].ret = <<>>] /\ Alone
Return(p) ==
  /\ At(p, "return")
  /\ LET to == Head(proc[p].ret) IN
     proc' = [proc EXCEPT ![p].pc = to.pc, ![p].mask = to.mask, ![p].ret = Tail(@)]
  /\ Alone

Setpgid(p) ==
  /\ At(p, "setpgid")
  /\ LET q == Op(p)[2] IN
     IF proc[q].st \in {"none", "gone"} \/ (q # p /\ proc[q].execd) THEN proc' = [proc EXCEPT ![p].pc = Op(p)[3]]
     ELSE proc' = [proc EXCEPT ![q].pgid = q, ![p].pc = @ + 1]
  /\ Alone
Lead(p) == At(p, "lead") /\ Go(p, [proc[p] EXCEPT !.sid = p]) /\ Alone
Setsid(p) ==
  /\ At(p, "setsid")
  /\ IF proc[p].pgid = p THEN proc' = [proc EXCEPT ![p].pc = Op(p)[2]]
     ELSE Go(p, [proc[p] EXCEPT !.pgid = p, !.sid = p])
  /\ Alone

To(p, k) == proc' = [proc EXCEPT ![p].pc = k]
Compute(p) ==
  /\ \/ At(p, "set") /\ Go(p, [proc[p] EXCEPT !.reg = Op(p)[2]])
     \/ At(p, "add") /\ Go(p, [proc[p] EXCEPT !.reg = @ + Op(p)[2]])
     \/ At(p, "jump") /\ To(p, Op(p)[2])
     \/ At(p, "jumpif") /\ To(p, IF proc[p].reg \in Op(p)[2] THEN Op(p)[3] ELSE proc[p].pc + 1)
     \/ At(p, "choose") /\ \E n \in Op(p)[2] : Go(p, [proc[p] EXCEPT !.reg = n])
     \/ At(p, "see") /\ Seen(out, Op(p)[2]) /\ Go(p, proc[p])
     \/ At(p, "until") /\ proc[Op(p)[2]].st = Op(p)[3] /\ Go(p, proc[p])
     \/ At(p, "ifseen") /\ To(p, IF Seen(out, Op(p)[2]) THEN Op(p)[3] ELSE proc[p].pc + 1)
     \/ At(p, "ifclosed") /\ To(p, IF <<Op(p)[2], Op(p)[3]>> \in proc[p].fds THEN proc[p].pc + 1 ELSE Op(p)[4])
     \/ At(p, "ifgone") /\ To(p, IF proc[Op(p)[2]].st = "gone" THEN Op(p)[3] ELSE proc[p].pc + 1)
     \/ At(p, "iforphan") /\ To(p, IF proc[p].par = "init" THEN Op(p)[2] ELSE proc[p].pc + 1)
  /\ Alone

\* a read() is not restarted; no program here is in wait(), write() or sigwait()
\* when it gets a signal with a handler that would break these off
Waiting(p, s) == Before(p, "read") /\ Op(p)[4] # 0 /\ pipe[Op(p)[2]] = <<>> /\ ActOf(proc[p], s)[1] = "fn"
Restarts(p, s) == Waiting(p, s) /\ "RESTART" \in ActOf(proc[p], s)[3]
Resume(p, s) ==
  IF Before(p, "pause") \/ Before(p, "sleep") THEN proc[p].pc + 1
  ELSE IF Waiting(p, s) /\ ~Restarts(p, s) THEN Op(p)[4] ELSE proc[p].pc
\* a signal that is not blocked, when the next call has begun or just before it:
\* pause() and sleep() end after a handler that ran during the call
Deliver(p) ==
  /\ p \in Here /\ Live(p)
  /\ \E s \in Due(p), begun \in BOOLEAN :
       /\ proc[p].st = "stop" => s = "KILL"
       /\ proc' = Acted([proc EXCEPT ![p].again = @ \/ (begun /\ Restarts(p, s))], p, s,
                        IF begun THEN Resume(p, s) ELSE proc[p].pc)
  /\ Alone

Act(p) ==
  \/ Fork(p) \/ Vfork(p) \/ Exec(p) \/ Exit(p) \/ Wait(p) \/ Reap(p)
  \/ Open(p) \/ Close(p) \/ Write(p) \/ Read(p) \/ ReadTty(p) \/ Display(p)
  \/ Kill(p) \/ Sigaction(p) \/ Mask(p) \/ Sigsuspend(p) \/ Sigwait(p)
  \/ Sleep(p) \/ Return(p) \/ Longjmp(p) \/ Setpgid(p) \/ Lead(p) \/ Setsid(p) \/ Compute(p) \/ Deliver(p)
Step(p) == p \in Here /\ Live(p) /\ Act(p)
Next == \E p \in Procs : Step(p)

\* the user does not wait for something to be displayed or for a process to stop
UserCanAct ==
  /\ "U" \in Here /\ proc["U"].st = "run"
  /\ Before("U", "see") => Seen(out, Op("U")[2])
  /\ Before("U", "until") => proc[Op("U")[2]].st = Op("U")[3]

Signals == \E p \in Procs : Deliver(p)
\* The kernel runs every process that can run; the user may stop at any time.
Fairness == WF_vars(Signals) /\ \A p \in Procs \ {"U"} : WF_vars(Step(p))
=============================================================================
