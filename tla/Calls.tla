------------------------------- MODULE Calls -------------------------------
(***************************************************************************)
(* The calls that programs of processes are made of (their steps are in    *)
(* Processes), the signals, and what is said about what was displayed.     *)
(***************************************************************************)
EXTENDS Integers, Sequences

\* statuses of children; exit statuses are below
Killed == 1000
Stopped == 1001
Continued == 1002

Stops == {"STOP", "TSTP", "TTIN", "TTOU"}
NoAction == {"CHLD", "CONT", "URG"}
Sigs == Stops \cup NoAction \cup
        {"HUP", "INT", "QUIT", "ABRT", "KILL", "USR1", "USR2", "ALRM", "PIPE", "TERM", "XCPU", "RTMIN", "RTMAX"}
DFL == <<"dfl">>
IGN == <<"ign">>
\* a handler: where its calls begin, and flags: those of sigaction(), and ALL
\* where sa_mask has every signal
Fn(k, flags) == <<"fn", k, flags>>

\* numbers of signals
SigNo(s) == CASE s = "USR1" -> 10 [] s = "USR2" -> 12 [] OTHER -> 0
-----------------------------------------------------------------------------
fork(c) == <<"fork", c, 0>>          \* without a child the program ends
forkor(c, error) == <<"fork", c, error>>
vfork(c) == <<"vfork", c>>
exec == <<"exec">>
exit(n) == <<"exit", n>>
wait(none) == <<"wait", none>>       \* none: where to go on without a child
waitid(none) == <<"waitid", none>>   \* also children that stop and continue
reap(none) == <<"reap", none>>       \* WNOHANG
open(f) == <<"open", f>>
close(f, e) == <<"close", f, e>>
write(f, v) == <<"write", f, v>>
pass(f) == <<"pass", f>>             \* writes what is in the register
read(f, eof) == <<"read", f, eof, 0>>
readi(f, eof, eintr) == <<"read", f, eof, eintr>>  \* a handler may end it
readtty(error) == <<"readtty", error>>
print(x) == <<"print", x>>
show(x) == <<"show", x>>             \* with the register
list(x, q) == <<"list", x, q>>       \* with the state of q
kill(q, s) == <<"kill", q, s, 0>>
sigqueue(q, s, v) == <<"kill", q, s, v>>
raise(s) == <<"kill", "self", s, 0>>
sigaction(s, a) == <<"sigaction", s, a>>
block(S) == <<"block", S>>
setmask(S) == <<"setmask", S>>
sigsuspend(S) == <<"sigsuspend", S>>
sigwait(S) == <<"sigwait", S>>
pause == <<"pause">>
sleep == <<"sleep">>
return == <<"return">>
longjmp(k) == <<"longjmp", k>>       \* out of a handler
lead == <<"lead">>                   \* the shell has called exec(): P leads its session
setpgid(q, error) == <<"setpgid", q, error>>
setsid(error) == <<"setsid", error>>
ifseen(x, k) == <<"ifseen", x, k>>
ifclosed(f, e, k) == <<"ifclosed", f, e, k>>
choose(S) == <<"choose", S>>
until(q, st) == <<"until", q, st>>   \* the user waits for q to be so
see(x) == <<"see", x>>               \* the user waits for x on the screen
ppid(x) == <<"ppid", x>>             \* with 1 if getppid() is init, else 0
set(n) == <<"set", n>>
add(n) == <<"add", n>>
jump(k) == <<"jump", k>>
jumpif(S, k) == <<"jumpif", S, k>>   \* if the register is in S
ifgone(q, k) == <<"ifgone", q, k>>   \* if there is no process q
iforphan(k) == <<"iforphan", k>>     \* if getppid() is the one of init

\* the calls of tasks that share memory (their steps are in Sharing); k is where
\* a call that fails goes on
create(t) == <<"create", t>>
join(t) == <<"join", t>>
cancel(t) == <<"cancel", t>>
finish(n) == <<"finish", n>>         \* what a thread returns
load(c) == <<"load", c>>
store(c) == <<"store", c>>
bump(c, n) == <<"bump", c, n>>       \* c += n, by a task that has the lock for c
count == <<"count">>
ifcount(n, k) == <<"ifcount", n, k>> \* if it has counted to n
lock == <<"lock">>
unlock == <<"unlock">>
condwait(handler) == <<"condwait", handler>>
signal == <<"signal">>
barrier(n) == <<"barrier", n>>
get(o, k) == <<"get", o, k>>
make(o, v, k) == <<"make", o, v, k>> \* exclusively
setval(o, v) == <<"setval", o, v>>
stat(o) == <<"stat", o>>             \* whether sem_otime is set
down(o) == <<"down", o, 0, FALSE>>
trydown(o, k) == <<"down", o, k, TRUE>>
zero(o) == <<"zero", o>>
up(o) == <<"up", o>>
remove(o) == <<"remove", o>>
flock(mode, k) == <<"flock", mode, k>>

-----------------------------------------------------------------------------
(* About the lines o on the screen                                         *)

Lines(o, x) == SelectSeq(o, LAMBDA e : e.what = x)
Regs(o, x) == [i \in DOMAIN Lines(o, x) |-> Lines(o, x)[i].reg]
Seen(o, x) == \E i \in DOMAIN o : o[i].what = x
\* y is displayed after x only
After(o, x, y) == \A j \in DOMAIN o : o[j].what = y => \E i \in 1..(j - 1) : o[i].what = x
=============================================================================
