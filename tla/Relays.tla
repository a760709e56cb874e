------------------------------- MODULE Relays -------------------------------
(***************************************************************************)
(* Exercise 63-03 and script.c: one process that shows what comes from     *)
(* several sources.  The programs share no state; the names of each end in *)
(* its name.                                                               *)
(***************************************************************************)
EXTENDS Naturals, Sequences, FiniteSets, FiniteSetsExt, SequencesExt

-----------------------------------------------------------------------------
(***************************************************************************)
(* Exercise 63-03: one thread per message queue copies the messages of its *)
(* queue to a pipe, and main() reads the pipe and the terminal by          *)
(* select().  A message in the pipe is a header, with the queue and the    *)
(* size, and as many cells of data; one write() of at most PIPE_BUF bytes  *)
(* puts all of it there at once.                                           *)
(***************************************************************************)
CONSTANTS Queues, Sizes,   \* sizes of the messages
          MaxMsgs,         \* messages sent altogether
          MaxLines,        \* lines typed
          PipeCells        \* room in the pipe

VARIABLES sent, mq,                   \* the sizes of the messages sent to each queue, and those still in it
          tpc, qmsg,                  \* where each thread is, and its message
          pipe, mpc, ready, result,   \* main(): position, read_fdset, descriptors to handle
          header,                     \* what read_pipe() has read
          stdin, typed,               \* lines typed and not read, lines typed
          shown                       \* the messages displayed
vars_63_03 == <<sent, mq, tpc, qmsg, pipe, mpc, ready, result, header, stdin, typed, shown>>
other == <<sent, mq, tpc, qmsg, typed>>    \* what main() leaves alone

\* message n of queue q, as the cells that it is in the pipe
Header(q, n, size) == <<q, n, size>>
Datum(q, n) == <<q, n>>
Cells(q, n, size) == <<Header(q, n, size)>> \o [k \in 1..size |-> Datum(q, n)]

TypeOK_63_03 ==
  /\ sent \in [Queues -> Seq(Sizes)] /\ mq \in [Queues -> Seq(Sizes)]
  /\ tpc \in [Queues -> {"open", "receive", "write", "gone"}]
  /\ qmsg \in [Queues -> Seq(Nat)] /\ Len(pipe) <= PipeCells
  /\ mpc \in {"select", "handle", "header", "data"}
  /\ ready \subseteq {"pipe", "stdin"} /\ result \in 0..2
  /\ stdin \in 0..MaxLines /\ typed \in 0..MaxLines

Init_63_03 ==
  /\ sent = [q \in Queues |-> <<>>] /\ mq = sent
  /\ tpc = [q \in Queues |-> "open"] /\ qmsg = [q \in Queues |-> <<>>]
  /\ pipe = <<>> /\ mpc = "select" /\ ready = {} /\ result = 0 /\ header = <<>>
  /\ stdin = 0 /\ typed = 0 /\ shown = <<>>

-----------------------------------------------------------------------------
(* Other programs, and the user                                            *)

Send(q) ==
  /\ MapThenSumSet(LAMBDA r : Len(sent[r]), Queues) < MaxMsgs
  /\ \E size \in Sizes :
       sent' = [sent EXCEPT ![q] = Append(@, size)] /\ mq' = [mq EXCEPT ![q] = Append(@, size)]
  /\ UNCHANGED <<tpc, qmsg, pipe, mpc, ready, result, header, stdin, typed, shown>>

Type ==
  /\ typed < MaxLines /\ typed' = typed + 1 /\ stdin' = stdin + 1
  /\ UNCHANGED <<sent, mq, tpc, qmsg, pipe, mpc, ready, result, header, shown>>

-----------------------------------------------------------------------------
(* monitor_queue_entry()                                                   *)

Open(q) ==
  /\ tpc[q] = "open"
  /\ \E to \in {"receive", "gone"} : tpc' = [tpc EXCEPT ![q] = to]
  /\ UNCHANGED <<sent, mq, qmsg, pipe, mpc, ready, result, header, stdin, typed, shown>>

Receive(q) ==
  /\ tpc[q] = "receive" /\ mq[q] # <<>>
  /\ qmsg' = [qmsg EXCEPT ![q] = <<Len(sent[q]) - Len(mq[q]) + 1, Head(mq[q])>>]
  /\ mq' = [mq EXCEPT ![q] = Tail(@)]
  /\ tpc' = [tpc EXCEPT ![q] = "write"]
  /\ UNCHANGED <<sent, pipe, mpc, ready, result, header, stdin, typed, shown>>

\* write() of the cells, the first n of them at once
WriteFirst(q, cells, n) ==
  /\ tpc[q] = "write" /\ Len(pipe) + n <= PipeCells
  /\ pipe' = pipe \o SubSeq(cells, 1, n)
  /\ UNCHANGED <<sent, mq, mpc, ready, result, header, stdin, typed, shown>>

\* header and data by one write() each
WriteTwice(q) ==
  LET n == qmsg[q][1] size == qmsg[q][2] IN
  IF Len(qmsg[q]) = 2
    THEN WriteFirst(q, Cells(q, n, size), 1) /\ qmsg' = [qmsg EXCEPT ![q] = Append(@, 1)] /\ UNCHANGED tpc
    ELSE WriteFirst(q, Tail(Cells(q, n, size)), size) /\ tpc' = [tpc EXCEPT ![q] = "receive"] /\ UNCHANGED qmsg
Write(q) ==
  LET cells == Cells(q, qmsg[q][1], qmsg[q][2]) IN
  /\ WriteFirst(q, cells, Len(cells))
  /\ tpc' = [tpc EXCEPT ![q] = "receive"] /\ UNCHANGED qmsg

-----------------------------------------------------------------------------
(* main()                                                                  *)

Select ==
  /\ mpc = "select"
  /\ ready' = {f \in {"pipe", "stdin"} : IF f = "pipe" THEN pipe # <<>> ELSE stdin > 0}
  /\ ready' # {}
  /\ result' = Cardinality(ready') /\ mpc' = "handle"
  /\ UNCHANGED <<other, pipe, header, stdin, shown>>

\* the loop looks at the pipe first every time: with both descriptors ready it
\* calls read_pipe() twice and read_fd() never
Handle ==
  /\ mpc = "handle"
  /\ IF result = 0 THEN mpc' = "select" /\ UNCHANGED <<result, stdin>>
     ELSE /\ result' = result - 1
          /\ IF "pipe" \in ready THEN mpc' = "header" /\ UNCHANGED stdin
                                 ELSE mpc' = "handle" /\ stdin' = stdin - 1
  /\ UNCHANGED <<other, pipe, ready, header, shown>>

\* read() of the header waits for it
ReadHeader ==
  /\ mpc = "header" /\ pipe # <<>>
  /\ header' = Head(pipe) /\ pipe' = Tail(pipe)
  /\ mpc' = IF Len(Head(pipe)) = 3 THEN "data" ELSE "handle"
  /\ UNCHANGED <<other, ready, result, stdin, shown>>

\* read() of at most so many cells as the header says
ReadData ==
  /\ mpc = "data" /\ (header[3] > 0 => pipe # <<>>)
  /\ LET k == IF header[3] < Len(pipe) THEN header[3] ELSE Len(pipe) IN
       /\ pipe' = SubSeq(pipe, k + 1, Len(pipe))
       /\ shown' = IF k = header[3] THEN Append(shown, <<header, SubSeq(pipe, 1, k)>>) ELSE shown
  /\ mpc' = "handle"
  /\ UNCHANGED <<other, ready, result, header, stdin>>

Thread(q) == Open(q) \/ Receive(q) \/ Write(q)
Main == Select \/ Handle \/ ReadHeader \/ ReadData

Threads == \E q \in Queues : Thread(q)
Next_63_03 == Type \/ Main \/ Threads \/ \E q \in Queues : Send(q)

-----------------------------------------------------------------------------
\* the messages of queue q among those displayed
ShownOf(q) == SelectSeq(shown, LAMBDA m : m[1][1] = q)

\* write(), read_pipe(): what is displayed of a queue is what was sent to it,
\* in its order, each message with its own data.
ShownIntact ==
  \A q \in Queues : \A k \in 1..Len(ShownOf(q)) :
    LET m == ShownOf(q)[k] IN
    m[1] = Header(q, k, sent[q][k]) /\ \A j \in 1..Len(m[2]) : m[2][j] = Datum(q, k)

\* Every message of a queue that could be opened is displayed, although the
\* terminal may stay unread meanwhile.
QueuesShown == \A q \in Queues : tpc[q] = "gone" \/ Len(ShownOf(q)) = Len(sent[q])

-----------------------------------------------------------------------------
(***************************************************************************)
(* pty/script.c and unbuffer.c with pty_fork.c: a program runs on a        *)
(* pseudoterminal, and its parent copies between the user's terminal and   *)
(* the master side; script.c also writes what it displays to a file.       *)
(*                                                                         *)
(* The program displays a prompt, 0, and answers 10 + k to the input k.    *)
(***************************************************************************)
CONSTANTS MaxTyped,   \* what the user types at most
          Room        \* what the pseudoterminal holds in each direction

\* ready, sent are declared above
VARIABLES scripting,   \* script.c, not unbuffer.c
          tty,         \* the user's terminal: its mode, what was typed, whether it is hung up
          at, taken,   \* the last input that the parent has read
          inp, outq,   \* the two directions of the pseudoterminal
          child,       \* "none", "start", "run", "failed" before it opened the slave, "gone"
          got, screen, script
vars_script == <<scripting, tty, at, ready, taken, inp, outq, child, got, sent, screen, script>>

Init_script ==
  /\ scripting \in BOOLEAN /\ tty = [raw |-> FALSE, typed |-> 0, hup |-> FALSE]
  /\ at = "ptyFork" /\ ready = {} /\ taken = 0 /\ inp = <<>> /\ outq = <<>>
  /\ child = "none" /\ got = <<>> /\ sent = <<>> /\ screen = <<>> /\ script = <<>>

\* exit() runs ttyReset(), once atexit() was called; why is where it leads
exitLeaves(why) == at' = why /\ UNCHANGED tty
exit(why) == at' = why /\ tty' = [tty EXCEPT !.raw = FALSE]
Over == at \in {"hup", "end", "error"}
Childs == <<child, got, sent>>
Files == <<screen, script>>

\* a master cannot be opened, its name is too long, or there is no child
ptyFork ==
  /\ at = "ptyFork"
  /\ \/ child' = "start" /\ at' = (IF scripting THEN "open" ELSE "setRaw") /\ UNCHANGED tty
     \/ exit("error") /\ UNCHANGED child
  /\ UNCHANGED <<scripting, ready, taken, inp, outq, got, sent, Files>>
open_typescript ==
  /\ at = "open"
  /\ \/ at' = "setRaw" /\ UNCHANGED tty
     \/ exit("error")
  /\ UNCHANGED <<scripting, ready, taken, inp, outq, Childs, Files>>
\* nobody looks whether ttySetRaw() fails
setRaw ==
  /\ at = "setRaw" /\ at' = "select" /\ \E b \in BOOLEAN : tty' = [tty EXCEPT !.raw = b]
  /\ UNCHANGED <<scripting, ready, taken, inp, outq, Childs, Files>>

Keys == taken < tty.typed
select ==
  /\ at = "select" /\ at' = "stdin"
  /\ ready' = (IF Keys \/ tty.hup THEN {"stdin"} ELSE {}) \cup (IF outq # <<>> \/ child = "gone" THEN {"master"} ELSE {})
  /\ ready' # {}
  /\ UNCHANGED <<scripting, tty, taken, inp, outq, Childs, Files>>
read_stdin ==
  /\ at = "stdin"
  /\ IF "stdin" \notin ready THEN at' = "master" /\ UNCHANGED <<tty, taken>>
     ELSE IF Keys THEN taken' = taken + 1 /\ at' = "write" /\ UNCHANGED tty
     ELSE exit("hup") /\ UNCHANGED taken
  /\ UNCHANGED <<scripting, ready, inp, outq, Childs, Files>>
\* waits for room; without an open slave it may also fail
write_master ==
  /\ at = "write"
  /\ \/ Len(inp) < Room /\ inp' = Append(inp, taken) /\ at' = "master" /\ UNCHANGED tty
     \/ child # "run" /\ exit("error") /\ UNCHANGED inp
  /\ UNCHANGED <<scripting, ready, taken, outq, Childs, Files>>
\* of the master: what the child wrote, and an error when the slave is closed;
\* a write() to the terminal or to the file may fail
read_master ==
  /\ at = "master"
  /\ \/ "master" \notin ready /\ at' = "select" /\ UNCHANGED <<tty, outq, screen>>
     \/ /\ "master" \in ready /\ outq # <<>> /\ outq' = Tail(outq)
        /\ \/ screen' = Append(screen, Head(outq)) /\ at' = (IF scripting THEN "record" ELSE "select") /\ UNCHANGED tty
           \/ exit("error") /\ UNCHANGED screen
     \/ "master" \in ready /\ outq = <<>> /\ exit("end") /\ UNCHANGED <<outq, screen>>
  /\ UNCHANGED <<scripting, ready, taken, inp, Childs, script>>
record ==
  /\ at = "record"
  /\ \/ script' = Append(script, Last(screen)) /\ at' = "select" /\ UNCHANGED tty
     \/ exit("error") /\ UNCHANGED script
  /\ UNCHANGED <<scripting, ready, taken, inp, outq, Childs, screen>>
Parent == ptyFork \/ open_typescript \/ setRaw \/ select \/ read_stdin \/ write_master \/ read_master \/ record

-----------------------------------------------------------------------------
\* the child after fork(): a session and the slave as its terminal, or an error
ptyForkChild ==
  /\ child = "start" /\ child' \in {"run", "failed"}
  /\ UNCHANGED <<scripting, tty, at, ready, taken, inp, outq, got, sent, Files>>
Answer == IF sent = <<>> THEN 0 ELSE got[Len(sent)] + 10
Program ==
  /\ child = "run"
  /\ \/ child' = "gone" /\ UNCHANGED <<inp, outq, got, sent>>
     \/ /\ inp # <<>> /\ inp' = Tail(inp) /\ got' = Append(got, Head(inp))
        /\ UNCHANGED <<child, outq, sent>>
     \/ /\ Len(sent) <= Len(got) /\ Len(outq) < Room
        /\ sent' = Append(sent, Answer) /\ outq' = Append(outq, Answer)
        /\ UNCHANGED <<child, inp, got>>
  /\ UNCHANGED <<scripting, tty, at, ready, taken, Files>>
Typist ==
  /\ \/ tty.typed < MaxTyped /\ ~tty.hup /\ tty' = [tty EXCEPT !.typed = @ + 1]
     \/ ~tty.hup /\ tty' = [tty EXCEPT !.hup = TRUE]
  /\ UNCHANGED <<scripting, at, ready, taken, inp, outq, Childs, Files>>
Next_script == Parent \/ ptyForkChild \/ Program \/ Typist

-----------------------------------------------------------------------------
\* Types, and the limits of the pseudoterminal.
TypeOK_script ==
  /\ scripting \in BOOLEAN /\ ready \subseteq {"stdin", "master"}
  /\ tty \in [raw : BOOLEAN, typed : 0..MaxTyped, hup : BOOLEAN]
  /\ at \in {"ptyFork", "open", "setRaw", "select", "stdin", "write", "master", "record", "hup", "end", "error"}
  /\ child \in {"none", "start", "run", "failed", "gone"}
  /\ Len(inp) <= Room /\ Len(outq) <= Room /\ taken <= tty.typed

\* The program reads what was typed, and its output is displayed, both in
\* order and once; the file of script.c has what was displayed, and all of it
\* when the program has ended by itself.  However the parent exits, the
\* terminal is in the mode it was in before.
RelayExact ==
  /\ got \o inp = [i \in 1..Len(got \o inp) |-> i]
  /\ IsPrefix(screen, sent) /\ IsPrefix(script, screen)
  /\ at = "select" /\ scripting => script = screen
  /\ at = "end" => screen = sent /\ (scripting => script = screen)
  /\ Over => ~tty.raw

\* The parent ends after its child, unless that failed before it had opened
\* the slave: then the master is never at its end.
RelayOver == Over \/ child \in {"start", "run", "failed"}
=============================================================================
