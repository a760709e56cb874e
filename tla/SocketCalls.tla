----------------------------- MODULE SocketCalls ----------------------------
(***************************************************************************)
(* Functions and loops that the programs with sockets use: looking for an  *)
(* address that works, passing a descriptor, reading and writing all of a  *)
(* buffer or a line, and waiting for signals and descriptors at once (the  *)
(* self-pipe and its variants; poll(), select() and epoll with slow input).*)
(* They share no state.                                                    *)
(***************************************************************************)
EXTENDS Integers, Sequences, FiniteSets

-----------------------------------------------------------------------------
(***************************************************************************)
(* The functions that walk through the addresses of getaddrinfo() to get a *)
(* socket: inetConnect(), inetListen() and inetBind() of inet_sockets.c,   *)
(* isock_connect(), isock_listen() and isock_bind() of lib/59-04-isock.c.  *)
(* Each system call on an address may fail.  An address costs one          *)
(* descriptor, numbered like the address; isock_bind() is given its own.   *)
(*                                                                         *)
(* calls is what is done with each address, at the call that is next, i    *)
(* the address; open the descriptors that are open, heap whether the list  *)
(* of addresses is allocated; ret is 0 until the function returns.         *)
(***************************************************************************)
CONSTANTS MaxAddrs

VARIABLES fn, addrs, i, at, open, heap, failed, ret
vars_addr == <<fn, addrs, i, at, open, heap, failed, ret>>

calls == CASE fn = "inetConnect"   -> <<"socket", "connect">>
           [] fn = "isock_connect" -> <<"socket", "connect">>
           [] fn = "inetListen"    -> <<"socket", "setsockopt", "bind", "listen">>
           [] fn = "inetBind"      -> <<"socket", "bind">>
           [] fn = "isock_listen"  -> <<"socket", "setsockopt", "bind", "listen">>
           [] fn = "isock_bind"    -> <<"bind">>
EAI == 0 - 2
Init_addr ==
  /\ fn \in {"inetConnect", "inetListen", "inetBind", "isock_connect", "isock_listen", "isock_bind"}
  /\ addrs \in 1..MaxAddrs /\ i = 0 /\ at = 1 /\ open = {} /\ heap = FALSE /\ failed = {} /\ ret = 0

Return_addr(r) == ret' = r /\ heap' = FALSE /\ UNCHANGED <<i, at>>
\* getaddrinfo() fails, and isock_*() return its error number
getaddrinfo ==
  /\ ret = 0 /\ i = 0 /\ UNCHANGED <<fn, addrs, open, failed>>
  /\ \/ i' = 1 /\ heap' = TRUE /\ UNCHANGED <<at, ret>>
     \/ Return_addr(IF fn \in {"inetConnect", "inetListen", "inetBind"} THEN -1 ELSE EAI)
NextCall == calls[at]
Succeeds ==
  /\ ret = 0 /\ i > 0 /\ UNCHANGED <<fn, addrs, failed>>
  /\ open' = IF NextCall = "socket" THEN open \cup {i} ELSE open
  /\ IF at < Len(calls) THEN at' = at + 1 /\ UNCHANGED <<i, heap, ret>> ELSE Return_addr(i)
\* the next address, or none
NextAddr == IF i = addrs THEN Return_addr(-1) ELSE i' = i + 1 /\ at' = 1 /\ UNCHANGED <<heap, ret>>
\* an error that ends inetPassiveSocket(): it closes the socket when
\* setsockopt() fails, and not when listen() does
FailsClosing(kept) ==
  /\ ret = 0 /\ i > 0 /\ UNCHANGED <<fn, addrs>> /\ failed' = failed \cup {i}
  /\ open' = IF NextCall \in kept THEN open ELSE open \ {i}
  /\ IF fn = "inetListen" /\ NextCall \in {"setsockopt", "listen"} THEN Return_addr(-1) ELSE NextAddr
Leaks == IF fn = "inetListen" THEN {"listen"} ELSE {}
\* mutant: the socket is left open when bind() fails
FailsForgetting == FailsClosing(Leaks \cup {"bind"})
Fails == FailsClosing(Leaks)

inetConnect == fn = "inetConnect" /\ (getaddrinfo \/ Succeeds \/ Fails)
inetPassiveSocket == fn \in {"inetListen", "inetBind"} /\ (getaddrinfo \/ Succeeds \/ Fails)
isock_connect == fn = "isock_connect" /\ (getaddrinfo \/ Succeeds \/ Fails)
isock_listen == fn = "isock_listen" /\ (getaddrinfo \/ Succeeds \/ Fails)
isock_bind == fn = "isock_bind" /\ (getaddrinfo \/ Succeeds \/ Fails)
Next_addr == inetConnect \/ inetPassiveSocket \/ isock_connect \/ isock_listen \/ isock_bind

-----------------------------------------------------------------------------
\* Types.
TypeOK_addr == i \in 0..addrs /\ at \in 1..4 /\ open \subseteq 1..addrs /\ ret \in -2..addrs

\* The first address that works is used, and on return exactly its socket is
\* open and no memory held, but for the socket that inetListen() leaves open
\* when listen() fails; isock_*() fail with a number that is not FN_ER only
\* if the name cannot be resolved.
NoneLeaked ==
  ret # 0 =>
    /\ ~heap /\ (ret > 0 => failed = 1..(ret - 1))
    /\ open = IF ret > 0 /\ fn # "isock_bind" THEN {ret}
              ELSE IF fn = "inetListen" /\ i > 0 /\ NextCall = "listen" THEN {i} ELSE {}
    /\ ret = EAI => i = 0

\* The walk comes to its end.
Ended == ret # 0

-----------------------------------------------------------------------------
(***************************************************************************)
(* scm_rights_send.c and scm_cred_send.c pass a file descriptor, or the    *)
(* sender's credentials, over a UNIX domain socket to scm_rights_recv.c    *)
(* and scm_cred_recv.c.  The sender exits at once: an open file that is    *)
(* only in a message stays open until it is received or the socket goes.   *)
(* Credentials the sender does not send itself (-n) are added by the       *)
(* kernel when either socket has SO_PASSCRED, or when the connection was   *)
(* not accepted yet; otherwise the receiver sees none.                     *)
(*                                                                         *)
(* what is "rights" or "cred", type "stream" or "dgram"; msg the message   *)
(* in the receiver's queue; refs the descriptors and messages that hold    *)
(* the file open; left what of the file has not been read.                 *)
(***************************************************************************)
CONSTANTS FileSize, None

VARIABLES what, type, explicit, spc, rpc, path, msg, passcred, early, refs,
          left, shown
vars_scm == <<what, type, explicit, spc, rpc, path, msg, passcred, early, refs, left, shown>>
run == <<what, type, explicit>>

Init_scm ==
  /\ what \in {"rights", "cred"} /\ type \in {"stream", "dgram"} /\ explicit \in BOOLEAN
  /\ (what = "rights" => explicit) /\ spc = "start" /\ rpc = "start"
  /\ path \in {"none", "stale"} /\ msg = None /\ passcred = FALSE /\ early = FALSE
  /\ refs = {} /\ left = FileSize /\ shown = <<>>

-----------------------------------------------------------------------------
\* The receiver.
RTo(from, to) == rpc = from /\ rpc' = to
remove == RTo("start", "bind") /\ path' = "none"
          /\ UNCHANGED <<run, spc, msg, passcred, early, refs, left, shown>>
Ready_scm == IF what = "cred" THEN "got" ELSE "recv"
unixBind == /\ RTo("bind", IF type = "dgram" THEN Ready_scm ELSE "listen") /\ path' = "bound"
            /\ UNCHANGED <<run, spc, msg, passcred, early, refs, left, shown>>
accept == /\ rpc = "listen" /\ spc \in {"connected", "exit"} /\ rpc' = Ready_scm
          /\ UNCHANGED <<run, spc, path, msg, passcred, early, refs, left, shown>>
setsockopt == /\ RTo("got", "recv") /\ passcred' = TRUE
              /\ UNCHANGED <<run, spc, path, msg, early, refs, left, shown>>
\* mutant: the file is closed with the message
recvmsgKeeping(fds) ==
  /\ RTo("recv", IF what = "rights" THEN "read" ELSE "exit") /\ msg # None /\ msg' = None
  /\ shown' = IF what = "cred" THEN <<msg>> ELSE shown
  /\ refs' = (refs \ {"message"}) \cup fds
  /\ UNCHANGED <<run, spc, path, passcred, early, left>>
recvmsgClosed == recvmsgKeeping({})
recvmsg == recvmsgKeeping(IF what = "rights" THEN {"receiver"} ELSE {})
read == /\ rpc = "read" /\ "receiver" \in refs
        /\ \/ left > 0 /\ left' = left - 1 /\ shown' = Append(shown, FileSize - left + 1) /\ UNCHANGED rpc
           \/ left = 0 /\ rpc' = "exit" /\ UNCHANGED <<left, shown>>
        /\ UNCHANGED <<run, spc, path, msg, passcred, early, refs>>
scm_rights_recv == what = "rights" /\ (remove \/ unixBind \/ accept \/ recvmsg \/ read)
scm_cred_recv == what = "cred" /\ (remove \/ unixBind \/ accept \/ setsockopt \/ recvmsg)

-----------------------------------------------------------------------------
\* The sender.
open_scm == /\ spc = "start" /\ spc' = "connect"
            /\ refs' = IF what = "rights" THEN refs \cup {"sender"} ELSE refs
            /\ UNCHANGED <<run, rpc, path, msg, passcred, early, left, shown>>
unixConnect ==
  /\ spc = "connect"
  /\ IF path = "bound" THEN spc' = "connected" /\ UNCHANGED refs
                       ELSE spc' = "failed" /\ refs' = refs \ {"sender"}
  /\ UNCHANGED <<run, rpc, path, msg, passcred, early, left, shown>>
Attached == explicit \/ passcred \/ (type = "stream" /\ rpc = "listen")
sendmsg ==
  /\ spc = "connected" /\ spc' = "exit"
  /\ msg' = IF what = "cred" /\ ~Attached THEN "nobody" ELSE "sender"
  /\ early' = (rpc = "got")
  /\ refs' = IF what = "rights" THEN (refs \ {"sender"}) \cup {"message"} ELSE refs
  /\ UNCHANGED <<run, rpc, path, passcred, left, shown>>
scm_rights_send == what = "rights" /\ (open_scm \/ unixConnect \/ sendmsg)
scm_cred_send == what = "cred" /\ (open_scm \/ unixConnect \/ sendmsg)

Next_scm == scm_rights_recv \/ scm_cred_recv \/ scm_rights_send \/ scm_cred_send

-----------------------------------------------------------------------------
\* Types.
TypeOK_scm ==
  /\ rpc \in {"start", "bind", "listen", "got", "recv", "read", "exit"}
  /\ spc \in {"start", "connect", "connected", "exit", "failed"} /\ left \in 0..FileSize
  /\ refs \subseteq {"sender", "message", "receiver"} /\ msg \in {None, "sender", "nobody"}

\* The file stays open from open() in the sender to the last read() in the
\* receiver, whatever the order of exit and receipt, and is printed whole;
\* credentials are the sender's, unless they were left to the kernel and sent
\* between accept() (or bind()) and setsockopt(SO_PASSCRED).
PassedWhole ==
  /\ what = "rights" /\ spc = "exit" => Cardinality(refs) = 1
  /\ what = "rights" /\ rpc = "exit" => shown = [m \in 1..FileSize |-> m]
  /\ what = "cred" /\ rpc = "exit" => shown = <<"sender">> \/ (~explicit /\ early)

\* What was sent is received.
Received == spc = "exit" => rpc = "exit"

-----------------------------------------------------------------------------
(***************************************************************************)
(* The functions that put a system call in a loop: readLine(), one byte at *)
(* a time; readLineBuf(), from a buffer; readn() and writen(), until n     *)
(* bytes have gone; the book's sendfile(), by read() and write().  read()  *)
(* and write() move any number of bytes they can, and may be interrupted;  *)
(* intr counts the calls that were, and the short writes of sendfile().    *)
(*                                                                         *)
(* fn is the function and n its size; data the bytes of the file or        *)
(* stream, pos how many read() has taken; held is a buffer between         *)
(* system call and caller, buf the result of the call in progress, res     *)
(* the results of the calls that returned; out what write() has taken.     *)
(* For sendfile(), offset is <<>> for the argument NULL, or the value of   *)
(* *offset at the call and now; orig the saved offset of the file, -1 if   *)
(* none has been saved.                                                    *)
(***************************************************************************)
CONSTANTS MaxLen, Sizes, BUF_SIZE, MaxIntr

\* fn is declared above
VARIABLES n, data, pos, held, buf, res, out, intr, done, offset, orig
vars_io == <<fn, n, data, pos, held, buf, res, out, intr, done, offset, orig>>

readLineBufInit == held = <<>>
Init_io ==
  /\ fn \in {"readLine", "readLineBuf", "readn", "writen", "sendfile"}
  /\ n \in Sizes /\ \E l \in 0..MaxLen : data \in [1..l -> {"x", "nl"}]
  /\ pos = 0 /\ readLineBufInit /\ buf = <<>> /\ res = <<>> /\ out = <<>> /\ intr = 0 /\ done = FALSE
  /\ offset \in {<<>>} \cup (IF fn = "sendfile" THEN {<<k, k>> : k \in 0..Len(data)} ELSE {}) /\ orig = -1

Least(a, b) == IF a < b THEN a ELSE b
Unread == Len(data) - pos
Portions(max) == 1..Least(max, Unread)
NextBytes(k) == SubSeq(data, pos + 1, pos + k)
Interrupted == /\ intr < MaxIntr /\ intr' = intr + 1
               /\ UNCHANGED <<fn, n, data, pos, held, buf, res, out, done, offset, orig>>
Return_io(r) == buf' = <<>> /\ res' = Append(res, r)
\* a call that returns -1 because a system call did
Failed == <<"EINTR">>

-----------------------------------------------------------------------------
\* One turn of the loop of readLine(): keeps at most n - 1 bytes of a line.
Stored(b, max) == IF Len(buf) < max THEN Append(buf, b) ELSE buf
Byte(b, max) == IF b = "nl" THEN Return_io(Stored(b, max)) ELSE buf' = Stored(b, max) /\ UNCHANGED res
readLineKeeping(max) ==
  /\ fn = "readLine" /\ ~done
  /\ \/ Interrupted
     \/ /\ Unread > 0 /\ pos' = pos + 1 /\ Byte(data[pos + 1], max)
        /\ UNCHANGED <<fn, n, data, held, out, intr, done, offset, orig>>
     \/ /\ Unread = 0
        /\ IF buf = <<>> THEN done' = TRUE /\ UNCHANGED <<buf, res>> ELSE Return_io(buf) /\ UNCHANGED done
        /\ UNCHANGED <<fn, n, data, pos, held, out, intr, offset, orig>>
\* mutant: no room is left for the terminating null byte
readLineFull == readLineKeeping(n)
readLine == readLineKeeping(n - 1)

\* readLineBuf(): a read() fills the empty buffer, a byte is taken from it.
\* read() is not restarted: an interrupted call returns -1, and what it has
\* taken of a line is lost.
readLineBuf ==
  /\ fn = "readLineBuf" /\ ~done
  /\ \/ /\ held = <<>> /\ Unread > 0 /\ \E k \in Portions(BUF_SIZE) : held' = NextBytes(k) /\ pos' = pos + k
        /\ UNCHANGED <<fn, n, data, buf, res, out, intr, done, offset, orig>>
     \/ /\ held = <<>> /\ intr < MaxIntr /\ intr' = intr + 1 /\ Return_io(Failed)
        /\ UNCHANGED <<fn, n, data, pos, held, out, done, offset, orig>>
     \/ /\ held # <<>> /\ held' = Tail(held) /\ Byte(Head(held), n)
        /\ UNCHANGED <<fn, n, data, pos, out, intr, done, offset, orig>>
     \/ /\ held = <<>> /\ Unread = 0
        /\ IF buf = <<>> THEN done' = TRUE /\ UNCHANGED <<buf, res>> ELSE Return_io(buf) /\ UNCHANGED done
        /\ UNCHANGED <<fn, n, data, pos, held, out, intr, offset, orig>>

-----------------------------------------------------------------------------
\* One turn of readn(): returns n bytes, or fewer at the end of the file.
readn ==
  /\ fn = "readn" /\ ~done
  /\ \/ Interrupted
     \/ \E k \in Portions(n - Len(buf)) :
          /\ pos' = pos + k
          /\ IF Len(buf) + k < n THEN buf' = buf \o NextBytes(k) /\ UNCHANGED res ELSE Return_io(buf \o NextBytes(k))
          /\ UNCHANGED <<fn, n, data, held, out, intr, done, offset, orig>>
     \/ /\ Unread = 0 /\ done' = TRUE /\ Return_io(buf)
        /\ UNCHANGED <<fn, n, data, pos, held, out, intr, offset, orig>>

\* One turn of writen(): the data is one buffer of the caller.
writen ==
  /\ fn = "writen" /\ ~done
  /\ \/ Interrupted
     \/ \E k \in Portions(Len(data)) :
          /\ out' = out \o NextBytes(k) /\ pos' = pos + k
          /\ UNCHANGED <<fn, n, data, held, buf, res, intr, done, offset, orig>>
     \/ /\ Unread = 0 /\ done' = TRUE /\ Return_io(out)
        /\ UNCHANGED <<fn, n, data, pos, held, out, intr, offset, orig>>

\* sendfile(): the offset of the file is saved and set, if one is given.
Save ==
  /\ orig = -1 /\ orig' = pos /\ pos' = (IF offset = <<>> THEN pos ELSE offset[1])
  /\ UNCHANGED <<res, buf, out, intr, done, offset>>
\* One turn of its loop, while some of the n bytes are missing: what write()
\* does not take is not written again, and read() goes on behind it.  When
\* read() or write() is interrupted, the offset is left where it is.
Move ==
  /\ orig # -1 /\ Len(out) < n /\ Unread > 0
  /\ \/ \E k \in Portions(Least(BUF_SIZE, n - Len(out))) :
          /\ pos' = pos + k
          /\ \/ out' = out \o NextBytes(k) /\ UNCHANGED <<intr, res, buf, done>>
             \/ /\ intr < MaxIntr /\ intr' = intr + 1
                /\ \/ \E j \in 1..(k - 1) : out' = out \o NextBytes(j) /\ UNCHANGED <<res, buf, done>>
                   \/ Return_io(Failed) /\ done' = TRUE /\ UNCHANGED out
     \/ intr < MaxIntr /\ intr' = intr + 1 /\ Return_io(Failed) /\ done' = TRUE /\ UNCHANGED <<pos, out>>
  /\ UNCHANGED <<offset, orig>>
\* Its end: *offset gets the new offset, the file the old one.
Restore ==
  /\ orig # -1 /\ ~(Len(out) < n /\ Unread > 0)
  /\ IF offset = <<>> THEN UNCHANGED <<pos, offset>> ELSE pos' = orig /\ offset' = <<offset[1], pos>>
  /\ Return_io(out) /\ done' = TRUE /\ UNCHANGED <<out, intr, orig>>
sendfile == fn = "sendfile" /\ ~done /\ (Save \/ Move \/ Restore) /\ UNCHANGED <<fn, n, data, held>>

Next_io == readLine \/ readLineBuf \/ readn \/ writen \/ sendfile
Fair == Next_io /\ intr' = intr

-----------------------------------------------------------------------------
\* Types.
TypeOK_io == pos \in 0..Len(data) /\ Len(held) <= BUF_SIZE /\ intr \in 0..MaxIntr /\ done \in BOOLEAN

Prefix(s, k) == SubSeq(s, 1, Least(k, Len(s)))
\* the lines of s, each with its newline
LinesOf(s) ==
  LET ends == {m \in DOMAIN s : s[m] = "nl" \/ m = Len(s)}
      end(k) == IF k = 0 THEN 0 ELSE CHOOSE m \in ends : Cardinality({j \in ends : j <= m}) = k
  IN  [k \in 1..Cardinality(ends) |-> SubSeq(s, end(k - 1) + 1, end(k))]
\* the blocks of n bytes of s; the last is shorter, perhaps empty
BlocksOf(s, k) == [m \in 1..(Len(s) \div k + 1) |-> SubSeq(s, (m - 1) * k + 1, Least(m * k, Len(s)))]

\* However the bytes arrive, the results are the lines cut to size, the
\* blocks, or the whole data: for readLine(), readn() and writen() whenever a
\* call is interrupted; for readLineBuf() and sendfile() if no call is, and no
\* write of sendfile() is short.  A sendfile() with an offset that is not
\* interrupted leaves the offset of the file as it was, and *offset behind the
\* last byte read.
ResultsExact ==
  done => CASE fn = "readLine"    -> res = [m \in DOMAIN LinesOf(data) |-> Prefix(LinesOf(data)[m], n - 1)]
            [] fn = "readLineBuf" ->
                 intr = 0 => res = [m \in DOMAIN LinesOf(data) |-> Prefix(LinesOf(data)[m], n)]
            [] fn = "readn"       -> res = BlocksOf(data, n)
            [] fn = "writen"      -> res = <<data>>
            [] fn = "sendfile"    ->
                 LET start == IF offset = <<>> THEN orig ELSE offset[1]
                 IN  /\ intr = 0 => res = <<Prefix(SubSeq(data, start + 1, Len(data)), n)>>
                     /\ intr = 0 /\ offset # <<>> => offset[2] = start + Len(out)
                     /\ offset # <<>> /\ res # <<Failed>> => pos = orig

\* Every sequence of calls comes to its end.
Returned == done

-----------------------------------------------------------------------------
(***************************************************************************)
(* Programs that learn of a signal outside its handler: self_pipe.c and    *)
(* self_pipe_63-5.c, whose handler writes into a nonblocking pipe that     *)
(* select() or poll() watches; demo_sigio.c and demo_sigio_63-8.c, whose   *)
(* handler of "I/O possible" sets a flag that the main loop polls.  The    *)
(* handler runs between any two steps of main().                           *)
(*                                                                         *)
(* input is what is typed and not read, pend the signals generated and not *)
(* delivered, pipe the messages in the pipe, ready the descriptors that    *)
(* select() or poll() returned.                                            *)
(***************************************************************************)
CONSTANTS MaxSigs, MaxInput, PipeSize

VARIABLES kind, pc, input, typed, pend, sent, flag, pipe, dropped, ready,
          told
vars_wake == <<kind, pc, input, typed, pend, sent, flag, pipe, dropped, ready, told>>

Piped == kind \in {"self_pipe", "self_pipe_63_5"}
Init_wake ==
  /\ kind \in {"self_pipe", "self_pipe_63_5", "demo_sigio", "demo_sigio_63_8"}
  /\ pc = IF Piped THEN "wait" ELSE "count"
  /\ input = 0 /\ typed = 0 /\ pend = 0 /\ sent = 0 /\ flag = FALSE
  /\ pipe = 0 /\ dropped = 0 /\ ready = {} /\ told = 0

-----------------------------------------------------------------------------
\* The world: kill(1), and a key; with O_ASYNC a key generates the signal.
\* A standard signal is pending once, the real-time signal of 63-08 is queued;
\* a kill(1) that finds its signal pending changes nothing.
Pending(k) == IF kind = "demo_sigio_63_8" THEN k + 1 ELSE 1
Kill == /\ Piped /\ pend = 0 /\ sent < MaxSigs /\ sent' = sent + 1 /\ pend' = Pending(pend)
        /\ UNCHANGED <<kind, pc, input, typed, flag, pipe, dropped, ready, told>>
Key == /\ typed < MaxInput /\ typed' = typed + 1 /\ input' = input + 1
       /\ pend' = IF Piped THEN pend ELSE Pending(pend)
       /\ UNCHANGED <<kind, pc, sent, flag, pipe, dropped, ready, told>>

\* The handlers.
handler ==
  /\ Piped /\ pend > 0 /\ pc # "exit" /\ pend' = pend - 1
  /\ IF pipe < PipeSize THEN pipe' = pipe + 1 /\ UNCHANGED dropped
                        ELSE dropped' = dropped + 1 /\ UNCHANGED pipe
  /\ UNCHANGED <<kind, pc, input, typed, sent, flag, ready, told>>
sigioHandler ==
  /\ ~Piped /\ pend > 0 /\ pc # "exit" /\ pend' = pend - 1 /\ flag' = TRUE
  /\ UNCHANGED <<kind, pc, input, typed, sent, pipe, dropped, ready, told>>

-----------------------------------------------------------------------------
\* self_pipe.c: one select(), restarted after EINTR.
Wait == /\ pc = "wait" /\ (input > 0 \/ pipe > 0) /\ pc' = "look"
        /\ ready' = {f \in {"stdin", "pipe"} : IF f = "stdin" THEN input > 0 ELSE pipe > 0}
        /\ UNCHANGED <<kind, input, typed, pend, sent, flag, pipe, dropped, told>>
Caught == /\ pc = "look" /\ pc' = (IF "pipe" \in ready THEN "drain" ELSE "exit")
          /\ UNCHANGED <<kind, input, typed, pend, sent, flag, pipe, dropped, ready, told>>
DrainTo(next) ==
  /\ pc = "drain"
  /\ IF pipe > 0 THEN pipe' = pipe - 1 /\ told' = told + 1 /\ UNCHANGED pc
                 ELSE pc' = next /\ UNCHANGED <<pipe, told>>
  /\ UNCHANGED <<kind, input, typed, pend, sent, flag, dropped, ready>>
self_pipe == kind = "self_pipe" /\ (Wait \/ Caught \/ DrainTo("exit"))

\* self_pipe_63-5.c: poll() for ever; standard input is read at once.
ReadStdin ==
  /\ pc = "look" /\ pc' = (IF "pipe" \in ready THEN "drain" ELSE "wait")
  /\ input' = (IF "stdin" \in ready THEN 0 ELSE input)
  /\ UNCHANGED <<kind, typed, pend, sent, flag, pipe, dropped, ready, told>>
self_pipe_63_5 == kind = "self_pipe_63_5" /\ (Wait \/ ReadStdin \/ DrainTo("wait"))

\* demo_sigio.c: the flag is cleared, then everything is read; '#' is not typed.
Test == /\ pc = "count" /\ flag /\ pc' = "clear"
        /\ UNCHANGED <<kind, input, typed, pend, sent, flag, pipe, dropped, ready, told>>
ClearAt(from, to) == /\ pc = from /\ flag' = FALSE /\ pc' = to
                     /\ UNCHANGED <<kind, input, typed, pend, sent, pipe, dropped, ready, told>>
ReadAll(then) ==
  /\ pc = "read"
  /\ IF input > 0 THEN input' = input - 1 /\ told' = told + 1 /\ UNCHANGED pc
                  ELSE pc' = then /\ UNCHANGED <<input, told>>
  /\ UNCHANGED <<kind, typed, pend, sent, flag, pipe, dropped, ready>>
Skip == /\ pc = "clear" /\ pc' = "read"
        /\ UNCHANGED <<kind, input, typed, pend, sent, flag, pipe, dropped, ready, told>>
\* mutant: the flag is cleared after the loop that reads
OnSigioLate == Test \/ Skip \/ ReadAll("late") \/ ClearAt("late", "count")
OnSigio == Test \/ ClearAt("clear", "read") \/ ReadAll("count")
demo_sigio == kind = "demo_sigio" /\ OnSigio
demo_sigio_63_8 == kind = "demo_sigio_63_8" /\ OnSigio

Main_wake == self_pipe \/ self_pipe_63_5 \/ demo_sigio \/ demo_sigio_63_8
Deliver == handler \/ sigioHandler
Next_wake == Kill \/ Key \/ Deliver \/ Main_wake

-----------------------------------------------------------------------------
\* Types.
TypeOK_wake ==
  /\ pc \in {"wait", "look", "drain", "exit", "count", "clear", "read"}
  /\ pipe \in 0..PipeSize /\ input <= typed /\ ready \subseteq {"stdin", "pipe"}

\* Every signal that was generated is pending, in the pipe, taken from it, or
\* was dropped because the pipe was full of others; input that waits has a
\* signal or a flag, so no loop sleeps over it.
NoneStranded ==
  /\ Piped => pend + pipe + told + dropped = sent
  /\ dropped > 0 => Piped /\ pipe + told >= PipeSize
  /\ ~Piped /\ pc = "count" /\ input > 0 => flag \/ pend > 0

\* What is announced is taken.
Idle == (pend = 0 /\ pipe = 0 /\ (Piped \/ input = 0)) \/ pc = "exit"

-----------------------------------------------------------------------------
(***************************************************************************)
(* Readers of several sources: epoll_input.c (the ends of pipes), 63-07.c  *)
(* (pipes that are never read: which of them does epoll_wait() report?)    *)
(* and select_mq.c (one child per System V queue, which copies its         *)
(* messages into a pipe).                                                  *)
(*                                                                         *)
(* held[f] is the data in source f, of which at most MaxBuf are read at    *)
(* once; writers[f] whether it has a writer; order is the kernel's list of *)
(* ready descriptors, which epoll_wait() rotates; evs the events the       *)
(* program is going through; put what was written.  pipe and copy are      *)
(* those of select_mq.c.                                                   *)
(***************************************************************************)
CONSTANTS Fds, MaxBuf, MAX_EVENTS, MaxData, Lens

\* kind, held, open, pipe, told are declared above
VARIABLES writers, put, order, evs, copy, state
vars_poll == <<kind, held, writers, put, open, order, evs, pipe, copy, told, state>>

\* the descriptors one after the other
Orders == {s \in [1..Cardinality(Fds) -> Fds] : \A f \in Fds : \E j \in DOMAIN s : s[j] = f}
Init_poll ==
  /\ kind \in {"epoll_input", "63-07", "select_mq"} /\ put = <<>>
  /\ held = [f \in Fds |-> IF kind = "63-07" THEN <<1>> ELSE <<>>]
  /\ writers = [f \in Fds |-> TRUE] /\ open = Fds /\ evs = <<>> /\ pipe = <<>>
  /\ order \in (IF kind = "63-07" THEN Orders ELSE {<<>>})
  /\ copy = [f \in Fds |-> None] /\ told = <<>> /\ state = "wait"

Ready_poll(f) == f \in open /\ (held[f] # <<>> \/ ~writers[f])
Listed(s, f) == IF \E j \in DOMAIN s : s[j] = f THEN s ELSE Append(s, f)
-----------------------------------------------------------------------------
\* The writers of the pipes and of the message queues (a message is its length).
Write(f) ==
  /\ kind # "63-07" /\ writers[f] /\ Len(put) < MaxData
  /\ \E l \in (IF kind = "select_mq" THEN Lens ELSE {1}) :
       held' = [held EXCEPT ![f] = Append(@, l)] /\ put' = Append(put, <<f, l>>)
  /\ order' = Listed(order, f) /\ UNCHANGED <<kind, writers, open, evs, pipe, copy, told, state>>
Close(f) ==
  /\ kind = "epoll_input" /\ writers[f] /\ writers' = [writers EXCEPT ![f] = FALSE]
  /\ order' = Listed(order, f) /\ UNCHANGED <<kind, held, put, open, evs, pipe, copy, told, state>>

\* epoll_wait() takes up to max ready descriptors from the front of the list;
\* each that stays ready goes to its end.
epoll_wait(max) ==
  /\ state = "wait" /\ evs = <<>>
  /\ LET list == SelectSeq(order, Ready_poll)
         k == IF Len(list) < max THEN Len(list) ELSE max
     IN  /\ k > 0 /\ evs' = [j \in 1..k |-> <<list[j], held[list[j]] # <<>>, ~writers[list[j]]>>]
         /\ order' = SubSeq(list, k + 1, Len(list)) \o SubSeq(list, 1, k)
  /\ UNCHANGED <<kind, held, writers, put, open, pipe, copy, told, state>>

-----------------------------------------------------------------------------
\* epoll_input.c: input is read before a hang-up closes the descriptor.
ReadOr(f, in) ==
  IF in THEN /\ LET k == IF Len(held[f]) < MaxBuf THEN Len(held[f]) ELSE MaxBuf
                IN  held' = [held EXCEPT ![f] = SubSeq(@, k + 1, Len(@))] /\ told' = Append(told, <<f, k>>)
             /\ UNCHANGED <<open, state>>
        ELSE /\ open' = open \ {f} /\ state' = (IF open = {f} THEN "exit" ELSE state)
             /\ told' = Append(told, <<f, 0>>) /\ UNCHANGED held
Take(in) ==
  /\ evs # <<>> /\ evs' = Tail(evs) /\ ReadOr(Head(evs)[1], in)
  /\ UNCHANGED <<kind, writers, put, order, pipe, copy>>
\* mutant: a hang-up closes the descriptor although there is input
HandleHup == Take(~Head(evs)[3])
Handle == Take(Head(evs)[2])
epoll_input == kind = "epoll_input" /\ (epoll_wait(MAX_EVENTS) \/ Handle)

\* 63-07.c: one event a call, as many calls as there are descriptors.
Report == /\ evs # <<>> /\ evs' = <<>> /\ told' = Append(told, <<Head(evs)[1], 0>>)
          /\ state' = (IF Len(told) + 1 = Cardinality(Fds) THEN "exit" ELSE state)
          /\ UNCHANGED <<kind, held, writers, put, open, order, pipe, copy>>
main_63_07 == kind = "63-07" /\ (epoll_wait(1) \/ Report)

\* select_mq.c: a child receives a message and writes it to the pipe in one
\* write(); the parent reads header and text, and takes read() = 0 for the
\* end of the pipe, so that an empty message ends it.
childMon(f) ==
  /\ kind = "select_mq"
  /\ \/ /\ copy[f] = None /\ held[f] # <<>>
        /\ copy' = [copy EXCEPT ![f] = Head(held[f])] /\ held' = [held EXCEPT ![f] = Tail(@)] /\ UNCHANGED pipe
     \/ /\ copy[f] # None /\ copy' = [copy EXCEPT ![f] = None]
        /\ pipe' = Append(pipe, <<f, copy[f]>>) /\ UNCHANGED held
  /\ UNCHANGED <<kind, writers, put, open, order, evs, told, state>>
select_mq ==
  /\ kind = "select_mq" /\ state = "wait" /\ pipe # <<>> /\ pipe' = Tail(pipe)
  /\ IF Head(pipe)[2] = 0 THEN state' = "fatal" /\ UNCHANGED told
                          ELSE told' = Append(told, Head(pipe)) /\ UNCHANGED state
  /\ UNCHANGED <<kind, held, writers, put, open, order, evs, copy>>

Main_poll == epoll_input \/ main_63_07 \/ select_mq
Children == \E f \in Fds : childMon(f)
Next_poll == (\E f \in Fds : Write(f) \/ Close(f)) \/ Main_poll \/ Children

-----------------------------------------------------------------------------
\* Types.
TypeOK_poll == state \in {"wait", "exit", "fatal"} /\ open \subseteq Fds /\ Len(evs) <= Cardinality(Fds)

\* No input is left in a descriptor that epoll_input.c has closed; 63-07.c
\* reports every descriptor exactly once although none is ever read; and
\* the monitor of message queues shows each queue's messages in order,
\* until an empty message ends it.
NoneLeftOut ==
  /\ kind = "epoll_input" => \A f \in Fds \ open : held[f] = <<>> /\ ~writers[f]
  /\ kind = "63-07" => Cardinality({told[j][1] : j \in DOMAIN told}) = Len(told)
  /\ kind = "select_mq" => \A f \in Fds :
       LET Of(s) == SelectSeq(s, LAMBDA m : m[1] = f)
           copied == IF copy[f] = None THEN <<>> ELSE <<<<f, copy[f]>>>>
           rest == Of(told) \o Of(pipe) \o copied \o [j \in DOMAIN held[f] |-> <<f, held[f][j]>>]
       IN  IF state = "fatal" THEN \E j \in DOMAIN put : put[j][2] = 0 ELSE rest = Of(put)

\* The program catches up with its sources, or has ended.
CaughtUp == state = "wait" => pipe = <<>> /\ \A f \in open : ~Ready_poll(f) /\ copy[f] = None
=============================================================================
