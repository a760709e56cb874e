----------------------------- MODULE CallProofs -----------------------------
(***************************************************************************)
(* Safety of the calls that programs with sockets are made of: handlers    *)
(* that wake up a loop, walks over addresses, the transfer of a            *)
(* descriptor, and the loops of readn(), writen() and sendfile().          *)
(***************************************************************************)
EXTENDS SocketCalls, TLAPS

-----------------------------------------------------------------------------
(* Portions of sequences                                                   *)

\* Sequences with the same elements.
LEMMA EqualSequences ==
  ASSUME NEW S, NEW s \in Seq(S), NEW t \in Seq(S), Len(s) = Len(t),
         \A m \in 1..Len(s) : s[m] = t[m]
  PROVE  s = t
OBVIOUS

\* A sequence that begins like x and goes on like y.
LEMMA Joined ==
  ASSUME NEW S, NEW x \in Seq(S), NEW y \in Seq(S), NEW z \in Seq(S),
         Len(z) = Len(x) + Len(y),
         \A m \in 1..Len(x) : z[m] = x[m],
         \A m \in 1..Len(y) : z[Len(x) + m] = y[m]
  PROVE  x \o y = z
<1>1. Len(x) \in Nat /\ Len(y) \in Nat /\ x \o y \in Seq(S) /\ Len(x \o y) = Len(z)
  OBVIOUS
<1>2. ASSUME NEW m \in 1..Len(z)
      PROVE  (x \o y)[m] = z[m]
  <2>1. CASE m \in 1..Len(x)
    BY <2>1
  <2>2. CASE m \notin 1..Len(x)
    <3>1. m - Len(x) \in 1..Len(y) /\ Len(x) + (m - Len(x)) = m
      BY <1>1, <2>2
    <3>2. (x \o y)[m] = y[m - Len(x)]
      BY <1>1, <2>2
    <3> QED BY <3>1, <3>2, Zenon
  <2> QED BY <2>1, <2>2
<1> QED BY <1>1, <1>2, EqualSequences

\* Two portions that follow each other.
LEMMA PortionsJoin ==
  ASSUME NEW S, NEW s \in Seq(S), NEW a \in Nat, NEW b \in Nat, NEW c \in Nat,
         1 <= a, a <= b + 1, b <= c, c <= Len(s)
  PROVE  SubSeq(s, a, b) \o SubSeq(s, b + 1, c) = SubSeq(s, a, c)
<1>0. Len(s) \in Nat
  OBVIOUS
<1>1. SubSeq(s, a, b) \in Seq(S) /\ Len(SubSeq(s, a, b)) = b + 1 - a
      /\ \A m \in 1..(b + 1 - a) : SubSeq(s, a, b)[m] = s[a + m - 1]
  BY <1>0
<1>2. SubSeq(s, b + 1, c) \in Seq(S) /\ Len(SubSeq(s, b + 1, c)) = c - b
      /\ \A m \in 1..(c - b) : SubSeq(s, b + 1, c)[m] = s[b + m]
  BY <1>0
<1>3. SubSeq(s, a, c) \in Seq(S) /\ Len(SubSeq(s, a, c)) = c + 1 - a
      /\ \A m \in 1..(c + 1 - a) : SubSeq(s, a, c)[m] = s[a + m - 1]
  BY <1>0
<1>4. (b + 1 - a) + (c - b) = c + 1 - a
  OBVIOUS
<1>5. \A m \in 1..(b + 1 - a) : m \in 1..(c + 1 - a)
  OBVIOUS
<1>6. \A m \in 1..(c - b) : (b + 1 - a) + m \in 1..(c + 1 - a) /\ a + ((b + 1 - a) + m) - 1 = b + m
  OBVIOUS
<1>7. \A m \in 1..(b + 1 - a) : SubSeq(s, a, c)[m] = SubSeq(s, a, b)[m]
  BY <1>1, <1>3, <1>5, Zenon
<1>8. \A m \in 1..(c - b) : SubSeq(s, a, c)[(b + 1 - a) + m] = SubSeq(s, b + 1, c)[m]
  BY <1>2, <1>3, <1>6, Zenon
<1>9. Len(SubSeq(s, a, c)) = Len(SubSeq(s, a, b)) + Len(SubSeq(s, b + 1, c))
  BY <1>1, <1>2, <1>3, <1>4, Zenon
<1>10. \A m \in 1..Len(SubSeq(s, a, b)) : SubSeq(s, a, c)[m] = SubSeq(s, a, b)[m]
  BY <1>1, <1>7, Zenon
<1>11. \A m \in 1..Len(SubSeq(s, b + 1, c)) :
         SubSeq(s, a, c)[Len(SubSeq(s, a, b)) + m] = SubSeq(s, b + 1, c)[m]
  BY <1>1, <1>2, <1>8, Zenon
<1>12. SubSeq(s, a, b) \in Seq(S) /\ SubSeq(s, b + 1, c) \in Seq(S) /\ SubSeq(s, a, c) \in Seq(S)
  BY <1>1, <1>2, <1>3, Zenon
<1> QED BY <1>9, <1>10, <1>11, <1>12, Joined, Zenon

\* The portion that is added to what has been read or written.
LEMMA MoreIs ==
  ASSUME NEW S, NEW s \in Seq(S), NEW a \in Nat, NEW b \in Nat, NEW k \in Nat,
         a <= b, b + k <= Len(s)
  PROVE  SubSeq(s, a + 1, b) \o SubSeq(s, b + 1, b + k) = SubSeq(s, a + 1, b + k)
<1>1. a + 1 \in Nat /\ b + k \in Nat /\ 1 <= a + 1 /\ a + 1 <= b + 1 /\ b <= b + k
  OBVIOUS
<1> QED BY <1>1, PortionsJoin, ZenonT(30)

\* The same from the first byte.
LEMMA MoreOfAll ==
  ASSUME NEW S, NEW s \in Seq(S), NEW b \in Nat, NEW k \in Nat, b + k <= Len(s)
  PROVE  SubSeq(s, 1, b) \o SubSeq(s, b + 1, b + k) = SubSeq(s, 1, b + k)
<1>1. 1 \in Nat /\ b + k \in Nat /\ 1 <= 1 /\ 1 <= b + 1 /\ b <= b + k
  OBVIOUS
<1> QED BY <1>1, PortionsJoin, Zenon

\* What rounding down gives.
LEMMA PureDiv ==
  ASSUME NEW q \in Nat, NEW k \in Nat \ {0}, NEW l \in Nat, q * k <= l, l < q * k + k
  PROVE  l \div k = q
<1>1. l = k * (l \div k) + (l % k) /\ l \div k \in Nat /\ l % k \in 0..(k - 1)
  OBVIOUS
<1> DEFINE e == l \div k
<1> HIDE DEF e
<1>2. e \in Nat /\ k * e <= l /\ l < k * e + k
  BY <1>1 DEF e
<1>3. ~(e < q)
  <2> SUFFICES ASSUME e < q PROVE FALSE
    OBVIOUS
  <2>1. e + 1 <= q
    BY <1>2
  <2>2. (e + 1) * k <= q * k
    BY <1>2, <2>1
  <2>3. (e + 1) * k = k * e + k
    BY <1>2
  <2> QED BY <1>2, <2>2, <2>3
<1>4. ~(q < e)
  <2> SUFFICES ASSUME q < e PROVE FALSE
    OBVIOUS
  <2>1. q + 1 <= e
    BY <1>2
  <2>2. (q + 1) * k <= e * k
    BY <1>2, <2>1
  <2>3. (q + 1) * k = q * k + k /\ e * k = k * e
    BY <1>2
  <2> QED BY <1>2, <2>2, <2>3
<1> QED BY <1>2, <1>3, <1>4 DEF e

-----------------------------------------------------------------------------
(* Handlers that wake up a loop                                            *)

\* The inductive invariant for NoneStranded: a signal that was caught is in the
\* pipe or the flag, or counted.
WakeInv ==
  /\ pend \in Nat /\ pipe \in Nat /\ told \in Nat /\ dropped \in Nat
  /\ sent \in Nat /\ input \in Nat
  /\ ~Piped => pc \in {"count", "clear", "read"}
  /\ NoneStranded

\* Nothing has been sent yet.
LEMMA WakeInit ==
  ASSUME Init_wake PROVE WakeInv
BY DEF Init_wake, WakeInv, NoneStranded, Piped

\* The handlers, the loops they wake up, and their surroundings.
LEMMA WakeStep ==
  ASSUME WakeInv, [Next_wake]_vars_wake, PipeSize \in Nat
  PROVE  WakeInv'
<1>1. CASE Kill
  BY <1>1 DEF Kill, Pending, Piped, WakeInv, NoneStranded
<1>2. CASE Key
  BY <1>2 DEF Key, Pending, Piped, WakeInv, NoneStranded
<1>3. CASE handler
  BY <1>3 DEF handler, Piped, WakeInv, NoneStranded
<1>4. CASE sigioHandler
  BY <1>4 DEF sigioHandler, Piped, WakeInv, NoneStranded
<1>5. CASE self_pipe \/ self_pipe_63_5
  BY <1>5 DEF self_pipe, self_pipe_63_5, Wait, Caught, ReadStdin, DrainTo, Piped, WakeInv, NoneStranded
<1>6. CASE demo_sigio \/ demo_sigio_63_8
  BY <1>6 DEF demo_sigio, demo_sigio_63_8, OnSigio, Test, ClearAt, ReadAll, Piped, WakeInv, NoneStranded
<1>7. CASE UNCHANGED vars_wake
  BY <1>7 DEF vars_wake, Piped, WakeInv, NoneStranded
<1> QED BY <1>1, <1>2, <1>3, <1>4, <1>5, <1>6, <1>7 DEF Next_wake, Deliver, Main_wake

\* self_pipe.c, self_pipe_63-5.c, demo_sigio.c and demo_sigio_63-8.c, for any
\* size of the pipe and any number of signals: every signal is pending, in the
\* pipe or taken from it, or was dropped while the pipe was full of others; and
\* input that waits while the loop counts has a signal or the flag that
\* announces it.
THEOREM NoSignalStranded ==
  ASSUME PipeSize \in Nat
  PROVE  Init_wake /\ [][Next_wake]_vars_wake => []NoneStranded
<1>1. WakeInv => NoneStranded
  BY DEF WakeInv
<1> QED BY WakeInit, WakeStep, <1>1, PTL

\* The inductive invariant for NoneLeaked: the socket in hand is the only one
\* open, and every address before it has failed.
AddrInv ==
  /\ fn \in {"inetConnect", "inetListen", "inetBind", "isock_connect", "isock_listen", "isock_bind"}
  /\ i \in Nat /\ addrs \in Nat /\ at \in 1..Len(calls)
  /\ ret = 0 =>
       IF i = 0 THEN at = 1 /\ open = {} /\ failed = {} /\ ~heap
       ELSE /\ failed = 1..(i - 1)
            /\ open = IF fn = "isock_bind" \/ at = 1 THEN {} ELSE {i}
  /\ NoneLeaked

\* No address has been tried.
LEMMA AddrInit ==
  ASSUME Init_addr PROVE AddrInv
BY DEF Init_addr, AddrInv, NoneLeaked, calls

\* socket() is the first call for an address, and only the first.
LEMMA AddrCalls ==
  ASSUME AddrInv
  PROVE  /\ Len(calls) \in Nat
         /\ \A k \in 1..Len(calls) : calls[k] = "socket" <=> (k = 1 /\ fn # "isock_bind")
<1>1. CASE fn \in {"inetConnect", "isock_connect"}
  BY <1>1 DEF calls
<1>2. CASE fn \in {"inetListen", "isock_listen"}
  BY <1>2 DEF calls
<1>3. CASE fn = "inetBind"
  BY <1>3 DEF calls
<1>4. CASE fn = "isock_bind"
  BY <1>4 DEF calls
<1> QED BY <1>1, <1>2, <1>3, <1>4 DEF AddrInv

\* A call succeeds or fails.
LEMMA AddrStep ==
  ASSUME AddrInv, [Next_addr]_vars_addr
  PROVE  AddrInv'
<1>0. getaddrinfo \/ Succeeds \/ Fails \/ UNCHANGED vars_addr
  BY DEF Next_addr, inetConnect, inetPassiveSocket, isock_connect, isock_listen, isock_bind
<1>1. fn' = fn /\ addrs' = addrs
  BY <1>0 DEF getaddrinfo, Succeeds, Fails, FailsClosing, vars_addr
<1>2. calls' = calls
  BY <1>1 DEF calls
<1> USE <1>1, <1>2
<1>t. Len(calls) \in Nat /\ i \in Nat /\ addrs \in Nat /\ at \in 1..Len(calls)
  BY AddrCalls DEF AddrInv
<1>3. CASE getaddrinfo
  <2>1. ret = 0 /\ i = 0 /\ at = 1 /\ open = {} /\ failed = {} /\ open' = open /\ failed' = failed
    BY <1>3 DEF getaddrinfo, AddrInv
  <2>2. CASE i' = 1 /\ heap' = TRUE /\ UNCHANGED <<at, ret>>
    <3>1. failed' = 1..(i' - 1)
      BY <2>1, <2>2
    <3> QED BY <1>t, <2>1, <2>2, <3>1 DEF AddrInv, NoneLeaked
  <2>3. CASE ret' \in {-1, EAI} /\ heap' = FALSE /\ UNCHANGED <<i, at>>
    <3>1. ret' # 0 /\ ~(ret' > 0) /\ i' = 0 /\ ~(i' > 0) /\ at' = at /\ ~heap' /\ open' = {}
      BY <2>1, <2>3 DEF EAI
    <3> QED BY <1>t, <3>1 DEF AddrInv, NoneLeaked
  <2> QED BY <1>3, <2>2, <2>3, ZenonT(30) DEF getaddrinfo, Return_addr
<1>4. CASE Succeeds
  <2>1. ret = 0 /\ i > 0 /\ failed' = 1..(i - 1)
    BY <1>4 DEF Succeeds, AddrInv
  <2>2. open' = IF fn = "isock_bind" THEN {} ELSE {i}
    BY <1>4, <2>1, AddrCalls, <1>t, ZenonT(30) DEF Succeeds, AddrInv, NextCall
  <2>3. CASE at < Len(calls)
    <3>1. ret' = 0 /\ i' = i /\ at' = at + 1 /\ at' # 1 /\ at' \in 1..Len(calls)
      BY <1>t, <1>4, <2>1, <2>3 DEF Succeeds
    <3> QED BY <1>t, <2>1, <2>2, <3>1 DEF AddrInv, NoneLeaked
  <2>4. CASE ~(at < Len(calls))
    <3>1. ret' = i /\ ~heap' /\ i' = i /\ at' = at
      BY <1>4, <2>4 DEF Succeeds, Return_addr
    <3> QED BY <1>t, <2>1, <2>2, <3>1 DEF AddrInv, NoneLeaked, EAI
  <2> QED BY <2>3, <2>4
<1>5. CASE Fails
  <2>1. open' = IF fn = "inetListen" /\ NextCall = "listen" THEN open ELSE {}
    BY <1>5, AddrCalls DEF Fails, FailsClosing, Leaks, AddrInv
  <2>2. failed' = 1..i /\ i > 0 /\ ret = 0
    BY <1>5 DEF Fails, FailsClosing, AddrInv
  <2>3. CASE i' = i + 1 /\ at' = 1 /\ UNCHANGED <<heap, ret>> /\ ~(fn = "inetListen" /\ NextCall = "listen")
    <3>1. i' \in Nat /\ i' # 0 /\ i' - 1 = i /\ 1 \in 1..Len(calls)
      BY <1>t, <2>3
    <3> QED BY <1>t, <2>1, <2>2, <2>3, <3>1 DEF AddrInv, NoneLeaked
  <2>4. CASE Return_addr(-1)
    <3>1. ret' = -1 /\ ~heap' /\ i' = i /\ at' = at /\ NextCall' = NextCall
      BY <2>4 DEF Return_addr, NextCall
    <3>2. fn = "inetListen" /\ NextCall = "listen" => open = {i}
      BY <2>2, AddrCalls DEF AddrInv, NextCall
    <3>3. ret' # 0 /\ ~(ret' > 0) /\ ret' # EAI
      BY <3>1 DEF EAI
    <3>4. NoneLeaked'
      BY <2>1, <2>2, <3>1, <3>2, <3>3, ZenonT(30) DEF NoneLeaked
    <3> QED BY <1>t, <3>1, <3>3, <3>4 DEF AddrInv
  <2> QED BY <1>5, <2>3, <2>4 DEF Fails, FailsClosing, NextAddr
<1>6. CASE UNCHANGED vars_addr
  BY <1>6, <1>2 DEF vars_addr, AddrInv, NoneLeaked, NextCall
<1> QED BY <1>0, <1>3, <1>4, <1>5, <1>6

\* inetConnect(), inetListen(), inetBind() and the isock_*() functions, for any
\* number of addresses and whichever calls fail: the first address that works
\* is used, and on return no other socket is open and no memory held, but for
\* the socket of an inetListen() whose listen() fails.
THEOREM NoSocketLeaks ==
  Init_addr /\ [][Next_addr]_vars_addr => []NoneLeaked
<1>1. AddrInv => NoneLeaked
  BY DEF AddrInv
<1> QED BY AddrInit, AddrStep, <1>1, PTL

-----------------------------------------------------------------------------
(* The transfer of descriptors and credentials                             *)

\* What the receiver has displayed of a file.
Shown(k) == [m \in 1..k |-> m]
\* The inductive invariant for PassedWhole: where the descriptor is, and whose
\* credentials are in the message.
ScmInv ==
  /\ what \in {"rights", "cred"} /\ type \in {"stream", "dgram"} /\ explicit \in BOOLEAN
  /\ spc \in {"start", "connect", "connected", "exit", "failed"}
  /\ rpc \in {"start", "bind", "listen", "got", "recv", "read", "exit"}
  /\ passcred \in BOOLEAN /\ early \in BOOLEAN
  /\ path = "bound" => rpc \notin {"start", "bind"}
  /\ spc = "connected" => rpc \notin {"start", "bind"}
  /\ rpc = "listen" => type = "stream"
  /\ what = "cred" /\ rpc \in {"recv", "exit"} => passcred
  /\ msg = "nobody" => ~explicit /\ early
  /\ msg \in {None, "sender", "nobody"}
  /\ what = "cred" => rpc # "read"
  /\ what = "cred" /\ rpc = "exit" => shown = <<"sender">> \/ (~explicit /\ early)
  /\ what = "cred" /\ rpc = "exit" => spc \notin {"start", "connect", "connected"}
  /\ msg # None => spc = "exit"
  /\ what = "rights" =>
       /\ rpc # "got"
       /\ refs = IF spc \in {"start", "failed"} THEN {}
                 ELSE IF spc # "exit" THEN {"sender"}
                 ELSE IF rpc \in {"read", "exit"} THEN {"receiver"} ELSE {"message"}
       /\ rpc \in {"read", "exit"} => spc = "exit"
       /\ left \in 0..FileSize /\ shown = Shown(FileSize - left)
       /\ rpc = "exit" => left = 0

\* Nothing has been opened or sent.
LEMMA ScmInit ==
  ASSUME Init_scm, FileSize \in Nat, None \notin {"sender", "nobody"} PROVE ScmInv
<1>1. Shown(0) = <<>>
  BY DEF Shown
<1>2. left \in 0..FileSize /\ shown = Shown(FileSize - left) /\ refs = {}
  BY <1>1 DEF Init_scm
<1> QED BY <1>2, ZenonT(30) DEF Init_scm, ScmInv

\* The programs wait.
LEMMA ScmWaits == ASSUME ScmInv, UNCHANGED vars_scm PROVE ScmInv'
<1>1. /\ what' = what /\ type' = type /\ explicit' = explicit /\ spc' = spc /\ rpc' = rpc /\ path' = path
      /\ msg' = msg /\ passcred' = passcred /\ early' = early /\ refs' = refs /\ left' = left /\ shown' = shown
  BY DEF vars_scm
<1> QED BY <1>1, SMTT(30) DEF ScmInv

\* One more byte is displayed.
LEMMA ShownMore ==
  ASSUME NEW k \in Nat
  PROVE  Append(Shown(k), k + 1) = Shown(k + 1)
BY DEF Shown

\* The receiver.
LEMMA ScmReceiver ==
  ASSUME ScmInv, FileSize \in Nat, None \notin {"sender", "nobody"},
         scm_rights_recv \/ scm_cred_recv
  PROVE  ScmInv'
<1>1. CASE remove
  BY <1>1 DEF remove, RTo, run, ScmInv, Shown
<1>2. CASE unixBind
  BY <1>2, SMTT(30) DEF unixBind, Ready_scm, RTo, run, ScmInv, Shown
<1>3. CASE accept
  BY <1>3, SMTT(30) DEF accept, Ready_scm, run, ScmInv, Shown
<1>4. CASE setsockopt
  BY <1>4, SMTT(30) DEF setsockopt, RTo, run, ScmInv, Shown
<1>5. CASE recvmsg
  <2>1. /\ rpc = "recv" /\ rpc' = (IF what = "rights" THEN "read" ELSE "exit") /\ msg # None /\ msg' = None
        /\ shown' = (IF what = "cred" THEN <<msg>> ELSE shown)
        /\ refs' = (refs \ {"message"}) \cup (IF what = "rights" THEN {"receiver"} ELSE {})
        /\ UNCHANGED <<what, type, explicit, spc, path, passcred, early, left>>
    BY <1>5 DEF recvmsg, recvmsgKeeping, RTo, run
  <2>2. spc = "exit"
    BY <2>1, SMTT(30) DEF ScmInv
  <2>3. CASE what = "rights"
    <3>1. refs' = {"receiver"} /\ shown' = shown
      BY <2>1, <2>2, <2>3, SMTT(30) DEF ScmInv
    <3> QED BY <2>1, <2>2, <2>3, <3>1, SMTT(30) DEF ScmInv, Shown
  <2>4. CASE what = "cred"
    <3>1. shown' = <<"sender">> \/ (~explicit /\ early)
      BY <2>1, <2>4 DEF ScmInv
    <3>2. rpc' = "exit" /\ passcred' /\ what' # "rights"
      BY <2>1, <2>4 DEF ScmInv
    <3> QED BY <2>1, <2>2, <2>4, <3>1, <3>2, SMTT(30) DEF ScmInv
  <2> QED BY <2>3, <2>4 DEF ScmInv
<1>6. CASE read
  <2>1. what = "rights" /\ rpc = "read" /\ UNCHANGED <<what, type, explicit, spc, path, msg, passcred, early, refs>>
    BY <1>6 DEF read, run, ScmInv
  <2>2. left \in 0..FileSize /\ shown = Shown(FileSize - left) /\ spc = "exit"
    BY <2>1, SMTT(30) DEF ScmInv
  <2>3. CASE left > 0 /\ left' = left - 1 /\ shown' = Append(shown, FileSize - left + 1) /\ UNCHANGED rpc
    <3>1. FileSize - left \in Nat /\ left' \in 0..FileSize /\ FileSize - left' = FileSize - left + 1
      BY <2>2, <2>3
    <3>2. shown' = Shown(FileSize - left')
      BY <2>2, <2>3, <3>1, ShownMore, ZenonT(30)
    <3> QED BY <2>1, <2>2, <2>3, <3>1, <3>2 DEF ScmInv
  <2>4. CASE left = 0 /\ rpc' = "exit" /\ UNCHANGED <<left, shown>>
    BY <2>1, <2>2, <2>4 DEF ScmInv
  <2> QED BY <1>6, <2>3, <2>4 DEF read
<1> QED BY <1>1, <1>2, <1>3, <1>4, <1>5, <1>6 DEF scm_rights_recv, scm_cred_recv

\* The sender.
LEMMA ScmSender ==
  ASSUME ScmInv, FileSize \in Nat, None \notin {"sender", "nobody"},
         scm_rights_send \/ scm_cred_send
  PROVE  ScmInv'
<1>1. CASE open_scm
  BY <1>1 DEF open_scm, run, ScmInv, Shown
<1>2. CASE unixConnect
  BY <1>2, SMTT(30) DEF unixConnect, run, ScmInv, Shown
<1>3. CASE sendmsg
  BY <1>3, ZenonT(30) DEF sendmsg, Attached, run, ScmInv, Shown
<1> QED BY <1>1, <1>2, <1>3 DEF scm_rights_send, scm_cred_send

-----------------------------------------------------------------------------
(* The loops over read() and write()                                       *)

\* The complete blocks of n bytes, and what is left, are the blocks of the data.
LEMMA LastBlock ==
  ASSUME NEW S, NEW d \in Seq(S), NEW q \in Nat, NEW k \in Nat \ {0}, NEW r \in Seq(Seq(S)),
         Len(r) = q, \A m \in 1..q : r[m] = SubSeq(d, (m - 1) * k + 1, m * k),
         q * k <= Len(d), Len(d) < q * k + k
  PROVE  Append(r, SubSeq(d, q * k + 1, Len(d))) = BlocksOf(d, k)
<1> DEFINE rest == SubSeq(d, q * k + 1, Len(d))
<1>0. Len(d) \in Nat /\ q * k \in Nat
  OBVIOUS
<1>1. Len(d) \div k = q
  BY <1>0, PureDiv, ZenonT(30)
<1>2. rest \in Seq(S)
  <2>1. \A a \in Nat : SubSeq(d, a + 1, Len(d)) \in Seq(S)
    BY <1>0
  <2> QED BY <1>0, <2>1
<1>3. BlocksOf(d, k) = [m \in 1..(q + 1) |-> SubSeq(d, (m - 1) * k + 1, Least(m * k, Len(d)))]
  BY <1>1, Zenon DEF BlocksOf
<1>4. ASSUME NEW m \in 1..q PROVE Least(m * k, Len(d)) = m * k
  <2>1. m * k \in Nat /\ m * k <= q * k
    OBVIOUS
  <2>2. \A a, b, c \in Nat : a <= b /\ b <= c => Least(a, c) = a
    BY DEF Least
  <2> QED BY <1>0, <2>1, <2>2, Zenon
<1>5. Least((q + 1) * k, Len(d)) = Len(d) /\ ((q + 1) - 1) * k + 1 = q * k + 1
  <2>1. (q + 1) * k = q * k + k /\ (q + 1) - 1 = q
    OBVIOUS
  <2> QED BY <1>0, <2>1 DEF Least
<1> HIDE DEF rest
<1>6. Append(r, rest) = [m \in 1..(q + 1) |-> IF m = q + 1 THEN rest ELSE r[m]]
  <2>1. Append(r, rest) \in Seq(Seq(S)) /\ Len(Append(r, rest)) = q + 1
    BY <1>2
  <2>2. \A m \in 1..(q + 1) : Append(r, rest)[m] = IF m = q + 1 THEN rest ELSE r[m]
    BY <1>2
  <2>3. \A t \in Seq(Seq(S)) : t = [m \in 1..Len(t) |-> t[m]]
    OBVIOUS
  <2>4. Append(r, rest) = [m \in 1..(q + 1) |-> Append(r, rest)[m]]
    BY <2>1, <2>3, Zenon
  <2> QED BY <2>2, <2>4
<1>7. ASSUME NEW m \in 1..(q + 1)
      PROVE  (IF m = q + 1 THEN rest ELSE r[m]) = SubSeq(d, (m - 1) * k + 1, Least(m * k, Len(d)))
  <2>1. CASE m = q + 1
    BY <2>1, <1>5, SMTT(30) DEF rest
  <2>2. CASE m # q + 1
    <3>1. m \in 1..q
      BY <2>2
    <3> QED BY <2>2, <3>1, <1>4, Zenon
  <2> QED BY <2>1, <2>2
<1>8. Append(r, rest) = BlocksOf(d, k)
  BY <1>3, <1>6, <1>7, Zenon
<1> QED BY <1>8 DEF rest

\* What each function has done so far: what it has written, what it has sent,
\* and the blocks it has returned with the one it is filling.
Bytes == {"x", "nl"}
WritenOK == /\ buf = <<>> /\ out = SubSeq(data, 1, pos)
            /\ IF done THEN res = <<out>> /\ pos = Len(data) ELSE res = <<>>
Start == IF offset = <<>> THEN 0 ELSE offset[1]
End == Start + Len(out)
Sent ==
  /\ End <= Len(data) /\ out = SubSeq(data, Start + 1, End)
  /\ ~done => pos = End
  /\ done => /\ res = <<out>> /\ (Len(out) = n \/ End = Len(data))
             /\ offset # <<>> => offset[2] = End
SendfileOK ==
  /\ offset = <<>> \/ offset \in (0..Len(data)) \X (0..Len(data))
  /\ intr \in Nat /\ orig \in {-1, 0} /\ buf = <<>> /\ out \in Seq(Bytes) /\ Len(out) <= n
  /\ done => orig = 0 /\ (res = <<Failed>> \/ res = <<out>>)
  /\ ~done => res = <<>> /\ (orig = -1 => pos = 0 /\ out = <<>>)
  /\ done /\ offset # <<>> /\ res # <<Failed>> => pos = 0
  /\ intr = 0 /\ orig = 0 => Sent
ReadnOK ==
  IF done THEN res = BlocksOf(data, n)
  ELSE /\ res \in Seq(Seq(Bytes))
       /\ \A m \in 1..Len(res) : res[m] = SubSeq(data, (m - 1) * n + 1, m * n)
       /\ buf \in Seq(Bytes) /\ Len(buf) < n /\ pos = Len(res) * n + Len(buf)
       /\ buf = SubSeq(data, Len(res) * n + 1, pos)
\* The inductive invariant for ResultsExact.
IoInv ==
  /\ data \in Seq(Bytes) /\ n \in Nat \ {0} /\ pos \in 0..Len(data) /\ done \in BOOLEAN
  /\ fn = "writen" => WritenOK
  /\ fn = "sendfile" => SendfileOK
  /\ fn = "readn" => ReadnOK

\* Sizes of the requests, the data and the buffer of sendfile().
IoConstants == Sizes \subseteq Nat \ {0} /\ MaxLen \in Nat /\ BUF_SIZE \in Nat

\* Nothing has been transferred.
LEMMA IoInit == ASSUME IoConstants, Init_io PROVE IoInv
<1>1. data \in Seq(Bytes) /\ n \in Nat \ {0} /\ pos = 0 /\ done = FALSE /\ buf = <<>> /\ res = <<>> /\ out = <<>>
  BY DEF IoConstants, Init_io, Bytes
<1>2. SubSeq(data, 1, 0) = <<>>
  BY <1>1
<1>3. ReadnOK
  <2>1. Len(res) = 0 /\ Len(buf) = 0 /\ 0 * n = 0 /\ 0 * n + 0 = 0 /\ 0 * n + 1 = 1
    BY <1>1
  <2>2. res \in Seq(Seq(Bytes)) /\ buf \in Seq(Bytes) /\ 1..0 = {} /\ 0 < n
    BY <1>1
  <2> QED BY <1>1, <1>2, <2>1, <2>2 DEF ReadnOK
<1>4. pos \in 0..Len(data) /\ Len(<<>>) <= n
  BY <1>1
<1>5. WritenOK
  BY <1>1, <1>2, <1>4, Zenon DEF WritenOK
<1>6. SendfileOK
  <2>1. offset = <<>> \/ offset \in (0..Len(data)) \X (0..Len(data))
    BY DEF Init_io
  <2>2. intr = 0 /\ orig = -1
    BY DEF Init_io
  <2> QED BY <1>1, <1>4, <2>1, <2>2 DEF SendfileOK
<1> QED BY <1>1, <1>3, <1>4, <1>5, <1>6, ZenonT(30) DEF IoInv

\* A sequence is its longest portion.
LEMMA WholeIs == ASSUME NEW S, NEW s \in Seq(S) PROVE SubSeq(s, 1, Len(s)) = s
<1>1. SubSeq(s, 1, Len(s)) \in Seq(S) /\ Len(SubSeq(s, 1, Len(s))) = Len(s)
  OBVIOUS
<1>2. \A m \in 1..Len(s) : SubSeq(s, 1, Len(s))[m] = s[m]
  OBVIOUS
<1> QED BY <1>1, <1>2, EqualSequences

\* writen(): a call is interrupted, writes a portion, or there is no more.
LEMMA IoWriten ==
  ASSUME IoConstants, IoInv, writen PROVE IoInv'
<1>1. fn = "writen" /\ ~done /\ UNCHANGED <<fn, n, data>> /\ WritenOK
  BY DEF writen, Interrupted, IoInv
<1>2. data \in Seq(Bytes) /\ n \in Nat \ {0} /\ pos \in 0..Len(data) /\ Len(data) \in Nat
  BY DEF IoInv
<1>3. CASE Interrupted
  BY <1>1, <1>2, <1>3 DEF Interrupted, IoInv, WritenOK
<1>4. ASSUME NEW k \in Portions(Len(data)), out' = out \o NextBytes(k), pos' = pos + k,
             UNCHANGED <<fn, n, data, held, buf, res, intr, done, offset, orig>>
      PROVE  IoInv'
  <2>1. k \in Nat /\ pos \in Nat /\ pos + k <= Len(data) /\ pos' \in 0..Len(data)
    BY <1>2, <1>4 DEF Portions, Least, Unread
  <2>2. SubSeq(data, 1, pos) \o SubSeq(data, pos + 1, pos + k) = SubSeq(data, 1, pos + k)
    BY <1>2, <2>1, MoreOfAll, ZenonT(30)
  <2>3. out' = SubSeq(data', 1, pos')
    BY <1>1, <1>4, <2>2, ZenonT(30) DEF WritenOK, NextBytes
  <2>4. WritenOK'
    BY <1>1, <1>4, <2>3, Zenon DEF WritenOK
  <2> QED BY <1>1, <1>2, <1>4, <2>1, <2>4 DEF IoInv
<1>5. CASE Unread = 0 /\ done' = TRUE /\ Return_io(out) /\ UNCHANGED <<fn, n, data, pos, held, out, intr, offset, orig>>
  <2>1. pos = Len(data) /\ res' = <<out>> /\ buf' = <<>>
    BY <1>1, <1>2, <1>5 DEF Unread, Return_io, WritenOK
  <2> QED BY <1>1, <1>2, <1>5, <2>1 DEF IoInv, WritenOK
<1> QED BY <1>1, <1>3, <1>4, <1>5, ZenonT(30) DEF writen

\* sendfile(): the offset is set.
LEMMA IoSave ==
  ASSUME IoConstants, IoInv, sendfile, Save PROVE IoInv'
<1>1. fn = "sendfile" /\ ~done /\ UNCHANGED <<fn, n, data, held>> /\ SendfileOK
  BY DEF sendfile, IoInv
<1>2. data \in Seq(Bytes) /\ n \in Nat \ {0} /\ pos \in 0..Len(data) /\ Len(data) \in Nat
  BY DEF IoInv
<1>3. orig = -1 /\ pos = 0 /\ orig' = 0 /\ out = <<>> /\ UNCHANGED <<res, buf, out, intr, done, offset>>
  BY <1>1 DEF Save, SendfileOK
<1>4. Start \in 0..Len(data) /\ Start' = Start /\ pos' = Start
  BY <1>1, <1>2, <1>3 DEF Save, SendfileOK, Start
<1>5. Len(out) = 0 /\ End = Start /\ End' = Start /\ SubSeq(data, Start + 1, Start) = <<>>
  BY <1>1, <1>2, <1>3, <1>4 DEF End
<1>6. Sent'
  BY <1>1, <1>2, <1>3, <1>4, <1>5 DEF Sent
<1>7. SendfileOK'
  BY <1>1, <1>2, <1>3, <1>4, <1>6 DEF SendfileOK
<1> QED BY <1>1, <1>2, <1>3, <1>4, <1>7 DEF IoInv

\* sendfile(): a block is read and written, in part or not at all.
LEMMA IoMove ==
  ASSUME IoConstants, IoInv, sendfile, Move PROVE IoInv'
<1>1. fn = "sendfile" /\ ~done /\ UNCHANGED <<fn, n, data, held, offset, orig>> /\ SendfileOK /\ orig = 0
  BY DEF sendfile, IoInv, SendfileOK, Move
<1>2. /\ data \in Seq(Bytes) /\ n \in Nat \ {0} /\ pos \in 0..Len(data) /\ Len(data) \in Nat
      /\ done \in BOOLEAN
  BY DEF IoInv
<1>3. /\ Start \in 0..Len(data) /\ Start' = Start /\ Len(out) \in Nat /\ Len(out) < n
      /\ out \in Seq(Bytes) /\ res = <<>> /\ buf = <<>> /\ intr \in Nat
  BY <1>1, <1>2 DEF Start, SendfileOK, Move
<1>4. ASSUME NEW k \in Portions(Least(BUF_SIZE, n - Len(out)))
      PROVE  k \in Nat /\ pos + k <= Len(data) /\ pos + k \in 0..Len(data) /\ Len(out) + k <= n
  BY <1>2, <1>3, <1>4 DEF Portions, Least, Unread, IoConstants
<1>5. ASSUME NEW k \in Nat, NEW j \in 0..k, pos + k <= Len(data)
      PROVE  /\ NextBytes(j) \in Seq(Bytes) /\ out \o NextBytes(j) \in Seq(Bytes)
             /\ Len(out \o NextBytes(j)) = Len(out) + j
  <2>1. pos + 1 \in Nat /\ pos + j \in Nat /\ pos + j <= Len(data) /\ (pos + j) + 1 - (pos + 1) = j
    BY <1>2, <1>5
  <2>2. NextBytes(j) \in Seq(Bytes) /\ Len(NextBytes(j)) = (pos + j) + 1 - (pos + 1)
    BY <1>2, <2>1, SMTT(30) DEF NextBytes
  <2> QED BY <1>3, <2>1, <2>2
<1>6. ASSUME NEW k \in Portions(Least(BUF_SIZE, n - Len(out))),
             pos' = pos + k, out' = out \o NextBytes(k), UNCHANGED <<intr, res, buf, done>>
      PROVE  IoInv'
  <2>1. /\ k \in Nat /\ pos + k <= Len(data) /\ pos' \in 0..Len(data) /\ Len(out) + k <= n
        /\ k \in 0..k
    BY <1>4, <1>6
  <2>2. out' \in Seq(Bytes) /\ Len(out') = Len(out) + k
    BY <1>5, <1>6, <2>1
  <2>3. ASSUME intr = 0 PROVE Sent'
    <3>1. pos = End /\ End \in Nat /\ Start <= End /\ out = SubSeq(data, Start + 1, End)
      BY <1>1, <1>3, <2>3 DEF Sent, End, SendfileOK
    <3>2. SubSeq(data, Start + 1, pos) \o SubSeq(data, pos + 1, pos + k) = SubSeq(data, Start + 1, pos + k)
      BY <1>2, <1>3, <2>1, <3>1, MoreIs
    <3>3. End' = pos + k /\ pos + k <= Len(data)
      BY <1>1, <1>3, <2>1, <2>2, <3>1 DEF End
    <3>4. out' = SubSeq(data, Start + 1, pos + k)
      BY <1>6, <3>1, <3>2, Zenon DEF NextBytes
    <3> QED BY <1>1, <1>3, <1>6, <3>3, <3>4, Zenon DEF Sent
  <2>4. SendfileOK'
    BY <1>1, <1>2, <1>3, <1>6, <2>1, <2>2, <2>3 DEF SendfileOK
  <2> QED BY <1>1, <1>2, <1>6, <2>1, <2>4 DEF IoInv
<1>7. ASSUME pos' \in 0..Len(data), intr' = intr + 1, out' \in Seq(Bytes), Len(out') <= n,
             \/ UNCHANGED <<res, buf, done>>
             \/ Return_io(Failed) /\ done' = TRUE
      PROVE  IoInv'
  <2>1. intr' \in Nat /\ intr' # 0
    BY <1>3, <1>7
  <2>4. buf' = <<>> /\ done' \in BOOLEAN
    BY <1>2, <1>3, <1>7, Zenon DEF Return_io
  <2>2. IF done' THEN res' = <<Failed>> ELSE res' = <<>>
    BY <1>1, <1>3, <1>7 DEF Return_io
  <2>3. SendfileOK'
    BY <1>1, <1>2, <1>3, <1>7, <2>1, <2>2, <2>4 DEF SendfileOK
  <2> QED BY <1>1, <1>2, <1>7, <2>1, <2>3, <2>4 DEF IoInv
<1>8. ASSUME NEW k \in Portions(Least(BUF_SIZE, n - Len(out))), pos' = pos + k, intr' = intr + 1,
             NEW j \in 1..(k - 1), out' = out \o NextBytes(j), UNCHANGED <<res, buf, done>>
      PROVE  IoInv'
  <2>1. k \in Nat /\ pos + k <= Len(data) /\ pos' \in 0..Len(data) /\ Len(out) + k <= n
    BY <1>4, <1>8
  <2>2. j \in 0..k /\ Len(out) + j <= n
    <3>1. \A l, m \in Nat : l + k <= m => \A h \in 1..(k - 1) : h \in 0..k /\ l + h <= m
      BY <2>1
    <3> QED BY <1>2, <1>3, <1>8, <2>1, <3>1, Zenon
  <2>3. out' \in Seq(Bytes) /\ Len(out') <= n
    BY <1>5, <1>8, <2>1, <2>2
  <2> QED BY <1>7, <1>8, <2>1, <2>3, Zenon
<1>9. ASSUME NEW k \in Portions(Least(BUF_SIZE, n - Len(out))), pos' = pos + k, intr' = intr + 1,
             Return_io(Failed), done' = TRUE, UNCHANGED out
      PROVE  IoInv'
  <2>1. pos' \in 0..Len(data)
    BY <1>4, <1>9
  <2>2. out' \in Seq(Bytes) /\ Len(out') <= n
    BY <1>2, <1>3, <1>9
  <2> QED BY <1>7, <1>9, <2>1, <2>2, Zenon
<1>10. ASSUME intr' = intr + 1, Return_io(Failed), done' = TRUE, UNCHANGED <<pos, out>>
       PROVE  IoInv'
  BY <1>2, <1>3, <1>7, <1>10
<1> QED BY <1>6, <1>8, <1>9, <1>10, ZenonT(30) DEF Move

\* sendfile(): the number of bytes is returned, and the offset restored.
LEMMA IoRestore ==
  ASSUME IoConstants, IoInv, sendfile, Restore PROVE IoInv'
<1>1. /\ fn = "sendfile" /\ ~done /\ UNCHANGED <<fn, n, data, held, out, intr, orig>> /\ SendfileOK
      /\ orig = 0 /\ done' = TRUE /\ ~(Len(out) < n /\ Unread > 0)
  BY DEF sendfile, IoInv, SendfileOK, Restore
<1>2. data \in Seq(Bytes) /\ n \in Nat \ {0} /\ pos \in 0..Len(data) /\ Len(data) \in Nat
  BY DEF IoInv
<1>3. /\ Start \in 0..Len(data) /\ Start' = Start /\ Len(out) \in Nat /\ Len(out) <= n
      /\ out \in Seq(Bytes) /\ res' = <<out>> /\ buf' = <<>> /\ End' = End
  BY <1>1, <1>2 DEF Start, End, SendfileOK, Restore, Return_io
<1>4. /\ offset' = <<>> \/ offset' \in (0..Len(data)) \X (0..Len(data))
      /\ offset' # <<>> => offset'[2] = pos /\ pos' = 0
      /\ pos' \in 0..Len(data)
  BY <1>1, <1>2 DEF SendfileOK, Restore
<1>5. ASSUME intr = 0 PROVE Sent'
  <2>1. pos = End /\ End <= Len(data) /\ out = SubSeq(data, Start + 1, End)
    BY <1>1, <1>5 DEF Sent, SendfileOK
  <2>2. Len(out) = n \/ End = Len(data)
    BY <1>1, <1>2, <1>3, <2>1 DEF Unread
  <2> QED BY <1>1, <1>3, <1>4, <2>1, <2>2 DEF Sent
<1>6. SendfileOK'
  BY <1>1, <1>2, <1>3, <1>4, <1>5 DEF SendfileOK
<1> QED BY <1>1, <1>2, <1>4, <1>6 DEF IoInv

\* sendfile() as a whole.
LEMMA IoSendfile ==
  ASSUME IoConstants, IoInv, sendfile PROVE IoInv'
BY IoSave, IoMove, IoRestore DEF sendfile

\* A sequence with one more element.
LEMMA Appended ==
  ASSUME NEW T, NEW r \in Seq(T), NEW t \in T
  PROVE  /\ Append(r, t) \in Seq(T) /\ Len(Append(r, t)) = Len(r) + 1
         /\ Append(r, t)[Len(r) + 1] = t /\ \A m \in 1..Len(r) : Append(r, t)[m] = r[m]
BY SMTT(30)

\* readn(): a portion that fills the block or not, and the end of the file.
LEMMA IoReadn ==
  ASSUME IoConstants, IoInv, readn PROVE IoInv'
<1>1. fn = "readn" /\ ~done /\ UNCHANGED <<fn, n, data>> /\ ReadnOK
  BY DEF readn, Interrupted, IoInv
<1>2. data \in Seq(Bytes) /\ n \in Nat \ {0} /\ pos \in 0..Len(data) /\ Len(data) \in Nat
  BY DEF IoInv
<1>3. CASE Interrupted
  BY <1>1, <1>2, <1>3, SMTT(30) DEF Interrupted, IoInv, ReadnOK
<1>4. PICK q \in Nat, base \in Nat, l \in Nat : q = Len(res) /\ base = q * n /\ l = Len(buf)
  <2>1. Len(res) \in Nat /\ Len(buf) \in Nat
    BY <1>1 DEF ReadnOK
  <2>2. Len(res) * n \in Nat
    BY <1>2, <2>1
  <2> QED BY <2>1, <2>2, Zenon
<1>5. /\ pos = base + l /\ l < n /\ buf \in Seq(Bytes) /\ buf = SubSeq(data, base + 1, pos)
      /\ res \in Seq(Seq(Bytes)) /\ \A m \in 1..q : res[m] = SubSeq(data, (m - 1) * n + 1, m * n)
  BY <1>1, <1>4, Zenon DEF ReadnOK
<1>6. ASSUME NEW k \in Portions(n - Len(buf)), pos' = pos + k,
             UNCHANGED <<fn, n, data, held, out, intr, done, offset, orig>>,
             IF Len(buf) + k < n THEN buf' = buf \o NextBytes(k) /\ UNCHANGED res ELSE Return_io(buf \o NextBytes(k))
      PROVE  IoInv'
  <2>1. /\ k \in Nat /\ pos \in Nat /\ pos + k <= Len(data) /\ pos' \in 0..Len(data) /\ l + k <= n
        /\ base <= pos
    <3>1. k \in 1..Least(n - l, Len(data) - pos)
      BY <1>4, <1>6, Zenon DEF Portions, Unread
    <3> QED BY <1>2, <1>5, <1>6, <3>1 DEF Least
  <2>2. buf \o NextBytes(k) = SubSeq(data, base + 1, pos + k)
    <3>1. SubSeq(data, base + 1, pos) \o SubSeq(data, pos + 1, pos + k) = SubSeq(data, base + 1, pos + k)
      BY <1>2, <2>1, MoreIs
    <3> QED BY <1>5, <3>1, ZenonT(30) DEF NextBytes
  <2>3. buf \o NextBytes(k) \in Seq(Bytes) /\ Len(buf \o NextBytes(k)) = l + k
    <3>1. base + 1 \in Nat /\ pos + k \in Nat /\ (pos + k) + 1 - (base + 1) = l + k /\ base + 1 <= (pos + k) + 1
      BY <1>5, <2>1
    <3>2. SubSeq(data, base + 1, pos + k) \in Seq(Bytes)
      BY <1>2, <2>1, <3>1
    <3>3. Len(SubSeq(data, base + 1, pos + k)) = (pos + k) + 1 - (base + 1)
      BY <1>2, <2>1, <3>1, SMTT(30)
    <3> QED BY <2>2, <3>1, <3>2, <3>3, Zenon
  <2>4. CASE Len(buf) + k < n
    <3>1. buf' = buf \o NextBytes(k) /\ res' = res /\ l + k < n
      BY <1>4, <1>6, <2>4, SMTT(30)
    <3>2. buf' = SubSeq(data, base + 1, pos') /\ Len(buf') = l + k /\ pos' = base + (l + k)
      BY <1>5, <1>6, <2>1, <2>2, <2>3, <3>1
    <3>3. ReadnOK'
      BY <1>1, <1>4, <1>5, <1>6, <2>3, <3>1, <3>2, ZenonT(30) DEF ReadnOK
    <3> QED BY <1>1, <1>2, <1>6, <2>1, <3>3 DEF IoInv
  <2>5. CASE ~(Len(buf) + k < n)
    <3>1. pos' = (q + 1) * n /\ (q + 1) - 1 = q /\ q + 1 \in Nat
      <4>1. l + k = n
        BY <1>2, <1>4, <2>1, <2>5, SMTT(30)
      <4>2. (q + 1) * n = q * n + n
        BY <1>2
      <4>3. pos' = base + n
        BY <1>2, <1>5, <1>6, <2>1, <4>1, SMTT(30)
      <4> QED BY <1>4, <4>2, <4>3
    <3>2. buf' = <<>> /\ res' = Append(res, SubSeq(data, base + 1, pos'))
      BY <1>6, <2>2, <2>5 DEF Return_io
    <3>3. SubSeq(data, base + 1, pos') \in Seq(Bytes)
      BY <1>6, <2>2, <2>3
    <3>4. /\ res' \in Seq(Seq(Bytes)) /\ Len(res') = q + 1 /\ res'[q + 1] = SubSeq(data, base + 1, pos')
          /\ \A m \in 1..q : res'[m] = res[m]
      <4> DEFINE t == SubSeq(data, base + 1, pos')
      <4>1. t \in Seq(Bytes) /\ res' = Append(res, t) /\ res \in Seq(Seq(Bytes))
        BY <1>5, <3>2, <3>3, Zenon
      <4> HIDE DEF t
      <4>2. /\ Append(res, t) \in Seq(Seq(Bytes)) /\ Len(Append(res, t)) = Len(res) + 1
            /\ Append(res, t)[Len(res) + 1] = t /\ \A m \in 1..Len(res) : Append(res, t)[m] = res[m]
        BY <4>1, Appended
      <4> QED BY <1>4, <4>1, <4>2, Zenon DEF t
    <3>5. \A m \in 1..(q + 1) : res'[m] = SubSeq(data, (m - 1) * n + 1, m * n)
      <4>1. \A m \in 1..q : res'[m] = SubSeq(data, (m - 1) * n + 1, m * n)
        BY <1>5, <3>4, Zenon
      <4>2. res'[q + 1] = SubSeq(data, ((q + 1) - 1) * n + 1, (q + 1) * n)
        BY <1>4, <3>1, <3>4, Zenon
      <4>3. \A m \in 1..(q + 1) : m \in 1..q \/ m = q + 1
        OBVIOUS
      <4> QED BY <4>1, <4>2, <4>3, Zenon
    <3>6. SubSeq(data, pos' + 1, pos') = <<>> /\ pos' = pos' + 0 /\ 0 < n
      <4>1. \A p \in Nat : SubSeq(data, p + 1, p) = <<>>
        BY <1>2
      <4>2. pos' \in Nat /\ 0 < n
        BY <1>2, <2>1
      <4>3. \A p \in Nat : p = p + 0
        OBVIOUS
      <4> QED BY <4>1, <4>2, <4>3, Zenon
    <3>7. Len(buf') = 0 /\ buf' \in Seq(Bytes)
      BY <3>2
    <3>8. ReadnOK'
      BY <1>1, <1>6, <3>1, <3>2, <3>4, <3>5, <3>6, <3>7, ZenonT(30) DEF ReadnOK
    <3> QED BY <1>1, <1>2, <1>6, <2>1, <3>8 DEF IoInv
  <2> QED BY <2>4, <2>5, SMTT(30)
<1>7. CASE Unread = 0 /\ done' = TRUE /\ Return_io(buf) /\ UNCHANGED <<fn, n, data, pos, held, out, intr, offset, orig>>
  <2>1. pos = Len(data)
    BY <1>2, <1>7 DEF Unread
  <2>2. res' = Append(res, SubSeq(data, q * n + 1, Len(data)))
    BY <1>4, <1>5, <1>7, <2>1, Zenon DEF Return_io
  <2>3. base <= Len(data) /\ Len(data) < base + n
    BY <1>2, <1>5, <2>1
  <2>4. q * n <= Len(data) /\ Len(data) < q * n + n
    BY <1>4, <2>3, Zenon
  <2>5. res' = BlocksOf(data, n)
    BY <1>2, <1>4, <1>5, <2>2, <2>4, LastBlock, ZenonT(30)
  <2> QED BY <1>1, <1>2, <1>7, <2>5 DEF IoInv, ReadnOK
<1> QED BY <1>1, <1>3, <1>6, <1>7, ZenonT(30) DEF readn

\* The two readLine() do not concern the others.
LEMMA IoLines ==
  ASSUME IoConstants, IoInv, readLine \/ readLineBuf PROVE IoInv'
<1>1. fn' = fn /\ fn \in {"readLine", "readLineBuf"} /\ n' = n /\ data' = data
  BY DEF readLine, readLineKeeping, readLineBuf, Interrupted
<1>2. pos' \in 0..Len(data) /\ done' \in BOOLEAN
  <2>1. pos \in 0..Len(data) /\ Len(data) \in Nat /\ done \in BOOLEAN
    BY DEF IoInv
  <2>2. CASE pos' = pos /\ (done' = done \/ done' = TRUE)
    BY <2>1, <2>2, ZenonT(30)
  <2>3. CASE done' = done /\ Unread > 0 /\ \E k \in Portions(BUF_SIZE) \cup {1} : pos' = pos + k
    BY <2>1, <2>3 DEF Portions, Least, Unread, IoConstants
  <2>4. CASE readLine
    BY <2>2, <2>3, <2>4, ZenonT(30) DEF readLine, readLineKeeping, Interrupted
  <2>5. CASE readLineBuf
    BY <2>2, <2>3, <2>5, ZenonT(30) DEF readLineBuf
  <2> QED BY <2>4, <2>5
<1> QED BY <1>1, <1>2 DEF IoInv

\* What is asked for of the bytes from an offset on.
LEMMA PrefixOfRest ==
  ASSUME NEW S, NEW s \in Seq(S), NEW a \in 0..Len(s), NEW l \in Nat, NEW k \in Nat, l <= k,
         a + l <= Len(s), l = k \/ a + l = Len(s)
  PROVE  Prefix(SubSeq(s, a + 1, Len(s)), k) = SubSeq(s, a + 1, a + l)
<1> DEFINE x == SubSeq(s, a + 1, Len(s))
<1>1. x \in Seq(S) /\ Len(x) = Len(s) - a /\ \A m \in 1..(Len(s) - a) : x[m] = s[a + m]
  OBVIOUS
<1>2. l = Least(k, Len(x)) /\ l <= Len(x)
  BY <1>1 DEF Least
<1> DEFINE y == SubSeq(x, 1, l)
           z == SubSeq(s, a + 1, a + l)
<1>3. z \in Seq(S) /\ Len(z) = l /\ \A m \in 1..l : z[m] = s[a + m]
  OBVIOUS
<1> HIDE DEF x, z
<1>4. y \in Seq(S) /\ Len(y) = l /\ \A m \in 1..l : y[m] = x[m]
  BY <1>1, <1>2
<1>5. \A m \in 1..l : m \in 1..(Len(s) - a)
  OBVIOUS
<1> HIDE DEF y
<1>6. y = z
  BY <1>1, <1>3, <1>4, <1>5, EqualSequences
<1> QED BY <1>2, <1>6 DEF Prefix, x, y, z

\* readn(), writen() and sendfile(), for data and requests of any size, however
\* the kernel cuts the transfers: what they return or write is all of the data
\* in its order, in blocks of the size asked for, or the bytes asked for.  It
\* does not matter to readn() and writen() which calls are interrupted; for
\* sendfile(), none is and no write is short, and then the offsets of the
\* caller and of the file are right as well.
THEOREM LoopsMoveAll ==
  ASSUME IoConstants
  PROVE  Init_io /\ [][Next_io]_vars_io
           => [](fn \in {"readn", "writen", "sendfile"} => ResultsExact)
<1>1. IoInv /\ UNCHANGED vars_io => IoInv'
  BY DEF vars_io, IoInv, WritenOK, SendfileOK, Sent, Start, End, ReadnOK
<1>2. IoInv /\ [Next_io]_vars_io => IoInv'
  BY <1>1, IoWriten, IoSendfile, IoReadn, IoLines DEF Next_io
<1>3. IoInv => (fn \in {"readn", "writen", "sendfile"} => ResultsExact)
  <2> SUFFICES ASSUME IoInv, fn \in {"readn", "writen", "sendfile"}, done PROVE ResultsExact
    BY DEF ResultsExact
  <2>1. data \in Seq(Bytes) /\ n \in Nat \ {0} /\ Len(data) \in Nat /\ SubSeq(data, 1, Len(data)) = data
    BY WholeIs DEF IoInv
  <2>2. CASE fn = "readn"
    BY <2>2 DEF IoInv, ReadnOK, ResultsExact
  <2>3. CASE fn = "writen"
    BY <2>1, <2>3 DEF IoInv, WritenOK, ResultsExact
  <2>4. CASE fn = "sendfile"
    <3>1. SendfileOK /\ orig = 0 /\ (offset # <<>> /\ res # <<Failed>> => pos = orig)
      BY <2>4 DEF IoInv, SendfileOK
    <3>2. (IF offset = <<>> THEN orig ELSE offset[1]) = Start /\ Start \in 0..Len(data)
      BY <2>1, <3>1 DEF Start, SendfileOK
    <3>3. ASSUME intr = 0
          PROVE  /\ res = <<Prefix(SubSeq(data, Start + 1, Len(data)), n)>>
                 /\ offset # <<>> => offset[2] = Start + Len(out)
      <4>1. Sent /\ out \in Seq(Bytes) /\ Len(out) <= n
        BY <3>1, <3>3 DEF SendfileOK
      <4>2. Start + Len(out) <= Len(data) /\ out = SubSeq(data, Start + 1, Start + Len(out))
        BY <4>1 DEF Sent, End
      <4>3. Prefix(SubSeq(data, Start + 1, Len(data)), n) = out
        <5>1. Len(out) = n \/ Start + Len(out) = Len(data)
          BY <4>1 DEF Sent, End
        <5>2. Len(out) \in Nat /\ n \in Nat
          BY <2>1, <4>1
        <5>3. Prefix(SubSeq(data, Start + 1, Len(data)), n) = SubSeq(data, Start + 1, Start + Len(out))
          BY <2>1, <3>2, <4>1, <4>2, <5>1, <5>2, PrefixOfRest
        <5> QED BY <4>2, <5>3, Zenon
      <4> QED BY <4>1, <4>3 DEF Sent, End
    <3> QED BY <2>4, <3>1, <3>2, <3>3 DEF ResultsExact
  <2> QED BY <2>2, <2>3, <2>4
<1> QED BY IoInit, <1>2, <1>3, PTL

-----------------------------------------------------------------------------
(* What the transfer of descriptors and credentials results in             *)

INSTANCE FiniteSetTheorems

\* What the invariant says of the results.
LEMMA ScmShown ==
  ASSUME ScmInv, FileSize \in Nat, None \notin {"sender", "nobody"} PROVE PassedWhole
<1>1. what = "rights" /\ spc = "exit" => Cardinality(refs) = 1
  BY FS_Singleton, ZenonT(30) DEF ScmInv
<1>2. what = "rights" /\ rpc = "exit" => shown = [m \in 1..FileSize |-> m]
  BY DEF ScmInv, Shown
<1> QED BY <1>1, <1>2, SMTT(30) DEF ScmInv, PassedWhole

\* scm_rights_send.c, scm_rights_recv.c and the scm_cred_*.c, for any size of
\* the file: once the sender is done the open file has exactly one reference,
\* the message's or the receiver's, the receiver shows all of the file, and the
\* credentials it shows are the sender's unless it asked for them too late.
THEOREM DescriptorsPassWhole ==
  ASSUME FileSize \in Nat, None \notin {"sender", "nobody"}
  PROVE  Init_scm /\ [][Next_scm]_vars_scm => []PassedWhole
<1>1. ScmInv /\ [Next_scm]_vars_scm => ScmInv'
  BY ScmWaits, ScmReceiver, ScmSender DEF Next_scm
<1> QED BY ScmInit, ScmShown, <1>1, PTL
=============================================================================
