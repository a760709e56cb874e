--------------------------- MODULE TransferProofs ---------------------------
(***************************************************************************)
(* Safety of the UNIX stream servers us_xfr, for any servers, clients and  *)
(* amounts of data, and of three programs with two threads: the counter of *)
(* 30-01, the signals of 33-01 and the lines of 53-01.                     *)
(***************************************************************************)
EXTENDS UnixXfr, SmallThreads, TLAPS

-----------------------------------------------------------------------------
(* The transfer servers on UNIX domain sockets                             *)

\* The sign for nothing is no server and no client.
XfrConstants == None \notin Servers /\ None \notin Clients_xfr

\* How much of a client's data has been copied; it is over when the client is.
Copied(c) == sent[c] - Len(pipe[c])
HasEnded(c) == cst[c] \in {"done", "failed"}

\* The last client in a server's output has ended, and all of its data is there.
Complete(m) == HasEnded(m[1]) /\ m[2] = sent[m[1]]
Finished(s) == out[s] # <<>> => Complete(out[s][Len(out[s])])

\* Every chunk of a server's output follows the one before.
Follows(s) ==
  \A r \in 1..Len(out[s]) :
    IF out[s][r][2] > 1 THEN r > 1 /\ out[s][r - 1] = <<out[s][r][1], out[s][r][2] - 1>>
    ELSE r > 1 => Complete(out[s][r - 1])

\* The clients that wait are different ones, of this server, of which nothing
\* has been copied.
WaitingOK(s) ==
  /\ \A r, j \in 1..Len(backlog[s]) : backlog[s][r] = backlog[s][j] => r = j
  /\ \A r \in 1..Len(backlog[s]) :
       LET c == backlog[s][r] IN c # cfd[s] /\ peer[c] = s /\ Copied(c) = 0

\* The output ends with what has been copied of the client served, or, if that
\* is nothing, with a client that is finished.
CopyingOK(s, c) ==
  /\ peer[c] = s
  /\ IF Copied(c) = 0 THEN Finished(s)
     ELSE out[s] # <<>> /\ out[s][Len(out[s])] = <<c, Copied(c)>>
ServerOK(s) ==
  /\ sst[s] # "listen" => backlog[s] = <<>> /\ cfd[s] = None
  /\ sst[s] \notin {"listen", "dead"} => out[s] = <<>>
  /\ WaitingOK(s) /\ Follows(s)
  /\ cfd[s] # None => CopyingOK(s, cfd[s])
  /\ cfd[s] = None /\ sst[s] = "listen" => Finished(s)

\* A server that does not remove the name has it from bind() on.
NameOK(s) == sst[s] \in {"bound", "listen"} /\ kind # "remove" => name = s

\* What is in a pipe are the last chunks that its client wrote.
ClientOK(c) ==
  /\ Len(pipe[c]) <= sent[c]
  /\ \A r \in 1..Len(pipe[c]) : pipe[c][r] = <<c, Copied(c) + r>>
  /\ cst[c] = "new" => peer[c] = None /\ sent[c] = 0
  /\ cst[c] \in {"open", "done"} => peer[c] # None

XfrTypes ==
  /\ kind \in {"remove", "plain", "abstract"} /\ name \in Servers \cup {None}
  /\ sst \in [Servers -> {"new", "removed", "bound", "listen", "failed", "dead"}]
  /\ cst \in [Clients_xfr -> {"new", "open", "done", "failed"}]
  /\ backlog \in [Servers -> Seq(Clients_xfr)] /\ cfd \in [Servers -> Clients_xfr \cup {None}]
  /\ out \in [Servers -> Seq(Clients_xfr \X Nat)] /\ pipe \in [Clients_xfr -> Seq(Clients_xfr \X Nat)]
  /\ peer \in [Clients_xfr -> Servers \cup {None}] /\ sent \in [Clients_xfr -> Nat]

\* The inductive invariant for OneAfterTheOther.
XfrInv ==
  XfrTypes /\ (\A s \in Servers : ServerOK(s) /\ NameOK(s)) /\ \A c \in Clients_xfr : ClientOK(c)

\* The clients that have connected stay with their servers, and those that
\* have ended write no more.
ClientsKept ==
  \A x \in Clients_xfr : /\ peer[x] # None => peer'[x] = peer[x]
                         /\ HasEnded(x) => HasEnded(x)' /\ sent'[x] = sent[x]

\* What a sequence holds.
LEMMA ElementIn ==
  ASSUME NEW S, NEW t \in Seq(S), NEW j \in 1..Len(t)
  PROVE  t[j] \in S
OBVIOUS

\* A queue whose first element is taken.
LEMMA Dequeued ==
  ASSUME NEW S, NEW q \in Seq(S), q # <<>>
  PROVE  /\ Len(q) \in Nat /\ 1 \in 1..Len(q) /\ Head(q) = q[1] /\ Head(q) \in S
         /\ Tail(q) \in Seq(S) /\ Len(Tail(q)) = Len(q) - 1
         /\ \A r \in 1..Len(Tail(q)) : Tail(q)[r] = q[r + 1] /\ r + 1 \in 1..Len(q) /\ r + 1 # 1
         /\ \A r, j \in 1..Len(Tail(q)) : r + 1 = j + 1 => r = j
<1>1. Len(q) \in Nat /\ Len(q) >= 1 /\ Len(Tail(q)) = Len(q) - 1
  OBVIOUS
<1>2. /\ 1 \in 1..Len(q)
      /\ \A r \in 1..Len(Tail(q)) : r \in Nat /\ r + 1 \in 1..Len(q) /\ r + 1 # 1
  BY <1>1
<1>3. \A r, j \in Nat : r + 1 = j + 1 => r = j
  OBVIOUS
<1>4. Tail(q) \in Seq(S) /\ Head(q) = q[1] /\ Head(q) \in S
  BY <1>1, <1>2
<1>5. \A r \in 1..Len(Tail(q)) : Tail(q)[r] = q[r + 1]
  BY <1>1, <1>2
<1> QED BY <1>1, <1>2, <1>3, <1>4, <1>5

\* Then what a server that takes no step has copied stays as it was.
LEMMA OutputKept ==
  ASSUME XfrTypes, NEW s \in Servers, out'[s] = out[s], ClientsKept
  PROVE  (Follows(s) => Follows(s)') /\ (Finished(s) => Finished(s)')
<1>1. out[s] \in Seq(Clients_xfr \X Nat) /\ Len(out[s]) \in Nat
  BY DEF XfrTypes
<1>2. \A r \in 1..Len(out[s]) : Complete(out[s][r]) => Complete(out[s][r])'
  BY <1>1 DEF Complete, ClientsKept, HasEnded
<1>3. Finished(s) => Finished(s)'
  BY <1>1, <1>2 DEF Finished
<1>4. \A r \in 1..Len(out[s]) : r > 1 => r - 1 \in 1..Len(out[s])
  BY <1>1
<1>5. \A r \in 1..Len(out[s]) : r > 1 => (Complete(out[s][r - 1]) => Complete(out[s][r - 1])')
  BY <1>2, <1>4
<1>6. Follows(s) => Follows(s)'
  BY <1>5 DEF Follows
<1> QED BY <1>3, <1>6

\* Nor does anything else change for it, if nothing is copied of its clients.
LEMMA ServerKept ==
  ASSUME XfrConstants, XfrTypes, NEW s \in Servers, ServerOK(s), ClientsKept,
         sst'[s] = sst[s], backlog'[s] = backlog[s], cfd'[s] = cfd[s], out'[s] = out[s],
         \A x \in Clients_xfr : peer[x] = s => Copied(x)' = Copied(x)
  PROVE  ServerOK(s)'
<1>1. (Follows(s) => Follows(s)') /\ (Finished(s) => Finished(s)')
  BY OutputKept
<1>2. \A x \in Clients_xfr : peer[x] = s => peer'[x] = s /\ Copied(x)' = Copied(x)
  BY DEF ClientsKept, XfrConstants
<1>3. backlog[s] \in Seq(Clients_xfr) /\ cfd[s] \in Clients_xfr \cup {None}
  BY DEF XfrTypes
<1>4. WaitingOK(s)'
  <2>1. WaitingOK(s) /\ \A r \in 1..Len(backlog[s]) : backlog[s][r] \in Clients_xfr
    BY <1>3 DEF ServerOK
  <2>2. \A r \in 1..Len(backlog[s]) :
          backlog[s][r] # cfd[s] /\ peer'[backlog[s][r]] = s /\ Copied(backlog[s][r])' = 0
    BY <1>2, <2>1 DEF WaitingOK
  <2> QED BY <2>1, <2>2 DEF WaitingOK
<1>5. cfd[s] # None => CopyingOK(s, cfd[s])'
  BY <1>1, <1>2, <1>3 DEF ServerOK, CopyingOK
<1> QED BY <1>1, <1>4, <1>5 DEF ServerOK

\* A step of a client that takes no place in a server's queue.
LEMMA XfrClientStep ==
  ASSUME XfrConstants, XfrInv, XfrTypes', UNCHANGED <<kind, sst, name, backlog, cfd, out>>, ClientsKept,
         \A x \in Clients_xfr : ClientOK(x)' /\ (peer[x] # None => Copied(x)' = Copied(x))
  PROVE  XfrInv'
<1>1. ASSUME NEW s \in Servers PROVE ServerOK(s)' /\ NameOK(s)'
  <2>1. XfrTypes /\ ServerOK(s) /\ NameOK(s)
    BY DEF XfrInv
  <2>2. \A x \in Clients_xfr : peer[x] = s => Copied(x)' = Copied(x)
    BY DEF XfrConstants
  <2>3. ServerOK(s)'
    BY <2>1, <2>2, ServerKept
  <2> QED BY <2>1, <2>3 DEF NameOK
<1> QED BY <1>1 DEF XfrInv

\* A client writes a chunk, or is killed by SIGPIPE.
LEMMA XfrWriteInv ==
  ASSUME XfrConstants, XfrInv, NEW c \in Clients_xfr, write(c)
  PROVE  XfrInv'
<1>1. cst[c] = "open" /\ UNCHANGED <<kind, sst, name, backlog, cfd, out, peer>>
  BY DEF write
<1>2. XfrTypes /\ sent[c] \in Nat /\ pipe[c] \in Seq(Clients_xfr \X Nat) /\ Len(pipe[c]) \in Nat
  BY DEF XfrInv, XfrTypes
<1>3. CASE cst' = [cst EXCEPT ![c] = "failed"] /\ UNCHANGED <<sent, pipe>>
  <2>1. /\ XfrTypes' /\ cst'[c] = "failed" /\ \A x \in Clients_xfr \ {c} : cst'[x] = cst[x]
    BY <1>1, <1>2, <1>3 DEF XfrTypes
  <2>2. ClientsKept
    BY <1>1, <1>3, <2>1 DEF ClientsKept, HasEnded
  <2>3. \A x \in Clients_xfr : ClientOK(x)' /\ Copied(x)' = Copied(x)
    BY <1>1, <1>3, <2>1 DEF XfrInv, ClientOK, Copied
  <2> QED BY <1>1, <2>1, <2>2, <2>3, XfrClientStep
<1>4. CASE /\ sent' = [sent EXCEPT ![c] = @ + 1] /\ UNCHANGED cst
           /\ pipe' = [pipe EXCEPT ![c] = Append(@, <<c, sent[c] + 1>>)]
  <2>0. PICK n \in Nat : n = sent[c] + 1
    BY <1>2
  <2>1. PICK m \in Clients_xfr \X Nat : n = sent[c] + 1 /\ m = <<c, n>>
    BY <2>0, Zenon
  <2>2. Append(pipe[c], m) \in Seq(Clients_xfr \X Nat)
    BY <1>2
  <2>3. /\ XfrTypes' /\ sent'[c] = n /\ pipe'[c] = Append(pipe[c], m)
        /\ \A x \in Clients_xfr \ {c} : sent'[x] = sent[x] /\ pipe'[x] = pipe[x]
    BY <1>1, <1>2, <1>4, <2>1, <2>2 DEF XfrTypes
  <2>4. ClientsKept
    BY <1>1, <1>4, <2>3 DEF ClientsKept, HasEnded
  <2>5. Len(pipe'[c]) = Len(pipe[c]) + 1 /\ Copied(c)' = Copied(c) /\ Copied(c) \in Int
    BY <1>2, <2>1, <2>3, SMTT(60) DEF Copied
  <2>6. ClientOK(c)'
    <3>1. ClientOK(c)
      BY DEF XfrInv
    <3>2. Len(pipe'[c]) <= sent'[c]
      BY <1>2, <2>1, <2>3, <2>5, <3>1 DEF ClientOK
    <3>3. \A r \in 1..Len(pipe'[c]) : pipe'[c][r] = <<c, Copied(c) + r>>
      <4>1. \A r \in 1..(Len(pipe[c]) + 1) : r \in 1..Len(pipe[c]) \/ r = Len(pipe[c]) + 1
        BY <1>2
      <4>2. Copied(c) + (Len(pipe[c]) + 1) = n
        BY <1>2, <2>1 DEF Copied
      <4>3. /\ pipe'[c][Len(pipe[c]) + 1] = m
            /\ \A r \in 1..Len(pipe[c]) : pipe'[c][r] = pipe[c][r]
        BY <1>2, <2>3
      <4> QED BY <2>1, <2>5, <3>1, <4>1, <4>2, <4>3, Zenon DEF ClientOK
    <3> QED BY <1>1, <1>4, <2>5, <3>1, <3>2, <3>3 DEF ClientOK
  <2>7. \A x \in Clients_xfr \ {c} : ClientOK(x)' /\ Copied(x)' = Copied(x)
    BY <1>1, <1>4, <2>3 DEF XfrInv, ClientOK, Copied
  <2> QED BY <1>1, <2>3, <2>4, <2>5, <2>6, <2>7, XfrClientStep
<1> QED BY <1>3, <1>4 DEF write

\* A client that has written everything exits.
LEMMA XfrExitInv ==
  ASSUME XfrConstants, XfrInv, NEW c \in Clients_xfr, exit_xfr(c)
  PROVE  XfrInv'
<1>1. /\ cst[c] = "open" /\ UNCHANGED <<kind, sst, name, backlog, cfd, out, peer, sent, pipe>>
      /\ cst' = [cst EXCEPT ![c] = "done"]
  BY DEF exit_xfr
<1>2. XfrTypes' /\ cst'[c] = "done" /\ \A x \in Clients_xfr \ {c} : cst'[x] = cst[x]
  BY <1>1 DEF XfrInv, XfrTypes
<1>3. ClientsKept
  BY <1>1, <1>2 DEF ClientsKept, HasEnded
<1>4. \A x \in Clients_xfr : ClientOK(x)' /\ Copied(x)' = Copied(x)
  BY <1>1, <1>2 DEF XfrInv, ClientOK, Copied
<1> QED BY <1>1, <1>2, <1>3, <1>4, XfrClientStep

\* A client connects to the server that has the name, or fails.
LEMMA XfrConnectInv ==
  ASSUME XfrConstants, XfrInv, NEW c \in Clients_xfr, connect(c)
  PROVE  XfrInv'
<1>1. cst[c] = "new" /\ UNCHANGED <<kind, sst, name, cfd, out, sent, pipe>>
  BY DEF connect
<1>2. XfrTypes /\ peer[c] = None /\ sent[c] = 0 /\ sent[c] \in Nat
  BY <1>1 DEF XfrInv, ClientOK, XfrTypes
<1>3. CASE cst' = [cst EXCEPT ![c] = "failed"] /\ UNCHANGED <<peer, backlog>>
  <2>1. XfrTypes' /\ cst'[c] = "failed" /\ \A x \in Clients_xfr \ {c} : cst'[x] = cst[x]
    BY <1>1, <1>2, <1>3 DEF XfrTypes
  <2>2. ClientsKept
    BY <1>1, <1>3, <2>1 DEF ClientsKept, HasEnded
  <2>3. \A x \in Clients_xfr : ClientOK(x)' /\ Copied(x)' = Copied(x)
    BY <1>1, <1>3, <2>1 DEF XfrInv, ClientOK, Copied
  <2> QED BY <1>1, <1>3, <2>1, <2>2, <2>3, XfrClientStep
<1>4. CASE /\ name # None /\ sst[name] = "listen" /\ cst' = [cst EXCEPT ![c] = "open"]
           /\ peer' = [peer EXCEPT ![c] = name] /\ backlog' = [backlog EXCEPT ![name] = Append(@, c)]
  <2>1. PICK s \in Servers : s = name
    BY <1>2, <1>4 DEF XfrTypes
  <2>2. backlog[s] \in Seq(Clients_xfr) /\ Append(backlog[s], c) \in Seq(Clients_xfr)
    BY <1>2 DEF XfrTypes
  <2>3. /\ XfrTypes' /\ cst'[c] = "open" /\ peer'[c] = s /\ backlog'[s] = Append(backlog[s], c)
        /\ \A x \in Clients_xfr \ {c} : cst'[x] = cst[x] /\ peer'[x] = peer[x]
        /\ \A t \in Servers \ {s} : backlog'[t] = backlog[t]
    BY <1>1, <1>2, <1>4, <2>1, <2>2 DEF XfrTypes
  <2>4. ClientsKept /\ \A x \in Clients_xfr : Copied(x)' = Copied(x)
    BY <1>1, <1>2, <2>3 DEF ClientsKept, HasEnded, Copied
  <2>5. \A x \in Clients_xfr : ClientOK(x)'
    <3>1. ClientOK(c)'
      BY <1>1, <2>1, <2>3, <2>4 DEF XfrInv, ClientOK, XfrConstants
    <3>2. \A x \in Clients_xfr \ {c} : ClientOK(x)'
      BY <1>1, <2>3, <2>4 DEF XfrInv, ClientOK
    <3> QED BY <3>1, <3>2
  <2>6. \A t \in Servers : NameOK(t)'
    BY <1>1, SMTT(60) DEF XfrInv, NameOK
  <2>7. ASSUME NEW t \in Servers \ {s} PROVE ServerOK(t)'
    BY <1>1, <1>2, <2>3, <2>4, ServerKept, SMTT(30) DEF XfrInv
  <2>8. ServerOK(s)'
    <3>1. ServerOK(s) /\ (Follows(s) => Follows(s)') /\ (Finished(s) => Finished(s)')
      BY <1>1, <1>2, <2>4, OutputKept DEF XfrInv
    <3>2. /\ Len(backlog[s]) \in Nat /\ Len(backlog'[s]) = Len(backlog[s]) + 1
          /\ backlog'[s][Len(backlog[s]) + 1] = c
          /\ \A r \in 1..Len(backlog[s]) : backlog'[s][r] = backlog[s][r] /\ backlog[s][r] \in Clients_xfr
          /\ \A r \in 1..(Len(backlog[s]) + 1) : r \in 1..Len(backlog[s]) \/ r = Len(backlog[s]) + 1
      BY <2>2, <2>3
    <3>3. Copied(c) = 0
      <4>1. Len(pipe[c]) <= 0 /\ Len(pipe[c]) \in Nat
        BY <1>2 DEF XfrInv, ClientOK, XfrTypes
      <4> QED BY <1>2, <4>1 DEF Copied
    <3>4. \A x \in Clients_xfr : peer[x] = s => x # c /\ peer'[x] = s
      BY <1>2, <2>3 DEF XfrConstants
    <3>5. cfd[s] # c /\ cfd'[s] = cfd[s]
      <4>1. cfd[s] # None => peer[cfd[s]] = s
        BY <3>1 DEF ServerOK, CopyingOK
      <4> QED BY <1>1, <1>2, <4>1 DEF XfrConstants
    <3>6. WaitingOK(s)'
      <4>1. /\ \A r, j \in 1..Len(backlog[s]) : backlog[s][r] = backlog[s][j] => r = j
            /\ \A r \in 1..Len(backlog[s]) :
                 /\ backlog[s][r] # cfd[s] /\ peer[backlog[s][r]] = s /\ backlog[s][r] # c
                 /\ Copied(backlog[s][r]) = 0 /\ peer'[backlog[s][r]] = s
        BY <3>1, <3>2, <3>4 DEF ServerOK, WaitingOK
      <4>2. ASSUME NEW r \in 1..Len(backlog'[s]), NEW j \in 1..Len(backlog'[s]),
                   backlog'[s][r] = backlog'[s][j]
            PROVE  r = j
        <5>1. \A k \in 1..Len(backlog'[s]) :
                \/ /\ k \in 1..Len(backlog[s]) /\ backlog'[s][k] = backlog[s][k]
                   /\ backlog[s][k] # c
                \/ k = Len(backlog[s]) + 1 /\ backlog'[s][k] = c
          BY <3>2, <4>1
        <5> QED BY <4>1, <4>2, <5>1
      <4>3. \A r \in 1..Len(backlog'[s]) :
              /\ backlog'[s][r] \in Clients_xfr /\ backlog'[s][r] # cfd[s]
              /\ peer'[backlog'[s][r]] = s /\ Copied(backlog'[s][r]) = 0
        <5>1. ASSUME NEW r \in 1..Len(backlog[s])
              PROVE  /\ backlog'[s][r] \in Clients_xfr /\ backlog'[s][r] # cfd[s]
                     /\ peer'[backlog'[s][r]] = s /\ Copied(backlog'[s][r]) = 0
          BY <3>2, <4>1
        <5> QED BY <2>3, <3>2, <3>3, <3>5, <5>1
      <4>4. \A r \in 1..Len(backlog'[s]) : Copied(backlog[s][r])' = 0
        BY <1>1, <4>3 DEF Copied
      <4> QED BY <3>5, <4>2, <4>3, <4>4 DEF WaitingOK
    <3>7. cfd[s] # None => CopyingOK(s, cfd[s])'
      <4> SUFFICES ASSUME cfd[s] # None PROVE CopyingOK(s, cfd[s])'
        OBVIOUS
      <4>1. cfd[s] \in Clients_xfr /\ CopyingOK(s, cfd[s])
        BY <1>2, <3>1 DEF ServerOK, XfrTypes
      <4> QED BY <1>1, <2>4, <3>1, <3>4, <4>1 DEF CopyingOK
    <3> QED BY <1>1, <1>4, <2>1, <3>1, <3>5, <3>6, <3>7 DEF ServerOK
  <2> QED BY <2>3, <2>5, <2>6, <2>7, <2>8 DEF XfrInv
<1> QED BY <1>3, <1>4 DEF connect

\* A step of one server.
LEMMA XfrServerStep ==
  ASSUME XfrConstants, XfrInv, XfrTypes', NEW s \in Servers, UNCHANGED <<cst, peer, sent>>,
         \A t \in Servers \ {s} : /\ sst'[t] = sst[t] /\ backlog'[t] = backlog[t]
                                  /\ cfd'[t] = cfd[t] /\ out'[t] = out[t],
         \A x \in Clients_xfr : peer[x] # s => pipe'[x] = pipe[x],
         ServerOK(s)', \A t \in Servers : NameOK(t)', \A x \in Clients_xfr : ClientOK(x)'
  PROVE  XfrInv'
<1>1. XfrTypes /\ ClientsKept
  BY DEF XfrInv, ClientsKept, HasEnded
<1>2. ASSUME NEW t \in Servers \ {s} PROVE ServerOK(t)'
  <2>1. \A x \in Clients_xfr : peer[x] = t => Copied(x)' = Copied(x)
    BY DEF Copied
  <2>2. ServerOK(t)
    BY DEF XfrInv
  <2> QED BY <1>1, <2>1, <2>2, ServerKept
<1> QED BY <1>2 DEF XfrInv

\* A server comes to its name and begins to listen.
LEMMA XfrNameInv ==
  ASSUME XfrConstants, XfrInv, NEW s \in Servers,
         \/ kind = "remove" /\ RemoveName(s)
         \/ bind(s, "new") \/ bind(s, "removed") \/ listen(s)
  PROVE  XfrInv'
<1>1. PICK to \in {"removed", "bound", "failed", "listen"} :
        /\ sst[s] \in {"new", "removed", "bound"} /\ sst' = [sst EXCEPT ![s] = to]
        /\ UNCHANGED <<backlog, cfd, out, kind, cst, peer, sent, pipe>>
        /\ \/ kind = "remove" /\ name' = None
           \/ name = None /\ name' = s
           \/ name' = name /\ (to = "failed" \/ (to = "listen" /\ sst[s] = "bound"))
  <2>1. CASE kind = "remove" /\ RemoveName(s)
    BY <2>1 DEF RemoveName, Goes, client_xfr
  <2>2. CASE bind(s, "new") \/ bind(s, "removed")
    BY <2>2 DEF bind, Goes, client_xfr
  <2>3. CASE listen(s)
    BY <2>3 DEF listen, Goes, client_xfr
  <2> QED BY <2>1, <2>2, <2>3
<1>2. XfrTypes /\ ServerOK(s) /\ \A t \in Servers : NameOK(t)
  BY DEF XfrInv
<1>3. XfrTypes' /\ sst'[s] = to /\ \A t \in Servers \ {s} : sst'[t] = sst[t]
  BY <1>1, <1>2, SMTT(60) DEF XfrTypes
<1>4. out[s] = <<>> /\ backlog[s] = <<>> /\ cfd[s] = None
  BY <1>1, <1>2, SMTT(60) DEF ServerOK
<1>5. ServerOK(s)'
  <2>1. out'[s] = <<>> /\ backlog'[s] = <<>> /\ cfd'[s] = None /\ Len(<<>>) = 0
    BY <1>1, <1>4
  <2>2. WaitingOK(s)' /\ Follows(s)' /\ Finished(s)'
    BY <2>1 DEF WaitingOK, Follows, Finished
  <2> QED BY <2>1, <2>2, SMTT(60) DEF ServerOK
<1>6. \A t \in Servers : NameOK(t)'
  BY <1>1, <1>2, <1>3 DEF NameOK, XfrConstants
<1>7. \A x \in Clients_xfr : ClientOK(x)'
  BY <1>1 DEF XfrInv, ClientOK, Copied
<1> QED BY <1>1, <1>3, <1>5, <1>6, <1>7, XfrServerStep

\* A server accepts the next client.
LEMMA XfrAcceptInv ==
  ASSUME XfrConstants, XfrInv, NEW s \in Servers, accept_xfr(s)
  PROVE  XfrInv'
<1>1. /\ sst[s] = "listen" /\ cfd[s] = None /\ backlog[s] # <<>>
      /\ cfd' = [cfd EXCEPT ![s] = Head(backlog[s])] /\ backlog' = [backlog EXCEPT ![s] = Tail(backlog[s])]
      /\ UNCHANGED <<sst, name, out, kind, cst, peer, sent, pipe>>
  BY DEF accept_xfr, AcceptIf, client_xfr
<1>2. XfrTypes /\ ServerOK(s) /\ backlog[s] \in Seq(Clients_xfr)
  BY DEF XfrInv, XfrTypes
<1>3. PICK q : q = Tail(backlog[s])
  BY Zenon
<1>4. /\ Len(backlog[s]) \in Nat /\ 1 \in 1..Len(backlog[s]) /\ Head(backlog[s]) = backlog[s][1]
      /\ backlog[s][1] \in Clients_xfr /\ q \in Seq(Clients_xfr)
      /\ \A r \in 1..Len(q) : q[r] = backlog[s][r + 1] /\ r + 1 \in 1..Len(backlog[s]) /\ r + 1 # 1
      /\ \A r, j \in 1..Len(q) : r + 1 = j + 1 => r = j
  BY <1>1, <1>2, <1>3, Dequeued
<1>5. PICK c \in Clients_xfr : c = backlog[s][1]
  BY <1>4
<1>6. /\ XfrTypes' /\ cfd'[s] = c /\ backlog'[s] = q
      /\ \A t \in Servers \ {s} : cfd'[t] = cfd[t] /\ backlog'[t] = backlog[t]
  BY <1>1, <1>2, <1>3, <1>4, <1>5, SMTT(60) DEF XfrTypes
<1>7. /\ \A r, j \in 1..Len(backlog[s]) : backlog[s][r] = backlog[s][j] => r = j
      /\ \A r \in 1..Len(backlog[s]) : peer[backlog[s][r]] = s /\ Copied(backlog[s][r]) = 0
      /\ Finished(s) /\ Follows(s)
  <2>1. sst[s] = "listen" /\ cfd[s] = None
    BY <1>1
  <2>2. ServerOK(s)
    BY <1>2
  <2> QED BY <2>1, <2>2 DEF ServerOK, WaitingOK
<1>8. ServerOK(s)'
  <2>1. /\ \A r, j \in 1..Len(q) : q[r] = q[j] => r = j
        /\ \A r \in 1..Len(q) : q[r] # c /\ peer[q[r]] = s /\ Copied(q[r]) = 0
    <3>1. \A r, j \in 1..Len(q) : q[r] = q[j] => r = j
      BY <1>4, <1>7
    <3>2. \A r \in 1..Len(q) : q[r] # c
      BY <1>4, <1>5, <1>7
    <3>3. \A r \in 1..Len(q) : peer[q[r]] = s /\ Copied(q[r]) = 0
      BY <1>4, <1>7
    <3> QED BY <3>1, <3>2, <3>3
  <2>2. \A r \in 1..Len(backlog'[s]) :
          backlog'[s][r] # cfd'[s] /\ peer'[backlog'[s][r]] = s /\ Copied(backlog[s][r])' = 0
    BY <1>1, <1>6, <2>1, ZenonT(60) DEF Copied
  <2>3. WaitingOK(s)'
    BY <1>6, <2>1, <2>2 DEF WaitingOK
  <2>4. Finished(s)' /\ Follows(s)'
    BY <1>1, <1>7 DEF Finished, Follows, Complete, HasEnded
  <2>5. CopyingOK(s, cfd[s])'
    <3>1. peer[c] = s /\ Copied(c) = 0
      BY <1>4, <1>5, <1>7
    <3>2. Copied(cfd[s])' = 0
      BY <1>1, <1>6, <3>1 DEF Copied
    <3> QED BY <1>1, <1>6, <2>4, <3>1, <3>2 DEF CopyingOK
  <2> QED BY <1>1, <1>6, <2>3, <2>4, <2>5, SMTT(60) DEF ServerOK, XfrConstants
<1>9. \A t \in Servers : NameOK(t)'
  BY <1>1 DEF XfrInv, NameOK
<1>10. \A x \in Clients_xfr : ClientOK(x)'
  BY <1>1 DEF XfrInv, ClientOK, Copied
<1> QED BY <1>1, <1>6, <1>8, <1>9, <1>10, XfrServerStep

\* A server closes the connection of a client that has ended.
LEMMA XfrCloseInv ==
  ASSUME XfrConstants, XfrInv, NEW s \in Servers, close(s)
  PROVE  XfrInv'
<1>1. /\ sst[s] = "listen" /\ cfd[s] # None /\ pipe[cfd[s]] = <<>> /\ cst[cfd[s]] # "open"
      /\ cfd' = [cfd EXCEPT ![s] = None]
      /\ UNCHANGED <<sst, name, backlog, out, kind, cst, peer, sent, pipe>>
  BY DEF close, client_xfr
<1>2. XfrTypes /\ ServerOK(s)
  BY DEF XfrInv
<1>3. PICK c \in Clients_xfr : c = cfd[s] /\ CopyingOK(s, c)
  BY <1>1, <1>2 DEF XfrTypes, ServerOK
<1>4. XfrTypes' /\ cfd'[s] = None /\ \A t \in Servers \ {s} : cfd'[t] = cfd[t]
  BY <1>1, <1>2, SMTT(60) DEF XfrTypes
<1>5. HasEnded(c) /\ Copied(c) = sent[c] /\ sent[c] \in Nat
  <2>1. peer[c] # None /\ cst[c] # "new" /\ sent[c] \in Nat /\ Len(pipe[c]) = 0
    BY <1>1, <1>2, <1>3 DEF XfrInv, CopyingOK, ClientOK, XfrTypes, XfrConstants
  <2>2. cst[c] \in {"new", "open", "done", "failed"}
    BY <1>2 DEF XfrTypes
  <2> QED BY <1>1, <1>3, <2>1, <2>2 DEF HasEnded, Copied
<1>6. Finished(s)
  <2>1. CASE Copied(c) = 0
    BY <1>3, <2>1 DEF CopyingOK
  <2>2. CASE Copied(c) # 0
    <3>1. out[s][Len(out[s])] = <<c, sent[c]>>
      BY <1>3, <1>5, <2>2 DEF CopyingOK
    <3> QED BY <1>5, <3>1 DEF Finished, Complete
  <2> QED BY <2>1, <2>2
<1>7. ServerOK(s)'
  <2>1. Finished(s)' /\ Follows(s)'
    BY <1>1, <1>2, <1>6, SMTT(60) DEF ServerOK, Finished, Follows, Complete, HasEnded
  <2>2. WaitingOK(s)'
    <3>1. \A r \in 1..Len(backlog[s]) : backlog[s][r] # None
      BY <1>2 DEF XfrTypes, XfrConstants
    <3> QED BY <1>1, <1>2, <1>4, <3>1 DEF ServerOK, WaitingOK, Copied
  <2> QED BY <1>1, <1>4, <2>1, <2>2, SMTT(60) DEF ServerOK
<1>8. \A t \in Servers : NameOK(t)'
  BY <1>1 DEF XfrInv, NameOK
<1>9. \A x \in Clients_xfr : ClientOK(x)'
  BY <1>1 DEF XfrInv, ClientOK, Copied
<1> QED BY <1>1, <1>4, <1>7, <1>8, <1>9, XfrServerStep

\* A step of a server that takes nothing from a pipe leaves the clients alone.
LEMMA ClientsAlone ==
  ASSUME XfrInv, cst' = cst, peer' = peer, sent' = sent, pipe' = pipe
  PROVE  \A x \in Clients_xfr : ClientOK(x)'
<1>1. \A x \in Clients_xfr : ClientOK(x)
  BY Zenon DEF XfrInv
<1> QED BY <1>1, Zenon DEF ClientOK, Copied

\* A server is killed, with its queue.
LEMMA XfrKillInv ==
  ASSUME XfrConstants, XfrInv, NEW s \in Servers, Kill_xfr(s)
  PROVE  XfrInv'
<1>1. /\ sst[s] = "listen" /\ sst' = [sst EXCEPT ![s] = "dead"]
      /\ name' = (IF kind = "abstract" THEN None ELSE name)
      /\ cfd' = [cfd EXCEPT ![s] = None] /\ backlog' = [backlog EXCEPT ![s] = <<>>]
      /\ UNCHANGED <<kind, out, cst, peer, sent, pipe>>
  BY DEF Kill_xfr, Goes
<1>2. XfrTypes /\ ServerOK(s) /\ (\A t \in Servers : NameOK(t)) /\ <<>> \in Seq(Clients_xfr)
  BY DEF XfrInv
<1>3. /\ XfrTypes' /\ sst'[s] = "dead" /\ cfd'[s] = None /\ backlog'[s] = <<>>
      /\ \A t \in Servers \ {s} : sst'[t] = sst[t] /\ cfd'[t] = cfd[t] /\ backlog'[t] = backlog[t]
  BY <1>1, <1>2, Zenon DEF XfrTypes
<1>4. ServerOK(s)'
  <2>1. Follows(s)'
    BY <1>1, <1>2, Zenon DEF ServerOK, Follows, Complete, HasEnded
  <2>2. WaitingOK(s)'
    <3>1. Len(backlog'[s]) = 0
      BY <1>3
    <3> QED BY <3>1 DEF WaitingOK
  <2>3. sst'[s] = "dead" /\ cfd'[s] = None /\ backlog'[s] = <<>>
    BY <1>3
  <2> QED BY <2>1, <2>2, <2>3 DEF ServerOK
<1>5. \A t \in Servers : NameOK(t)'
  <2>1. kind' = kind /\ (kind # "abstract" => name' = name) /\ sst[s] = "listen"
    BY <1>1
  <2>2. sst'[s] = "dead" /\ \A t \in Servers \ {s} : sst'[t] = sst[t]
    BY <1>3
  <2>3. \A t \in Servers : NameOK(t)
    BY <1>2
  <2> QED BY <2>1, <2>2, <2>3 DEF NameOK
<1>6. \A x \in Clients_xfr : ClientOK(x)'
  <2>1. cst' = cst /\ peer' = peer /\ sent' = sent /\ pipe' = pipe
    BY <1>1, Zenon
  <2> QED BY <2>1, ClientsAlone
<1> QED BY <1>1, <1>3, <1>4, <1>5, <1>6, XfrServerStep

\* A server copies a chunk to its output.
LEMMA XfrCopyInv ==
  ASSUME XfrConstants, XfrInv, NEW s \in Servers, Copy(s)
  PROVE  XfrInv'
<1>1. /\ sst[s] = "listen" /\ cfd[s] # None /\ pipe[cfd[s]] # <<>>
      /\ out' = [out EXCEPT ![s] = Append(out[s], Head(pipe[cfd[s]]))]
      /\ pipe' = [pipe EXCEPT ![cfd[s]] = Tail(pipe[cfd[s]])]
      /\ UNCHANGED <<kind, sst, name, backlog, cfd, cst, peer, sent>>
  BY DEF Copy
<1>2. XfrTypes /\ ServerOK(s)
  BY DEF XfrInv
<1>3. PICK c \in Clients_xfr : c = cfd[s] /\ CopyingOK(s, c)
  BY <1>1, <1>2 DEF XfrTypes, ServerOK
<1>4. PICK q, o : q = pipe[c] /\ o = out[s]
  BY SMTT(30)
<1>5. /\ q \in Seq(Clients_xfr \X Nat) /\ q # <<>> /\ o \in Seq(Clients_xfr \X Nat)
      /\ sent[c] \in Nat /\ Len(o) \in Nat /\ Len(q) <= sent[c] /\ peer[c] = s
      /\ \A r \in 1..Len(q) : q[r] = <<c, Copied(c) + r>>
  <2>1. /\ q \in Seq(Clients_xfr \X Nat) /\ q # <<>> /\ o \in Seq(Clients_xfr \X Nat)
        /\ sent[c] \in Nat
    BY <1>1, <1>2, <1>3, <1>4, SMTT(60) DEF XfrTypes
  <2>2. Len(o) \in Nat
    BY <2>1
  <2>3. Len(q) <= sent[c] /\ \A r \in 1..Len(q) : q[r] = <<c, Copied(c) + r>>
    BY <1>4 DEF XfrInv, ClientOK
  <2>4. peer[c] = s
    BY <1>3 DEF CopyingOK
  <2> QED BY <2>1, <2>2, <2>3, <2>4
<1>6. /\ Len(q) \in Nat /\ 1 \in 1..Len(q) /\ Head(q) = q[1] /\ Head(q) \in Clients_xfr \X Nat
      /\ Tail(q) \in Seq(Clients_xfr \X Nat) /\ Len(Tail(q)) = Len(q) - 1
      /\ \A r \in 1..Len(Tail(q)) : Tail(q)[r] = q[r + 1] /\ r + 1 \in 1..Len(q)
  BY <1>5, Dequeued
<1>7. PICK n \in Nat : n = Copied(c)
  BY <1>4, <1>5, <1>6 DEF Copied
<1>8. PICK m \in Clients_xfr \X Nat : m = Head(q) /\ m = <<c, n + 1>>
  BY <1>5, <1>6, <1>7
<1>9. /\ Append(o, m) \in Seq(Clients_xfr \X Nat) /\ Len(Append(o, m)) = Len(o) + 1
      /\ Append(o, m)[Len(o) + 1] = m /\ \A r \in 1..Len(o) : Append(o, m)[r] = o[r]
  BY <1>5
<1>10. PICK u \in Seq(Clients_xfr \X Nat), w \in Seq(Clients_xfr \X Nat) :
         /\ u = Append(o, m) /\ out' = [out EXCEPT ![s] = u]
         /\ w = Tail(q) /\ pipe' = [pipe EXCEPT ![c] = w]
  BY <1>1, <1>3, <1>4, <1>6, <1>8, <1>9, Zenon
<1>11. /\ XfrTypes' /\ out'[s] = Append(o, m) /\ pipe'[c] = Tail(q)
       /\ \A t \in Servers \ {s} : out'[t] = out[t]
       /\ \A x \in Clients_xfr \ {c} : pipe'[x] = pipe[x]
  <2>1. /\ out \in [Servers -> Seq(Clients_xfr \X Nat)] /\ out'[s] = u
        /\ out' \in [Servers -> Seq(Clients_xfr \X Nat)] /\ \A t \in Servers \ {s} : out'[t] = out[t]
    BY <1>2, <1>10, Zenon DEF XfrTypes
  <2>2. /\ pipe \in [Clients_xfr -> Seq(Clients_xfr \X Nat)] /\ pipe'[c] = w
        /\ pipe' \in [Clients_xfr -> Seq(Clients_xfr \X Nat)]
        /\ \A x \in Clients_xfr \ {c} : pipe'[x] = pipe[x]
    <3>1. pipe \in [Clients_xfr -> Seq(Clients_xfr \X Nat)] /\ pipe' = [pipe EXCEPT ![c] = w]
      BY <1>2, <1>10, Zenon DEF XfrTypes
    <3> QED BY <3>1, Zenon
  <2>3. XfrTypes'
    BY <1>1, <1>2, <2>1, <2>2, Zenon DEF XfrTypes
  <2> QED BY <1>10, <2>1, <2>2, <2>3
<1>12. Copied(c)' = n + 1
  <2>1. Copied(c)' = sent[c] - Len(Tail(q)) /\ n = sent[c] - Len(q)
    BY <1>1, <1>4, <1>7, <1>11, Zenon DEF Copied
  <2> QED BY <1>5, <1>6, <2>1
<1>13. \A x \in Clients_xfr : ClientOK(x)'
  <2>1. ASSUME NEW x \in Clients_xfr \ {c} PROVE ClientOK(x)'
    <3>1. /\ ClientOK(x) /\ pipe'[x] = pipe[x] /\ cst'[x] = cst[x] /\ sent'[x] = sent[x]
          /\ peer'[x] = peer[x]
      BY <1>1, <1>11 DEF XfrInv
    <3>2. Copied(x)' = Copied(x)
      BY <3>1 DEF Copied
    <3> QED BY <3>1, <3>2 DEF ClientOK
  <2>2. \A r \in 1..Len(Tail(q)) : Tail(q)[r] = <<c, (n + 1) + r>>
    <3>1. \A r \in 1..Len(Tail(q)) : Tail(q)[r] = <<c, n + (r + 1)>>
      BY <1>5, <1>6, <1>7, SMTT(60)
    <3>2. \A r \in 1..Len(Tail(q)) : n + (r + 1) = (n + 1) + r
      BY <1>6
    <3> QED BY <3>1, <3>2, Zenon
  <2>3. Len(Tail(q)) <= sent[c]
    BY <1>5, <1>6
  <2>4. ClientOK(c)'
    BY <1>1, <1>11, <1>12, <2>2, <2>3, Zenon DEF XfrInv, ClientOK
  <2> QED BY <2>1, <2>4
<1>14. WaitingOK(s)'
  <2>0. backlog[s] \in Seq(Clients_xfr)
    BY <1>2, SMTT(60) DEF XfrTypes
  <2>1. WaitingOK(s)
    BY <1>2, Zenon DEF ServerOK
  <2>2. ASSUME NEW r \in 1..Len(backlog[s])
        PROVE  /\ backlog[s][r] \in Clients_xfr \ {c} /\ peer[backlog[s][r]] = s
               /\ Copied(backlog[s][r]) = 0
    <3>1. backlog[s][r] \in Clients_xfr
      BY <2>0, ElementIn, Zenon
    <3>2. backlog[s][r] # cfd[s] /\ peer[backlog[s][r]] = s /\ Copied(backlog[s][r]) = 0
      BY <2>1, Zenon DEF WaitingOK
    <3> QED BY <1>3, <3>1, <3>2
  <2>3. \A r \in 1..Len(backlog[s]) : Copied(backlog[s][r])' = 0
    <3>1. \A x \in Clients_xfr \ {c} : pipe'[x] = pipe[x]
      BY <1>11
    <3> SUFFICES ASSUME NEW r \in 1..Len(backlog[s]) PROVE Copied(backlog[s][r])' = 0
      BY Zenon
    <3>2. PICK x \in Clients_xfr \ {c} : x = backlog[s][r]
      BY <2>2, Zenon
    <3>3. pipe'[x] = pipe[x]
      BY <3>1, <3>2, Zenon
    <3> QED BY <1>1, <2>2, <3>2, <3>3, ZenonT(60) DEF Copied
  <2>4. \A r \in 1..Len(backlog[s]) : backlog[s][r] # cfd[s] /\ peer[backlog[s][r]] = s
    BY <1>3, <2>2, Zenon
  <2> QED BY <1>1, <2>1, <2>3, <2>4, ZenonT(30) DEF WaitingOK
<1>15. Follows(s)'
  <2>1. \A r \in 1..(Len(o) + 1) : /\ r \in 1..Len(o) \/ r = Len(o) + 1
                                   /\ r > 1 => r - 1 \in 1..Len(o)
    BY <1>5
  <2>2. ASSUME NEW r \in 1..Len(o)
        PROVE  IF out'[s][r][2] > 1 THEN r > 1 /\ out'[s][r - 1] = <<out'[s][r][1], out'[s][r][2] - 1>>
               ELSE r > 1 => Complete(out[s][r - 1])'
    <3>1. /\ r \in 1..(Len(o) + 1) /\ (r > 1 => r - 1 \in 1..Len(o))
          /\ out'[s][r] = o[r] /\ (r > 1 => out'[s][r - 1] = o[r - 1])
      BY <1>5, <1>9, <1>11, <2>1, SMTT(60)
    <3>2. IF o[r][2] > 1 THEN r > 1 /\ o[r - 1] = <<o[r][1], o[r][2] - 1>>
          ELSE r > 1 => Complete(o[r - 1])
      BY <1>2, <1>4, SMTT(60) DEF ServerOK, Follows
    <3> QED BY <1>1, <3>1, <3>2, Zenon DEF Complete, HasEnded
  <2>3. ASSUME NEW r, r = Len(o) + 1
        PROVE  IF out'[s][r][2] > 1 THEN r > 1 /\ out'[s][r - 1] = <<out'[s][r][1], out'[s][r][2] - 1>>
               ELSE r > 1 => Complete(out[s][r - 1])'
    <3>1. /\ out'[s][r] = m /\ m[1] = c /\ m[2] = n + 1 /\ r - 1 = Len(o) /\ r \in Nat
          /\ (n + 1) - 1 = n /\ (n + 1 > 1 <=> n # 0)
      <4>1. out'[s][r] = m /\ m[1] = c /\ m[2] = n + 1
        BY <1>8, <1>9, <1>11, <2>3
      <4>2. /\ r - 1 = Len(o) /\ r \in Nat
            /\ (n + 1) - 1 = n /\ (n + 1 > 1 <=> n # 0)
        BY <1>5, <2>3, SMTT(60)
      <4> QED BY <4>1, <4>2, SMTT(60)
    <3>2. CASE n = 0
      <4>1. Finished(s)
        BY <1>3, <1>7, <3>2, SMTT(60) DEF CopyingOK
      <4>2. ASSUME r > 1 PROVE Complete(out[s][r - 1])'
        <5>1. o # <<>> /\ Len(o) \in 1..Len(o)
          BY <1>5, <2>3, <4>2
        <5>2. Complete(o[Len(o)])
          BY <1>4, <4>1, <5>1 DEF Finished
        <5>3. out'[s][r - 1] = o[Len(o)]
          BY <1>9, <1>11, <3>1, <5>1
        <5> QED BY <1>1, <5>2, <5>3, ZenonT(60) DEF Complete, HasEnded
      <4> QED BY <3>1, <3>2, <4>2
    <3>3. CASE n # 0
      <4>1. o # <<>> /\ o[Len(o)] = <<c, n>>
        BY <1>3, <1>4, <1>7, <3>3 DEF CopyingOK
      <4>2. Len(o) \in 1..Len(o) /\ r > 1
        BY <1>5, <2>3, <4>1, SMTT(60)
      <4>3. out'[s][r - 1] = <<c, n>>
        BY <1>9, <1>11, <3>1, <4>1, <4>2, SMTT(60)
      <4> QED BY <3>1, <3>3, <4>2, <4>3, SMTT(60)
    <3> QED BY <3>2, <3>3
  <2>4. Len(out'[s]) = Len(o) + 1
    BY <1>9, <1>11, SMTT(60)
  <2> QED BY <2>1, <2>2, <2>3, <2>4, Zenon DEF Follows
<1>16. CopyingOK(s, cfd[s])'
  <2>1. out'[s] # <<>> /\ out'[s][Len(out'[s])] = <<c, n + 1>>
    <3>1. Len(o) + 1 # 0 /\ Len(<<>>) = 0
      BY <1>5
    <3> QED BY <1>8, <1>9, <1>11, <3>1, SMTT(60)
  <2>2. n + 1 # 0 /\ Copied(cfd[s])' = n + 1 /\ peer'[cfd'[s]] = s /\ cfd'[s] = c
    BY <1>1, <1>3, <1>5, <1>12, SMTT(60) DEF Copied
  <2> QED BY <2>1, <2>2, SMTT(60) DEF CopyingOK
<1>17. ServerOK(s)'
  BY <1>1, <1>3, <1>14, <1>15, <1>16, ZenonT(60) DEF ServerOK
<1>18. \A t \in Servers : NameOK(t)'
  BY <1>1 DEF XfrInv, NameOK
<1> QED BY <1>1, <1>5, <1>11, <1>13, <1>17, <1>18, XfrServerStep, ZenonT(60)

\* us_xfr_sv and its variants: the output of a server is the data of its
\* clients one after the other, each complete before the next begins, for any
\* servers, clients and sizes, and without remove() one live server at most
\* has the name, whichever servers are killed.
THEOREM TransfersInTurn == XfrConstants => (Spec_xfr => []OneAfterTheOther)
<1> SUFFICES ASSUME XfrConstants PROVE Spec_xfr => []OneAfterTheOther
  OBVIOUS
<1>1. Init_xfr => XfrInv
  <2> SUFFICES ASSUME Init_xfr PROVE XfrInv
    OBVIOUS
  <2>1. <<>> \in Seq(Clients_xfr) /\ <<>> \in Seq(Clients_xfr \X Nat) /\ Len(<<>>) = 0
    OBVIOUS
  <2>2. XfrTypes
    BY <2>1 DEF Init_xfr, XfrTypes
  <2>3. ASSUME NEW s \in Servers PROVE ServerOK(s) /\ NameOK(s)
    <3>1. /\ sst[s] = "new" /\ backlog[s] = <<>> /\ cfd[s] = None /\ out[s] = <<>>
      BY DEF Init_xfr
    <3> QED BY <2>1, <3>1 DEF ServerOK, NameOK, WaitingOK, Follows
  <2>4. \A c \in Clients_xfr : ClientOK(c)
    BY <2>1 DEF Init_xfr, ClientOK
  <2> QED BY <2>2, <2>3, <2>4 DEF XfrInv
<1>2. XfrInv /\ [Next_xfr]_vars_xfr => XfrInv'
  <2> SUFFICES ASSUME XfrInv, [Next_xfr]_vars_xfr PROVE XfrInv'
    OBVIOUS
  <2>1. CASE UNCHANGED vars_xfr
    <3>1. UNCHANGED <<kind, sst, name, backlog, cfd, out, cst, peer, sent, pipe>>
      BY <2>1 DEF vars_xfr
    <3>2. XfrTypes' /\ ClientsKept
      BY <3>1, SMTT(60) DEF XfrInv, XfrTypes, ClientsKept, HasEnded
    <3>3. \A x \in Clients_xfr : ClientOK(x)' /\ Copied(x)' = Copied(x)
      BY <3>1, Zenon DEF XfrInv, ClientOK, Copied
    <3> QED BY <3>1, <3>2, <3>3, XfrClientStep
  <2>2. ASSUME NEW s \in Servers, Server_xfr(s) PROVE XfrInv'
    BY <2>2, XfrNameInv, XfrAcceptInv, XfrCopyInv, XfrCloseInv
       DEF Server_xfr, us_xfr_sv, us_xfr_v2_sv, us_xfr_sv_57_2, unixListen, Serve
  <2>3. ASSUME NEW s \in Servers, Kill_xfr(s) PROVE XfrInv'
    BY <2>3, XfrKillInv
  <2>4. ASSUME NEW c \in Clients_xfr, Client_xfr(c) PROVE XfrInv'
    BY <2>4, XfrConnectInv, XfrWriteInv, XfrExitInv
       DEF Client_xfr, us_xfr_cl, us_xfr_v2_cl, us_xfr_cl_57_2
  <2> QED BY <2>1, <2>2, <2>3, <2>4 DEF Next_xfr
<1>3. XfrInv => OneAfterTheOther
  <2> SUFFICES ASSUME XfrInv PROVE OneAfterTheOther
    OBVIOUS
  <2>1. ASSUME NEW s \in Servers, NEW r \in DOMAIN out[s]
        PROVE  IF out[s][r][2] > 1 THEN r > 1 /\ out[s][r - 1] = <<out[s][r][1], out[s][r][2] - 1>>
               ELSE r > 1 => /\ cst[out[s][r - 1][1]] \in {"done", "failed"}
                             /\ out[s][r - 1][2] = sent[out[s][r - 1][1]]
    <3>1. Follows(s) /\ out[s] \in Seq(Clients_xfr \X Nat)
      BY Zenon DEF XfrInv, XfrTypes, ServerOK
    <3>2. r \in 1..Len(out[s])
      BY <3>1
    <3> QED BY <3>1, <3>2 DEF Follows, Complete, HasEnded
  <2>2. \A s, t \in Servers : s # t /\ kind # "remove" => ~({sst[s], sst[t]} \subseteq {"bound", "listen"})
    BY DEF XfrInv, NameOK
  <2> QED BY <2>1, <2>2 DEF OneAfterTheOther
<1> QED BY <1>1, <1>2, <1>3, PTL DEF Spec_xfr

-----------------------------------------------------------------------------
(* 30-01: what the unlocked counter can show                               *)

\* A thread that has stored once leaves glob_incvar at 1 or more and reads at
\* least that, so its last store writes 2 or more, and the last store of all
\* is the last one of some thread.
IInv_30_01 ==
  /\ glob_incvar \in Int /\ i \in [Ids -> Int] /\ tmp \in [Ids -> Int] /\ shown \in Int
  /\ tpc \in [Ids -> {"none", "read", "store", "end"}]
  /\ glob_incvar >= 0 /\ glob_incvar <= i[1] + i[2]
  /\ \A t \in Ids :
       /\ 0 <= i[t] /\ i[t] <= Loops
       /\ i[t] > 0 => glob_incvar > 0
       /\ 0 <= tmp[t] /\ tmp[t] <= i[1] + i[2]
       /\ tpc[t] = "store" => i[t] < Loops /\ (i[t] > 0 => tmp[t] > 0)
       /\ tpc[t] = "end" => i[t] = Loops
  /\ Loops >= 2 /\ i[1] = Loops /\ i[2] = Loops => glob_incvar >= 2
  /\ shown >= -1
  /\ shown # -1 => i[1] = Loops /\ i[2] = Loops /\ shown = glob_incvar

\* Nothing has been counted or shown at the start.
LEMMA InitInv_30_01 == Loops \in Nat /\ Init_30_01 => IInv_30_01
BY SMTT(60) DEF Init_30_01, IInv_30_01, Ids

\* Every step of either thread or of main() keeps the invariant.
LEMMA NextInv_30_01 == Loops \in Nat /\ IInv_30_01 /\ [Next_30_01]_vars_30_01 => IInv_30_01'
<1> SUFFICES ASSUME Loops \in Nat, IInv_30_01, [Next_30_01]_vars_30_01 PROVE IInv_30_01'
  OBVIOUS
<1> USE DEF IInv_30_01, Ids
<1>1. ASSUME NEW t \in Ids, Create_30_01(t) PROVE IInv_30_01'
  BY <1>1 DEF Create_30_01
<1>2. ASSUME NEW t \in Ids, Read(t) PROVE IInv_30_01'
  BY <1>2 DEF Read
<1>3. ASSUME NEW t \in Ids, Store(t) PROVE IInv_30_01'
  BY <1>3 DEF Store, StoreBy
<1>4. CASE Show_30_01
  BY <1>4 DEF Show_30_01
<1>5. CASE UNCHANGED vars_30_01
  BY <1>5 DEF vars_30_01
<1>6. QED
  BY <1>1, <1>2, <1>3, <1>4, <1>5 DEF Next_30_01

\* Whatever the interleaving, what main() shows is at least 2, if each thread
\* counts twice or more, and at most twice the number of iterations.
THEOREM LostUpdatesBounded == Loops \in Nat => (Spec_30_01 => []ResultBounds)
<1>1. IInv_30_01 /\ Loops \in Nat => ResultBounds
  BY DEF IInv_30_01, ResultBounds, Ids
<1>2. SUFFICES ASSUME Loops \in Nat PROVE Spec_30_01 => []ResultBounds
  OBVIOUS
<1>3. QED
  BY <1>1, <1>2, InitInv_30_01, NextInv_30_01, PTL DEF Spec_30_01

-----------------------------------------------------------------------------
(* 33-01: the signals that each thread shows as pending                    *)

\* The signal that thread t blocks
Own(t) == <<t, "block">>

\* main() sends the blocked signal of thread t as number 2t - 1 and the one
\* it waits for as number 2t.  From the first on the signal is either pending
\* or handled, unless it has killed the process; a thread is behind sigwait()
\* only after the second.
IInv_33_01 ==
  /\ thread \in [Ids -> Steps] /\ signals \in 0..4
  /\ process \in {"running", "exited", "killed"}
  /\ DOMAIN pending = Ids /\ DOMAIN shownSet = Ids
  /\ \A t \in Ids :
       /\ pending[t] \subseteq {Own(t)}
       /\ signals < 2*t - 1 => pending[t] = {} /\ Own(t) \notin handled
       /\ process # "killed" /\ signals >= 2*t - 1 => pending[t] = {Own(t)} \ handled
       /\ thread[t] \in {"show", "end"} => signals >= 2*t /\ pending[t] = {Own(t)} \ handled
       /\ shownSet[t] # Unseen => thread[t] = "end" /\ shownSet[t] = pending[t]

\* Nothing has been sent at the start.
LEMMA InitInv_33_01 == Init_33_01 => IInv_33_01
BY SMTT(60) DEF Init_33_01, IInv_33_01, Ids, Steps, Own

\* What pthread_kill() does with the next signal.
LEMMA SendInv_33_01 == IInv_33_01 /\ Send_33_01 => IInv_33_01'
<1> SUFFICES ASSUME IInv_33_01, Send_33_01 PROVE IInv_33_01'
  BY SMTT(60)
<1>1. signals \in 0..3 /\ signals' = signals + 1 /\ process = "running" /\ shownSet' = shownSet
  <2>1. signals < 4 /\ signals' = signals + 1 /\ process = "running" /\ shownSet' = shownSet
    BY Zenon DEF Send_33_01, SendFrom, Ids
  <2>2. signals \in 0..4
    BY DEF IInv_33_01
  <2> QED BY <2>1, <2>2
<1> USE DEF IInv_33_01, Ids
<1> DEFINE s == Order[signals + 1]
<1>2. PICK t \in Ids : \/ signals = 2*t - 2 /\ s = Own(t)
                       \/ signals = 2*t - 1 /\ s = <<t, "wait">>
  <2>1. CASE signals = 0  BY <2>1 DEF Order, Own
  <2>2. CASE signals = 1  BY <2>2 DEF Order, Own
  <2>3. CASE signals = 2  BY <2>3 DEF Order, Own
  <2>4. CASE signals = 3  BY <2>4 DEF Order, Own
  <2> QED BY <1>1, <2>1, <2>2, <2>3, <2>4
<1>3. s[1] = t /\ s[2] \in {"block", "wait"} /\ (s[2] = "block" <=> s = Own(t))
  BY <1>2 DEF Own
<1> HIDE DEF s
<1>4. \/ /\ Blocked(t, s[2])
         /\ pending' = [pending EXCEPT ![t] = @ \cup {s}]
         /\ UNCHANGED <<thread, handled, process>>
      \/ /\ s[2] = "wait" /\ thread[t] = "sigwait"
         /\ thread' = [thread EXCEPT ![t] = "show"]
         /\ UNCHANGED <<pending, handled, process>>
      \/ /\ ~Blocked(t, s[2]) /\ ~(s[2] = "wait" /\ thread[t] = "sigwait")
         /\ \/ handled' = handled \cup {s} /\ process' = process
            \/ handled' = handled /\ process' = "killed"
         /\ UNCHANGED <<thread, pending>>
  BY <1>1, <1>3 DEF Send_33_01, SendFrom, s, At, Go
<1>5. \A u \in Ids : u # t => Own(u) # s
  BY <1>2, SMTT(60) DEF Own
<1>6. CASE s = Own(t)
  <2>1. signals = 2*t - 2 /\ pending[t] = {} /\ Own(t) \notin handled /\ s[2] = "block"
    BY <1>2, <1>3, <1>6 DEF Own
  <2>2. thread[t] \notin {"show", "end"} /\ thread' = thread
    BY <1>4, <2>1, SMTT(60)
  <2>3. \/ pending' = [pending EXCEPT ![t] = {Own(t)}] /\ handled' = handled /\ process' = process
        \/ pending' = pending /\ handled' = handled \cup {Own(t)} /\ process' = process
        \/ pending' = pending /\ handled' = handled /\ process' = "killed"
    BY <1>4, <1>6, <2>1, SMTT(60)
  <2>4. ASSUME NEW u \in Ids
        PROVE /\ pending'[u] \subseteq {Own(u)}
              /\ signals' < 2*u - 1 => pending'[u] = {} /\ Own(u) \notin handled'
              /\ process' # "killed" /\ signals' >= 2*u - 1 => pending'[u] = {Own(u)} \ handled'
              /\ thread'[u] \in {"show", "end"} => signals' >= 2*u /\ pending'[u] = {Own(u)} \ handled'
              /\ shownSet'[u] # Unseen => thread'[u] = "end" /\ shownSet'[u] = pending'[u]
    <3>1. CASE u = t
      BY <1>1, <2>1, <2>2, <2>3, <3>1, SMTT(60)
    <3>2. CASE u # t
      BY <1>1, <1>5, <1>6, <2>1, <2>2, <2>3, <3>2, SMTT(60)
    <3> QED BY <3>1, <3>2, SMTT(60)
  <2> QED BY <1>1, <2>2, <2>3, <2>4
<1>7. CASE s # Own(t)
  <2>1. signals = 2*t - 1 /\ s = <<t, "wait">> /\ s[2] = "wait" /\ \A u \in Ids : Own(u) # s
    BY <1>2, <1>5, <1>7, SMTT(60)
  <2>2. pending' = pending /\ \A u \in Ids : Own(u) \in handled' <=> Own(u) \in handled
    BY <1>4, <2>1, SMTT(60) DEF Blocked
  <2>3. \/ thread' = thread /\ process' \in {process, "killed"}
        \/ thread' = [thread EXCEPT ![t] = "show"] /\ thread[t] = "sigwait" /\ process' = process
    BY <1>4, SMTT(60)
  <2>4. \A u \in Ids : {Own(u)} \ handled' = {Own(u)} \ handled
    BY <2>2
  <2>5. thread' \in [Ids -> Steps]
    BY <2>3, SMTT(60) DEF Steps
  <2>6. ASSUME NEW u \in Ids
        PROVE /\ pending'[u] \subseteq {Own(u)}
              /\ signals' < 2*u - 1 => pending'[u] = {} /\ Own(u) \notin handled'
              /\ process' # "killed" /\ signals' >= 2*u - 1 => pending'[u] = {Own(u)} \ handled'
              /\ thread'[u] \in {"show", "end"} => signals' >= 2*u /\ pending'[u] = {Own(u)} \ handled'
              /\ shownSet'[u] # Unseen => thread'[u] = "end" /\ shownSet'[u] = pending'[u]
    BY <1>1, <2>1, <2>2, <2>3, <2>4
  <2> QED BY <1>1, <2>2, <2>3, <2>5, <2>6
<1> QED BY <1>6, <1>7

\* Every step of main() or of a thread keeps the invariant.
LEMMA NextInv_33_01 == IInv_33_01 /\ [Next_33_01]_vars_33_01 => IInv_33_01'
<1> SUFFICES ASSUME IInv_33_01, [Next_33_01]_vars_33_01 PROVE IInv_33_01'
  OBVIOUS
<1>1. CASE Send_33_01
  BY <1>1, SendInv_33_01, SMTT(60)
<1>2. CASE Exit_33_01
  BY <1>2, ZenonT(60) DEF Exit_33_01, IInv_33_01
<1>3. ASSUME NEW t \in Ids, Create_33_01(t) \/ Action(t) \/ Mask(t) PROVE IInv_33_01'
  BY <1>3, ZenonT(60) DEF Create_33_01, Action, Mask, At, Go, Steps, IInv_33_01
<1>4. ASSUME NEW t \in Ids, Show_33_01(t) PROVE IInv_33_01'
  BY <1>4, SMTT(60) DEF Show_33_01, At, Go, Steps, IInv_33_01
<1>5. CASE UNCHANGED vars_33_01
  BY <1>5 DEF vars_33_01, IInv_33_01
<1> QED BY <1>1, <1>2, <1>3, <1>4, <1>5 DEF Next_33_01

-----------------------------------------------------------------------------
(* 53-01: the lines that thread 1 displays                                 *)

\* One token goes round: it is the count of sem_w, the writer between
\* sem_wait(sem_w) and sem_post(sem_r), the count of sem_r, or the reader
\* between its calls.  The last line read is still to be displayed from
\* getline() to printf().
Token ==
  \/ sem_w = 1 /\ sem_r = 0 /\ writer = "wait" /\ reader = "wait" /\ displayed = taken
  \/ sem_w = 0 /\ sem_r = 0 /\ writer = "getline" /\ reader = "wait" /\ displayed = taken
  \/ sem_w = 0 /\ sem_r = 0 /\ writer = "post" /\ reader = "wait" /\ displayed = taken - 1
  \/ sem_w = 0 /\ sem_r = 1 /\ writer = "wait" /\ reader = "wait" /\ displayed = taken - 1
  \/ sem_w = 0 /\ sem_r = 0 /\ writer = "wait" /\ reader = "display" /\ displayed = taken - 1
  \/ sem_w = 0 /\ sem_r = 0 /\ writer = "wait" /\ reader = "post" /\ displayed = taken

IInv_53_01 ==
  /\ writer \in {"open_r", "open_w", "create", "wait", "getline", "post", "ended"}
  /\ sem_w \in Nat /\ sem_r \in Nat
  /\ taken \in Nat /\ taken <= MaxRead /\ displayed \in Nat /\ (displayed = taken \/ displayed = taken - 1)
  /\ writer \in {"open_r", "open_w", "create"} =>
       reader = "none" /\ sem_w = 1 /\ sem_r = 0 /\ taken = 0 /\ displayed = 0 /\ buffer = 0
  /\ writer \in {"wait", "getline", "post"} => Token /\ buffer = taken
  /\ writer = "ended" => reader = "none" /\ (how = "eof" => displayed = MaxRead)

\* No process is there at the start.
LEMMA InitInv_53_01 == MaxRead \in Nat /\ Init_53_01 => IInv_53_01
BY SMTT(60) DEF Init_53_01, IInv_53_01

\* Every step of the two threads, and a signal at any moment, keeps the
\* invariant.
LEMMA NextInv_53_01 == MaxRead \in Nat /\ IInv_53_01 /\ [Next_53_01]_vars_53_01 => IInv_53_01'
<1> SUFFICES ASSUME MaxRead \in Nat, IInv_53_01, [Next_53_01]_vars_53_01 PROVE IInv_53_01'
  OBVIOUS
<1> USE DEF IInv_53_01, Token
<1>1. CASE Start
  <2>1. /\ writer' = "open_r" /\ reader' = "none" /\ sem_w' = 1 /\ sem_r' = 0
        /\ taken' = 0 /\ displayed' = 0 /\ buffer' = 0
    BY <1>1 DEF Start
  <2> QED BY <2>1
<1>2. CASE Terminate
  <2>1. /\ writer' = "ended" /\ reader' = "none" /\ how' # "eof"
        /\ taken' = taken /\ displayed' = displayed
        /\ sem_w' = sem_w /\ sem_r' = sem_r
    BY <1>2 DEF Terminate, Leave
  <2>2. ~(writer' \in {"open_r", "open_w", "create"}) /\ ~(writer' \in {"wait", "getline", "post"})
    BY <2>1, SMTT(60)
  <2> QED BY <2>1, <2>2
<1>3. CASE Open
  BY <1>3, SMTT(60) DEF Open, OpenName, Leave
<1>4. CASE Create_53_01
  <2>1. \/ writer' = "ended" /\ how' = "crash" /\ reader' = "none"
        \/ writer' = "wait" /\ reader' = "wait"
    BY <1>4, SMTT(60) DEF Create_53_01, Leave
  <2>2. UNCHANGED <<sem_w, sem_r, buffer, taken, displayed>> /\ writer = "create"
    BY <1>4, SMTT(60) DEF Create_53_01, Leave
  <2> QED BY <2>1, <2>2
<1>5. CASE WriterWait_53_01
  <2>1. sem_w = 1 /\ sem_r = 0 /\ writer = "wait" /\ reader = "wait" /\ displayed = taken /\ buffer = taken
    BY <1>5, SMTT(60) DEF WriterWait_53_01
  <2>2. Token' /\ writer' = "getline" /\ UNCHANGED <<taken, displayed, buffer>>
    BY <1>5, <2>1, SMTT(60) DEF WriterWait_53_01
  <2> QED BY <2>1, <2>2, SMTT(60)
<1>6. CASE Getline
  <2>1. sem_w = 0 /\ sem_r = 0 /\ writer = "getline" /\ reader = "wait" /\ displayed = taken /\ buffer = taken
    BY <1>6, SMTT(60) DEF Getline
  <2>2. CASE taken < MaxRead
    <3>1. Token' /\ writer' = "post" /\ taken' = taken + 1 /\ buffer' = taken + 1 /\ displayed' = taken
      BY <1>6, <2>1, <2>2, SMTT(60) DEF Getline
    <3> QED BY <2>1, <2>2, <3>1, SMTT(60)
  <2>3. CASE taken = MaxRead
    <3>1. /\ writer' = "ended" /\ reader' = "none" /\ taken' = taken /\ displayed' = displayed
          /\ sem_w' = sem_w /\ sem_r' = sem_r
      BY <1>6, <2>1, <2>3, SMTT(60) DEF Getline, Leave
    <3> QED BY <2>1, <2>3, <3>1, SMTT(60)
  <2> QED BY <2>2, <2>3
<1>7. CASE WriterPost_53_01
  <2>1. sem_w = 0 /\ sem_r = 0 /\ writer = "post" /\ reader = "wait" /\ displayed = taken - 1 /\ buffer = taken
    BY <1>7, SMTT(60) DEF WriterPost_53_01
  <2> QED BY <1>7, <2>1 DEF WriterPost_53_01
<1>8. CASE ReaderWait_53_01
  <2>1. sem_w = 0 /\ sem_r = 1 /\ writer = "wait" /\ reader = "wait" /\ displayed = taken - 1 /\ buffer = taken
    <3>1. writer \in {"wait", "getline", "post"}
      BY <1>8, SMTT(60) DEF ReaderWait_53_01
    <3>2. sem_r = 1 /\ Token
      BY <1>8, <3>1, SMTT(60) DEF ReaderWait_53_01
    <3> QED BY <3>1, <3>2
  <2> QED BY <1>8, <2>1, SMTT(60) DEF ReaderWait_53_01
<1>9. CASE Display
  <2>1. sem_w = 0 /\ sem_r = 0 /\ writer = "wait" /\ reader = "display" /\ displayed = taken - 1 /\ buffer = taken
    BY <1>9, SMTT(60) DEF Display, DisplayLine
  <2> QED BY <1>9, <2>1, SMTT(60) DEF Display, DisplayLine
<1>10. CASE ReaderPost_53_01
  <2>1. sem_w = 0 /\ sem_r = 0 /\ writer = "wait" /\ reader = "post" /\ displayed = taken /\ buffer = taken
    BY <1>10, SMTT(60) DEF ReaderPost_53_01
  <2> QED BY <1>10, <2>1 DEF ReaderPost_53_01
<1>11. CASE UNCHANGED vars_53_01
  BY <1>11 DEF vars_53_01
<1> QED BY <1>1, <1>2, <1>3, <1>4, <1>5, <1>6, <1>7, <1>8, <1>9, <1>10, <1>11, Zenon
        DEF Next_53_01, Reader

-----------------------------------------------------------------------------
\* 33-01: whenever main() sends the signals, a thread shows its own blocked
\* signal, unless it came before it was blocked, and no other.  53-01: every
\* line is displayed once, in order, before the end of the input ends the
\* process.  The programs share no variable: the theorem is about any two of
\* their behaviours at once.
THEOREM ThreadsShowRight ==
  MaxRead \in Nat => (Spec_33_01 /\ Spec_53_01 => []ShownRight)
<1> SUFFICES ASSUME MaxRead \in Nat PROVE Spec_33_01 /\ Spec_53_01 => []ShownRight
  OBVIOUS
<1>1. IInv_33_01 => ShowsOwnSignal
  BY Zenon DEF IInv_33_01, ShowsOwnSignal, Own
<1>2. IInv_53_01 => EveryLineDisplayed
  BY DEF IInv_53_01, EveryLineDisplayed
<1>3. Spec_33_01 => []IInv_33_01
  BY InitInv_33_01, NextInv_33_01, PTL DEF Spec_33_01
<1>4. Spec_53_01 => []IInv_53_01
  BY InitInv_53_01, NextInv_53_01, PTL DEF Spec_53_01
<1> QED BY <1>1, <1>2, <1>3, <1>4, PTL DEF ShownRight
=============================================================================
