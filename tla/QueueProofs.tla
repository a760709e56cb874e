---------------------------- MODULE QueueProofs -----------------------------
(***************************************************************************)
(* Safety, for every value of the constants, of the file server on message *)
(* queues (52-03), of one_time_init() (31-01) and of the programs told by  *)
(* mq_notify().                                                            *)
(***************************************************************************)
EXTENDS FileServerMq, OnceInit, TLAPS

-----------------------------------------------------------------------------
(* 52-03: the file server                                                  *)

\* What a client prints, o, and what waits in its queue, q.
Letters == ({"PART"} \X Files \X Nat) \cup {End}
\* what can be printed of a part
Pieces == {Line(f, k) : f \in Files, k \in Nat} \cup {Junk}
\* o is the beginning of f
Leading(o, f) == o \in Seq(Pieces) /\ \A k \in 1..Len(o) : o[k] = Line(f, k)
\* the first n messages of q go on with f after o
Follows(o, q, n, f) == \A k \in 1..n : q[k] = <<"PART", f, Len(o) + k>>
\* all of a file is there, and perhaps the beginning of the next
Complete(o, q) ==
  \E f \in DOMAIN Blocks, n \in Nat :
    /\ n < Len(q) /\ q[n + 1] = End
    /\ Leading(o, f) /\ Follows(o, q, n, f) /\ Len(o) + n = Blocks[f]
\* some of file f is there
Partial(o, q, f) ==
  /\ f \in DOMAIN Blocks /\ Leading(o, f) /\ Follows(o, q, Len(q), f)
  /\ Len(o) + Len(q) <= Blocks[f]
\* nothing is there but the parts of a file that cannot be read
Blank(o, q) == o \in {<<>>, <<Junk>>} /\ \A k \in 1..Len(q) : q[k] \in {"PART"} \X Files \X {0}

\* The server is sending to c.
Serving(c) == spc = "read" /\ dest = c
\* A client that is not done has all of a file, or a beginning of one.  It is
\* the file that the server is sending, if it is sending to the client; if it
\* is not, then it had not begun, or it was terminated.
ClientOK(c) ==
  \/ Complete(out[c], mailbox[c])
  \/ \E f \in DOMAIN Blocks :
       /\ Partial(out[c], mailbox[c], f)
       /\ Serving(c) => cur = f /\ cur \notin Dirs /\ pos = Len(out[c]) + Len(mailbox[c]) + 1
       /\ ~Serving(c) /\ spc # "down" => out[c] = <<>> /\ mailbox[c] = <<>>
  \/ /\ Blank(out[c], mailbox[c])
     /\ Serving(c) => cur \in Dirs
     /\ ~Serving(c) /\ spc # "down" => out[c] = <<>> /\ mailbox[c] = <<>>
Whole(o) == \E f \in DOMAIN Blocks : Leading(o, f) /\ Len(o) = Blocks[f]

FilesInv ==
  /\ cpc \in [Clients -> {"start", "request", "receive", "done", "failed", "killed"}]
  /\ file \in [Clients -> Files] /\ reqs \in Seq(Files) /\ cur \in Files /\ pos \in Nat
  /\ spc \in {"receive", "open", "read", "down"}
  /\ spc = "open" => pos = 1
  /\ spc = "read" => dest \in Clients /\ cur \notin Missing
  /\ out \in [Clients -> Seq(Pieces)] /\ mailbox \in [Clients -> Seq(Letters)]
  /\ \A c \in Clients : IF cpc[c] = "done" THEN Whole(out[c]) ELSE ClientOK(c)

\* Some file can be read, and every such file has a number of blocks.
FileConstants == DOMAIN Blocks # {} /\ \A f \in DOMAIN Blocks : Blocks[f] \in Nat

\* A part of the file after what is there.
LEMMA AddPart ==
  ASSUME NEW o, NEW q \in Seq(Letters), NEW f, Partial(o, q, f),
         Blocks[f] \in Nat, Len(o) + Len(q) + 1 <= Blocks[f],
         NEW m, m = <<"PART", f, Len(o) + Len(q) + 1>>
  PROVE  Partial(o, Append(q, m), f)
<1>1. Len(q) \in Nat /\ Len(o) \in Nat
  BY DEF Partial, Leading
<1>2. m \in Letters
  BY <1>1 DEF Letters, Partial, Files
<1>3. /\ Len(Append(q, m)) = Len(q) + 1 /\ Append(q, m)[Len(q) + 1] = m
      /\ \A k \in 1..Len(q) : Append(q, m)[k] = q[k]
  BY <1>1, <1>2
<1>4. \A k \in 1..(Len(q) + 1) : k \in 1..Len(q) \/ k = Len(q) + 1
  BY <1>1
<1>5. Len(o) + (Len(q) + 1) = Len(o) + Len(q) + 1
  BY <1>1
<1>6. Follows(o, Append(q, m), Len(q) + 1, f)
  BY <1>3, <1>4, <1>5 DEF Partial, Follows
<1> QED BY <1>3, <1>5, <1>6 DEF Partial

\* The end after all of the file.
LEMMA AddEnd ==
  ASSUME NEW o, NEW q \in Seq(Letters), NEW f, Partial(o, q, f), Len(o) + Len(q) = Blocks[f]
  PROVE  Complete(o, Append(q, End))
<1> DEFINE m == End
<1>1. Len(q) \in Nat /\ m \in Letters
  BY DEF Letters
<1> HIDE DEF m
<1>2. /\ Len(Append(q, m)) = Len(q) + 1 /\ Append(q, m)[Len(q) + 1] = m
      /\ \A k \in 1..Len(q) : Append(q, m)[k] = q[k]
  BY <1>1
<1>3. Follows(o, Append(q, m), Len(q), f)
  BY <1>2 DEF Partial, Follows
<1>4. Len(q) < Len(Append(q, m))
  BY <1>1, <1>2, SMTT(60)
<1> QED BY <1>1, <1>2, <1>3, <1>4 DEF Complete, Partial, m

\* Anything after the end.
LEMMA AddMore ==
  ASSUME NEW o, NEW q \in Seq(Letters), Complete(o, q), NEW m \in Letters
  PROVE  Complete(o, Append(q, m))
<1>1. PICK f \in DOMAIN Blocks, n \in Nat :
        /\ n < Len(q) /\ q[n + 1] = End
        /\ Leading(o, f) /\ Follows(o, q, n, f) /\ Len(o) + n = Blocks[f]
  BY DEF Complete
<1>2. /\ Len(q) \in Nat /\ Len(Append(q, m)) = Len(q) + 1
      /\ \A k \in 1..Len(q) : Append(q, m)[k] = q[k]
  OBVIOUS
<1>3. n < Len(Append(q, m)) /\ n + 1 \in 1..Len(q) /\ \A k \in 1..n : k \in 1..Len(q)
  BY <1>1, <1>2
<1>4. Append(q, m)[n + 1] = End /\ Follows(o, Append(q, m), n, f)
  BY <1>1, <1>2, <1>3 DEF Follows
<1> QED BY <1>1, <1>3, <1>4 DEF Complete

\* A part without data where there is nothing else.
LEMMA AddBlank ==
  ASSUME NEW o, NEW q \in Seq(Letters), Blank(o, q), NEW m \in {"PART"} \X Files \X {0}
  PROVE  Blank(o, Append(q, m))
<1>1. m \in Letters
  BY DEF Letters
<1>2. /\ Len(q) \in Nat /\ Len(Append(q, m)) = Len(q) + 1 /\ Append(q, m)[Len(q) + 1] = m
      /\ \A k \in 1..Len(q) : Append(q, m)[k] = q[k]
  BY <1>1
<1>3. \A k \in 1..(Len(q) + 1) : k \in 1..Len(q) \/ k = Len(q) + 1
  BY <1>2
<1> QED BY <1>2, <1>3 DEF Blank

\* The first part in the queue is printed.
LEMMA TakePart ==
  ASSUME NEW o, NEW q \in Seq(Letters), q # <<>>, NEW f \in Files, Leading(o, f),
         NEW n \in Nat, Follows(o, q, n, f), 0 < n, n <= Len(q)
  PROVE  /\ Head(q) # End
         /\ Leading(Printed(o, Head(q)), f)
         /\ Len(Printed(o, Head(q))) = Len(o) + 1
         /\ Follows(Printed(o, Head(q)), Tail(q), n - 1, f)
<1>1. Len(o) \in Nat /\ Len(q) \in Nat /\ o \in Seq(Pieces)
  BY DEF Leading
<1>2. Head(q) = <<"PART", f, Len(o) + 1>>
  BY <1>1 DEF Follows
<1>3. Head(q) # End
  BY <1>2 DEF End
<1> DEFINE x == Line(f, Len(o) + 1)
           p == Printed(o, Head(q))
<1>4. p = Append(o, x)
  <2>1. Head(q)[2] = f /\ Head(q)[3] = Len(o) + 1 /\ Len(o) + 1 # 0
    BY <1>1, <1>2
  <2> QED BY <2>1, Zenon DEF Printed
<1>5. x \in Pieces
  <2>1. Len(o) + 1 \in Nat
    BY <1>1
  <2> QED BY <2>1 DEF Pieces
<1>6. /\ p \in Seq(Pieces) /\ Len(p) = Len(o) + 1
      /\ p[Len(o) + 1] = x /\ \A k \in 1..Len(o) : p[k] = o[k]
  <2> HIDE DEF p, x
  <2>1. /\ Append(o, x) \in Seq(Pieces) /\ Len(Append(o, x)) = Len(o) + 1
        /\ Append(o, x)[Len(o) + 1] = x /\ \A k \in 1..Len(o) : Append(o, x)[k] = o[k]
    BY <1>1, <1>5
  <2> QED BY <1>4, <2>1, Zenon
<1>7. \A k \in 1..(Len(o) + 1) : k \in 1..Len(o) \/ k = Len(o) + 1
  BY <1>1
<1> HIDE DEF p
<1>8. Leading(p, f)
  BY <1>6, <1>7, Zenon DEF Leading
<1>9. \A k \in 1..(n - 1) : /\ Tail(q)[k] = q[k + 1] /\ k + 1 \in 1..n
                            /\ Len(o) + (k + 1) = (Len(o) + 1) + k
  BY <1>1
<1>10. Follows(p, Tail(q), n - 1, f)
  <2> SUFFICES ASSUME NEW k \in 1..(n - 1) PROVE Tail(q)[k] = <<"PART", f, Len(p) + k>>
    BY DEF Follows
  <2>1. Tail(q)[k] = q[k + 1] /\ k + 1 \in 1..n /\ Len(o) + (k + 1) = Len(p) + k
    BY <1>6, <1>9
  <2>2. q[k + 1] = <<"PART", f, Len(o) + (k + 1)>>
    BY <2>1 DEF Follows
  <2> QED BY <2>1, <2>2
<1>11. p = Printed(o, Head(q))
  BY DEF p
<1> QED BY <1>3, <1>6, <1>8, <1>10, <1>11

\* mq_receive() by a client whose queue has a part of a file, all of it or
\* parts without data.
LEMMA TakePartial ==
  ASSUME FileConstants, NEW o, NEW q \in Seq(Letters), q # <<>>, NEW f, Partial(o, q, f)
  PROVE  /\ Head(q) # End
         /\ Partial(Printed(o, Head(q)), Tail(q), f)
         /\ Len(Printed(o, Head(q))) + Len(Tail(q)) = Len(o) + Len(q)
<1> DEFINE p == Printed(o, Head(q))
<1>1. Len(o) \in Nat /\ Len(q) \in Nat /\ 0 < Len(q) /\ Len(Tail(q)) = Len(q) - 1
  BY DEF Partial, Leading
<1>2. f \in Files /\ Leading(o, f) /\ Follows(o, q, Len(q), f)
  BY DEF Partial, Files
<1>3. Head(q) # End /\ Leading(p, f) /\ Len(p) = Len(o) + 1 /\ Follows(p, Tail(q), Len(q) - 1, f)
  BY <1>1, <1>2, TakePart
<1> HIDE DEF p
<1>4. Len(p) + Len(Tail(q)) = Len(o) + Len(q)
  BY <1>1, <1>3
<1>5. Partial(p, Tail(q), f)
  BY <1>1, <1>3, <1>4 DEF Partial
<1> QED BY <1>3, <1>4, <1>5 DEF p

\* A client that takes a message of a complete file.
LEMMA TakeComplete ==
  ASSUME FileConstants, NEW o, NEW q \in Seq(Letters), Complete(o, q)
  PROVE  /\ Head(q) = End => Whole(o)
         /\ Head(q) # End => Complete(Printed(o, Head(q)), Tail(q))
<1> DEFINE p == Printed(o, Head(q))
<1>1. PICK f \in DOMAIN Blocks, n \in Nat :
        /\ n < Len(q) /\ q[n + 1] = End
        /\ Leading(o, f) /\ Follows(o, q, n, f) /\ Len(o) + n = Blocks[f]
  BY DEF Complete
<1>2. Len(o) \in Nat /\ Len(q) \in Nat /\ q # <<>> /\ Len(Tail(q)) = Len(q) - 1 /\ Head(q) = q[1]
  BY <1>1 DEF Leading
<1>3. CASE n = 0
  <2>1. Head(q) = End /\ Len(o) = Blocks[f]
    BY <1>1, <1>2, <1>3
  <2> QED BY <1>1, <2>1 DEF Whole
<1>4. CASE n # 0
  <2>1. f \in Files /\ 0 < n /\ n <= Len(q)
    BY <1>1, <1>2, <1>4 DEF Files
  <2>2. Head(q) # End /\ Leading(p, f) /\ Len(p) = Len(o) + 1 /\ Follows(p, Tail(q), n - 1, f)
    BY <1>1, <1>2, <2>1, TakePart
  <2> HIDE DEF p
  <2>3. n - 1 \in Nat /\ n - 1 < Len(Tail(q)) /\ Len(p) + (n - 1) = Blocks[f]
    BY <1>1, <1>2, <2>1, <2>2
  <2>4. Tail(q)[(n - 1) + 1] = End
    <3>1. n \in 1..Len(Tail(q)) /\ (n - 1) + 1 = n
      BY <1>1, <1>2, <2>1
    <3>2. Tail(q)[n] = q[n + 1]
      BY <1>2, <3>1
    <3> QED BY <1>1, <3>1, <3>2
  <2>5. Complete(p, Tail(q))
    BY <1>1, <2>2, <2>3, <2>4 DEF Complete
  <2> QED BY <2>2, <2>5 DEF p
<1> QED BY <1>3, <1>4

\* A client of a file that cannot be read prints what it is sent.
LEMMA TakeBlank ==
  ASSUME NEW o, NEW q \in Seq(Letters), q # <<>>, Blank(o, q)
  PROVE  Head(q) # End /\ Printed(o, Head(q)) = <<Junk>> /\ Blank(<<Junk>>, Tail(q))
<1>1. Len(q) \in Nat /\ Len(q) > 0 /\ Head(q) = q[1] /\ Len(Tail(q)) = Len(q) - 1
  OBVIOUS
<1>2. \A k \in 1..(Len(q) - 1) : Tail(q)[k] = q[k + 1] /\ k + 1 \in 1..Len(q)
  BY <1>1
<1>3. Head(q) \in {"PART"} \X Files \X {0}
  BY <1>1 DEF Blank
<1>4. Head(q)[1] = "PART" /\ Head(q)[3] = 0
  BY <1>3
<1>5. Head(q) # End
  BY <1>4 DEF End
<1>6. Printed(o, Head(q)) = <<Junk>>
  <2>1. Len(<<Junk>>) = 1 /\ <<Junk>>[1] = Junk /\ <<Junk>> # <<>> /\ Append(<<>>, Junk) = <<Junk>>
    OBVIOUS
  <2> QED BY <1>4, <2>1, Zenon DEF Printed, Blank
<1> QED BY <1>1, <1>2, <1>5, <1>6 DEF Blank

\* A client whose output and queue stay as they are, while the server goes on
\* with what it does, or does not send to the client.
LEMMA ClientKept ==
  ASSUME NEW c, ClientOK(c), out'[c] = out[c], mailbox'[c] = mailbox[c],
         \/ UNCHANGED <<spc, dest, cur, pos>>
         \/ ~Serving(c)' /\ (spc' # "down" => spc # "down" /\ ~Serving(c))
  PROVE  ClientOK(c)'
BY Zenon DEF ClientOK, Serving

\* The first state.
LEMMA FilesInitInv ==
  ASSUME FileConstants, Init_52_03
  PROVE  FilesInv
<1>1. PICK f \in DOMAIN Blocks : TRUE
  BY DEF FileConstants
<1>2. cur \in Files
  BY <1>1 DEF Init_52_03, Files
<1>3. /\ \A c \in Clients : out[c] = <<>> /\ mailbox[c] = <<>> /\ cpc[c] # "done"
      /\ spc = "receive" /\ reqs = <<>> /\ pos = 0
  BY DEF Init_52_03
<1>4. Partial(<<>>, <<>>, f)
  BY SMTT(30) DEF Partial, Leading, Follows, FileConstants
<1>5. \A c \in Clients : ClientOK(c)
  BY <1>3, <1>4 DEF ClientOK, Serving
<1> QED BY <1>2, <1>3, <1>5 DEF Init_52_03, FilesInv

\* A client starts, asks, fails or is killed.
LEMMA FilesClientInv ==
  ASSUME FilesInv, NEW c \in Clients,
         CreateQueue(c) \/ Request(c) \/ ClientTerm(c) \/ Kill(c)
  PROVE  FilesInv'
<1> USE DEF FilesInv
<1>1. UNCHANGED <<out, mailbox, spc, dest, cur, pos>>
  BY DEF CreateQueue, Request, ClientTerm, Kill, server
<1>2. /\ cpc' \in [Clients -> {"start", "request", "receive", "done", "failed", "killed"}]
      /\ cpc'[c] # "done" /\ cpc[c] # "done" /\ \A x \in Clients \ {c} : cpc'[x] = cpc[x]
  BY Zenon DEF CreateQueue, Request, ClientTerm, Kill, Stopped
<1>3. file' \in [Clients -> Files] /\ reqs' \in Seq(Files)
  <2>1. CASE CreateQueue(c)
    <3>1. PICK f \in Files : file' = file \/ file' = [file EXCEPT ![c] = f]
      BY <2>1 DEF CreateQueue
    <3>2. reqs' = reqs
      BY <2>1 DEF CreateQueue, server
    <3> QED BY <3>1, <3>2, Zenon
  <2>2. CASE Request(c)
    <3>1. file' = file /\ (reqs' = reqs \/ reqs' = Append(reqs, file[c]))
      BY <2>2 DEF Request
    <3>2. file[c] \in Files /\ reqs \in Seq(Files)
      OBVIOUS
    <3> HIDE DEF FilesInv
    <3>3. \A s \in Seq(Files), x \in Files : Append(s, x) \in Seq(Files)
      OBVIOUS
    <3>4. reqs' \in Seq(Files)
      BY <3>1, <3>2, <3>3
    <3> QED BY <3>1, <3>4 DEF FilesInv
  <2>3. CASE ClientTerm(c) \/ Kill(c)
    BY <2>3 DEF ClientTerm, Kill, server
  <2> QED BY <2>1, <2>2, <2>3
<1>4. \A x \in Clients : cpc'[x] # "done" => ClientOK(x)'
  BY <1>1, <1>2, ClientKept
<1>5. \A x \in Clients : cpc'[x] = "done" => Whole(out[x])'
  BY <1>1, <1>2, ZenonT(60) DEF Whole
<1> QED BY <1>1, <1>2, <1>3, <1>4, <1>5

\* A client receives a part or the end.
LEMMA FilesReceiveInv ==
  ASSUME FileConstants, FilesInv, NEW c \in Clients, Receive_52_03(c)
  PROVE  FilesInv'
<1> USE DEF FilesInv
<1> DEFINE q == mailbox[c]
           o == out[c]
           p == Printed(o, Head(q))
<1>1. /\ cpc[c] = "receive" /\ q # <<>> /\ q \in Seq(Letters) /\ o \in Seq(Pieces)
      /\ mailbox' = [mailbox EXCEPT ![c] = Tail(q)]
      /\ UNCHANGED <<file, spc, reqs, dest, cur, pos>>
      /\ \/ Head(q) # End /\ out' = [out EXCEPT ![c] = p] /\ UNCHANGED cpc
         \/ Head(q) = End /\ cpc' = [cpc EXCEPT ![c] = "done"] /\ UNCHANGED out
  BY DEF Receive_52_03, server
<1>2. mailbox' \in [Clients -> Seq(Letters)] /\ mailbox'[c] = Tail(q)
  BY <1>1
<1> HIDE DEF p
<1>3. \A x \in Clients \ {c} : out'[x] = out[x] /\ mailbox'[x] = mailbox[x] /\ cpc'[x] = cpc[x]
  BY <1>1, SMTT(30)
<1>4. \A x \in Clients \ {c} : IF cpc'[x] = "done" THEN Whole(out[x])' ELSE ClientOK(x)'
  <2>1. \A x \in Clients \ {c} : cpc'[x] = "done" => Whole(out[x])'
    BY <1>3, Zenon DEF Whole
  <2>2. \A x \in Clients \ {c} : cpc'[x] # "done" => ClientOK(x)'
    BY <1>1, <1>3, ClientKept
  <2> QED BY <2>1, <2>2
<1>5. ClientOK(c)
  BY <1>1
<1>6. CASE Head(q) # End /\ out' = [out EXCEPT ![c] = p] /\ UNCHANGED cpc
  <2>1. out'[c] = p
    BY <1>6
  <2>2. CASE Complete(o, q)
    <3>1. Complete(p, Tail(q))
      BY <1>1, <1>6, <2>2, TakeComplete DEF p
    <3>2. PICK f \in DOMAIN Blocks : Leading(p, f)
      BY <3>1 DEF Complete
    <3>3. p \in Seq(Pieces)
      BY <3>2, SMTT(30) DEF Leading
    <3>4. ClientOK(c)'
      BY <1>2, <2>1, <3>1 DEF ClientOK
    <3>5. out' \in [Clients -> Seq(Pieces)]
      BY <1>6, <3>3
    <3> QED BY <1>1, <1>2, <1>4, <1>6, <3>4, <3>5
  <2>3. ASSUME NEW f \in DOMAIN Blocks, Partial(o, q, f),
               Serving(c) => cur = f /\ cur \notin Dirs /\ pos = Len(o) + Len(q) + 1,
               ~Serving(c) /\ spc # "down" => o = <<>> /\ q = <<>>
        PROVE  FilesInv'
    <3>1. Partial(p, Tail(q), f) /\ Len(p) + Len(Tail(q)) = Len(o) + Len(q)
      BY <1>1, <2>3, TakePartial, SMTT(60) DEF p
    <3>2. p \in Seq(Pieces)
      BY <3>1 DEF Leading, Partial
    <3>3. Serving(c)' = Serving(c) /\ UNCHANGED <<spc, cur, pos>>
      BY <1>1, SMTT(60) DEF Serving
    <3>4. ClientOK(c)'
      BY <1>1, <1>2, <2>1, <2>3, <3>1, <3>3 DEF ClientOK
    <3>5. out' \in [Clients -> Seq(Pieces)]
      BY <1>6, <3>2
    <3> QED BY <1>1, <1>2, <1>4, <1>6, <3>4, <3>5
  <2>4. CASE /\ Blank(o, q) /\ (Serving(c) => cur \in Dirs)
             /\ ~Serving(c) /\ spc # "down" => o = <<>> /\ q = <<>>
    <3>1. p = <<Junk>> /\ Blank(p, Tail(q))
      <4>1. Printed(o, Head(q)) = <<Junk>> /\ Blank(<<Junk>>, Tail(q))
        BY <1>1, <2>4, TakeBlank
      <4> QED BY <4>1, Zenon DEF p
    <3>2. Serving(c)' = Serving(c) /\ UNCHANGED <<spc, cur, pos>>
      BY <1>1 DEF Serving
    <3>3. ClientOK(c)'
      BY <1>1, <1>2, <2>1, <2>4, <3>1, <3>2 DEF ClientOK
    <3>4. out' \in [Clients -> Seq(Pieces)]
      <4>1. Junk \in Pieces
        BY DEF Pieces
      <4>2. <<Junk>> \in Seq(Pieces)
        BY <4>1
      <4> QED BY <1>6, <3>1, <4>2
    <3> QED BY <1>1, <1>2, <1>4, <1>6, <3>3, <3>4
  <2> QED BY <1>5, <2>2, <2>3, <2>4, ZenonT(60) DEF ClientOK
<1>7. CASE Head(q) = End /\ cpc' = [cpc EXCEPT ![c] = "done"] /\ UNCHANGED out
  <2>1. Complete(o, q)
    BY <1>1, <1>5, <1>7, TakePartial, TakeBlank, Zenon DEF ClientOK
  <2>2. Whole(out[c])'
    <3>1. Whole(o)
      BY <1>1, <1>7, <2>1, TakeComplete
    <3> QED BY <1>7, <3>1 DEF Whole
  <2> QED BY <1>1, <1>2, <1>4, <1>7, <2>2, SMTT(60)
<1> QED BY <1>1, <1>6, <1>7

\* The server takes a request, or is terminated.
LEMMA FilesTakeInv ==
  ASSUME FilesInv, Take \/ Term
  PROVE  FilesInv'
<1> USE DEF FilesInv
<1>1. UNCHANGED <<cpc, file, out, mailbox>>
  BY DEF Take, Term, client
<1>2. /\ reqs' \in Seq(Files) /\ cur' \in Files /\ pos' \in Nat
      /\ \/ spc = "receive" /\ spc' = "open" /\ pos' = 1
         \/ spc' = "down"
  <2>1. CASE Take
    BY <2>1 DEF Take
  <2>2. CASE Term
    BY <2>2 DEF Term
  <2> QED BY <2>1, <2>2
<1>3. \A x \in Clients : cpc'[x] # "done" => ClientOK(x)'
  BY <1>1, <1>2, ClientKept DEF Serving
<1>4. \A x \in Clients : cpc'[x] = "done" => Whole(out[x])'
  BY <1>1 DEF Whole
<1> QED BY <1>1, <1>2, <1>3, <1>4

\* handle_req() opens the queue and the file.
LEMMA FilesOpenInv ==
  ASSUME FileConstants, FilesInv, OpenFile
  PROVE  FilesInv'
<1> USE DEF FilesInv
<1>1. /\ UNCHANGED <<cpc, file, out, mailbox, reqs, cur, pos>> /\ spc = "open" /\ pos = 1
      /\ \/ holder \in Clients /\ cur \notin Missing /\ spc' = "read" /\ dest' = holder
         \/ spc' = "receive"
  BY DEF OpenFile, client
<1>2. \A x \in Clients : cpc'[x] = "done" => Whole(out[x])'
  BY <1>1 DEF Whole
<1>3. \A x \in Clients : ~Serving(x) /\ (ClientOK(x) /\ ~Serving(x)' => ClientOK(x)')
  BY <1>1, ClientKept, SMTT(60) DEF Serving
<1>4. ASSUME NEW c \in Clients, cpc'[c] # "done", Serving(c)'
      PROVE  ClientOK(c)'
  <2>1. spc' = "read" /\ cur \notin Missing /\ ClientOK(c) /\ ~Serving(c) /\ spc # "down"
    BY <1>1, <1>3, <1>4 DEF Serving
  <2>2. CASE Complete(out[c], mailbox[c])
    BY <1>1, <2>2 DEF ClientOK
  <2>3. CASE out[c] = <<>> /\ mailbox[c] = <<>>
    <3>1. CASE cur \in Dirs
      <4>1. Blank(out[c], mailbox[c])'
        BY <1>1, <2>3 DEF Blank
      <4> QED BY <1>1, <1>4, <3>1, <4>1, SMTT(60) DEF ClientOK, Serving
    <3>2. CASE cur \notin Dirs
      <4>1. PICK f \in DOMAIN Blocks : f = cur
        BY <2>1, <3>2 DEF Files
      <4>2. Partial(<<>>, <<>>, f)
        BY DEF Partial, Leading, Follows, FileConstants
      <4>3. pos = Len(out[c]) + Len(mailbox[c]) + 1
        BY <1>1, <2>3
      <4> QED BY <1>1, <1>4, <2>3, <3>2, <4>1, <4>2, <4>3 DEF ClientOK
    <3> QED BY <3>1, <3>2
  <2> QED BY <2>1, <2>2, <2>3, Zenon DEF ClientOK, Blank
<1>5. \A x \in Clients : cpc'[x] # "done" => ClientOK(x)'
  BY <1>1, <1>3, <1>4
<1> QED BY <1>1, <1>2, <1>5

\* A part of the file, a part without data, or the end is sent.
LEMMA FilesSendInv ==
  ASSUME FileConstants, FilesInv, SendPart \/ SendFailed \/ SendEnd
  PROVE  FilesInv'
<1> USE DEF FilesInv
<1>1. PICK c \in Clients : c = dest /\ spc = "read" /\ Serving(c)
  BY DEF SendPart, SendUpTo, SendFailed, SendEnd, Serving
<1> DEFINE q == mailbox[c]
           o == out[c]
<1>2. q \in Seq(Letters) /\ o \in Seq(Pieces) /\ Len(q) \in Nat /\ Len(o) \in Nat
  OBVIOUS
<1>3. UNCHANGED <<cpc, file, out, reqs, cur>>
  BY DEF SendPart, SendUpTo, SendFailed, SendEnd, client
<1>4. \A x \in Clients : cpc'[x] = "done" => Whole(out[x])'
  BY <1>3, SMTT(30) DEF Whole
<1>5. PICK m \in Letters :
        /\ mailbox' = [mailbox EXCEPT ![c] = Append(q, m)]
        /\ \/ /\ m = <<"PART", cur, pos>> /\ cur \notin Dirs /\ pos <= Blocks[cur]
              /\ pos' = pos + 1 /\ UNCHANGED <<spc, dest>>
           \/ m = <<"PART", cur, 0>> /\ cur \in Dirs /\ UNCHANGED <<spc, dest, pos>>
           \/ /\ m = End /\ cur \notin Dirs /\ pos > Blocks[cur]
              /\ spc' = "receive" /\ pos' = pos
  <2>1. CASE SendPart
    <3>1. <<"PART", cur, pos>> \in Letters
      BY DEF Letters
    <3> QED BY <1>1, <2>1, <3>1, Zenon DEF SendPart, SendUpTo, Part
  <2>2. CASE SendFailed
    <3>1. <<"PART", cur, 0>> \in Letters
      BY DEF Letters
    <3> QED BY <1>1, <2>2, <3>1, Zenon DEF SendFailed, Part
  <2>3. CASE SendEnd
    <3>1. End \in Letters
      BY DEF Letters
    <3> QED BY <1>1, <2>3, <3>1, Zenon DEF SendEnd
  <2> QED BY <2>1, <2>2, <2>3, SMTT(30)
<1>6. /\ mailbox' \in [Clients -> Seq(Letters)] /\ mailbox'[c] = Append(q, m)
      /\ \A x \in Clients \ {c} : mailbox'[x] = mailbox[x]
  BY <1>2, <1>5
<1>7. spc' \in {"receive", "read"} /\ (spc' = "read" => dest' = dest) /\ pos' \in Nat
  BY <1>1, <1>5
<1>8. \A x \in Clients \ {c} : cpc'[x] # "done" => ClientOK(x)'
  <2>1. \A x \in Clients \ {c} : ~Serving(x) /\ ~Serving(x)' /\ spc # "down"
    BY <1>1, <1>7, SMTT(60) DEF Serving
  <2> QED BY <1>3, <1>6, <2>1, ClientKept
<1>9. ASSUME cpc'[c] # "done"
      PROVE  ClientOK(c)'
  <2>1. ClientOK(c)
    BY <1>3, <1>9
  <2>2. CASE Complete(o, q)
    <3>1. Complete(o, Append(q, m))
      BY <1>2, <2>2, AddMore
    <3> QED BY <1>3, <1>6, <3>1 DEF ClientOK
  <2>3. ASSUME NEW f \in DOMAIN Blocks, Partial(o, q, f), cur = f, cur \notin Dirs,
               pos = Len(o) + Len(q) + 1
        PROVE  ClientOK(c)'
    <3>1. Blocks[f] \in Nat /\ Len(o) + Len(q) <= Blocks[f]
      BY <2>3, SMTT(60) DEF FileConstants, Partial
    <3>2. CASE m = <<"PART", cur, pos>> /\ pos <= Blocks[cur] /\ pos' = pos + 1 /\ UNCHANGED <<spc, dest>>
      <4>1. Partial(o, Append(q, m), f)
        BY <1>2, <2>3, <3>1, <3>2, AddPart, Zenon
      <4>2. Serving(c)' /\ Len(Append(q, m)) = Len(q) + 1
        BY <1>1, <1>2, <3>2 DEF Serving
      <4>3. pos' = Len(o) + (Len(q) + 1) + 1
        BY <1>2, <2>3, <3>2
      <4> QED BY <1>3, <1>6, <2>3, <4>1, <4>2, <4>3 DEF ClientOK
    <3>3. CASE m = End /\ pos > Blocks[cur]
      <4>1. \A a, b, n \in Nat : a + b <= n /\ a + b + 1 > n => a + b = n
        OBVIOUS
      <4>2. Len(o) + Len(q) = Blocks[f]
        BY <1>2, <2>3, <3>1, <3>3, <4>1, ZenonT(60)
      <4>3. Complete(o, Append(q, m))
        BY <1>2, <2>3, <3>3, <4>2, AddEnd
      <4> QED BY <1>3, <1>6, <4>3 DEF ClientOK
    <3> QED BY <1>5, <2>3, <3>2, <3>3
  <2>4. CASE Blank(o, q) /\ cur \in Dirs
    <3>1. m = <<"PART", cur, 0>> /\ UNCHANGED <<spc, dest, pos>>
      BY <1>5, <2>4
    <3>2. m \in {"PART"} \X Files \X {0}
      BY <3>1, SMTT(60)
    <3>3. Blank(o, Append(q, m))
      BY <1>2, <2>4, <3>2, AddBlank
    <3>4. Serving(c)'
      BY <1>1, <3>1 DEF Serving
    <3> QED BY <1>3, <1>6, <2>4, <3>3, <3>4 DEF ClientOK
  <2> QED BY <1>1, <2>1, <2>2, <2>3, <2>4, Zenon DEF ClientOK
<1>10. \A x \in Clients : cpc'[x] # "done" => ClientOK(x)'
  BY <1>8, <1>9
<1> QED BY <1>1, <1>3, <1>4, <1>6, <1>7, <1>10

\* 52-03, for any clients, files and queue sizes: whatever happens to the
\* common name of the queues, to clients and to the server, what a client
\* prints is the leading blocks of one file, each without its last byte, and
\* all its blocks when it is told the end; or what the server's buffer held, if
\* it cannot read the file, and then the client is not told the end.
THEOREM FileClientsIntact ==
  FileConstants => (Spec_52_03 => []FilesIntact)
<1> SUFFICES ASSUME FileConstants
             PROVE  Spec_52_03 => []FilesIntact
  OBVIOUS
<1>1. Init_52_03 => FilesInv
  BY FilesInitInv
<1>2. FilesInv /\ [Next_52_03]_vars_52_03 => FilesInv'
  <2> SUFFICES ASSUME FilesInv, [Next_52_03]_vars_52_03
               PROVE  FilesInv'
    OBVIOUS
  <2>1. CASE UNCHANGED vars_52_03
    <3>1. \A x \in Clients : ClientOK(x) => ClientOK(x)'
      BY <2>1, ClientKept DEF vars_52_03
    <3> QED BY <2>1, <3>1, SMTT(60) DEF vars_52_03, FilesInv, Whole
  <2>2. CASE \E c \in Clients : CreateQueue(c) \/ Client(c) \/ ClientTerm(c) \/ Kill(c)
    BY <2>2, FilesClientInv, FilesReceiveInv DEF Client
  <2>3. CASE Server \/ Term
    BY <2>3, FilesTakeInv, FilesOpenInv, FilesSendInv, SMTT(60) DEF Server
  <2> QED BY <2>1, <2>2, <2>3 DEF Next_52_03
<1>3. FilesInv => FilesIntact
  <2> SUFFICES ASSUME FilesInv, NEW c \in Clients
               PROVE  \/ \E f \in DOMAIN Blocks :
                           /\ Len(out[c]) <= Blocks[f]
                           /\ \A k \in 1..Len(out[c]) : out[c][k] = Line(f, k)
                           /\ cpc[c] = "done" => Len(out[c]) = Blocks[f]
                      \/ out[c] = <<Junk>> /\ cpc[c] # "done"
    BY DEF FilesIntact
  <2>1. Len(out[c]) \in Nat /\ Len(mailbox[c]) \in Nat
    BY DEF FilesInv
  <2>2. CASE cpc[c] = "done"
    <3>1. PICK f \in DOMAIN Blocks : Leading(out[c], f) /\ Len(out[c]) = Blocks[f]
      BY <2>2 DEF FilesInv, Whole
    <3>2. Len(out[c]) <= Blocks[f]
      BY <2>1, <3>1, SMTT(60)
    <3> QED BY <3>1, <3>2 DEF Leading
  <2>3. CASE cpc[c] # "done"
    <3>1. CASE Complete(out[c], mailbox[c])
      <4>1. PICK f \in DOMAIN Blocks, n \in Nat :
              Leading(out[c], f) /\ Len(out[c]) + n = Blocks[f]
        BY <3>1 DEF Complete
      <4>2. Len(out[c]) <= Blocks[f]
        BY <2>1, <4>1
      <4> QED BY <2>3, <4>1, <4>2, Zenon DEF Leading
    <3>2. ASSUME NEW f \in DOMAIN Blocks, Partial(out[c], mailbox[c], f)
          PROVE  Len(out[c]) <= Blocks[f] /\ Leading(out[c], f)
      <4>1. /\ Leading(out[c], f) /\ Blocks[f] \in Nat
            /\ Len(out[c]) + Len(mailbox[c]) <= Blocks[f]
        BY <3>2, Zenon DEF Partial, FileConstants
      <4>2. \A a, b, n \in Nat : a + b <= n => a <= n
        OBVIOUS
      <4> QED BY <2>1, <4>1, <4>2, Zenon
    <3>3. CASE Blank(out[c], mailbox[c])
      <4>1. PICK f \in DOMAIN Blocks : Blocks[f] \in Nat
        BY DEF FileConstants
      <4>2. CASE out[c] = <<>>
        <5>1. Len(out[c]) = 0
          BY <4>2
        <5> QED BY <2>3, <4>1, <5>1
      <4>3. CASE out[c] = <<Junk>>
        BY <2>3, <4>3
      <4> QED BY <3>3, <4>2, <4>3, Zenon DEF Blank
    <3>4. ClientOK(c)
      BY <2>3 DEF FilesInv
    <3> QED BY <2>3, <3>1, <3>2, <3>3, <3>4, ZenonT(60) DEF ClientOK, Leading
  <2> QED BY <2>2, <2>3, SMTT(60)
<1> QED BY <1>1, <1>2, <1>3, PTL DEF Spec_52_03

-----------------------------------------------------------------------------
(* Safety of one_time_init() of exercise 31-01 for any set of threads.     *)

\* The inductive invariant: the mutex protects the path from the test of
\* called to its assignment, and called is set only after init() ended.
IInv_31_01 ==
  /\ TypeOK_31_01
  /\ CallOwnsMutex
  /\ InitOnce
  /\ \A t \in Threads : pc[t] \in {"init", "mark"} => started = {t} /\ called = 0
  /\ \A t \in Threads : pc[t] = "init" => ended = {}
  /\ \A t \in Threads : pc[t] = "mark" => ended = {t}
  /\ called = 1 => ended # {}
  /\ started # {} /\ called = 0 => \E t \in Threads : pc[t] \in {"init", "mark"}
  /\ \A t \in Threads : pc[t] \in {"unlock", "returned"} => called = 1
  /\ ReturnAfterInit

\* Nothing has been called when main() starts.
LEMMA InitInv_31_01 == Init_31_01 => IInv_31_01
BY ThreadAssumption, SMTT(60)
   DEF Init_31_01, IInv_31_01, TypeOK_31_01, ThreadPc, InCall, CallOwnsMutex, InitOnce, ReturnAfterInit

\* Every step of main() and of the threads keeps the invariant.
LEMMA NextInv_31_01 == IInv_31_01 /\ [Next_31_01]_vars_31_01 => IInv_31_01'
<1> SUFFICES ASSUME IInv_31_01, [Next_31_01]_vars_31_01 PROVE IInv_31_01'
  OBVIOUS
<1> USE ThreadAssumption
    DEF IInv_31_01, TypeOK_31_01, ThreadPc, InCall, CallOwnsMutex, InitOnce, ReturnAfterInit
<1>1. CASE CreateFails \/ Sleep \/ Exit \/ UNCHANGED vars_31_01
  BY <1>1 DEF CreateFails, Sleep, Exit, vars_31_01
<1>2. ASSUME NEW t \in Threads, Create(t) PROVE IInv_31_01'
  BY <1>2 DEF Create
<1>3. ASSUME NEW t \in Threads, Lock(t) PROVE IInv_31_01'
  BY <1>3 DEF Lock, LockAs
<1>4. ASSUME NEW t \in Threads, Check(t) PROVE IInv_31_01'
  BY <1>4, SMTT(60) DEF Check, CheckFor
<1>5. ASSUME NEW t \in Threads, InitReturns(t) PROVE IInv_31_01'
  BY <1>5 DEF InitReturns
<1>6. ASSUME NEW t \in Threads, Mark(t) PROVE IInv_31_01'
  BY <1>6 DEF Mark, MarkAs
<1>7. ASSUME NEW t \in Threads, Unlock(t) PROVE IInv_31_01'
  BY <1>7 DEF Unlock
<1>8. QED
  BY <1>1, <1>2, <1>3, <1>4, <1>5, <1>6, <1>7, Zenon DEF Next_31_01, Thread

\* The invariant holds in every state.
LEMMA Invariance_31_01 == Spec_31_01 => []IInv_31_01
BY InitInv_31_01, NextInv_31_01, PTL DEF Spec_31_01

\* init() is begun by at most one of any number of threads.
THEOREM OneInit == Spec_31_01 => []InitOnce
<1>1. IInv_31_01 => InitOnce
  BY DEF IInv_31_01
<1>2. QED
  BY <1>1, Invariance_31_01, PTL

\* No caller of one_time_init() returns before init() has ended.
THEOREM InitBeforeReturn == Spec_31_01 => []ReturnAfterInit
<1>1. IInv_31_01 => ReturnAfterInit
  BY DEF IInv_31_01
<1>2. QED
  BY <1>1, Invariance_31_01, PTL

-----------------------------------------------------------------------------
(* mq_notify(): the programs of the book, 52-05 and 52-06                  *)

CONSTANTS MaxMsgs, Early
VARIABLES kind, queue, sent, reg, sig, gotSig, setups, drains, got, lost
INSTANCE MqNotify

\* The steps of each program, and where each of them leads.
LEMMA Steps ==
  /\ \A k \in {"sig", "info", "sig5"} :
       /\ Control[k]["first"] = "wait" /\ Control[k]["wait"] = "notify"
       /\ Control[k]["notify"] = "drain"
       /\ Control[k]["drain"] = IF k = "sig5" THEN "exit" ELSE "wait"
  /\ Control["sig6"]["first"] = "drain" /\ Control["sig6"]["drain"] = "wait"
  /\ Control["sig6"]["wait"] = "notify" /\ Control["sig6"]["notify"] = "drain"
  /\ Control["poll"]["first"] = "drain" /\ Control["poll"]["drain"] = "sleep"
  /\ Control["poll"]["sleep"] = "check" /\ Control["poll"]["check"] = "notify"
  /\ Control["poll"]["notify"] = "drain"
  /\ Control["thread"]["first"] = "pause"
  /\ Control["drained"]["first"] = "drain" /\ Control["drained"]["drain"] = "pause"
  /\ DOMAIN Control = {"sig", "sig5", "sig6", "info", "poll", "thread", "drained"}
BY DEF Control, mq_notify_sig, mq_notify_sig_52_5, mq_notify_sig_52_6,
       mq_notify_sigwaitinfo, mq_notify_via_signal, mq_notify_thread,
       mq_notify_via_thread

\* The programs that wait for a signal, and the steps of each program.
Waiters == {"sig", "info", "sig5", "sig6"}
StepsOf(k) ==
  CASE k \in {"sig", "info", "sig6"} -> {"first", "wait", "notify", "drain"}
    [] k = "sig5" -> {"first", "wait", "notify", "drain", "exit"}
    [] k = "poll" -> {"first", "drain", "sleep", "check", "notify"}
    [] k = "thread" -> {"first", "pause"}
    [] k = "drained" -> {"first", "drain", "pause"}

\* A program is registered at most once, and a notification is on its way or
\* being handled otherwise; while it waits as registered, the queue is empty.
WaitInv ==
  /\ kind \in {"sig", "info", "sig5", "sig6", "poll", "thread", "drained"}
  /\ reg \in BOOLEAN /\ sig \in BOOLEAN /\ gotSig \in BOOLEAN /\ lost \in BOOLEAN
  /\ setups \in Nat /\ drains \in Nat
  /\ pc \in StepsOf(kind)
  /\ pc \in {"first", "notify"} => ~reg /\ ~sig /\ ~gotSig
  /\ pc = "first" => setups = 0 /\ drains = 0
  /\ sig => ~reg
  /\ gotSig => ~reg /\ ~sig
  /\ Threaded => ~sig /\ ~gotSig
  /\ ~Threaded => setups = 0 /\ drains = 0
  /\ Threaded /\ pc # "first" => (reg /\ setups = 0) \/ (~reg /\ setups = 1)
  /\ kind \in Waiters /\ pc \in {"drain", "wait"} => reg \/ sig \/ lost
  /\ pc \in {"wait", "pause"} /\ reg /\ drains = 0 /\ ~lost => queue = <<>>

\* The messages are numbered: those received come first, in their order.
LogInv ==
  /\ sent \in Nat /\ queue \in Seq(Nat) /\ got \in Seq(Nat)
  /\ Len(got) + Len(queue) = sent
  /\ \A i \in 1..Len(queue) : queue[i] = Len(got) + i
  /\ \A i \in 1..Len(got) : got[i] = i

\* The messages that may be there at the start.
LEMMA NoteInitInv ==
  ASSUME Early \in Nat, Init_notify
  PROVE  LogInv /\ WaitInv
<1>1. sent \in Nat /\ queue = [i \in 1..sent |-> i] /\ got = <<>>
  BY DEF Init_notify
<1>2. queue \in Seq(Nat) /\ Len(queue) = sent /\ \A i \in 1..sent : queue[i] = i
  BY <1>1
<1>3. LogInv
  BY <1>1, <1>2 DEF LogInv
<1>4. WaitInv
  BY Steps, Zenon DEF Init_notify, WaitInv, StepsOf, Threaded
<1> QED BY <1>3, <1>4

\* mq_send() and mq_receive() keep the order.
LEMMA NoteSendLog ==
  ASSUME LogInv, mq_send
  PROVE  LogInv'
<1> USE DEF LogInv
<1>1. sent' = sent + 1 /\ queue' = Append(queue, sent + 1) /\ got' = got
  BY DEF mq_send
<1>2. /\ Len(queue) \in Nat /\ Len(got) \in Nat /\ queue' \in Seq(Nat)
      /\ Len(queue') = Len(queue) + 1 /\ queue'[Len(queue) + 1] = sent + 1
      /\ \A i \in 1..Len(queue) : queue'[i] = queue[i]
  BY <1>1
<1>3. \A i \in 1..Len(queue') : i \in 1..Len(queue) \/ i = Len(queue) + 1
  BY <1>2
<1>4. sent + 1 = Len(got') + (Len(queue) + 1)
  <2>1. \A k, n \in Nat : (k + n) + 1 = k + (n + 1)
    OBVIOUS
  <2>2. Len(got') = Len(got) /\ sent = Len(got) + Len(queue)
    BY <1>1
  <2> QED BY <1>2, <2>1, <2>2
<1>5. \A i \in 1..Len(queue) : queue'[i] = Len(got') + i
  BY <1>1, <1>2, Zenon
<1>6. \A i \in 1..Len(queue') : queue'[i] = Len(got') + i
  BY <1>2, <1>3, <1>4, <1>5, Zenon
<1> QED BY <1>1, <1>2, <1>4, <1>6

\* Receiving moves the oldest message to the log.
LEMMA NoteReceiveLog ==
  ASSUME LogInv, queue # <<>>, Receive_notify, sent' = sent
  PROVE  LogInv'
<1> USE DEF LogInv
<1>1. queue' = Tail(queue) /\ got' = Append(got, Head(queue))
  BY DEF Receive_notify
<1>2. Len(queue) \in Nat /\ Len(queue) > 0 /\ Len(got) \in Nat
  OBVIOUS
<1>3. Head(queue) = Len(got) + 1
  BY <1>2
<1>4. /\ queue' \in Seq(Nat) /\ Len(queue') = Len(queue) - 1
      /\ \A i \in 1..Len(queue') : queue'[i] = queue[i + 1] /\ i + 1 \in 1..Len(queue)
  BY <1>1, <1>2
<1>5. /\ got' \in Seq(Nat) /\ Len(got') = Len(got) + 1 /\ got'[Len(got) + 1] = Len(got) + 1
      /\ \A i \in 1..Len(got) : got'[i] = got[i]
  BY <1>1, <1>2, <1>3
<1>6. \A i \in 1..Len(queue') : queue'[i] = Len(got') + i
  BY <1>2, <1>4, <1>5, SMTT(60)
<1>7. \A i \in 1..Len(got') : i \in 1..Len(got) \/ i = Len(got) + 1
  BY <1>2, <1>5
<1>8. \A i \in 1..Len(got') : got'[i] = i
  BY <1>5, <1>7, Zenon
<1>9. Len(got') + Len(queue') = sent'
  BY <1>2, <1>4, <1>5
<1> QED BY <1>4, <1>5, <1>6, <1>8, <1>9

\* Each step of the kernel, of the program and of its threads.
LEMMA NoteSendInv ==
  ASSUME LogInv, WaitInv, mq_send
  PROVE  WaitInv'
<1> USE DEF WaitInv
<1>1. UNCHANGED <<kind, pc, gotSig, drains, got, lost>>
  BY DEF mq_send
<1>2. CASE queue = <<>> /\ reg /\ Threaded
  <2>1. reg' = FALSE /\ setups' = setups + 1 /\ sig' = sig
    BY <1>2 DEF mq_send
  <2>2. pc # "first" /\ pc # "notify" /\ setups' = 1
    BY <1>2, <2>1
  <2>3. kind' \in {"thread", "drained"} /\ kind' \notin Waiters
    BY <1>1, <1>2 DEF Threaded, Waiters
  <2>4. ~sig' /\ ~gotSig' /\ sig' \in BOOLEAN /\ gotSig' \in BOOLEAN
    BY <1>1, <1>2, <2>1
  <2>5. Threaded'
    BY <2>3 DEF Threaded
  <2>6. pc' \in StepsOf(kind)'
    BY <1>1
  <2>7. ~reg' /\ reg' \in BOOLEAN
    BY <2>1, Zenon
  <2>9. lost' \in BOOLEAN
    BY <1>1
  <2>10. setups' \in Nat /\ drains' \in Nat
    BY <1>1, <2>2
  <2>8. kind' \in {"sig", "info", "sig5", "sig6", "poll", "thread", "drained"} /\ pc' \notin {"first", "notify"}
    BY <1>1, <2>2, <2>3
  <2> QED BY <2>2, <2>3, <2>4, <2>5, <2>6, <2>7, <2>8, <2>9, <2>10
<1>3. CASE queue = <<>> /\ reg /\ ~Threaded
  <2>1. reg' = FALSE /\ setups' = setups /\ sig' = TRUE
    BY <1>3 DEF mq_send
  <2> QED BY <1>1, <1>3, <2>1, Zenon DEF Threaded, Waiters
<1>4. CASE ~(queue = <<>> /\ reg)
  <2>1. reg' = reg /\ setups' = setups /\ sig' = sig
    BY <1>4 DEF mq_send
  <2>2. ~(pc \in {"wait", "pause"} /\ reg /\ drains = 0 /\ ~lost)
    BY <1>4
  <2> QED BY <1>1, <2>1, <2>2 DEF Threaded, Waiters
<1> QED BY <1>2, <1>3, <1>4

\* A handler takes the signal, which only polling remembers.
LEMMA NoteHandlerInv ==
  ASSUME WaitInv, handler
  PROVE  WaitInv'
<1>1. /\ sig /\ sig' = FALSE /\ gotSig' = (kind = "poll") /\ lost' = (lost \/ kind = "sig6")
      /\ UNCHANGED <<kind, queue, reg, pc, setups, drains>> /\ kind \notin {"sig", "sig5", "info"}
  BY DEF handler, Blocked
<1>2. ~Threaded
  BY <1>1 DEF WaitInv
<1> QED BY <1>1, <1>2, Zenon DEF WaitInv, Threaded, Waiters

\* mq_notify() is called while nothing is under way.
LEMMA NoteRegisterInv ==
  ASSUME WaitInv, Register
  PROVE  WaitInv'
<1> USE DEF WaitInv
<1>1. /\ pc \in {"first", "notify"} /\ ~reg /\ ~sig /\ ~gotSig
      /\ reg' = TRUE /\ pc' = Control[kind][pc]
      /\ lost' = (lost \/ (pc = "first" /\ queue # <<>> /\ Control[kind]["first"] # "drain"))
      /\ UNCHANGED <<kind, queue, sent, sig, gotSig, setups, drains, got>>
  BY DEF Register, mq_notify, Then, Missed
<1>2. CASE pc = "first"
  <2>1. /\ kind \in {"sig", "info", "sig5"} => pc' = "wait"
        /\ kind \in {"sig6", "poll", "drained"} => pc' = "drain"
        /\ kind = "thread" => pc' = "pause"
    BY <1>1, <1>2, Steps
  <2>2. pc' # "drain" => lost' \/ queue = <<>>
    BY <1>1, <1>2, Zenon
  <2>3. pc' \in StepsOf(kind) /\ setups = 0 /\ drains = 0
    BY <1>2, <2>1 DEF StepsOf
  <2> QED BY <1>1, <1>2, <2>1, <2>2, <2>3 DEF Threaded, Waiters
<1>3. CASE pc = "notify"
  <2>1. kind \notin {"thread", "drained"}
    BY <1>3 DEF StepsOf
  <2>2. pc' = "drain"
    BY <1>1, <1>3, <2>1, Steps
  <2>3. pc' \in StepsOf(kind)
    BY <2>1, <2>2 DEF StepsOf
  <2> QED BY <1>1, <1>3, <2>1, <2>2, <2>3 DEF Threaded, Waiters
<1> QED BY <1>1, <1>2, <1>3

\* Receiving until the queue is empty, after the registration.
LEMMA NoteDrainInv ==
  ASSUME WaitInv, Drain
  PROVE  WaitInv'
<1> USE DEF WaitInv
<1>1. pc = "drain" /\ UNCHANGED <<kind, sent, reg, sig, gotSig, setups, drains, lost>>
  BY DEF Drain
<1>2. CASE queue # <<>>
  <2>1. pc' = pc
    BY <1>2 DEF Drain
  <2> QED BY <1>1, <2>1 DEF Threaded, Waiters
<1>3. CASE queue = <<>>
  <2>1. pc' = Control[kind]["drain"] /\ queue' = queue
    BY <1>1, <1>3 DEF Drain, Then
  <2>2. kind # "thread"
    BY <1>1 DEF StepsOf
  <2>3. /\ kind \in {"sig", "info", "sig6"} => pc' = "wait"
        /\ kind = "sig5" => pc' = "exit"
        /\ kind = "poll" => pc' = "sleep"
        /\ kind = "drained" => pc' = "pause"
    BY <2>1, Steps
  <2>4. pc' \in StepsOf(kind)
    BY <2>2, <2>3 DEF StepsOf
  <2> QED BY <1>1, <1>3, <2>1, <2>2, <2>3, <2>4 DEF Threaded, Waiters
<1> QED BY <1>2, <1>3

\* A program that waits goes on when it is told, a polling one when the flag
\* is set.
LEMMA NoteWaitInv ==
  ASSUME WaitInv, Wait \/ Poll
  PROVE  WaitInv'
<1> USE DEF WaitInv
<1>1. CASE Wait
  <2>1. /\ pc = "wait" /\ sig /\ ~sig' /\ sig' = FALSE /\ pc' = Control[kind]["wait"]
        /\ UNCHANGED <<kind, queue, sent, reg, gotSig, setups, drains, got, lost>>
    BY <1>1 DEF Wait, Then
  <2>2. kind \in Waiters
    BY <2>1 DEF StepsOf, Waiters
  <2>3. pc' = "notify"
    BY <2>1, <2>2, Steps DEF Waiters
  <2>4. pc' \in StepsOf(kind) /\ ~Threaded
    BY <2>2, <2>3 DEF StepsOf, Waiters, Threaded
  <2> QED BY <2>1, <2>3, <2>4, Zenon DEF Threaded
<1>2. CASE Poll
  <2>1. /\ pc \in {"sleep", "check"}
        /\ UNCHANGED <<kind, queue, sent, reg, sig, setups, drains, got, lost>>
    BY <1>2 DEF Poll
  <2>2. kind = "poll"
    BY <2>1 DEF StepsOf
  <2>3. \/ pc' = "check" /\ gotSig' = gotSig
        \/ gotSig /\ gotSig' = FALSE /\ pc' = "notify"
        \/ pc' = "sleep" /\ gotSig' = gotSig
    BY <1>2, <2>2, Steps DEF Poll, Then
  <2>4. pc' \in StepsOf(kind) /\ ~Threaded
    BY <2>2, <2>3 DEF StepsOf, Threaded
  <2>5. CASE gotSig' = gotSig /\ pc' # "notify" /\ pc' \in {"check", "sleep"}
    BY <2>1, <2>2, <2>4, <2>5 DEF Threaded, Waiters
  <2>6. CASE gotSig /\ gotSig' = FALSE /\ pc' = "notify"
    BY <2>1, <2>2, <2>4, <2>6, Zenon DEF Threaded, Waiters
  <2> QED BY <2>3, <2>5, <2>6, Zenon
<1> QED BY <1>1, <1>2

\* The thread that a notification starts registers and drains by itself.
LEMMA NoteThreadInv ==
  ASSUME WaitInv, threadFunc
  PROVE  WaitInv'
<1> USE DEF WaitInv
<1>1. UNCHANGED <<kind, sent, sig, gotSig, lost>>
  BY DEF threadFunc
<1>2. Threaded /\ pc # "first" /\ pc # "notify" /\ pc # "wait" /\ kind \notin Waiters
  <2>1. setups > 0 \/ drains > 0
    BY DEF threadFunc
  <2>2. Threaded /\ pc # "first"
    BY <2>1
  <2> QED BY <2>2 DEF Threaded, StepsOf, Waiters
<1>3. CASE setups > 0 /\ setups' = setups - 1 /\ mq_notify(drains' = drains + 1 /\ UNCHANGED pc, pc' = "busy" /\ UNCHANGED drains)
  <2>1. ~reg /\ setups = 1
    BY <1>2, <1>3
  <2>2. reg' = TRUE /\ drains' = drains + 1 /\ pc' = pc /\ setups' = 0
    BY <1>3, <2>1 DEF mq_notify
  <2>3. drains' # 0 /\ drains' \in Nat
    BY <2>2
  <2> QED BY <1>1, <1>2, <2>2, <2>3 DEF Threaded
<1>4. CASE drains > 0 /\ UNCHANGED <<setups, reg, pc>>
  <2>1. CASE queue # <<>>
    <3>1. drains' = drains
      BY <1>4, <2>1 DEF threadFunc
    <3> QED BY <1>1, <1>2, <1>4, <3>1 DEF Threaded
  <2>2. CASE queue = <<>>
    <3>1. drains' = drains - 1 /\ queue' = queue
      BY <1>4, <2>2 DEF threadFunc
    <3>2. drains' \in Nat
      BY <1>4, <3>1
    <3> QED BY <1>1, <1>2, <1>4, <2>2, <3>1, <3>2 DEF Threaded
  <2> QED BY <2>1, <2>2
<1> QED BY <1>3, <1>4 DEF threadFunc

\* No program of them waits for a notification that cannot come, fails
\* because it is registered already, or reads a message twice or out of turn,
\* whatever the number of messages and of those there at the start.
THEOREM NotifyMissesNone ==
  Early \in Nat => (Spec_notify => []NoneMissed)
<1> SUFFICES ASSUME Early \in Nat
             PROVE  Spec_notify => []NoneMissed
  OBVIOUS
<1>1. Init_notify => LogInv /\ WaitInv
  BY NoteInitInv
<1>2. LogInv /\ WaitInv /\ [Next_notify]_vars_notify => LogInv' /\ WaitInv'
  <2> SUFFICES ASSUME LogInv, WaitInv, [Next_notify]_vars_notify
               PROVE  LogInv' /\ WaitInv'
    OBVIOUS
  <2>1. CASE mq_send
    BY <2>1, NoteSendLog, NoteSendInv
  <2>2. CASE handler
    <3>1. LogInv'
      BY <2>2 DEF handler, LogInv
    <3> QED BY <2>2, <3>1, NoteHandlerInv
  <2>3. CASE threadFunc
    <3>1. sent' = sent /\ (UNCHANGED <<queue, got>> \/ (queue # <<>> /\ Receive_notify))
      BY <2>3 DEF threadFunc
    <3>2. LogInv'
      BY <3>1, NoteReceiveLog, Zenon DEF LogInv
    <3> QED BY <2>3, <3>2, NoteThreadInv
  <2>4. CASE Register
    <3>1. LogInv'
      BY <2>4 DEF Register, LogInv
    <3> QED BY <2>4, <3>1, NoteRegisterInv
  <2>5. CASE Drain
    <3>1. sent' = sent /\ (UNCHANGED <<queue, got>> \/ (queue # <<>> /\ Receive_notify))
      BY <2>5 DEF Drain
    <3>2. LogInv'
      BY <3>1, NoteReceiveLog, Zenon DEF LogInv
    <3> QED BY <2>5, <3>2, NoteDrainInv
  <2>6. CASE Wait \/ Poll
    <3>1. LogInv'
      BY <2>6, Zenon DEF Wait, Poll, LogInv
    <3> QED BY <2>6, <3>1, NoteWaitInv
  <2>7. CASE UNCHANGED vars_notify
    BY <2>7 DEF vars_notify, LogInv, WaitInv, Threaded
  <2> QED BY <2>1, <2>2, <2>3, <2>4, <2>5, <2>6, <2>7 DEF Next_notify, Handlers, Main
<1>3. LogInv /\ WaitInv => NoneMissed
  <2> SUFFICES ASSUME LogInv, WaitInv
               PROVE  NoneMissed
    OBVIOUS
  <2>1. pc # "busy"
    BY DEF WaitInv, StepsOf
  <2>2. got = [i \in 1..Len(got) |-> i]
    BY DEF LogInv
  <2>3. ASSUME Waiting, ~lost
        PROVE  queue = <<>> /\ reg
    <3>1. pc \in {"wait", "pause"} /\ ~sig /\ setups = 0 /\ drains = 0
      BY <2>3 DEF Waiting
    <3>2. pc = "wait" => kind \in Waiters
      BY DEF WaitInv, StepsOf, Waiters
    <3>3. pc = "pause" => Threaded
      BY DEF WaitInv, StepsOf, Threaded
    <3>4. reg
      BY <2>3, <3>1, <3>2, <3>3 DEF WaitInv
    <3> QED BY <2>3, <3>1, <3>4 DEF WaitInv
  <2> QED BY <2>1, <2>2, <2>3 DEF NoneMissed
<1> QED BY <1>1, <1>2, <1>3, PTL DEF Spec_notify
=============================================================================
