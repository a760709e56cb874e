--------------------------- MODULE ProgramProofs ---------------------------
(***************************************************************************)
(* Safety of programs of a few processes, for all their sizes: the lists   *)
(* of processes of chapter 12, the exchange of signals of 22-03, the       *)
(* sleeps of 23-02 and of the book, locks on parts of a file, the two      *)
(* connections of 61-06, and the children of 27-06.                        *)
(***************************************************************************)
EXTENDS Integers, Sequences, FiniteSets, TLAPS

-----------------------------------------------------------------------------
(* The lists of processes                                                  *)

CONSTANTS Prog, N, Matches, Gone
VARIABLES procs, steady, batch, pos, phase, lives, buf, list
INSTANCE ProcScan
INSTANCE WellFoundedInduction

\* There is process 1, which matches, and the sign for no process is none, nor
\* a status.
ScanConstants ==
  /\ N \in Nat \ {0} /\ TRUE \in Matches
  /\ Gone \notin Process \cup Status

ScanTypes ==
  /\ procs \in [Pids -> Process \cup {Gone}]
  /\ steady \subseteq Pids /\ batch \subseteq Pids /\ pos \in 0..N
  /\ phase \in {"start", "readdir", "match", "open", "read", "show", "done"}
  /\ lives \in BOOLEAN /\ buf \in Status \cup {Gone}
  /\ list \in Seq([dir : Pids, status : Status \cup {Gone}])

Shown(l, p) == \E k \in 1..Len(l) : l[k].dir = p

\* A process that was there at opendir() is reached: it is behind the scan and
\* was shown, it is being looked at, or the scan still comes to it.
Reached(p) ==
  \/ p < pos /\ Shown(list, p)
  \/ p = pos /\ phase \in {"match", "open"}
  \/ p = pos /\ phase = "read" /\ lives
  \/ p = pos /\ phase \in {"readdir", "show", "done"} /\ Shown(list, p)
  \/ p > pos /\ phase \in {"readdir", "match", "open", "read"}

\* What readdir() has not returned of one block comes before the rest.
Ahead(p) == p > pos => batch = {} \/ p \in batch \/ \A q \in batch : q < p

\* The inductive invariant for SteadyShown of the programs that list.
ScanInv ==
  /\ ScanTypes
  /\ phase = "start" => steady = {} /\ batch = {} /\ pos = 0
  /\ phase \in {"match", "open", "read"} => pos \in Pids
  /\ phase = "read" /\ lives => procs[pos] # Gone
  /\ \A q \in batch : pos < q
  /\ \A p \in steady : procs[p] # Gone /\ (procs[p].match => Reached(p) /\ Ahead(p))

\* The least process of a block.
LEMMA LeastExists ==
  ASSUME NEW S \in SUBSET Nat, S # {}
  PROVE  \E p \in S : \A q \in S : p <= q
<1> DEFINE R == {ss \in Nat \X Nat : ss[1] < ss[2]}
<1>1. IsWellFoundedOn(R, Nat)
  BY NatLessThanWellFounded DEF OpToRel
<1>2. \A x, y \in Nat : ~(<<y, x>> \in R) => x <= y
  OBVIOUS
<1> HIDE DEF R
<1>3. \E x \in S : \A y \in S : ~(<<y, x>> \in R)
  BY <1>1, WFMin, Zenon
<1> QED BY <1>2, <1>3, Zenon

\* What is shown stays shown.
LEMMA StaysShown ==
  ASSUME NEW T, NEW l \in Seq(T), NEW e \in T
  PROVE  Shown(Append(l, e), e.dir) /\ \A p : Shown(l, p) => Shown(Append(l, e), p)
<1>1. /\ Len(Append(l, e)) = Len(l) + 1 /\ Len(l) \in Nat
      /\ \A k \in 1..Len(l) : Append(l, e)[k] = l[k]
      /\ Append(l, e)[Len(l) + 1] = e
  OBVIOUS
<1> QED BY <1>1 DEF Shown

\* The other processes start and end.
LEMMA ScanOthersInv ==
  ASSUME ScanConstants, ScanInv, NEW p \in Pids, NEW q \in Pids, Fork(q, p) \/ Exit_12(p)
  PROVE  ScanInv'
<1>1. UNCHANGED <<batch, pos, phase, buf, list>>
  BY DEF Fork, Exit_12, scan
<1>2. 1 \in 0..N /\ Pids \subseteq 0..N
  BY DEF ScanConstants, Pids
<1>3. CASE Fork(q, p)
  <2>1. PICK m \in Matches : procs' = [procs EXCEPT ![p] = [ppid |-> q, match |-> m]]
    BY <1>3, ZenonT(60) DEF Fork
  <2>2. procs[p] = Gone /\ UNCHANGED <<steady, lives>>
    BY <1>3 DEF Fork, Alive
  <2>3. [ppid |-> q, match |-> m] \in Process
    BY <1>2 DEF Process
  <2>4. ScanTypes'
    BY <1>1, <2>1, <2>2, <2>3 DEF ScanInv, ScanTypes
  <2>5. \A x \in Pids : procs[x] # Gone => procs'[x] = procs[x]
    BY <2>1, <2>2, SMTT(30) DEF ScanInv, ScanTypes
  <2>6. \A x \in steady : procs'[x] # Gone /\ (procs'[x].match => Reached(x)' /\ Ahead(x)')
    BY <1>1, <2>2, <2>5, SMTT(60) DEF ScanInv, ScanTypes, Reached, Ahead
  <2>7. phase = "read" /\ lives => procs'[pos] # Gone
    BY <2>5, SMTT(60) DEF ScanInv
  <2> QED BY <1>1, <2>2, <2>4, <2>6, <2>7 DEF ScanInv
<1>4. CASE Exit_12(p)
  <2> DEFINE orphans == {c \in Alive : procs[c].ppid = p}
  <2>1. /\ procs' = [c \in Pids |-> IF c = p THEN Gone
                                        ELSE IF c \in orphans THEN [procs[c] EXCEPT !.ppid = 1]
                                        ELSE procs[c]]
        /\ steady' = steady \ (orphans \cup {p}) /\ lives' = (lives /\ pos # p)
    BY <1>4 DEF Exit_12
  <2>2. \A c \in orphans : c \in Pids /\ procs[c] \in Process
    BY DEF ScanInv, ScanTypes, Alive
  <2>3. \A c \in orphans : [procs[c] EXCEPT !.ppid = 1] \in Process
    BY <1>2, <2>2 DEF Process
  <2> HIDE DEF orphans
  <2>4. procs' \in [Pids -> Process \cup {Gone}]
    BY <2>1, <2>3 DEF ScanInv, ScanTypes
  <2>5. ScanTypes'
    BY <1>1, <2>1, <2>4 DEF ScanInv, ScanTypes
  <2>6. \A x \in steady' : x \in steady /\ x # p /\ procs'[x] = procs[x]
    BY <2>1 DEF ScanInv, ScanTypes
  <2>7. \A x \in steady' : x = pos /\ lives => lives'
    BY <2>1, ZenonT(30)
  <2>8. \A x \in steady' : procs'[x] # Gone /\ (procs'[x].match => Reached(x)' /\ Ahead(x)')
    BY <1>1, <2>6, <2>7 DEF ScanInv, Reached, Ahead
  <2>9. phase = "read" /\ lives' => procs'[pos] # Gone
    <3> SUFFICES ASSUME phase = "read", lives' PROVE procs'[pos] # Gone
      OBVIOUS
    <3>1. pos \in Pids /\ pos # p /\ procs[pos] # Gone
      BY <2>1, Zenon DEF ScanInv
    <3>2. procs'[pos] = IF pos \in orphans THEN [procs[pos] EXCEPT !.ppid = 1] ELSE procs[pos]
      BY <2>1, <3>1
    <3> QED BY <2>3, <3>1, <3>2 DEF ScanConstants
  <2>10. /\ phase = "start" => steady' = {} /\ batch = {} /\ pos = 0
         /\ phase \in {"match", "open", "read"} => pos \in Pids
         /\ \A y \in batch : pos < y
    BY <2>1 DEF ScanInv
  <2> QED BY <1>1, <2>5, <2>8, <2>9, <2>10 DEF ScanInv
<1> QED BY <1>3, <1>4

\* readdir() returns a process, reads the next block, or is at the end.
LEMMA ScanReaddirInv == ASSUME ScanConstants, ScanInv, Readdir PROVE ScanInv'
<1>1. phase = "readdir" /\ UNCHANGED <<procs, steady, lives, buf, list>>
  BY DEF Readdir
<1>2. /\ Pids \subseteq Nat /\ Pids \subseteq 0..N /\ pos \in Nat
      /\ batch \subseteq Pids /\ steady \subseteq Pids
  BY DEF Pids, ScanInv, ScanTypes, ScanConstants
<1>3. CASE /\ batch # {} /\ pos' = CHOOSE p \in batch : \A q \in batch : p <= q
           /\ batch' = batch \ {pos'} /\ phase' = IF Prog = "12-03" THEN "match" ELSE "open"
  <2>1. batch \in SUBSET Nat
    BY <1>2
  <2>2. \E p \in batch : \A q \in batch : p <= q
    BY <1>3, <2>1, LeastExists
  <2>3. PICK r \in batch : r = pos' /\ \A q \in batch : r <= q
    BY <1>3, <2>2
  <2>4. phase' \in {"match", "open"} /\ batch' = batch \ {r} /\ pos < r /\ r \in Pids
    BY <1>2, <1>3, <2>3, Zenon DEF ScanInv
  <2>5. \A q \in batch' : r < q
    BY <1>2, <2>3, <2>4
  <2>6. ASSUME NEW p \in steady, Reached(p), Ahead(p) PROVE Reached(p)' /\ Ahead(p)'
    <3>1. p \in Nat /\ r \in Nat
      BY <1>2
    <3>2. p <= pos => p < r /\ Shown(list, p)
      BY <1>1, <1>2, <2>4, <2>6, <3>1 DEF Reached
    <3>3. p > pos => p \in batch \/ \A q \in batch : q < p
      BY <1>3, <2>6 DEF Ahead
    <3>4. p < r => Shown(list, p)
      BY <1>2, <2>3, <3>1, <3>2, <3>3
    <3>5. p > r => p \in batch' \/ \A q \in batch' : q < p
      BY <1>2, <2>3, <2>4, <3>1, <3>2, <3>3
    <3>6. p < r \/ p = r \/ p > r
      BY <3>1
    <3>7. Reached(p)'
      BY <1>1, <2>3, <2>4, <3>4, <3>6 DEF Reached
    <3>8. Ahead(p)'
      BY <2>3, <3>5 DEF Ahead
    <3> QED BY <3>7, <3>8
  <2>7. ScanTypes'
    BY <1>1, <1>2, <2>3, <2>4 DEF ScanInv, ScanTypes
  <2> QED BY <1>1, <2>3, <2>4, <2>5, <2>6, <2>7 DEF ScanInv
<1>4. CASE /\ batch = {} /\ UNCHANGED <<pos, phase>>
           /\ \E k \in Pids : batch' = {p \in Alive : pos < p /\ p <= k} /\ batch' # {}
  <2>1. PICK k \in Pids : batch' = {p \in Alive : pos < p /\ p <= k}
    BY <1>4
  <2>2. ScanTypes' /\ \A q \in batch' : pos < q
    BY <1>1, <1>4, <2>1, SMTT(60) DEF ScanInv, ScanTypes, Alive
  <2>3. \A p \in steady : procs[p] # Gone => Ahead(p)'
    BY <1>1, <1>2, <1>4, <2>1 DEF Ahead, Alive
  <2>4. \A p \in steady : Reached(p) => Reached(p)'
    BY <1>1, <1>4 DEF Reached
  <2> QED BY <1>1, <1>4, <2>2, <2>3, <2>4 DEF ScanInv
<1>5. CASE /\ batch = {} /\ \A p \in Alive : p <= pos
           /\ phase' = "show" /\ UNCHANGED <<pos, batch>>
  <2>1. \A p \in steady : p \in Nat /\ (procs[p] # Gone => p <= pos)
    BY <1>2, <1>5 DEF Alive
  <2>2. \A p \in steady : procs[p] # Gone /\ Reached(p) => Reached(p)' /\ Ahead(p)'
    BY <1>1, <1>2, <1>5, <2>1 DEF Reached, Ahead
  <2> QED BY <1>1, <1>5, <2>2 DEF ScanInv, ScanTypes
<1> QED BY <1>3, <1>4, <1>5 DEF Readdir

\* opendir(), fdfproc(), open() and the end.
LEMMA ScanOpenInv ==
  ASSUME ScanConstants, ScanInv, Start \/ fdfproc \/ Open \/ Show
  PROVE  ScanInv'
<1>1. UNCHANGED <<procs, batch, pos, buf, list>>
  BY DEF Start, fdfproc, Open, OpenOr, Show
<1>2. Pids \subseteq Nat /\ pos \in Nat /\ steady \subseteq Pids /\ \A p \in Pids : p > 0
  BY SMTT(60) DEF Pids, ScanInv, ScanTypes, ScanConstants
<1>3. CASE Start
  BY <1>1, <1>2, <1>3, SMTT(60) DEF Start, Alive, ScanInv, ScanTypes, Reached, Ahead
<1>4. CASE fdfproc
  <2>1. phase = "match" /\ phase' \in {"open", "readdir"} /\ steady' \subseteq steady /\ lives' = lives
    BY <1>4, SMTT(60) DEF fdfproc
  <2>2. phase' = "readdir" /\ pos \in steady' => ~procs[pos].match
    BY <1>2, <1>4 DEF fdfproc, Alive, ScanInv
  <2>3. \A p \in steady' : procs[p].match => Reached(p)' /\ Ahead(p)'
    BY <1>1, <1>2, <2>1, <2>2, SMTT(60) DEF ScanInv, Reached, Ahead
  <2> QED BY <1>1, <2>1, <2>3 DEF ScanInv, ScanTypes
<1>5. CASE Open
  <2>1. /\ phase = "open" /\ lives' = (pos \in Alive) /\ steady' = steady
        /\ phase' = IF pos \in Alive THEN "read" ELSE "readdir"
    BY <1>5 DEF Open, OpenOr
  <2>2. pos \in steady => pos \in Alive
    BY <1>2 DEF ScanInv, Alive
  <2>3. \A p \in steady : Reached(p) => Reached(p)'
    BY <1>1, <1>2, <2>1, <2>2, Zenon DEF Reached
  <2>4. \A p \in steady : Ahead(p) => Ahead(p)'
    BY <1>1 DEF Ahead
  <2>5. phase' = "read" => procs[pos] # Gone
    BY <2>1 DEF Alive
  <2> QED BY <1>1, <2>1, <2>3, <2>4, <2>5, SMTT(60) DEF ScanInv, ScanTypes
<1>6. CASE Show
  BY <1>1, <1>2, <1>6, SMTT(30) DEF Show, ScanInv, ScanTypes, Reached, Ahead
<1> QED BY <1>3, <1>4, <1>5, <1>6

\* The status is read and kept.
LEMMA ScanReadInv ==
  ASSUME ScanConstants, ScanInv, NEW n \in BOOLEAN, ReadOr(n),
         n \/ Prog \notin {"12-01", "procfs_user_exe"}
  PROVE  ScanInv'
<1> DEFINE Entries == [dir : Pids, status : Status \cup {Gone}]
<1>1. /\ phase = "read" /\ phase' = "readdir" /\ lives' = FALSE /\ UNCHANGED <<procs, steady, batch, pos>>
      /\ buf' = IF lives THEN Fields(pos) ELSE buf
      /\ list' = IF lives \/ ~n THEN Keep(buf') ELSE list
  BY DEF ReadOr
<1>2. pos \in Pids /\ pos \in Nat /\ Pids \subseteq Nat /\ steady \subseteq Pids
  BY <1>1, SMTT(30) DEF Pids, ScanInv, ScanTypes, ScanConstants
<1>3. lives => Fields(pos) \in Status /\ Fields(pos).match = procs[pos].match
  <2> SUFFICES ASSUME lives
               PROVE  Fields(pos) \in Status /\ Fields(pos).match = procs[pos].match
    OBVIOUS
  <2>1. procs[pos] \in Process
    BY <1>1, <1>2 DEF ScanInv, ScanTypes
  <2> QED BY <1>2, <2>1 DEF Process, Status, Fields
<1>4. buf' \in Status \cup {Gone}
  BY <1>1, <1>3 DEF ScanInv, ScanTypes
<1>5. PICK e : e = [dir |-> pos, status |-> buf']
  BY Zenon
<1>6. e \in Entries /\ e.dir = pos
  BY <1>2, <1>4, <1>5
<1>7. list \in Seq(Entries)
  BY DEF ScanInv, ScanTypes
<1>8. list' \in {list, Append(list, e)}
  BY <1>1, <1>5 DEF Keep
<1>9. lives /\ procs[pos].match => list' = Append(list, e)
  BY <1>1, <1>3, <1>5, Zenon DEF Keep
<1> HIDE DEF Entries
<1>10. list' \in Seq(Entries)
  BY <1>6, <1>7, <1>8
<1>11. /\ Shown(Append(list, e), pos) /\ \A p : Shown(list, p) => Shown(Append(list, e), p)
  BY <1>6, <1>7, StaysShown
<1>12. \A p \in steady : procs[p].match /\ Reached(p) => Reached(p)'
  BY <1>1, <1>2, <1>8, <1>9, <1>11, Zenon DEF Reached
<1>13. \A p \in steady : Ahead(p) => Ahead(p)'
  BY <1>1 DEF Ahead
<1>14. ScanTypes'
  BY <1>1, <1>4, <1>10, Zenon DEF ScanInv, ScanTypes, Entries
<1> QED BY <1>1, <1>12, <1>13, <1>14 DEF ScanInv

\* Every step keeps the invariant.
LEMMA ScanNext == ScanConstants /\ ScanInv /\ [Next_12]_vars_12 => ScanInv'
<1> SUFFICES ASSUME ScanConstants, ScanInv, [Next_12]_vars_12 PROVE ScanInv'
  OBVIOUS
<1>1. CASE Start \/ fdfproc \/ Open \/ Show
  BY <1>1, ScanOpenInv
<1>2. CASE Readdir
  BY <1>2, ScanReaddirInv
<1>3. CASE Read
  <2>1. Prog # "procfs_user_exe" /\ ReadOr(Prog = "12-01")
    BY <1>3 DEF Read
  <2>2. CASE Prog = "12-01"
    <3>1. ReadOr(TRUE)
      BY <2>1, <2>2
    <3> QED BY <3>1, ScanReadInv, Zenon
  <2>3. CASE Prog # "12-01"
    <3>1. ReadOr(FALSE)
      BY <2>1, <2>3
    <3> QED BY <2>1, <2>3, <3>1, ScanReadInv, Zenon
  <2> QED BY <2>2, <2>3
<1>4. CASE procfs_user_exe
  <2>1. ReadOr(TRUE)
    BY <1>4 DEF procfs_user_exe
  <2> QED BY <2>1, ScanReadInv, Zenon
<1>5. CASE \E p, q \in Pids : Fork(q, p)
  BY <1>5, ScanOthersInv
<1>6. CASE \E p \in Pids : Exit_12(p)
  BY <1>6, ScanOthersInv, SMTT(60)
<1>7. CASE UNCHANGED vars_12
  BY <1>7 DEF vars_12, ScanInv, ScanTypes, Reached, Ahead
<1> QED BY <1>1, <1>2, <1>3, <1>4, <1>5, <1>6, <1>7 DEF Next_12

\* The first state.
LEMMA ScanInit == ScanConstants /\ Init_12 => ScanInv
<1> SUFFICES ASSUME ScanConstants, Init_12 PROVE ScanInv
  OBVIOUS
<1>1. 0 \in 0..N
  BY DEF ScanConstants
<1>2. \A a \in 0..N, m \in Matches : [ppid |-> a, match |-> m] \in Process
  BY DEF Process
<1>3. PICK one \in Process : one = [ppid |-> 0, match |-> TRUE]
  BY <1>1, <1>2, Zenon DEF ScanConstants
<1>4. procs = [p \in Pids |-> IF p = 1 THEN one ELSE Gone]
  BY <1>3, Zenon DEF Init_12
<1>5. procs \in [Pids -> Process \cup {Gone}]
  BY <1>4
<1>6. /\ steady = {} /\ batch = {} /\ pos = 0 /\ phase = "start"
      /\ lives = FALSE /\ buf = Gone /\ list = <<>>
  BY DEF Init_12
<1>7. pos \in 0..N /\ list \in Seq([dir : Pids, status : Status \cup {Gone}])
  BY <1>1, <1>6
<1>8. ScanTypes
  BY <1>5, <1>6, <1>7, Zenon DEF ScanTypes
<1> QED BY <1>6, <1>8 DEF ScanInv

\* 12-01, 12-03 and procfs_user_exe, for any number of process ids: whatever
\* other processes do between opendir() and the end, a process that matches
\* and stays as it is during the scan is in the list.
THEOREM SteadyAlwaysListed ==
  ScanConstants /\ Prog # "12-02" => (Spec_12 => []SteadyShown)
<1> SUFFICES ASSUME ScanConstants, Prog # "12-02" PROVE Spec_12 => []SteadyShown
  OBVIOUS
<1>1. Init_12 => ScanInv
  BY ScanInit
<1>2. ScanInv /\ [Next_12]_vars_12 => ScanInv'
  BY ScanNext
<1>3. ScanInv => SteadyShown
  <2> SUFFICES ASSUME ScanInv, phase = "done", NEW p \in steady, procs[p].match
               PROVE  p \in {e.dir : e \in Listed}
    BY DEF SteadyShown
  <2>1. Shown(list, p)
    BY DEF ScanInv, Reached
  <2> QED BY <2>1 DEF Shown, Listed
<1> QED BY <1>1, <1>2, <1>3, PTL DEF Spec_12

\* The list holds what was read from the directory it was read for.
EntriesInv == ScanInv /\ EntryOfItsProcess

\* 12-01 and procfs_user_exe, which notice that a process has ended between
\* open() and read(), never show one process under the directory of another.
\* (12-02 and 12-03 do.)
THEOREM EntriesOfTheirProcesses ==
  ScanConstants /\ Prog \in {"12-01", "procfs_user_exe"} => (Spec_12 => []EntryOfItsProcess)
<1> SUFFICES ASSUME ScanConstants, Prog \in {"12-01", "procfs_user_exe"}
             PROVE  Spec_12 => []EntryOfItsProcess
  OBVIOUS
<1>1. Init_12 => EntriesInv
  BY ScanInit DEF Init_12, EntriesInv, EntryOfItsProcess, Listed
<1>2. EntriesInv /\ [Next_12]_vars_12 => EntriesInv'
  <2> SUFFICES ASSUME EntriesInv, [Next_12]_vars_12 PROVE EntriesInv'
    OBVIOUS
  <2>1. ScanInv'
    BY ScanNext DEF EntriesInv
  <2>2. CASE UNCHANGED list
    BY <2>1, <2>2 DEF EntriesInv, EntryOfItsProcess, Listed
  <2>3. CASE ReadOr(TRUE)
    <3> DEFINE Entries == [dir : Pids, status : Status \cup {Gone}]
    <3>1. /\ phase = "read" /\ list' = IF lives THEN Keep(buf') ELSE list
          /\ lives => buf' = Fields(pos)
      BY <2>3 DEF ReadOr
    <3>2. CASE lives /\ list' # list
      <4>1. PICK e : e = [dir |-> pos, status |-> Fields(pos)]
        BY Zenon
      <4>2. list' = Append(list, e)
        BY <3>1, <3>2, <4>1 DEF Keep
      <4>3. pos \in Pids /\ procs[pos] \in Process
        BY <3>1, <3>2, SMTT(60) DEF EntriesInv, ScanInv, ScanTypes
      <4>4. Fields(pos) \in Status /\ Fields(pos).pid = pos
        BY <4>3 DEF Process, Status, Fields
      <4>5. e \in Entries /\ e.status # Gone /\ e.status.pid = e.dir
        BY <4>1, <4>3, <4>4 DEF ScanConstants
      <4>6. list \in Seq(Entries)
        BY DEF EntriesInv, ScanInv, ScanTypes
      <4> HIDE DEF Entries
      <4>7. \A k \in 1..Len(Append(list, e)) :
              Append(list, e)[k] = e \/ \E j \in 1..Len(list) : Append(list, e)[k] = list[j]
        BY <4>5, <4>6
      <4> QED BY <2>1, <4>2, <4>5, <4>7 DEF EntriesInv, EntryOfItsProcess, Listed
    <3> QED BY <2>2, <3>1, <3>2
  <2> QED BY <2>2, <2>3, Zenon DEF Next_12, vars_12, scan, Start, Readdir, fdfproc,
            Open, OpenOr, Read, procfs_user_exe, Show, Fork, Exit_12
<1>3. EntriesInv => EntryOfItsProcess
  BY DEF EntriesInv
<1> QED BY <1>1, <1>2, <1>3, PTL DEF Spec_12

-----------------------------------------------------------------------------
(* 22-03                                                                   *)

CONSTANTS StdSigs, RtSigs, Sync, Uncaught, Stops, SIGCONT, Times, nsig, Secs, Fraction, Work, MaxSignals, Children,
          Lockers, Bytes, MaxCommands
VARIABLES pc, blocked, sig_done, pending, queued, nrt, caught, i, kills, kind, carry, now, request, wakeAt,
          worked, signals, child, sigblk, sigchld, waited, held, waits, cmds, on
INSTANCE SignalWaits

Waits(p) == pc[p] \in {"wait", "suspended"}
Done(p) == i[p] + 1 >= nsig

\* One of the two has the turn: the child is to send (1), the parent has its
\* signal (2), is to send (3), or the child has its signal (4), which is one
\* exchange behind then; both are at the end (5).
Turn ==
  \/ pc["child"] = "kill" /\ Waits("parent") /\ pending = {} /\ i["parent"] = i["child"]
  \/ Waits("child") /\ Waits("parent") /\ pending = {"parent"} /\ i["parent"] = i["child"]
  \/ Waits("child") /\ pc["parent"] = "kill" /\ pending = {} /\ i["parent"] = i["child"]
  \/ /\ Waits("child") /\ pending = {"child"} /\ i["parent"] = i["child"] + 1
     /\ IF Done("child") THEN pc["parent"] = "end" ELSE Waits("parent")
  \/ pc["child"] = "end" /\ pc["parent"] = "end" /\ pending = {}

\* The inductive invariant for NoneMerges.
TurnInv ==
  /\ DOMAIN pc = Procs /\ i \in [Procs -> Nat]
  /\ \/ pc["parent"] \in {"fork", "end"} /\ pc["child"] = "none" /\ pending = {} /\ i["parent"] = i["child"]
     \/ Turn

\* Each step of the two gives the turn away or keeps it.
LEMMA TurnNext == nsig \in Nat /\ TurnInv /\ [Next_22_03]_vars_22_03 => TurnInv'
<1> SUFFICES ASSUME nsig \in Nat, TurnInv, [Next_22_03]_vars_22_03 PROVE TurnInv'
  OBVIOUS
<1> USE DEF TurnInv, Turn, Waits, Done, Procs
<1>1. CASE Fork_22_03
  BY <1>1 DEF Fork_22_03
<1>2. CASE Kill("parent")
  BY <1>2 DEF Kill, Kept, Other, Loop
<1>3. CASE Kill("child")
  BY <1>3 DEF Kill, Kept, Other, Loop
<1>4. CASE Suspend("parent") \/ Suspend("child")
  BY <1>4 DEF Suspend
<1>5. CASE Wait_22_03("parent")
  BY <1>5 DEF Wait_22_03, Loop
<1>6. CASE Wait_22_03("child")
  BY <1>6 DEF Wait_22_03, Loop
<1>7. CASE UNCHANGED vars_22_03
  BY <1>7 DEF vars_22_03
<1> QED BY <1>1, <1>2, <1>3, <1>4, <1>5, <1>6, <1>7 DEF Next_22_03, Parent_22_03, Child_22_03, Run

\* 22-03, for any number of signals: however the two processes are scheduled
\* around sigsuspend() or sigwaitinfo(), a signal is never sent while the one
\* before is pending, nor to a process that has ended, so that none is lost
\* although TEST_SIG does not queue.
THEOREM NoSignalMerges == nsig \in Nat => (Spec_22_03 => []NoneMerges)
<1> SUFFICES ASSUME nsig \in Nat PROVE Spec_22_03 => []NoneMerges
  OBVIOUS
<1>1. Init_22_03 => TurnInv
  BY DEF Init_22_03, TurnInv, Procs
<1>2. TurnInv /\ [Next_22_03]_vars_22_03 => TurnInv'
  BY TurnNext
<1>3. TurnInv => NoneMerges
  BY DEF TurnInv, Turn, Waits, Done, NoneMerges, Procs, Other
<1> QED BY <1>1, <1>2, <1>3, PTL DEF Spec_22_03

-----------------------------------------------------------------------------
(* Sleeping on                                                             *)

SleepConstants == Secs \in Nat /\ Fraction \in Nat /\ Work \in Nat

\* By how much work the signals so far have made a relative sleep longer.
Lag == signals * Work

\* The inductive invariant for SleptRight: between two calls the program is
\* not late by more than it has worked; in a call until an absolute time it
\* waits for that time, or not at all; and what remains of a relative sleep is
\* neither too short nor longer than the interruptions have made it.
SleepInv ==
  /\ kind \in Kinds /\ carry \in BOOLEAN /\ pc \in {"ready", "asleep", "done", "error"}
  /\ now \in Nat /\ request \in Nat /\ wakeAt \in Nat /\ worked \in Nat /\ signals \in Nat /\ Lag \in Nat
  /\ worked <= Work
  /\ pc = "ready" /\ Absolute => request = Asked /\ now <= Asked + worked
  /\ pc = "ready" /\ ~Absolute => Asked <= now + request /\ now + request <= Asked + Lag + worked
  /\ pc \in {"asleep", "done"} => now <= wakeAt /\ Asked <= wakeAt
  /\ pc = "asleep" /\ Absolute => request = Asked /\ wakeAt <= Asked + Work /\ (now < wakeAt => wakeAt = Asked)
  /\ pc = "asleep" /\ ~Absolute => wakeAt <= Asked + Lag + Work
  /\ pc = "asleep" => worked = 0
  /\ SleptRight

\* One more signal.
LEMMA LagGrows ==
  ASSUME Work \in Nat, NEW s \in Nat
  PROVE  s * Work \in Nat /\ (s + 1) * Work = s * Work + Work /\ (s + 1) * Work \in Nat
OBVIOUS

\* Every step keeps the invariant.
LEMMA SleepNext == SleepConstants /\ SleepInv /\ [Next_23_02]_vars_23_02 => SleepInv'
<1> SUFFICES ASSUME SleepConstants, SleepInv, [Next_23_02]_vars_23_02 PROVE SleepInv'
  OBVIOUS
<1> USE DEF SleepInv, SleepConstants, Absolute, Asked, Kinds
<1>1. CASE Call
  BY <1>1 DEF Call, SleptRight, Lag
<1>2. CASE Wake
  <2>1. PICK g \in Nat : g = Lag /\ (signals + 1) * Work = g + Work
    BY LagGrows DEF Lag
  <2> QED BY <1>2, <2>1 DEF Wake, SleptRight, Lag
<1>3. CASE Interrupt
  <2>1. PICK g \in Nat : g = Lag /\ (signals + 1) * Work = g + Work
    BY LagGrows DEF Lag
  <2>2. Lag' = g + Work
    BY <1>3, <2>1 DEF Interrupt, Lag
  <2> QED BY <1>3, <2>1, <2>2 DEF Interrupt, SleptRight
<1>4. CASE Tick
  BY <1>4 DEF Tick, SleptRight, Lag
<1>5. CASE UNCHANGED vars_23_02
  BY <1>5 DEF vars_23_02, SleptRight, Lag
<1> QED BY <1>1, <1>2, <1>3, <1>4, <1>5 DEF Next_23_02, Sleeper

\* t_nanosleep, t_clock_nanosleep and 23-02, for any length of the sleep, any
\* number of signals and any work between the calls: no signal makes the sleep
\* shorter; one until an absolute time is late by the work after one call at
\* most, and one for what remains by that much for every signal.
THEOREM SleepsRight == SleepConstants => (Spec_23_02 => []SleptRight)
<1> SUFFICES ASSUME SleepConstants PROVE Spec_23_02 => []SleptRight
  OBVIOUS
<1>1. Init_23_02 => SleepInv
  <2>1. 0 * Work = 0
    BY DEF SleepConstants
  <2> QED BY <2>1 DEF Init_23_02, SleepInv, SleepConstants, Absolute, Asked, Kinds, SleptRight, Lag
<1>2. SleepInv /\ [Next_23_02]_vars_23_02 => SleepInv'
  BY SleepNext
<1>3. SleepInv => SleptRight
  BY DEF SleepInv
<1> QED BY <1>1, <1>2, <1>3, PTL DEF Spec_23_02

-----------------------------------------------------------------------------
(* 61-06                                                                   *)

CONSTANTS Clients, NoClient, MaxNormal
VARIABLES client, queue, parent, pfd, shell, cpc, sender, spc, normal, urgent, passed, strays

Shells == INSTANCE RemoteShells

\* The inductive invariant for UrgentFirst and CantSendAnymore: what was passed
\* over is still there, and the server reads normal data only after a poll()
\* that found nothing else; a write after the close was that of a poll()
\* before it, and no other follows.
ConnInv ==
  /\ passed \in {0, 1} /\ strays \in {0, 1}
  /\ passed = 1 => urgent # <<>> /\ spc \in {"poll", "urgent", "done", "error"}
  /\ strays = 1 => Shells!Closed /\ sender # "write"

\* Every step keeps the invariant.
LEMMA ConnNext == ConnInv /\ [Shells!Next_61_06]_Shells!vars_61_06 => ConnInv'
<1> SUFFICES ASSUME ConnInv, [Shells!Next_61_06]_Shells!vars_61_06 PROVE ConnInv'
  BY SMTT(60)
<1> USE DEF ConnInv, Shells!Closed
<1>1. CASE Shells!Client_61_06 \/ Shells!Interrupt
  BY <1>1, SMTT(60) DEF Shells!Client_61_06, Shells!Interrupt, Shells!Connect_61_06, Shells!Confirm, Shells!ForkSender,
       Shells!SendData, Shells!SendClose, Shells!SendUrgent, Shells!KillSender
<1>2. CASE Shells!Sender
  BY <1>2, SMTT(60) DEF Shells!Sender, Shells!PollSender, Shells!PollSeeing, Shells!WriteNormal
<1>3. CASE Shells!Server
  BY <1>3 DEF Shells!Server, Shells!Hello, Shells!ReadOk, Shells!is_oob, Shells!PollTo, Shells!UrgentReady,
       Shells!ReadNormal, Shells!ReadUrgent
<1>4. CASE UNCHANGED Shells!vars_61_06
  BY <1>4 DEF Shells!vars_61_06
<1> QED BY <1>1, <1>2, <1>3, <1>4 DEF Shells!Next_61_06

\* 61-06, for any size of the buffers: urgent data waits for one read of
\* normal data at most, however fast the child of the client writes, and after
\* the server has closed the connections one write of the child at most is
\* still made, whoever is ended in between.
THEOREM UrgentGoesFirst ==
  Shells!Spec_61_06 => [](Shells!UrgentFirst /\ Shells!CantSendAnymore)
<1>1. Shells!Init_61_06 => ConnInv
  BY DEF Shells!Init_61_06, ConnInv, Shells!Closed
<1>2. ConnInv /\ [Shells!Next_61_06]_Shells!vars_61_06 => ConnInv'
  BY ConnNext
<1>3. ConnInv => Shells!UrgentFirst /\ Shells!CantSendAnymore
  BY DEF ConnInv, Shells!UrgentFirst, Shells!CantSendAnymore
<1> QED BY <1>1, <1>2, <1>3, PTL DEF Shells!Spec_61_06

-----------------------------------------------------------------------------
(* 27-06                                                                   *)

INSTANCE FiniteSetTheorems

Over == {c \in Children : child[c] \in {"zombie", "gone"}}
Collected == {c \in Children : child[c] = "gone"}
\* SIGCHLD that the handler has not seen yet
Due == IF sigchld THEN 1 ELSE 0

\* The inductive invariant for AllWaited: wait() counts the children it
\* collects, and each SIGCHLD caught or pending has a child that has ended.
WaitedInv ==
  /\ pc \in {"block", "fork", "wait", "end", "error"}
  /\ child \in [Children -> {"none", "run", "zombie", "gone"}]
  /\ sigblk \in BOOLEAN /\ sigchld \in BOOLEAN /\ caught \in Nat
  /\ waited = Cardinality(Collected) /\ caught + Due <= Cardinality(Over)
  /\ pc = "block" => caught = 0
  /\ sigblk => caught = 0
  /\ pc \in {"wait", "end"} => \A c \in Children : child[c] # "none"
  /\ pc = "end" => Collected = Children
  /\ sigblk /\ pc = "error" => \E c \in Children : child[c] = "none"

\* The sets that are counted are finite.
LEMMA CountsFinite ==
  ASSUME IsFiniteSet(Children)
  PROVE  /\ IsFiniteSet(Over) /\ Cardinality(Over) \in Nat
         /\ IsFiniteSet(Collected) /\ Cardinality(Collected) \in Nat
<1>1. Over \in SUBSET Children /\ Collected \in SUBSET Children
  BY DEF Over, Collected
<1>2. IsFiniteSet(Over) /\ IsFiniteSet(Collected)
  BY <1>1, FS_Subset
<1> QED BY <1>2, FS_CardinalityType

\* Every step keeps the invariant.
LEMMA WaitedNext == IsFiniteSet(Children) /\ WaitedInv /\ [Next_27_06]_vars_27_06 => WaitedInv'
<1> SUFFICES ASSUME IsFiniteSet(Children), WaitedInv, [Next_27_06]_vars_27_06 PROVE WaitedInv'
  OBVIOUS
<1>1. /\ IsFiniteSet(Over) /\ Cardinality(Over) \in Nat
      /\ IsFiniteSet(Collected) /\ Cardinality(Collected) \in Nat
  BY CountsFinite
<1>2. CASE Setup \/ sighandler
  <2>1. child' = child /\ waited' = waited
    BY <1>2 DEF Setup, sighandler
  <2>2. Over' = Over /\ Collected' = Collected
    BY <2>1 DEF Over, Collected
  <2>3. CASE Setup
    BY <1>1, <2>1, <2>2, <2>3 DEF Setup, WaitedInv, Due
  <2>4. CASE sighandler
    <3>1. /\ pc \in {"fork", "wait"} /\ sigchld /\ ~sigblk /\ sigchld' = FALSE /\ caught' = caught + 1
          /\ pc' \in {pc, "error"} /\ sigblk' = sigblk
      BY <2>4 DEF sighandler
    <3>2. Due = 1 /\ Due' = 0
      BY <3>1 DEF Due
    <3>3. caught' \in Nat /\ caught' + Due' <= Cardinality(Over)
      BY <1>1, <3>1, <3>2 DEF WaitedInv
    <3> QED BY <2>1, <2>2, <3>1, <3>3, Zenon DEF WaitedInv
  <2> QED BY <1>2, <2>3, <2>4
<1>3. CASE Fork_27_06
  <2>1. Over' = Over /\ Collected' = Collected
    BY <1>3 DEF Fork_27_06, Over, Collected, WaitedInv
  <2> QED BY <1>1, <1>3, <2>1 DEF Fork_27_06, WaitedInv, Due
<1>4. CASE \E c \in Children : Exit(c)
  <2>1. PICK c \in Children : Exit(c)
    BY <1>4
  <2>2. Collected' = Collected /\ Over' = Over \cup {c} /\ c \notin Over
    BY <2>1 DEF Exit, WaitedInv, Over, Collected
  <2>3. Cardinality(Over \cup {c}) = Cardinality(Over) + 1
    BY <1>1, <2>2, FS_AddElement, Zenon
  <2> QED BY <1>1, <2>1, <2>2, <2>3 DEF Exit, WaitedInv, Due
<1>5. CASE Wait_27_06
  <2>1. CASE \E c \in Children : /\ child[c] = "zombie" /\ child' = [child EXCEPT ![c] = "gone"]
                                 /\ waited' = waited + 1 /\ UNCHANGED pc
    <3>1. PICK c \in Children : /\ child[c] = "zombie" /\ child' = [child EXCEPT ![c] = "gone"]
                                /\ waited' = waited + 1 /\ UNCHANGED pc
      BY <2>1, Zenon
    <3>2. Over' = Over /\ Collected' = Collected \cup {c} /\ c \notin Collected
      BY <3>1 DEF WaitedInv, Over, Collected
    <3>3. Cardinality(Collected \cup {c}) = Cardinality(Collected) + 1
      BY <1>1, <3>2, FS_AddElement, Zenon
    <3> QED BY <1>1, <1>5, <3>1, <3>2, <3>3 DEF Wait_27_06, WaitWhile, WaitedInv, Due
  <2>2. CASE /\ \A c \in Children : child[c] \notin {"run", "zombie"}
             /\ pc' = "end" /\ UNCHANGED <<child, waited>>
    <3>1. Over' = Over /\ Collected' = Collected
      BY <2>2 DEF Over, Collected
    <3>2. Collected = Children
      BY <1>5, <2>2 DEF Wait_27_06, WaitWhile, WaitedInv, Collected
    <3> QED BY <1>1, <1>5, <2>2, <3>1, <3>2 DEF Wait_27_06, WaitWhile, WaitedInv, Due
  <2> QED BY <1>5, <2>1, <2>2 DEF Wait_27_06, WaitWhile
<1>6. CASE UNCHANGED vars_27_06
  BY <1>6 DEF vars_27_06, WaitedInv, Over, Collected, Due
<1> QED BY <1>2, <1>3, <1>4, <1>5, <1>6 DEF Next_27_06, Parent_27_06, Child_27_06

\* 27-06, for any finite number of children: a parent that ends in success has
\* waited for all of them, whichever SIGCHLDs merge or are taken by the
\* handler; with -b no handler runs and only a failing fork() is an error; and
\* the handler is not called more often than children have ended.
THEOREM ChildrenAllWaited == IsFiniteSet(Children) => (Spec_27_06 => []AllWaited)
<1> SUFFICES ASSUME IsFiniteSet(Children) PROVE Spec_27_06 => []AllWaited
  OBVIOUS
<1>1. Init_27_06 => WaitedInv
  <2> SUFFICES ASSUME Init_27_06 PROVE WaitedInv
    OBVIOUS
  <2>1. Over = {} /\ Collected = {}
    BY DEF Init_27_06, Over, Collected
  <2>2. Cardinality(Over) = 0 /\ Cardinality(Collected) = 0
    BY <2>1, FS_EmptySet
  <2>3. Due = 0
    BY DEF Init_27_06, Due
  <2>4. waited = Cardinality(Collected) /\ caught + Due <= Cardinality(Over)
    BY <2>2, <2>3 DEF Init_27_06
  <2>5. child \in [Children -> {"none", "run", "zombie", "gone"}]
    BY DEF Init_27_06
  <2>6. ~sigblk /\ sigblk \in BOOLEAN /\ sigchld \in BOOLEAN
    BY Zenon DEF Init_27_06
  <2> QED BY <2>4, <2>5, <2>6 DEF Init_27_06, WaitedInv
<1>2. WaitedInv /\ [Next_27_06]_vars_27_06 => WaitedInv'
  BY WaitedNext
<1>3. WaitedInv => AllWaited
  <2> SUFFICES ASSUME WaitedInv PROVE AllWaited
    OBVIOUS
  <2>1. Cardinality(Over) \in Nat
    BY CountsFinite
  <2>2. caught <= Cardinality(Over)
    BY <2>1 DEF WaitedInv, Due
  <2> QED BY <2>2 DEF WaitedInv, AllWaited, Over
<1> QED BY <1>1, <1>2, <1>3, PTL DEF Spec_27_06
=============================================================================
