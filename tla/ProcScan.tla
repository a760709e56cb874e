------------------------------ MODULE ProcScan ------------------------------
(***************************************************************************)
(* Exercises 12-01, 12-02 and 12-03 and the program of the book that they  *)
(* start from: programs that walk through /proc while processes come and   *)
(* go.                                                                     *)
(*   12-01, procfs_user_exe  list the processes of a user                  *)
(*   12-02  draws the tree of all processes                                *)
(*   12-03  lists the processes that have a file open                      *)
(* A process is its parent and whether it matches: is of that user, has    *)
(* that file open.  Process 1 is there for ever, its parent is 0.  There   *)
(* are fewer processes than elements in the array of 12-02 (maxpid()), so  *)
(* its limit, "i > size", is not met.                                      *)
(***************************************************************************)
EXTENDS Naturals, Sequences

CONSTANTS
  Prog,      \* which of the four
  N,         \* process ids are 1..N
  Matches,   \* BOOLEAN, or {TRUE} where matching does not matter
  Gone       \* no process

Pids == 1..N

VARIABLES
  procs,    \* the processes of the system
  steady,   \* history: those that were there, unchanged, since opendir()
  batch,    \* process directories that readdir() still has to return
  pos,      \* the last one returned
  phase,    \* "start", "readdir", "match", "open", "read", "show" or "done"
  lives,    \* the process whose status file is open still exists
  buf,      \* the status that was read last, Gone for none
  list      \* what is shown (12-01, 12-03) or kept for the tree (12-02)

vars_12 == <<procs, steady, batch, pos, phase, lives, buf, list>>
scan == <<batch, pos, phase, buf, list>>

Process == [ppid : 0..N, match : Matches]
Status == [pid : Pids, ppid : 0..N, match : Matches]

TypeOK_12 ==
  /\ procs \in [Pids -> Process \cup {Gone}]
  /\ steady \subseteq Pids /\ batch \subseteq Pids /\ pos \in 0..N
  /\ phase \in {"start", "readdir", "match", "open", "read", "show", "done"}
  /\ lives \in BOOLEAN /\ buf \in Status \cup {Gone}
  /\ list \in Seq([dir : Pids, status : Status \cup {Gone}]) /\ Len(list) <= N

Alive == {p \in Pids : procs[p] # Gone}

Init_12 ==
  /\ procs = [p \in Pids |-> IF p = 1 THEN [ppid |-> 0, match |-> TRUE] ELSE Gone]
  /\ steady = {} /\ batch = {} /\ pos = 0 /\ phase = "start"
  /\ lives = FALSE /\ buf = Gone /\ list = <<>>

-----------------------------------------------------------------------------
(* The other processes                                                     *)

Fork(q, p) ==
  /\ q \in Alive /\ p \notin Alive /\ phase # "done"
  /\ \E m \in Matches : procs' = [procs EXCEPT ![p] = [ppid |-> q, match |-> m]]
  /\ UNCHANGED <<steady, lives, scan>>

\* p ends and is waited for; process 1 becomes the parent of its children
Exit_12(p) ==
  /\ p \in Alive \ {1} /\ phase # "done"
  /\ LET orphans == {c \in Alive : procs[c].ppid = p} IN
       /\ procs' = [c \in Pids |-> IF c = p THEN Gone
                                   ELSE IF c \in orphans THEN [procs[c] EXCEPT !.ppid = 1]
                                   ELSE procs[c]]
       /\ steady' = steady \ (orphans \cup {p})
  /\ lives' = (lives /\ pos # p)
  /\ UNCHANGED scan

-----------------------------------------------------------------------------
(* The program                                                             *)

\* opendir("/proc")
Start ==
  /\ phase = "start"
  /\ steady' = Alive /\ phase' = "readdir"
  /\ UNCHANGED <<procs, batch, pos, lives, buf, list>>

\* readdir() has names left, or gets the next ones, in the order of the ids
Readdir ==
  /\ phase = "readdir"
  /\ \/ /\ batch # {}
        /\ pos' = CHOOSE p \in batch : \A q \in batch : p <= q
        /\ batch' = batch \ {pos'}
        /\ phase' = IF Prog = "12-03" THEN "match" ELSE "open"
     \/ /\ batch = {} /\ \E k \in Pids : batch' = {p \in Alive : pos < p /\ p <= k} /\ batch' # {}
        /\ UNCHANGED <<pos, phase>>
     \/ /\ batch = {} /\ \A p \in Alive : p <= pos
        /\ phase' = "show" /\ UNCHANGED <<pos, batch>>
  /\ UNCHANGED <<procs, steady, lives, buf, list>>

\* fdfproc(): a descriptor of the process is a link to the file; a descriptor
\* that is closed between readdir() and readlink() ends the search
fdfproc ==
  /\ phase = "match"
  /\ \/ /\ pos \in Alive /\ procs[pos].match
        /\ phase' = "open" /\ UNCHANGED steady
     \/ /\ phase' = "readdir"
        /\ steady' = IF pos \in Alive /\ procs[pos].match THEN steady \ {pos} ELSE steady
  /\ UNCHANGED <<procs, batch, pos, lives, buf, list>>

\* open() of the status file; when it fails the process is passed over
OpenOr(fails) ==
  /\ phase = "open"
  /\ lives' = (pos \in Alive)
  /\ phase' = IF pos \in Alive THEN "read" ELSE fails
  /\ UNCHANGED <<procs, steady, batch, pos, buf, list>>

\* Mutant of Open: a process that has disappeared ends the scan.
OpenBreaks == OpenOr("show")

Open == OpenOr("readdir")

\* what the functions that search the status file for a tag find in it
Fields(p) == [pid |-> p, ppid |-> procs[p].ppid, match |-> procs[p].match]

Keep(s) == 
  IF Prog \in {"12-01", "procfs_user_exe"} /\ ~s.match THEN list ELSE Append(list, [dir |-> pos, status |-> s])

\* read() and the search of the fields; where an error is not noticed, the
\* fields are those of the status that is still in the buffer
ReadOr(noticed) ==
  /\ phase = "read"
  /\ buf' = IF lives THEN Fields(pos) ELSE buf
  /\ list' = IF lives \/ ~noticed THEN Keep(buf') ELSE list
  /\ phase' = "readdir" /\ lives' = FALSE
  /\ UNCHANGED <<procs, steady, batch, pos>>

\* Mutant of Read: no program notices the error.
ReadBlind == ReadOr(FALSE)

\* 12-01 compares with (size_t) -1; the size_t of the others is never negative
Read == Prog # "procfs_user_exe" /\ ReadOr(Prog = "12-01")

\* a status file without its lines leaves gotName or gotUid FALSE
procfs_user_exe == Prog = "procfs_user_exe" /\ ReadOr(TRUE)

\* 12-02 draws the tree (Drawn) here, the others are done
Show ==
  /\ phase = "show"
  /\ phase' = "done"
  /\ UNCHANGED <<procs, steady, batch, pos, lives, buf, list>>

-----------------------------------------------------------------------------
Next_12 ==
  \/ Start \/ Readdir \/ fdfproc \/ Open \/ Read \/ procfs_user_exe \/ Show
  \/ \E p, q \in Pids : Fork(q, p)
  \/ \E p \in Pids : Exit_12(p)

Spec_12 == Init_12 /\ [][Next_12]_vars_12

-----------------------------------------------------------------------------
Listed == {list[i] : i \in 1..Len(list)}
Statuses == {e.status : e \in Listed} \ {Gone}

\* The list given to ptree() is one element longer than what was kept: the
\* entry of init goes behind an element that nobody wrote, zero as malloc()
\* of an array of this size leaves it.
Unwritten == [pid |-> 0, ppid |-> 0]

\* ptree(): process ids drawn down to a level, from 0 over the kept parents;
\* an element that is its own parent is passed over
Drawn[level \in 0..N] ==
  IF level = 0 THEN {0}
  ELSE Drawn[level-1] \cup {s.pid : s \in {k \in Statuses \cup {Unwritten} :
                                            k.pid # k.ppid /\ k.ppid \in Drawn[level-1]}}

\* processes that, like all their ancestors, did not change during the scan
SteadyLine[level \in 0..N] ==
  IF level = 0 THEN {0}
  ELSE SteadyLine[level-1] \cup {p \in steady \cap Alive : procs[p].ppid \in SteadyLine[level-1]}

\* "Make sure your program correctly handles the possibility that a /proc/PID
\* directory disappears": whatever other processes do, a process that stays
\* as it is during the scan is listed (12-01, 12-03, procfs_user_exe) or, if its ancestors
\* stay too, drawn in the tree (12-02).
SteadyShown ==
  phase = "done" =>
    IF Prog = "12-02" THEN SteadyLine[N] \subseteq Drawn[N]
    ELSE \A p \in steady : procs[p].match => p \in {e.dir : e \in Listed}

\* What is shown for a process directory was read from that directory, and
\* so no process is shown twice.
EntryOfItsProcess == \A e \in Listed : e.status # Gone /\ e.status.pid = e.dir
=============================================================================
