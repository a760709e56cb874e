---------------------------- MODULE LibraryCalls ----------------------------
(***************************************************************************)
(* Exercises 06-03, 14-01, 27-02 and 44-02: functions of the C library     *)
(* written anew, setenv(), execlp() and popen(), and the making and removing*)
(* of files.  The programs share no state; the names of each end in its    *)
(* number.                                                                 *)
(***************************************************************************)
EXTENDS Integers, Sequences, FiniteSets, FiniteSetsExt

-----------------------------------------------------------------------------
(***************************************************************************)
(* setenv() and unsetenv() of proc/setenv.c and of 06-03.c, on top of      *)
(* getenv() and putenv(), in an environment that may define a name twice.  *)
(* environ is the list up to the first NULL, which is what getenv(),       *)
(* putenv() and a new program see of it.                                   *)
(***************************************************************************)
CONSTANTS Names, Values, MaxVars,   \* bound: variables at the start
          MaxCalls                  \* bound: calls

VARIABLES kind, environ, want, calls
vars_06_03 == <<kind, environ, want, calls>>

Unset == "none"
Entries == [name : Names, value : Values]
Lists == UNION {[1..n -> Entries] : n \in 0..MaxVars}
TypeOK_06_03 ==
  /\ kind \in {"setenv", "06-03"} /\ environ \in Seq(Entries) /\ Len(environ) <= MaxVars + MaxCalls
  /\ want \in [Names -> Values \cup {Unset}] /\ calls \in 0..MaxCalls

Places(env, n) == {a \in DOMAIN env : env[a].name = n}
First(env, n) == CHOOSE a \in Places(env, n) : \A b \in Places(env, n) : a <= b
getenv(env, n) == IF Places(env, n) = {} THEN Unset ELSE env[First(env, n)].value
putenv(env, n, v) ==
  LET e == [name |-> n, value |-> v] IN
  IF Places(env, n) = {} THEN Append(env, e) ELSE [env EXCEPT ![First(env, n)] = e]

Init_06_03 ==
  /\ kind \in {"setenv", "06-03"} /\ environ \in Lists /\ calls = 0
  /\ want = [n \in Names |-> getenv(environ, n)]

\* setenv.c moves the rest of the list down over every definition
unset_first(env, n) ==
  IF Places(env, n) = {} THEN env ELSE SubSeq(env, 1, First(env, n) - 1) \o SubSeq(env, First(env, n) + 1, Len(env))
unset(env, n) == SelectSeq(env, LAMBDA e : e.name # n)
\* 06-03.c puts NULL in the place of each, so that the list ends at the first
unset_06_03(env, n) == IF Places(env, n) = {} THEN env ELSE SubSeq(env, 1, First(env, n) - 1)
unsetenv(n) ==
  /\ environ' = IF kind = "setenv" THEN unset(environ, n) ELSE unset_06_03(environ, n)
  /\ want' = [want EXCEPT ![n] = Unset]
\* only setenv.c removes the old definitions; without memory they are lost
setenv(n, v, overwrite) ==
  IF getenv(environ, n) # Unset /\ ~overwrite THEN UNCHANGED <<environ, want>>
  ELSE LET old == IF kind = "setenv" THEN unset(environ, n) ELSE environ IN
       \/ environ' = putenv(old, n, v) /\ want' = [want EXCEPT ![n] = v]
       \/ environ' = old /\ want' = [want EXCEPT ![n] = getenv(old, n)]
Next_06_03 ==
  /\ calls < MaxCalls /\ calls' = calls + 1 /\ UNCHANGED kind
  /\ \E n \in Names : unsetenv(n) \/ \E v \in Values, overwrite \in BOOLEAN : setenv(n, v, overwrite)
-----------------------------------------------------------------------------
\* getenv() finds the value that was set last, and after unsetenv() no earlier
\* definition of the name, while the other variables are as they were.  06-03.c
\* may lose variables, all those behind one that it removes, but does not bring
\* back an old value.
EnvRight ==
  \A n \in Names : getenv(environ, n) = want[n] \/ (kind = "06-03" /\ getenv(environ, n) = Unset)

-----------------------------------------------------------------------------
(***************************************************************************)
(* 14-01.c makes files with the numbers that gennum() gives, sorts the     *)
(* numbers with sorti(), and removes the files in that order; the first    *)
(* call that fails ends the program.                                       *)
(***************************************************************************)
CONSTANTS MaxSize,   \* bound: files
          MaxNum     \* rrand() gives 0..MaxNum

VARIABLES made, numarr, i, j, files, pc
vars_14_01 == <<made, numarr, i, j, files, pc>>

size == Len(numarr)
Numbers == UNION {[1..n -> 0..MaxNum] : n \in 1..MaxSize}
TypeOK_14_01 ==
  /\ made \in Numbers /\ numarr \in Numbers /\ i \in 1..(MaxSize + 1) /\ j \in 1..(MaxSize + 1)
  /\ files \subseteq 0..MaxNum /\ pc \in {"create", "sort", "unlink", "done", "unmade", "failed"}

\* gennum(): with -o the numbers are 0, 1, ..., without they are any
gennum(order) == {a \in Numbers : order => \A m \in DOMAIN a : a[m] = m - 1}
Init_14_01 ==
  /\ \E order \in BOOLEAN : made \in gennum(order)
  /\ numarr = made /\ i = 1 /\ j = 2 /\ files = {} /\ pc = "create"

\* the next file, which may be there
Create ==
  /\ pc = "create" /\ UNCHANGED <<made, numarr, j>>
  /\ \/ pc' = "unmade" /\ UNCHANGED <<files, i>>
     \/ /\ files' = files \cup {numarr[i]}
        /\ IF i < size THEN i' = i + 1 /\ pc' = "create" ELSE i' = 1 /\ pc' = "sort"
\* the loops of sorti()
sorti_once ==
  /\ pc = "sort" /\ UNCHANGED <<made, files>>
  /\ IF i >= size THEN pc' = "unlink" /\ i' = 1 /\ UNCHANGED <<numarr, j>>
     ELSE /\ numarr' = IF numarr[i] < numarr[i + 1] THEN [numarr EXCEPT ![i] = numarr[i + 1], ![i + 1] = numarr[i]] ELSE numarr
          /\ i' = i + 1 /\ UNCHANGED <<j, pc>>
sorti ==
  /\ pc = "sort" /\ UNCHANGED <<made, files>>
  /\ IF i >= size THEN pc' = "unlink" /\ i' = 1 /\ UNCHANGED <<numarr, j>>
     ELSE /\ numarr' = IF numarr[i] < numarr[j] THEN [numarr EXCEPT ![i] = numarr[j], ![j] = numarr[i]] ELSE numarr
          /\ IF j < size THEN j' = j + 1 /\ i' = i ELSE i' = i + 1 /\ j' = i + 2
          /\ UNCHANGED pc
\* a file that has been removed already cannot be
Unlink ==
  /\ pc = "unlink" /\ UNCHANGED <<made, numarr, j>>
  /\ IF numarr[i] \notin files THEN pc' = "failed" /\ UNCHANGED <<files, i>>
     ELSE /\ files' = files \ {numarr[i]}
          /\ IF i < size THEN i' = i + 1 /\ pc' = "unlink" ELSE i' = i /\ pc' = "done"
Next_14_01 == Create \/ sorti \/ Unlink
-----------------------------------------------------------------------------
Twice(n) == \E m \in DOMAIN made, l \in DOMAIN made : m # l /\ made[m] = n /\ made[l] = n
Sorted(before(_, _)) == \A m \in DOMAIN numarr, l \in DOMAIN numarr : m < l => before(numarr[m], numarr[l])
Falling == Sorted(LAMBDA a, b : a >= b)
Rising == Sorted(LAMBDA a, b : a <= b)
\* sorti() puts the numbers in order, one way or the other (14-01.c:12-13 speaks
\* of increasing order, the comparison makes it decreasing), and every number is
\* still there.  All files are removed, unless a number was drawn twice: then the
\* program fails when it comes to the second of them.
FilesRemoved ==
  /\ pc = "unlink" =>
       /\ Falling \/ Rising
       /\ \A n \in 0..MaxNum : Cardinality({m \in DOMAIN made : made[m] = n}) = Cardinality({m \in DOMAIN numarr : numarr[m] = n})
  /\ pc = "done" => files = {} /\ \A n \in 0..MaxNum : ~Twice(n)
  /\ pc = "failed" => Twice(numarr[i]) /\ i > 1 /\ numarr[i - 1] = numarr[i]

-----------------------------------------------------------------------------
(***************************************************************************)
(* execlp() of procexec/execlp.c, and the one of 27-02.c: which program of *)
(* PATH is executed.  path has what the directories hold under the name: a *)
(* file nobody may execute (plain), one that others may (foreign), a       *)
(* script that execve() does not know (ENOEXEC), or a program.  A name     *)
(* with a slash is a path of one file.  Without PATH there is a default,   *)
(* which is a path too.                                                    *)
(***************************************************************************)
CONSTANTS MaxDirs   \* bound: directories in PATH

\* kind is declared above
VARIABLES slash, path, k, fndEACCES, result
vars_27_02 == <<kind, slash, path, k, fndEACCES, result>>

Found == {"none", "plain", "foreign", "script", "program"}
Paths == UNION {[1..n -> Found] : n \in 1..MaxDirs}
TypeOK_27_02 ==
  /\ kind \in {"execlp", "27-02"} /\ slash \in BOOLEAN /\ path \in Paths /\ k \in 1..MaxDirs /\ fndEACCES \in BOOLEAN
  /\ result \in {"", "runs", "ENOENT", "EACCES", "-1", "crash"}
Init_27_02 ==
  /\ kind \in {"execlp", "27-02"} /\ slash \in BOOLEAN /\ path \in Paths /\ (slash => Len(path) = 1)
  /\ k = 1 /\ fndEACCES = FALSE /\ result = ""

Keep == UNCHANGED <<kind, slash, path>>
\* execlp.c: execve() is tried for every prefix; a script is given to the shell
execlp_stops ==
  /\ kind = "execlp" /\ result = "" /\ Keep /\ fndEACCES' = (path[k] \in {"plain", "foreign"})
  /\ IF path[k] \in {"program", "script"} THEN result' = "runs" /\ k' = k
     ELSE IF k < Len(path) /\ ~fndEACCES' THEN k' = k + 1 /\ result' = ""
     ELSE k' = k /\ result' = IF fndEACCES' THEN "EACCES" ELSE "ENOENT"
execlp ==
  /\ kind = "execlp" /\ result = "" /\ Keep /\ fndEACCES' = (fndEACCES \/ path[k] \in {"plain", "foreign"})
  /\ IF path[k] \in {"program", "script"} THEN result' = "runs" /\ k' = k
     ELSE IF k < Len(path) THEN k' = k + 1 /\ result' = ""
     ELSE k' = k /\ result' = IF fndEACCES' THEN "EACCES" ELSE "ENOENT"
\* 27-02.c: the first file that somebody may execute, in a directory that a colon
\* follows.  When execve() fails, free() is called for arguments that are not
\* from malloc(), which is undefined
Execve == IF path[k] = "program" THEN result' = "runs" ELSE result' \in {"-1", "crash"}
execlp_27_02 ==
  /\ kind = "27-02" /\ result = "" /\ Keep /\ UNCHANGED fndEACCES
  /\ IF slash THEN k' = k /\ Execve
     ELSE IF k = Len(path) THEN k' = k /\ result' = "-1"
     ELSE IF path[k] \in {"none", "plain"} THEN k' = k + 1 /\ result' = ""
     ELSE k' = k /\ Execve
Next_27_02 == execlp \/ execlp_27_02
-----------------------------------------------------------------------------
Runs(d) == d \in {"program", "script"}
\* The program that is executed is the first one of the path that can be, and
\* execlp.c executes one if there is one, whatever files it may not execute come
\* before.  27-02.c ends its search at the first file with an execute bit and
\* does not look into the last directory of the path, which no colon follows: it
\* misses programs there and behind such a file, and no others.
RunsFirst ==
  /\ result = "runs" => Runs(path[k]) /\ \A d \in 1..(k - 1) : ~Runs(path[d])
  /\ result = "ENOENT" => \A d \in DOMAIN path : path[d] = "none"
  /\ result = "EACCES" => /\ \A d \in DOMAIN path : ~Runs(path[d])
                          /\ \E d \in DOMAIN path : path[d] # "none"
  /\ result \in {"-1", "crash"} => \A d \in DOMAIN path :
       path[d] = "program" => d = Len(path) \/ \E e \in 1..(d - 1) : path[e] \in {"foreign", "script"}

-----------------------------------------------------------------------------
(***************************************************************************)
(* Exercise 44-02: popen() and pclose() with a table from descriptors to   *)
(* children, under a caller with several streams.  The child's dup2() has  *)
(* its arguments the wrong way round, so nothing goes through the pipes,   *)
(* and the streams' data is left out.                                      *)
(***************************************************************************)
CONSTANTS Fds,          \* numbers of descriptors that are free at the start
          MaxChildren   \* children created altogether

VARIABLES open,            \* descriptors open in the parent
          POPEN_INDEXES,   \* 0 where nothing was saved
          stream,          \* the child of the stream on each descriptor, 0 without one
          child            \* the children, in the order of their creation
vars_44_02 == <<open, POPEN_INDEXES, stream, child>>

TypeOK_44_02 ==
  /\ open \subseteq Fds
  /\ POPEN_INDEXES \in [Fds -> 0..MaxChildren] /\ stream \in [Fds -> 0..MaxChildren]
  /\ child \in [1..MaxChildren -> {"none", "run", "zombie", "gone"}]

Init_44_02 ==
  /\ open = {} /\ POPEN_INDEXES = [fd \in Fds |-> 0] /\ stream = POPEN_INDEXES
  /\ child = [c \in 1..MaxChildren |-> "none"]

\* pipe() takes the lowest free descriptors, the read end first
ReadEnd == Min(Fds \ open)
WriteEnd == Min(Fds \ (open \cup {ReadEnd}))

\* the parent's part of popen(): fd is kept, ufd is closed, and the child is
\* saved under the descriptor saved
PopenOn(c, fd, saved) ==
  /\ open' = open \cup {fd}
  /\ POPEN_INDEXES' = [POPEN_INDEXES EXCEPT ![saved] = c]
  /\ stream' = [stream EXCEPT ![fd] = c]
  /\ child' = [child EXCEPT ![c] = "run"]

Children == {c \in 1..MaxChildren : child[c] = "none"}
CanPipe == Cardinality(Fds \ open) >= 2 /\ Children # {}

popen_swapped(fd, ufd) == CanPipe /\ PopenOn(Min(Children), fd, ufd)
popen(fd, ufd) == CanPipe /\ PopenOn(Min(Children), fd, fd)

\* fork() fails: both ends of the pipe stay open
PopenFails ==
  /\ CanPipe /\ open' = open \cup {ReadEnd, WriteEnd}
  /\ UNCHANGED <<POPEN_INDEXES, stream, child>>

Exit(c) ==
  /\ child[c] = "run" /\ child' = [child EXCEPT ![c] = "zombie"]
  /\ UNCHANGED <<open, POPEN_INDEXES, stream>>

\* waitpid() with WNOHANG: a child that still runs is not waited for, then or
\* later; the entry of the table stays
pclose(fd) ==
  /\ fd \in open /\ stream[fd] # 0
  /\ open' = open \ {fd} /\ stream' = [stream EXCEPT ![fd] = 0]
  /\ LET cpid == POPEN_INDEXES[fd] IN
       child' = IF cpid # 0 /\ child[cpid] = "zombie" THEN [child EXCEPT ![cpid] = "gone"] ELSE child
  /\ UNCHANGED POPEN_INDEXES

Next_44_02 ==
  \/ CanPipe /\ (popen(ReadEnd, WriteEnd) \/ popen(WriteEnd, ReadEnd))
  \/ PopenFails
  \/ \E c \in 1..MaxChildren : Exit(c)
  \/ \E fd \in Fds : pclose(fd)

-----------------------------------------------------------------------------
\* POPEN_INDEXES: however descriptors are reused, the child that pclose()
\* would ask about is the stream's own, and it has not been waited for yet.
RightChild ==
  \A fd \in open : stream[fd] # 0 =>
    POPEN_INDEXES[fd] = stream[fd] /\ child[stream[fd]] \in {"run", "zombie"}
=============================================================================
