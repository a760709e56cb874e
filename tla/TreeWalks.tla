------------------------------ MODULE TreeWalks -----------------------------
(***************************************************************************)
(* Programs that walk through directories: listing, counting, displaying a *)
(* tree, getcwd() and nftw().  They share no state.                        *)
(***************************************************************************)
EXTENDS Naturals, Sequences, FiniteSets

-----------------------------------------------------------------------------
(***************************************************************************)
(* Programs that list the directories of their arguments while other       *)
(* processes make and remove entries:                                      *)
(* list_files.c and list_files_readdir_r.c, which an error of readdir()    *)
(* ends, and 18-04, which goes on with the next argument.                  *)
(* readdir() gets some entries at a time, each place of the directory      *)
(* once; an entry is not where another was.                                *)
(***************************************************************************)
CONSTANTS Args,           \* number of directories given as arguments
          Entries_list,   \* entries a directory may have, "." and ".." among them
          MaxOps

VARIABLES kind, present, steady, i, batch, pos, pc, shown, ops, errors
vars_list == <<kind, present, steady, i, batch, pos, pc, shown, ops, errors>>

Dots == {1, 2}
Last == CHOOSE n \in Entries_list : \A m \in Entries_list : m <= n

Init_list ==
  /\ kind \in {"list_files", "list_files_readdir_r", "18-04"}
  /\ present \in [1..Args -> {Dots, Entries_list}]
  /\ i = 1 /\ batch = {} /\ pos = 0 /\ pc = "open"
  /\ steady = {} /\ shown = [a \in 1..Args |-> <<>>] /\ ops = 0 /\ errors = {}

-----------------------------------------------------------------------------
Change(e) ==
  /\ ops < MaxOps /\ pc # "done" /\ ops' = ops + 1 /\ e \notin Dots
  /\ present' = [present EXCEPT ![i] = IF e \in @ THEN @ \ {e} ELSE @ \cup {e}]
  /\ steady' = steady \ {e}
  /\ UNCHANGED <<kind, i, batch, pos, pc, shown, errors>>

NextArg == /\ i' = IF i < Args THEN i + 1 ELSE i
           /\ pc' = IF i < Args THEN "open" ELSE "done"

\* opendir(); when it fails the next argument follows
Opendir_list ==
  /\ pc = "open"
  /\ \/ pc' = "read" /\ pos' = 0 /\ batch' = {} /\ steady' = present[i] /\ UNCHANGED <<i, errors>>
     \/ NextArg /\ errors' = errors \cup {i} /\ UNCHANGED <<pos, batch, steady>>
  /\ UNCHANGED <<kind, present, shown, ops>>

Fill ==
  /\ pc = "read" /\ batch = {}
  /\ \E n \in Entries_list : batch' = {e \in present[i] : pos < e /\ e <= n} /\ batch' # {}
  /\ UNCHANGED <<kind, present, steady, i, pos, pc, shown, ops, errors>>
ListIf(listing) ==
  /\ pc = "read" /\ batch # {}
  /\ pos' = CHOOSE e \in batch : \A f \in batch : e <= f
  /\ batch' = batch \ {pos'}
  /\ shown' = IF pos' \in listing THEN [shown EXCEPT ![i] = Append(@, pos')] ELSE shown
  /\ UNCHANGED <<kind, present, steady, i, pc, ops, errors>>
\* Mutant of ListEntry: ".." is listed.
ListParent == ListIf(Entries_list \ {1})
ListEntry == ListIf(Entries_list \ Dots)
\* readdir() or readdir_r() has an error
Error ==
  /\ batch = {} /\ errors' = errors \cup {i}
  /\ IF kind = "18-04" THEN NextArg ELSE pc' = "exit" /\ UNCHANGED i
End_list == batch = {} /\ (\A e \in present[i] : e <= pos) /\ NextArg /\ UNCHANGED errors
Closedir ==
  /\ pc = "read" /\ (End_list \/ Error)
  /\ UNCHANGED <<kind, present, steady, batch, pos, shown, ops>>

list_files == kind = "list_files" /\ (Opendir_list \/ ListEntry \/ Closedir)
list_files_readdir_r == kind = "list_files_readdir_r" /\ (Opendir_list \/ ListEntry \/ Closedir)
listfiles == kind = "18-04" /\ (Opendir_list \/ ListEntry \/ Closedir)
Lister == list_files \/ list_files_readdir_r \/ listfiles
Next_list == Lister \/ Fill \/ \E e \in Entries_list : Change(e)

-----------------------------------------------------------------------------
\* Types.
TypeOK_list ==
  /\ present \in [1..Args -> SUBSET Entries_list] /\ steady \subseteq Entries_list /\ i \in 1..Args
  /\ pc \in {"open", "read", "done", "exit"} /\ errors \subseteq 1..Args

Range1(s) == {s[n] : n \in DOMAIN s}
\* Each directory is listed without "." and "..", no name twice, and, when it
\* is left without an error, with every entry that was there throughout.
ListedOnce ==
  /\ \A a \in 1..Args :
       /\ Range1(shown[a]) \cap Dots = {}
       /\ \A m, n \in DOMAIN shown[a] : m # n => shown[a][m] # shown[a][n]
  /\ pc = "done" /\ Args \notin errors => steady \ Dots \subseteq Range1(shown[Args])

\* The listing of the last argument is reached in spite of errors before it.
Ended_list == pc \in {"done", "exit"}

-----------------------------------------------------------------------------
(***************************************************************************)
(* Programs that hand nftw() of the C library a function to call for each  *)
(* entry of a tree, while other processes remove entries:                  *)
(*   file_type_stats, 18-07   count the entries of each type               *)
(*   nftw_dir_tree, 18-06     show them, a directory before or, with       *)
(*                            FTW_DEPTH, after its contents                *)
(* An entry that is removed between readdir() and stat() is reported with  *)
(* FTW_NS and a stat buffer that nobody filled.                            *)
(***************************************************************************)
CONSTANTS Entries_stats, Root, Parent_stats, Type, Types

\* kind, present are declared above
VARIABLES depth, listed, seen, line, count, done
vars_stats == <<kind, depth, present, listed, seen, line, count, done>>

Counts == kind \in {"file_type_stats", "18-07"}

Init_stats ==
  /\ kind \in {"file_type_stats", "18-07", "nftw_dir_tree", "18-06"}
  /\ depth \in (CASE kind = "18-06" -> {TRUE} [] kind = "nftw_dir_tree" -> BOOLEAN [] OTHER -> {FALSE})
  /\ present = Entries_stats /\ listed = {Root} /\ seen = {} /\ line = <<>>
  /\ count = [t \in Types \cup {"nonstatable"} |-> 0] /\ done = FALSE

Remove_stats(e) ==
  /\ ~done /\ e \in present \ {Root} /\ \A c \in present : Parent_stats[c] # e
  /\ present' = present \ {e}
  /\ UNCHANGED <<kind, depth, listed, seen, line, count, done>>

-----------------------------------------------------------------------------
\* readdir() by nftw() of a directory that was, or will be, reported
List(d) ==
  /\ d \in listed \cap present /\ (depth <=> d \notin seen)
  /\ \E c \in present \ listed : Parent_stats[c] = d /\ listed' = listed \cup {c}
  /\ UNCHANGED <<kind, depth, present, seen, line, count, done>>

\* what the functions see of an entry: its type, or FTW_NS and whatever type
\* the buffer happens to show
View(e) ==
  IF e \in present THEN {[type |-> Type[e], ns |-> FALSE]} ELSE {[type |-> t, ns |-> TRUE] : t \in Types}

Counted(type) == count' = [count EXCEPT ![type] = @ + 1] /\ UNCHANGED line
\* Mutant of countFile: the type is taken from a buffer nobody filled.
countFileBlind(v) == kind = "file_type_stats" /\ Counted(v.type)
countFile(v) == kind = "file_type_stats" /\ Counted(IF v.ns THEN "nonstatable" ELSE v.type)
\* 18-07 has regular files, links and directories only
entrycb(v) == /\ kind = "18-07"
              /\ IF v.type \in {"reg", "lnk", "dir"} THEN Counted(v.type) ELSE UNCHANGED <<count, line>>
dirTree(e) == kind = "nftw_dir_tree" /\ line' = Append(line, e) /\ UNCHANGED count
dirtree(e) == kind = "18-06" /\ line' = Append(line, e) /\ UNCHANGED count

Callback(e) ==
  /\ ~done /\ e \in listed \ seen
  /\ depth => \A c \in present \cup listed : Parent_stats[c] = e => c \in seen
  /\ seen' = seen \cup {e}
  /\ \E v \in View(e) : countFile(v) \/ entrycb(v) \/ dirTree(e) \/ dirtree(e)
  /\ UNCHANGED <<kind, depth, present, listed, done>>

\* nftw() returns when what is listed is reported and nothing is left to list
Finish ==
  /\ ~done /\ seen = listed
  /\ \A c \in present \ listed : Parent_stats[c] \notin seen \cap present
  /\ done' = TRUE /\ UNCHANGED <<kind, depth, present, listed, seen, line, count>>

Next_stats == Finish \/ \E e \in Entries_stats : Remove_stats(e) \/ List(e) \/ Callback(e)

-----------------------------------------------------------------------------
\* Types.
TypeOK_stats ==
  /\ present \subseteq Entries_stats /\ seen \subseteq listed /\ listed \subseteq Entries_stats
  /\ count \in [Types \cup {"nonstatable"} -> 0..Cardinality(Entries_stats)]

Total == count["nonstatable"] + count["reg"] + count["dir"] + count["lnk"] + count["fifo"]
OfType(t) == Cardinality({e \in seen \cap present : Type[e] = t})
\* file_type_stats: the figures add up to the entries reported, and each
\* entry that still exists is counted under its type.  18-07: at most the
\* entries reported are counted, and those that exist under their types.
CountsAddUp ==
  /\ kind = "file_type_stats" => Total = Cardinality(seen)
  /\ kind = "18-07" => Total <= Cardinality(seen)
  /\ Counts => \A t \in {"reg", "dir", "lnk"} : count[t] >= OfType(t)
  /\ kind = "file_type_stats" =>
       \A t \in Types : count[t] <= Cardinality({e \in seen : Type[e] = t})

\* The trees are shown in the order of their flag, each entry once.
TreeInOrder ==
  \A m, n \in DOMAIN line :
    /\ line[m] = line[n] => m = n
    /\ Parent_stats[line[n]] = line[m] => IF depth THEN n < m ELSE m < n

-----------------------------------------------------------------------------
(***************************************************************************)
(* 18-05: finds the pathname of the working directory by climbing "..",    *)
(* each time looking in the directory above for an entry that is the       *)
(* directory below.  Another process moves and removes directories.        *)
(*                                                                         *)
(* A directory is in parent[d], under its own name; links are names in a   *)
(* directory that lead to another one, or to Gone.  Inode numbers are      *)
(* unique only within a file system (Dev).                                 *)
(***************************************************************************)
CONSTANTS Dirs_18_05, Here, Dev, Ino, Links, Gone, MaxMoves

\* pc is declared above
VARIABLES parent, links, moves, k, cdir, left, cwd
vars_18_05 == <<parent, links, moves, pc, k, cdir, left, cwd>>

All == Dirs_18_05 \cup {Root}
Up1(d) == IF d = Gone \/ d = Root THEN d ELSE parent[d]
\* what "." and k times "/.." lead to
Up[n \in 0..10] == IF n = 0 THEN Here ELSE Up1(Up[n-1])
Ancestors(d) == {d, Up1(d), Up1(Up1(d)), Up1(Up1(Up1(d)))}

\* the entries of a directory, with what stat() of each leads to
Entries_18_05(d) ==
  {[name |-> e, is |-> e] : e \in {c \in Dirs_18_05 : parent[c] = d}} \cup {l.entry : l \in {m \in links : m.in = d}}

Init_18_05 ==
  /\ parent \in [Dirs_18_05 -> All]
  /\ \A d \in Dirs_18_05 : d \notin Ancestors(parent[d])
  /\ links \in {{}} \cup {{[in |-> d, entry |-> [name |-> n, is |-> t]]} : d \in All, n \in Links, t \in All \cup {Gone}}
  /\ \A l \in links : l.in = Root => l.entry.is # Root  \* else the climb has no end
  /\ moves = 0 /\ pc = "stat" /\ k = 0 /\ cdir = Gone /\ left = {} /\ cwd = <<>>

-----------------------------------------------------------------------------
Move(d, p) ==
  /\ moves < MaxMoves /\ pc \notin {"done", "exit"} /\ moves' = moves + 1
  /\ parent[d] # Gone /\ parent[d] # p /\ d \notin Ancestors(p)
  /\ p = Gone => \A e \in Dirs_18_05 : parent[e] # d
  /\ parent' = [parent EXCEPT ![d] = p]
  /\ UNCHANGED <<links, pc, k, cdir, left, cwd>>

\* stat(cdir_path), opendir(cdir_path/..)
Stat ==
  /\ pc = "stat"
  /\ cdir' = Up[k] /\ pc' = IF cdir' = Gone THEN "exit" ELSE "opendir"
  /\ UNCHANGED <<parent, links, moves, k, left, cwd>>
Opendir_18_05 ==
  /\ pc = "opendir" /\ k' = k + 1
  /\ IF Up[k'] = Gone THEN pc' = "exit" /\ UNCHANGED left
     ELSE pc' = "readdir" /\ left' = {e.name : e \in Entries_18_05(Up[k'])}
  /\ UNCHANGED <<parent, links, moves, cdir, cwd>>

\* readdir(), and stat() of the entry by its pathname
Found_18_05(n) == {e \in Entries_18_05(Up[k]) : e.name = n /\ e.is # Gone}
ReadIf(id) ==
  /\ pc = "readdir" /\ \E n \in left :
       /\ left' = left \ {n}
       /\ IF Found_18_05(n) = {} THEN pc' = "exit" /\ UNCHANGED cwd
          ELSE IF \E e \in Found_18_05(n) : id[e.is] = id[cdir] THEN pc' = "stat" /\ cwd' = <<n>> \o cwd
          ELSE UNCHANGED <<pc, cwd>>
  /\ UNCHANGED <<parent, links, moves, k, cdir>>

\* Mutant of Readdir: the device numbers are not compared.
ReaddirIno == ReadIf(Ino)
Readdir == ReadIf([d \in All |-> <<Dev[d], Ino[d]>>])

\* no entry of the directory above: it is the root
End_18_05 ==
  /\ pc = "readdir" /\ left = {} /\ pc' = "done"
  /\ UNCHANGED <<parent, links, moves, k, cdir, left, cwd>>

Walker == Stat \/ Opendir_18_05 \/ Readdir \/ End_18_05
Next_18_05 == Walker \/ \E d \in Dirs_18_05, p \in All \cup {Gone} : Move(d, p)

-----------------------------------------------------------------------------
\* Types.
TypeOK_18_05 ==
  /\ parent \in [Dirs_18_05 -> All \cup {Gone}] /\ moves \in 0..MaxMoves /\ k \in 0..9
  /\ pc \in {"stat", "opendir", "readdir", "done", "exit"} /\ cdir \in All \cup {Gone}

\* where a pathname leads, from the root
Lead[m \in 0..Len(cwd)] ==
  IF m = 0 THEN Root
  ELSE LET hit == {e \in Entries_18_05(Lead[m-1]) : e.name = cwd[m]} IN
       IF hit = {} THEN Gone ELSE (CHOOSE e \in hit : TRUE).is

\* "the equivalent of getcwd()" (18-05.c:7): when the tree stays as it is,
\* the pathname printed leads from the root to the working directory, over
\* file systems and past entries that cannot be examined.
LeadsHere == pc = "done" /\ moves = 0 => Lead[Len(cwd)] = Here

\* With the tree moving the search ends all the same.
Ended_18_05 == pc \in {"done", "exit"}

-----------------------------------------------------------------------------
(***************************************************************************)
(* Exercise 18-08: nftw() written with opendir(), readdir() and lstat().   *)
(* fwalk() calls itself for every directory; the calls are the frames of a *)
(* stack.  Other processes remove entries during the walk.                 *)
(***************************************************************************)
CONSTANTS Entries_18_08, Parent_18_08,   \* the directory of each entry
          Dirs_18_08,                    \* the entries that are directories
          Link, Target,                  \* an entry that is a link to the directory Target
          Foreign,                       \* entries on another file system
          nfd                            \* how deep fwalk() may go

\* present, cwd are declared above
VARIABLES flags,    \* the options of the program
          stack,    \* frames: directory, entries still to come, entry walked into
          report,   \* the callbacks: entry and level
          open,     \* open directory streams
          result    \* "none", "running", "success" or "failure"
vars_18_08 == <<flags, present, stack, report, cwd, open, result>>

Nodes == Entries_18_08 \cup {Root}
Frame == [dir : Nodes, todo : SUBSET Entries_18_08, via : Nodes]

TypeOK_18_08 ==
  /\ flags \subseteq {"PHYS", "MOUNT", "CHDIR", "DEPTH"}
  /\ present \subseteq Entries_18_08
  /\ stack \in Seq(Frame) /\ Len(stack) <= nfd + 1
  /\ report \in Seq(Entries_18_08 \X Nat)
  /\ cwd \in Nodes \cup {"home"} /\ open \in 0..(nfd + 1)
  /\ result \in {"none", "running", "success", "failure"}

Children(d) == {e \in present : Parent_18_08[e] = d}
Start(d, via) == [dir |-> d, todo |-> Children(d), via |-> via]

Init_18_08 ==
  /\ flags = {} /\ present = Entries_18_08 /\ stack = <<>> /\ report = <<>>
  /\ cwd = "home" /\ open = 0 /\ result = "none"

\* main() parses its options and calls nftw(), which calls fwalk() at level 0
nftw ==
  /\ result = "none"
  /\ flags' \in SUBSET {"PHYS", "MOUNT", "CHDIR", "DEPTH"}
  /\ stack' = <<Start(Root, Root)>>
  /\ cwd' = IF "CHDIR" \in flags' THEN Root ELSE cwd
  /\ open' = 1 /\ result' = "running"
  /\ UNCHANGED <<present, report>>

Top == stack[Len(stack)]
Level == Len(stack) - 1
Running == result = "running"

\* another process removes an entry, a directory when it is empty
Remove_18_08(e) ==
  /\ Running /\ e \in present /\ Children(e) = {}
  /\ present' = present \ {e}
  /\ UNCHANGED <<flags, stack, report, cwd, open, result>>

\* return RET_FAILURE out of all calls; streams and working directory stay
Fails ==
  /\ result' = "failure" /\ stack' = <<>>
  /\ UNCHANGED <<flags, present, report, cwd, open>>

\* what lstat() finds: a link is followed unless FTW_PHYS is given
Found_18_08(e) == IF e = Link /\ "PHYS" \notin flags THEN Target ELSE e
Exists(n) == n = Root \/ n \in present
IsDir(n) == n = Root \/ n \in Dirs_18_08

Rest(e) == [stack EXCEPT ![Len(stack)].todo = @ \ {e}]

\* the entry cannot be followed or examined any more
Vanished(e) ==
  /\ e \in Top.todo /\ (e \notin present \/ ~Exists(Found_18_08(e)))
  /\ Fails

\* an entry of another file system is passed over with FTW_MOUNT
PassOver(e) ==
  /\ e \in Top.todo /\ e \in present /\ Exists(Found_18_08(e))
  /\ "MOUNT" \in flags /\ Found_18_08(e) \in Foreign
  /\ stack' = Rest(e)
  /\ UNCHANGED <<flags, present, report, cwd, open, result>>

Examined(e) ==
  /\ e \in Top.todo /\ e \in present /\ Exists(Found_18_08(e))
  /\ ~("MOUNT" \in flags /\ Found_18_08(e) \in Foreign)

\* the callback for anything that is not a directory
ReportFile(e) ==
  /\ Examined(e) /\ ~IsDir(Found_18_08(e))
  /\ report' = Append(report, <<e, Level>>)
  /\ stack' = Rest(e)
  /\ UNCHANGED <<flags, present, cwd, open, result>>

\* the callback before a directory's contents when early, and fwalk() on it,
\* which fails below the deepest level, or when the directory is removed before
\* opendir()
WalkIntoIf(e, early, deepest) ==
  /\ Examined(e) /\ IsDir(Found_18_08(e))
  /\ report' = IF early THEN Append(report, <<e, Level>>) ELSE report
  /\ \/ /\ Level < deepest
        /\ stack' = Append(Rest(e), Start(Found_18_08(e), e))
        /\ cwd' = IF "CHDIR" \in flags THEN Found_18_08(e) ELSE cwd
        /\ open' = open + 1
        /\ UNCHANGED <<present, result>>
     \/ /\ \/ Level >= deepest /\ UNCHANGED present
           \/ Children(Found_18_08(e)) = {} /\ present' = present \ {Found_18_08(e)}
        /\ result' = "failure" /\ stack' = <<>> /\ UNCHANGED <<cwd, open>>
  /\ UNCHANGED flags

\* Mutants of WalkInto: a directory is always reported before its contents;
\* the walk goes one level too deep.
WalkIntoEarly(e) == WalkIntoIf(e, TRUE, nfd)
WalkIntoDeeper(e) == WalkIntoIf(e, "DEPTH" \notin flags, nfd + 1)

WalkInto(e) == WalkIntoIf(e, "DEPTH" \notin flags, nfd)

\* readdir() returns NULL: closedir(), chdir() back, return RET_SUCCESS, and
\* in the caller the callback after the contents with FTW_DEPTH
Return ==
  /\ Running /\ Top.todo \cap present = {}
  /\ open' = open - 1
  /\ \/ /\ Level = 0
        /\ stack' = <<>> /\ result' = "success" /\ UNCHANGED report
        /\ cwd' = "home"
     \/ /\ Level > 0
        /\ stack' = SubSeq(stack, 1, Level)
        /\ cwd' = IF "CHDIR" \in flags THEN stack[Level].dir ELSE cwd
        /\ report' = IF "DEPTH" \in flags THEN Append(report, <<Top.via, Level - 1>>) ELSE report
        /\ UNCHANGED result
  /\ UNCHANGED <<flags, present>>

-----------------------------------------------------------------------------
Walk(e) == Running /\ (Vanished(e) \/ PassOver(e) \/ ReportFile(e) \/ WalkInto(e))
Next_18_08 == nftw \/ Return \/ \E e \in Entries_18_08 : Remove_18_08(e) \/ Walk(e)

Spec == Init_18_08 /\ [][Next_18_08]_vars_18_08

-----------------------------------------------------------------------------
At(e) == {m \in 1..Len(report) : report[m][1] = e}
Below(d, e) == Parent_18_08[e] = d

\* A walk that returns 0 has called the callback for every entry that is left
\* (on this file system, with FTW_MOUNT) exactly once when links are not
\* followed, a directory before its contents, or after them with FTW_DEPTH,
\* the contents one level deeper; it has closed all streams and is back in
\* the working directory it came from.
WalkComplete ==
  result = "success" =>
    /\ open = 0 /\ cwd = "home"
    /\ "PHYS" \in flags /\ "MOUNT" \notin flags => \A e \in present : Cardinality(At(e)) = 1
    /\ "PHYS" \in flags =>
         \A d, e \in Entries_18_08 : Below(d, e) =>
           \A m \in At(d), j \in At(e) :
             /\ report[j][2] = report[m][2] + 1
             /\ IF "DEPTH" \in flags THEN j < m ELSE m < j
=============================================================================
