------------------------------- MODULE MCWalks ------------------------------
(***************************************************************************)
(* Programs that walk through a tree that changes under them; WalksInit    *)
(* chooses which of them runs.  WalksFair1 and WalksFair2 are the steps of *)
(* programs and of the kernel that the endings rest on.                    *)
(***************************************************************************)
EXTENDS Pool, Naturals, Sequences

CONSTANTS Gone

BelowR == [a |-> "r", g |-> "r", b |-> "a", f |-> "a", h |-> "b", l |-> "b"]
BelowRR == [r |-> Gone, a |-> "r", p |-> "r", f |-> "a", l |-> "a"]
TypeOf == [r |-> "dir", a |-> "dir", p |-> "fifo", f |-> "reg", l |-> "lnk"]
Devs == [r |-> 1, a |-> 1, b |-> 2, c |-> 2]
Inos == [r |-> 2, a |-> 3, b |-> 2, c |-> 3]

P0 == INSTANCE ProcScan WITH Prog <- "procfs_user_exe", N <- 3, Matches <- BOOLEAN, procs <- v1,
  steady <- v2, batch <- v3, pos <- v4, phase <- v5, lives <- v6, buf <- v7, list <- v8
P1 == INSTANCE ProcScan WITH Prog <- "12-01", N <- 3, Matches <- BOOLEAN, procs <- v1,
  steady <- v2, batch <- v3, pos <- v4, phase <- v5, lives <- v6, buf <- v7, list <- v8
P2 == INSTANCE ProcScan WITH Prog <- "12-02", N <- 4, Matches <- {TRUE}, procs <- v1,
  steady <- v2, batch <- v3, pos <- v4, phase <- v5, lives <- v6, buf <- v7, list <- v8
P3 == INSTANCE ProcScan WITH Prog <- "12-03", N <- 3, Matches <- BOOLEAN, procs <- v1,
  steady <- v2, batch <- v3, pos <- v4, phase <- v5, lives <- v6, buf <- v7, list <- v8
Walk == INSTANCE TreeWalks WITH Entries_18_08 <- {"a", "b", "f", "g", "h", "l"},
  Root <- "r", Parent_18_08 <- BelowR, Dirs_18_08 <- {"a", "b"}, Link <- "l", Target <- "r",
  Foreign <- {"b"}, nfd <- 3, Dirs_18_05 <- {"a", "b", "c"}, Here <- "c", Dev <- Devs,
  Ino <- Inos, Links <- {"l"}, MaxMoves <- 1, Args <- 2, Entries_list <- 1..4, MaxOps <- 2,
  Entries_stats <- {"r", "a", "f", "p", "l"}, Parent_stats <- BelowRR, Type <- TypeOf,
  Types <- {"dir", "reg", "fifo", "lnk"}, parent <- v1, present <- v1, cwd <- v2, kind <- v2,
  done <- v3, pc <- v3, result <- v3, cdir <- v4, depth <- v4, pos <- v4, report <- v4,
  links <- v5, listed <- v5, open <- v5, shown <- v5, flags <- v6, k <- v6, line <- v6,
  steady <- v6, i <- v7, left <- v7, seen <- v7, stack <- v7, count <- v8, errors <- v8,
  moves <- v8, batch <- v9, ops <- v10
Dir == INSTANCE DirWatches WITH Root <- "r", Out <- "out", Dirs <- {"d1", "d2"},
  Names <- {"a", "b"}, MaxOps <- 3, MaxDepth <- 3, MaxWd <- 12, MaxQueued <- 3, BufEvents <- 2,
  nextwd <- v1, todo <- v2, queue <- v3, watch <- v4, ops <- v5, at <- v6, cache <- v7,
  parent <- v7, calm <- v8, shown <- v8, dpath <- v9, first <- v9, due <- v10, buf <- v11,
  path <- v12

WalksInit ==
  \/ prog = "procfs_user_exe" /\ P0!Init_12 /\ Free8
  \/ prog = "12-01" /\ P1!Init_12 /\ Free8
  \/ prog = "12-02" /\ P2!Init_12 /\ Free8
  \/ prog = "12-03" /\ P3!Init_12 /\ Free8
  \/ prog = "18-08" /\ Walk!Init_18_08 /\ Free7
  \/ prog = "18-05" /\ Walk!Init_18_05 /\ Free8
  \/ prog = "list_files" /\ Walk!Init_list /\ Free10
  \/ prog = "tree_stats" /\ Walk!Init_stats /\ Free8
  \/ prog = "inotify_dtree" /\ Dir!Init_dtree
  \/ prog = "19-01" /\ Dir!Init_19_01 /\ Free9
WalksNext ==
  \/ prog = "procfs_user_exe" /\ P0!Next_12 /\ UNCHANGED Rest8
  \/ prog = "12-01" /\ P1!Next_12 /\ UNCHANGED Rest8
  \/ prog = "12-02" /\ P2!Next_12 /\ UNCHANGED Rest8
  \/ prog = "12-03" /\ P3!Next_12 /\ UNCHANGED Rest8
  \/ prog = "18-08" /\ Walk!Next_18_08 /\ UNCHANGED Rest7
  \/ prog = "18-05" /\ Walk!Next_18_05 /\ UNCHANGED Rest8
  \/ prog = "list_files" /\ Walk!Next_list /\ UNCHANGED Rest10
  \/ prog = "tree_stats" /\ Walk!Next_stats /\ UNCHANGED Rest8
  \/ prog = "inotify_dtree" /\ Dir!Next_dtree /\ UNCHANGED prog
  \/ prog = "19-01" /\ Dir!Next_19_01 /\ UNCHANGED Rest9

WalksFair1 ==
  \/ prog = "18-05" /\ Walk!Walker /\ UNCHANGED Rest8
  \/ prog = "list_files" /\ Walk!Lister /\ UNCHANGED Rest10
  \/ prog = "inotify_dtree" /\ Dir!Monitor /\ UNCHANGED prog
WalksFair2 ==
  \/ prog = "list_files" /\ Walk!Fill /\ UNCHANGED Rest10
  \/ prog = "inotify_dtree" /\ Dir!Emit /\ UNCHANGED prog
WalksSpec == WalksInit /\ [][WalksNext]_Rest0 /\ WF_Rest0(WalksFair1) /\ WF_Rest0(WalksFair2)

-----------------------------------------------------------------------------
\* The variables of every program have their types.
WalkTypesOK ==
  /\ prog = "procfs_user_exe" => P0!TypeOK_12
  /\ prog = "12-01" => P1!TypeOK_12
  /\ prog = "12-02" => P2!TypeOK_12
  /\ prog = "12-03" => P3!TypeOK_12
  /\ prog = "18-08" => Walk!TypeOK_18_08
  /\ prog = "18-05" => Walk!TypeOK_18_05
  /\ prog = "list_files" => Walk!TypeOK_list
  /\ prog = "tree_stats" => Walk!TypeOK_stats
  /\ prog = "inotify_dtree" => Dir!TypeOK_dtree
  /\ prog = "19-01" => Dir!TypeOK_19_01

\* Scans of /proc: a process that stays as it is during the scan is listed, or
\* drawn in the tree if its ancestors stay as well (12-02).  procfs_user_exe
\* and 12-01 also show for a process only what was read from its own status
\* file.  12-02 and 12-03 do not: rsize, a size_t, is never below 0, and when
\* read() fails they go on with the status of the process before.  The run of
\* TreeEntryOfItsProcess shows it for 12-02; 12-03 prints the name of the one
\* process with the number of the other.
ScansRight ==
  /\ prog = "procfs_user_exe" => P0!SteadyShown
  /\ prog = "12-01" => P1!SteadyShown
  /\ prog = "12-02" => P2!SteadyShown
  /\ prog = "12-03" => P3!SteadyShown
  /\ prog = "procfs_user_exe" => P0!EntryOfItsProcess
  /\ prog = "12-01" => P1!EntryOfItsProcess

\* 12-02: "collect all of processes information into array": an element of
\* the array is the process whose directory was visited.
TreeEntryOfItsProcess == prog = "12-02" => P2!EntryOfItsProcess

\* A walk, a climb or a listing that succeeds is complete: every entry that
\* stays is reported, once and in order, or counted under its type, and the
\* pathname found leads to the working directory.
WalkComplete ==
  /\ prog = "18-08" => Walk!WalkComplete
  /\ prog = "18-05" => Walk!LeadsHere
  /\ prog = "list_files" => Walk!ListedOnce
  /\ prog = "tree_stats" => Walk!CountsAddUp /\ Walk!TreeInOrder

\* Monitors of a tree.  inotify_dtree: when all events are handled the cached
\* tree is the real one, if since the cache was last built nothing changed
\* during a walk, every rename began with all events handled and its first
\* event came before those of later operations, and the user dropped nothing;
\* without these conditions the cache may stay wrong.  19-01: the events are
\* shown in their order.
MonitorsExact ==
  /\ prog = "inotify_dtree" => Dir!CacheExact
  /\ prog = "19-01" => Dir!ShownInOrder

\* Every listing ends, and a monitor comes to the end of its events.
WalksSettled ==
  /\ prog = "18-05" => Walk!Ended_18_05
  /\ prog = "list_files" => Walk!Ended_list
  /\ prog = "inotify_dtree" => Dir!Settled
WalksEnd == []<>WalksSettled
=============================================================================
