----------------------------- MODULE DirWatches -----------------------------
(***************************************************************************)
(* Programs that keep watches on the directories of a tree while it        *)
(* changes.  They share no state.                                          *)
(***************************************************************************)
EXTENDS Naturals, Sequences, SequencesExt, FiniteSets

-----------------------------------------------------------------------------
(***************************************************************************)
(* src/tlpi/inotify/inotify_dtree.c: a monitor keeps a cache of all        *)
(* directories below a root, with inotify watches on them, while another   *)
(* process makes, removes and renames directories (the c, d and m          *)
(* operations of rand_dtree.c).                                            *)
(*                                                                         *)
(* A pathname is a sequence of names that starts with "r" (the root on the *)
(* command line) or "o" (a directory outside of it); <<>> is none.  path   *)
(* is the file system.  The kernel knows watch (descriptor per directory,  *)
(* 0 is none), nextwd, queue and due (events of operations not yet queued; *)
(* an operation holds its directories until they are, so that the two      *)
(* events of a rename can be parted by events of other directories).       *)
(* The monitor has cache (pathname per watch descriptor: the slots of      *)
(* wlCache in use), buf (events read, not handled), first (firstTry), todo *)
(* (what nftw() still has to visit) and at.  calm is a history variable:   *)
(* since the cache was last built, nothing changed during a walk, no       *)
(* rename began before the events of earlier operations were handled, no   *)
(* operation came between a rename and its first event, and the user has   *)
(* not dropped entries with z.                                             *)
(***************************************************************************)
CONSTANTS Root, Out,       \* the directory that is monitored, and one that is not
          Dirs,            \* directories that can exist below them
          Names, MaxOps,   \* bound: operations of the other process and of the user
          MaxDepth,        \* bound: length of a pathname
          MaxWd,           \* bound: watch descriptors of one inotify instance
          MaxQueued,       \* /proc/sys/fs/inotify/max_queued_events
          BufEvents        \* events that fit in the buffer of one read()

VARIABLES path, ops, watch, nextwd, queue, due, cache, buf, first, todo,
          at, calm

fs == <<path, ops>>
kernel == <<watch, nextwd, queue, due>>
monitor == <<cache, buf, first, todo, at>>
vars_dtree == <<fs, kernel, monitor, calm>>

All_dtree == Dirs \cup {Root, Out}
Event_dtree(wd, mask, name, cookie) == [wd |-> wd, mask |-> mask, name |-> name, cookie |-> cookie]
Exists(p) == \E d \in All_dtree : path[d] = p
At(p) == CHOOSE d \in All_dtree : path[d] = p
InTree(d) == path[d] # <<>> /\ Head(path[d]) = "r"

\* the kernel's queue: a repeated event merges, one that does not fit is lost
Put(q, e) ==
  IF q # <<>> /\ Last(q) = e THEN q
  ELSE IF Len(q) < MaxQueued THEN Append(q, e)
  ELSE IF Len(q) = MaxQueued THEN Append(q, Event_dtree(0, "OVERFLOW", "", 0)) ELSE q

Idle == at = "select" /\ buf = <<>> /\ todo = <<>>
Quiet == Idle /\ queue = <<>> /\ due = <<>>

Init_dtree ==
  /\ path = [d \in All_dtree |-> IF d = Root THEN <<"r">> ELSE IF d = Out THEN <<"o">> ELSE <<>>]
  /\ ops = 0
  /\ watch = [d \in All_dtree |-> 0] /\ nextwd = 1 /\ queue = <<>> /\ due = <<>>
  /\ cache = [w \in 1..MaxWd |-> <<>>] /\ buf = <<>> /\ first = TRUE
  /\ todo = <<[op |-> "stat", path |-> <<"r">>]>> /\ at = "select"
  /\ calm = TRUE

-----------------------------------------------------------------------------
Renaming == \E i \in DOMAIN due : due[i].mask = "MOVED_FROM"

\* The other processes.  The tree changes first; the events follow, one by one.
Notice(d, mask, name, held) ==
  [dir |-> d, mask |-> mask, name |-> name, held |-> held, cookie |-> ops + 1]
Up(d) == IF Len(path[d]) < 2 THEN d ELSE At(Front(path[d]))
Operate_dtree(held, notices) ==
  /\ ops < MaxOps /\ ops' = ops + 1 /\ at # "exit" /\ Len(due) <= 2
  /\ \A i \in DOMAIN due : due[i].held \cap held = {}
  /\ due' \in {due \o notices, notices \o due}

mkdir(d, above, n) ==
  /\ path[d] = <<>> /\ path[above] # <<>> /\ \A i \in DOMAIN due : due[i].dir # d
  /\ Operate_dtree({above}, <<Notice(above, "CREATE", n, {above})>>)
  /\ LET p == Append(path[above], n)
     IN  Len(p) <= MaxDepth /\ ~Exists(p) /\ path' = [path EXCEPT ![d] = p]
  /\ calm' = (calm /\ todo = <<>> /\ ~Renaming)
  /\ UNCHANGED <<watch, nextwd, queue, monitor>>

rmdir(d) ==
  /\ path[d] # <<>>
  /\ Operate_dtree({d, Up(d)}, <<Notice(d, "DELETE_SELF", "", {Up(d)})>>)
  /\ \A e \in All_dtree \ {d} : ~IsPrefix(path[d], path[e])
  /\ path' = [path EXCEPT ![d] = <<>>]
  /\ calm' = (calm /\ todo = <<>> /\ ~Renaming)
  /\ UNCHANGED <<watch, nextwd, queue, monitor>>

rename(d, above, n) ==
  /\ path[d] # <<>> /\ path[above] # <<>> /\ ~IsPrefix(path[d], path[above])
  /\ LET p == Append(path[above], n)
         moved == [e \in All_dtree |-> IF IsPrefix(path[d], path[e])
                                       THEN p \o SubSeq(path[e], Len(path[d]) + 1, Len(path[e])) ELSE path[e]]
     IN  ~Exists(p) /\ path' = moved /\ \A e \in All_dtree : Len(moved[e]) <= MaxDepth
  /\ LET held == {Up(d), above}
     IN  Operate_dtree(held, (IF d = Root THEN <<>> ELSE <<Notice(Up(d), "MOVED_FROM", Last(path[d]), held)>>)
                             \o <<Notice(above, "MOVED_TO", n, held)>>
                             \o (IF d = Root THEN <<Notice(Root, "MOVE_SELF", "", held)>> ELSE <<>>))
  /\ calm' = (calm /\ Quiet)
  /\ UNCHANGED <<watch, nextwd, queue, monitor>>

\* the next event, for a directory that is watched by now
Emit ==
  /\ due # <<>>
  /\ LET n == Head(due)
         e == Event_dtree(watch[n.dir], n.mask, n.name, n.cookie)
     IN  IF watch[n.dir] = 0 THEN UNCHANGED <<queue, watch>>
         ELSE IF n.mask = "DELETE_SELF"
         THEN /\ queue' = Put(Put(queue, [e EXCEPT !.cookie = 0]), Event_dtree(e.wd, "IGNORED", "", 0))
              /\ watch' = [watch EXCEPT ![n.dir] = 0]
         ELSE /\ queue' = Put(queue, IF n.mask \in {"MOVED_FROM", "MOVED_TO"} THEN e ELSE [e EXCEPT !.cookie = 0])
              /\ UNCHANGED watch
  /\ due' = Tail(due)
  /\ UNCHANGED <<fs, nextwd, monitor, calm>>

-----------------------------------------------------------------------------
\* The cache.
findWatch(wd) == cache[wd] # <<>>
pathnameInCache(p) == \E w \in DOMAIN cache : cache[w] = p
isRootDirPath(p) == p = <<"r">>
Below(p) == {w \in DOMAIN cache : cache[w] # <<>> /\ IsPrefix(p, cache[w])}
Watched(w) == \E d \in All_dtree : watch[d] = w
addWatchToCache(wd, p) == cache' = [cache EXCEPT ![wd] = p]
markCacheSlotEmpty(wd) == [cache EXCEPT ![wd] = <<>>]
watchSubtree(p) == todo' = <<[op |-> "stat", path |-> p]>>

\* mutant: only the directory itself is renamed, not what is below it
rewriteCachedPathsTop(old, new) ==
  cache' = [w \in DOMAIN cache |-> IF cache[w] = old THEN new ELSE cache[w]]
rewriteCachedPaths(old, new) ==
  cache' = [w \in DOMAIN cache |->
              IF w \in Below(old) THEN new \o SubSeq(cache[w], Len(old) + 1, Len(cache[w])) ELSE cache[w]]

\* the watches of a subtree and its cache entries go; each leaves IN_IGNORED
Zapped(ws) ==
  /\ cache' = [w \in DOMAIN cache |-> IF w \in ws THEN <<>> ELSE cache[w]]
  /\ watch' = [d \in All_dtree |-> IF watch[d] \in ws THEN 0 ELSE watch[d]]
  /\ queue' = FoldLeft(LAMBDA q, w : Put(q, Event_dtree(w, "IGNORED", "", 0)), queue, SetToSortSeq(ws, <))
zapFails(p) == \E w \in Below(p) : ~Watched(w)

\* close the inotify descriptor, empty the cache, and walk the root again
rebuild ==
  /\ watch' = [d \in All_dtree |-> 0] /\ nextwd' = 1 /\ queue' = <<>>
  /\ cache' = [w \in DOMAIN cache |-> <<>>]
  /\ watchSubtree(<<"r">>)
  /\ buf' = <<>> /\ first' = TRUE /\ at' = "select"
  /\ calm' = TRUE
  /\ UNCHANGED due
reinitialize == rebuild /\ UNCHANGED fs

\* one step of nftw(): look at an entry, open it and call traverseTree, then
\* list it; an entry that goes between the first two ends the whole walk
Walking == todo # <<>> /\ at # "exit" /\ UNCHANGED <<fs, queue, due, buf, first, at>>
nftw_stat ==
  /\ Walking /\ Head(todo).op = "stat"
  /\ todo' = IF Exists(Head(todo).path) THEN <<[Head(todo) EXCEPT !.op = "open"]>> \o Tail(todo) ELSE Tail(todo)
  /\ UNCHANGED <<watch, nextwd, cache, calm>>
traverseTree ==
  /\ Walking /\ Head(todo).op = "open"
  /\ LET p == Head(todo).path
         d == At(p)
     IN  IF ~Exists(p) THEN todo' = <<>> /\ UNCHANGED <<watch, nextwd, cache>>
         ELSE /\ todo' = <<[op |-> "list", path |-> p, dir |-> d]>> \o Tail(todo)
              /\ watch' = [watch EXCEPT ![d] = IF @ = 0 THEN nextwd ELSE @]
              /\ nextwd' = IF watch[d] = 0 THEN nextwd + 1 ELSE nextwd
              /\ IF findWatch(watch'[d]) THEN UNCHANGED cache ELSE addWatchToCache(watch'[d], p)
  /\ UNCHANGED calm
nftw_list ==
  /\ Walking /\ Head(todo).op = "list"
  /\ LET t == Head(todo)
         kids == {e \in All_dtree : path[t.dir] # <<>> /\ path[e] # <<>> /\ Front(path[e]) = path[t.dir]}
         entry(e) == [op |-> "stat", path |-> Append(t.path, Last(path[e]))]
     IN  todo' = SetToSeq({entry(e) : e \in kids}) \o Tail(todo)
  /\ UNCHANGED <<watch, nextwd, cache, calm>>

-----------------------------------------------------------------------------
\* Handling one event of the buffer.
Done(n) == buf' = SubSeq(buf, n + 1, Len(buf)) /\ first' = TRUE /\ at' = at
Keep == UNCHANGED <<fs, nextwd, due, calm>>
Full(ev) == Append(cache[ev.wd], ev.name)

Created(ev) ==
  /\ ev.mask \in {"CREATE", "MOVED_TO"}
  /\ IF pathnameInCache(Full(ev)) THEN UNCHANGED todo ELSE watchSubtree(Full(ev))
  /\ Done(1) /\ Keep /\ UNCHANGED <<watch, queue, cache>>

DeletedSelf(ev) ==
  /\ ev.mask = "DELETE_SELF"
  /\ cache' = markCacheSlotEmpty(ev.wd)
  /\ IF isRootDirPath(cache[ev.wd]) THEN at' = "exit" /\ UNCHANGED <<buf, first>> ELSE Done(1)
  /\ Keep /\ UNCHANGED <<watch, queue, todo>>

MovedFromThen(ev, tried) ==
  /\ ev.mask = "MOVED_FROM"
  /\ LET paired == Len(buf) > 1 /\ buf[2].mask = "MOVED_TO" /\ buf[2].cookie = ev.cookie
     IN  \/ /\ paired /\ findWatch(buf[2].wd)
            /\ rewriteCachedPaths(Full(ev), Full(buf[2]))
            /\ Done(2) /\ Keep /\ UNCHANGED <<watch, queue, todo>>
         \/ paired /\ ~findWatch(buf[2].wd) /\ reinitialize
         \/ /\ ~paired /\ (Len(buf) > 1 \/ ~first) /\ ~zapFails(Full(ev))
            /\ Zapped(Below(Full(ev)))
            /\ Done(1) /\ Keep /\ UNCHANGED todo
         \/ ~paired /\ (Len(buf) > 1 \/ ~first) /\ zapFails(Full(ev)) /\ reinitialize
         \/ /\ ~paired /\ Len(buf) = 1 /\ first
            /\ at' = "more" /\ first' = tried
            /\ Keep /\ UNCHANGED <<watch, queue, cache, buf, todo>>

\* mutant: the second read() does not reset firstTry
MovedFromAgain(ev) == MovedFromThen(ev, TRUE)
MovedFrom(ev) == MovedFromThen(ev, FALSE)

MovedSelf(ev) ==
  /\ ev.mask = "MOVE_SELF"
  /\ IF isRootDirPath(cache[ev.wd]) THEN at' = "exit" /\ UNCHANGED <<buf, first>> ELSE Done(1)
  /\ Keep /\ UNCHANGED <<watch, queue, cache, todo>>

processNextInotifyEvent ==
  /\ at = "select" /\ buf # <<>> /\ todo = <<>>
  /\ LET ev == Head(buf)
     IN  \/ ev.mask = "IGNORED" /\ Done(1) /\ Keep /\ UNCHANGED <<watch, queue, cache, todo>>
         \/ ev.mask = "OVERFLOW" /\ reinitialize
         \/ ev.wd # 0 /\ ev.mask # "IGNORED" /\ ~findWatch(ev.wd) /\ reinitialize
         \/ /\ ev.wd # 0 /\ ev.mask # "IGNORED" /\ findWatch(ev.wd)
            /\ Created(ev) \/ DeletedSelf(ev) \/ MovedFrom(ev) \/ MovedSelf(ev)

\* read() of processInotifyEvents, and the one that waits for IN_MOVED_TO
Take(n) == /\ buf' = buf \o SubSeq(queue, 1, n) /\ queue' = SubSeq(queue, n + 1, Len(queue))
           /\ at' = "select"
           /\ UNCHANGED <<fs, watch, nextwd, due, cache, first, todo, calm>>
Least(m, n) == IF m < n THEN m ELSE n
processInotifyEvents == Idle /\ queue # <<>> /\ Take(Least(BufEvents, Len(queue)))
secondRead == at = "more" /\ Take(Least(BufEvents - Len(buf), Len(queue)))

\* commands a, z and 0 of the user; l, c, d, v, w and x change nothing here
executeCommand(p) ==
  /\ Idle /\ ops < MaxOps /\ ops' = ops + 1
  /\ \/ /\ watchSubtree(p) \/ UNCHANGED todo
        /\ Zapped({w \in Below(p) : \A v \in Below(p) : v <= w => Watched(v)})
        /\ calm' = (calm /\ todo' # <<>>)
        /\ UNCHANGED <<path, buf, first, at, due, nextwd>>
     \/ UNCHANGED path /\ rebuild

Monitor ==
  \/ nftw_stat \/ traverseTree \/ nftw_list
  \/ processNextInotifyEvent \/ processInotifyEvents \/ secondRead
Next_dtree ==
  \/ \E d \in Dirs \cup {Root}, above \in All_dtree, n \in Names : mkdir(d, above, n) \/ rename(d, above, n)
  \/ \E d \in Dirs \cup {Root} : rmdir(d)
  \/ Emit
  \/ Monitor
  \/ \E d \in Dirs : path[d] # <<>> /\ InTree(d) /\ executeCommand(path[d])

-----------------------------------------------------------------------------
\* Types, and the limits of the queue and of one read().
TypeOK_dtree ==
  /\ DOMAIN path = All_dtree /\ ops \in 0..MaxOps
  /\ watch \in [All_dtree -> 0..MaxWd] /\ nextwd \in 1..(MaxWd + 1)
  /\ Len(queue) <= MaxQueued + 1 /\ Len(due) <= 5 /\ Len(buf) <= BufEvents
  /\ DOMAIN cache = 1..MaxWd /\ first \in BOOLEAN
  /\ at \in {"select", "more", "exit"} /\ calm \in BOOLEAN

Entries == {<<w, cache[w]>> : w \in {v \in DOMAIN cache : cache[v] # <<>>}}
Truth == {<<watch[d], path[d]>> : d \in {e \in All_dtree : InTree(e)}}
Agree == Entries = Truth /\ \A d \in All_dtree : watch[d] # 0 => InTree(d)

\* When all events are handled, the cache holds exactly the directories of
\* the tree with their watches and pathnames, and nothing outside is watched,
\* provided that the tree was calm.  The two events of a rename may be parted:
\* the directory is then dropped, and found again by IN_MOVED_TO.
CacheExact == Quiet /\ calm => Agree

\* The monitor comes to the end of its events: an IN_MOVED_FROM without its
\* IN_MOVED_TO is waited for once only.
Settled == Quiet \/ at = "exit"

-----------------------------------------------------------------------------
(***************************************************************************)
(* 19-01: logs creations, deletions and renames below a directory.  nftw() *)
(* puts a watch on each directory; then the events are read and shown, a   *)
(* directory that is created gets a watch, and dpath[] keeps the pathname  *)
(* of each watch descriptor.                                               *)
(*                                                                         *)
(* The tree has the directories Dirs below Root; parent[d] is Gone when d  *)
(* does not exist.  Operations on files in a directory are Touch.  Each    *)
(* operation has a number, which its event carries; shown are the numbers  *)
(* of the events printed.                                                  *)
(***************************************************************************)
CONSTANTS Gone

\* ops, watch, nextwd, queue, todo, at are declared above
VARIABLES parent, dpath, shown
vars_19_01 == <<parent, ops, watch, nextwd, queue, dpath, todo, at, shown>>

All_19_01 == Dirs \cup {Root}
Wds == 0..(MaxOps + 2)
Here(d) == d # Root => parent[d] # Gone

Init_19_01 ==
  /\ parent \in {p \in [Dirs -> {Root, Gone}] : \E d \in Dirs : p[d] = Gone}
  /\ ops = 0 /\ watch = [d \in All_19_01 |-> 0] /\ nextwd = 1 /\ queue = <<>>
  /\ dpath = [w \in Wds |-> Gone]
  /\ todo = All_19_01 /\ at = "nftw" /\ shown = <<>>

-----------------------------------------------------------------------------
\* Other processes, once the tree is watched: a directory reports what happens
\* in it (changes during the walk are the subject of InotifyTree).
Event_19_01(d, mask) ==
  IF watch[d] = 0 THEN <<>> ELSE <<[wd |-> watch[d], mask |-> mask, op |-> ops + 1, dir |-> d]>>
Operate_19_01 == at = "read" /\ ops < MaxOps /\ ops' = ops + 1 /\ UNCHANGED <<nextwd, dpath, todo, at, shown>>

Touch(d) ==
  /\ Operate_19_01 /\ Here(d)
  /\ queue' = queue \o Event_19_01(d, "FILE")
  /\ UNCHANGED <<parent, watch>>
Mkdir(d, p) ==
  /\ Operate_19_01 /\ d # p /\ ~Here(d) /\ Here(p)
  /\ parent' = [parent EXCEPT ![d] = p]
  /\ queue' = queue \o [i \in 1..Len(Event_19_01(p, "CREATE")) |-> [Event_19_01(p, "CREATE")[i] EXCEPT !.dir = d]]
  /\ UNCHANGED watch
Rmdir(d) ==
  /\ Operate_19_01 /\ Here(d) /\ \A e \in Dirs : parent[e] # d
  /\ parent' = [parent EXCEPT ![d] = Gone]
  /\ queue' = queue \o Event_19_01(d, "DELETE_SELF") \o Event_19_01(d, "IGNORED") \o Event_19_01(parent[d], "DELETE")
  /\ watch' = [watch EXCEPT ![d] = 0]

-----------------------------------------------------------------------------
\* nftw() visits the directories, parents before children; entrycb()
entrycb(d) ==
  /\ at = "nftw" /\ d \in todo /\ (d # Root => Root \notin todo)
  /\ todo' = todo \ {d}
  /\ IF Here(d)
     THEN /\ watch' = [watch EXCEPT ![d] = nextwd] /\ nextwd' = nextwd + 1
          /\ dpath' = [dpath EXCEPT ![nextwd] = d]
     ELSE UNCHANGED <<watch, nextwd, dpath>>
  /\ at' = IF todo' = {} THEN "read" ELSE "nftw"
  /\ UNCHANGED <<parent, ops, queue, shown>>

\* a new directory: nwd is the outcome of "== -1", 0 when the watch is made,
\* so its pathname is stored in dpath[0]; no pathname of the parent is a
\* null pointer
CreatedDir(e) ==
  /\ e.mask = "CREATE"
  /\ \/ /\ dpath[e.wd] = Gone /\ at' = "crash" /\ UNCHANGED <<watch, nextwd, dpath, shown>>
     \/ /\ dpath[e.wd] # Gone /\ ~Here(e.dir)
        /\ at' = "exit" /\ UNCHANGED <<watch, nextwd, dpath, shown>>
     \/ /\ dpath[e.wd] # Gone /\ Here(e.dir)
        /\ watch' = [watch EXCEPT ![e.dir] = IF @ = 0 THEN nextwd ELSE @]
        /\ nextwd' = IF watch[e.dir] = 0 THEN nextwd + 1 ELSE nextwd
        /\ dpath' = [dpath EXCEPT ![0] = e.dir]
        /\ shown' = Append(shown, e.op) /\ UNCHANGED at
\* a directory was deleted: the watch that goes is the one that reported it
DeletedDir(e) ==
  /\ e.mask = "DELETE"
  /\ IF \E d \in All_19_01 : watch[d] = e.wd
     THEN /\ watch' = [d \in All_19_01 |-> IF watch[d] = e.wd THEN 0 ELSE watch[d]]
          /\ dpath' = [dpath EXCEPT ![e.wd] = Gone]
          /\ shown' = Append(shown, e.op) /\ UNCHANGED at
     ELSE at' = "exit" /\ UNCHANGED <<watch, dpath, shown>>
  /\ UNCHANGED nextwd
\* the others are only shown
Other(e) ==
  /\ e.mask \notin {"CREATE", "DELETE"}
  /\ shown' = (IF e.mask = "FILE" THEN Append(shown, e.op) ELSE shown)
  /\ UNCHANGED <<watch, nextwd, dpath, at>>
\* mutant: the position in the buffer does not move on
eventcbStays ==
  /\ at = "read" /\ queue # <<>> /\ Len(shown) <= MaxOps
  /\ CreatedDir(Head(queue)) \/ DeletedDir(Head(queue)) \/ Other(Head(queue))
  /\ UNCHANGED <<parent, ops, todo, queue>>
eventcb ==
  /\ at = "read" /\ queue # <<>>
  /\ queue' = Tail(queue)
  /\ CreatedDir(Head(queue)) \/ DeletedDir(Head(queue)) \/ Other(Head(queue))
  /\ UNCHANGED <<parent, ops, todo>>

Next_19_01 ==
  \/ \E d \in All_19_01 : Touch(d)
  \/ \E d \in Dirs, p \in All_19_01 : Mkdir(d, p)
  \/ \E d \in Dirs : Rmdir(d)
  \/ \E d \in All_19_01 : entrycb(d)
  \/ eventcb

-----------------------------------------------------------------------------
\* Types.
TypeOK_19_01 ==
  /\ parent \in [Dirs -> All_19_01 \cup {Gone}] /\ watch \in [All_19_01 -> Wds]
  /\ dpath \in [Wds -> All_19_01 \cup {Gone}]
  /\ at \in {"nftw", "read", "exit", "crash"}

\* What is shown are operations below the directory, in the order in which
\* they were made, each once.
ShownInOrder == \A i, j \in DOMAIN shown : i < j => shown[i] < shown[j]
=============================================================================
