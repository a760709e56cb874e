---------------------------- MODULE ShmTransfer ----------------------------
(***************************************************************************)
(* Exercise 54-01: a writer copies its standard input, block by block,     *)
(* through one shared-memory buffer to a reader, which copies it to its    *)
(* standard output.  Two POSIX semaphores hand the buffer back and forth:  *)
(* sem_read (initially 1) lets the writer fill the buffer, sem_write       *)
(* (initially 0) lets the reader empty it.  A block of size zero is the    *)
(* end of file.                                                            *)
(*                                                                         *)
(* Both programs are modelled from the moment both have opened the         *)
(* semaphores and the memory.                                              *)
(* One action per semaphore operation, system call or test of shm->size.   *)
(***************************************************************************)
EXTENDS Naturals, Sequences

CONSTANTS
  Block,      \* contents a non-empty read() of at most BUF_SIZE bytes may return
  Empty,      \* the buffer when shm->size = 0: end of file, or nothing written yet
  Short,      \* what reaches standard output when write() stores only a part
  MaxBlocks,  \* bound: blocks of the standard input
  Faults      \* what the environment may do, a subset of FaultKinds

FaultKinds == {"read_error", "write_error", "short_write", "kill"}

ASSUME DataAssumption ==
  /\ Empty \notin Block
  /\ Short \notin Block
  /\ MaxBlocks \in Nat
  /\ Faults \subseteq FaultKinds

\* the standard inputs of the writer, as sequences of blocks
Inputs == UNION {[1..n -> Block] : n \in 0..MaxBlocks}

VARIABLES
  wpc,        \* where the writer is
  rpc,        \* where the reader is
  sem_read,   \* value of the semaphore the writer waits on
  sem_write,  \* value of the semaphore the reader waits on
  shm,        \* the block in shared memory, or Empty
  input,      \* the whole standard input of the writer
  wdone,      \* number of blocks the writer has read from it
  out         \* the standard output of the reader

vars == <<wpc, rpc, sem_read, sem_write, shm, input, wdone, out>>

WriterStop == {"exit", "error", "killed"}
ReaderStop == {"exit", "error", "killed"}
WriterPc == {"wait", "read", "post", "test", "last"} \cup WriterStop
ReaderPc == {"wait", "write", "post", "test"} \cup ReaderStop

TypeOK ==
  /\ wpc \in WriterPc
  /\ rpc \in ReaderPc
  /\ sem_read \in Nat
  /\ sem_write \in Nat
  /\ shm \in Block \cup {Empty}
  /\ input \in Seq(Block)
  /\ wdone \in 0..Len(input)
  /\ out \in Seq(Block \cup {Short})

InitTokens(n) ==
  /\ wpc = "wait" /\ rpc = "wait"
  /\ sem_read = n /\ sem_write = 0
  /\ shm = Empty
  /\ input \in Inputs
  /\ wdone = 0 /\ out = <<>>

\* Mutant of Init: sem_read starts at 2, as if there were two buffers.
InitTwoTokens == InitTokens(2)

\* the semaphores as the writer creates them
Init == InitTokens(1)

-----------------------------------------------------------------------------
(* The writer: the loop of main() and what follows it.                     *)

\* Mutant of WriterWait: the writer does not wait for sem_read.
WriterWaitUnlocked ==
  /\ wpc = "wait"
  /\ sem_read' = sem_read - 1
  /\ wpc' = "read"
  /\ UNCHANGED <<rpc, sem_write, shm, input, wdone, out>>

\* sem_wait(sem_read) at the head of the loop
WriterWait ==
  /\ wpc = "wait"
  /\ sem_read > 0
  /\ sem_read' = sem_read - 1
  /\ wpc' = "read"
  /\ UNCHANGED <<rpc, sem_write, shm, input, wdone, out>>

\* shm->size = read(STDIN_FILENO, shm->data, ...)
WriterRead ==
  /\ wpc = "read"
  /\ wpc' = "post"
  /\ \/ /\ wdone < Len(input)
        /\ shm' = input[wdone + 1]
        /\ wdone' = wdone + 1
     \/ /\ wdone = Len(input)
        /\ shm' = Empty
        /\ UNCHANGED wdone
  /\ UNCHANGED <<rpc, sem_read, sem_write, input, out>>

\* read() fails: size -1 is stored, the writer leaves through EXIT_ERROR
\* without posting; the buffer then holds no end of file, as before
WriterReadError ==
  /\ "read_error" \in Faults
  /\ wpc = "read"
  /\ wpc' = "error"
  /\ UNCHANGED <<rpc, sem_read, sem_write, shm, input, wdone, out>>

\* Mutant of WriterPost: the loop is left at end of file before the post.
WriterPostNoEof ==
  /\ wpc = "post"
  /\ sem_write' = IF shm = Empty THEN sem_write ELSE sem_write + 1
  /\ wpc' = "test"
  /\ UNCHANGED <<rpc, sem_read, shm, input, wdone, out>>

\* sem_post(sem_write)
WriterPost ==
  /\ wpc = "post"
  /\ sem_write' = sem_write + 1
  /\ wpc' = "test"
  /\ UNCHANGED <<rpc, sem_read, shm, input, wdone, out>>

\* if (shm->size == 0) break;
WriterTest ==
  /\ wpc = "test"
  /\ wpc' = IF shm = Empty THEN "last" ELSE "wait"
  /\ UNCHANGED <<rpc, sem_read, sem_write, shm, input, wdone, out>>

\* Mutant of WriterLast: no sem_wait() between the loop and clean_up().
WriterLastUnlocked ==
  /\ wpc = "last"
  /\ wpc' = "exit"
  /\ UNCHANGED <<rpc, sem_read, sem_write, shm, input, wdone, out>>

\* the sem_wait(sem_read) after the loop, then clean_up()
WriterLast ==
  /\ wpc = "last"
  /\ sem_read > 0
  /\ sem_read' = sem_read - 1
  /\ wpc' = "exit"
  /\ UNCHANGED <<rpc, sem_write, shm, input, wdone, out>>

\* SIGINT or SIGTERM: term_handle() cleans up and kills the process
WriterKilled ==
  /\ "kill" \in Faults
  /\ wpc \notin WriterStop
  /\ wpc' = "killed"
  /\ UNCHANGED <<rpc, sem_read, sem_write, shm, input, wdone, out>>

-----------------------------------------------------------------------------
(* The reader: the loop of main().                                         *)

\* Mutant of ReaderWait: the reader does not wait for sem_write.
ReaderWaitUnlocked ==
  /\ rpc = "wait"
  /\ rpc' = "write"
  /\ UNCHANGED <<wpc, sem_read, sem_write, shm, input, wdone, out>>

\* sem_wait(sem_write)
ReaderWait ==
  /\ rpc = "wait"
  /\ sem_write > 0
  /\ sem_write' = sem_write - 1
  /\ rpc' = "write"
  /\ UNCHANGED <<wpc, sem_read, shm, input, wdone, out>>

\* write(STDOUT_FILENO, shm->data, shm->size); the count it returns is ignored
ReaderWrite ==
  /\ rpc = "write"
  /\ rpc' = "post"
  /\ \/ /\ shm = Empty
        /\ UNCHANGED out
     \/ /\ shm # Empty
        /\ out' = Append(out, shm)
     \/ /\ "short_write" \in Faults
        /\ shm # Empty
        /\ out' = Append(out, Short)
  /\ UNCHANGED <<wpc, sem_read, sem_write, shm, input, wdone>>

\* write() fails: EXIT_ERROR, sem_read is not posted
ReaderWriteError ==
  /\ "write_error" \in Faults
  /\ rpc = "write"
  /\ rpc' = "error"
  /\ UNCHANGED <<wpc, sem_read, sem_write, shm, input, wdone, out>>

\* sem_post(sem_read)
ReaderPost ==
  /\ rpc = "post"
  /\ sem_read' = sem_read + 1
  /\ rpc' = "test"
  /\ UNCHANGED <<wpc, sem_write, shm, input, wdone, out>>

\* if (shm->size == 0) break; after the buffer has been given back
ReaderTest ==
  /\ rpc = "test"
  /\ rpc' = IF shm = Empty THEN "exit" ELSE "wait"
  /\ UNCHANGED <<wpc, sem_read, sem_write, shm, input, wdone, out>>

\* SIGINT or SIGTERM in the reader
ReaderKilled ==
  /\ "kill" \in Faults
  /\ rpc \notin ReaderStop
  /\ rpc' = "killed"
  /\ UNCHANGED <<wpc, sem_read, sem_write, shm, input, wdone, out>>

-----------------------------------------------------------------------------
WriterStep == WriterWait \/ WriterRead \/ WriterPost \/ WriterTest \/ WriterLast
ReaderStep == ReaderWait \/ ReaderWrite \/ ReaderPost \/ ReaderTest

Next ==
  \/ WriterStep \/ WriterReadError \/ WriterKilled
  \/ ReaderStep \/ ReaderWriteError \/ ReaderKilled

Spec == Init /\ [][Next]_vars

\* The kernel schedules every runnable process; a semaphore has one waiter,
\* so a sem_wait() that can proceed stays able to.
FairSpec == Spec /\ WF_vars(WriterStep) /\ WF_vars(ReaderStep)

-----------------------------------------------------------------------------
(* Properties.                                                             *)

\* At most one of the two programs is between the sem_wait() that gives it
\* the buffer and the sem_post() that hands it on: the read() that fills
\* shm->data and sets shm->size never overlaps the write() that empties it,
\* whichever program fails or is killed.  (The tests of shm->size at the end
\* of the loops come after the posts and may overlap the other's accesses;
\* ExitComplete says that they decide right.)
BufferExclusive == ~(wpc \in {"read", "post"} /\ rpc \in {"write", "post"})

\* What the reader has written is at every moment a prefix of what the
\* writer was given, up to blocks that write() itself cut short: no block is
\* lost, repeated, overtaken or overwritten on its way through the buffer.
CopyIsPrefix ==
  /\ Len(out) <= Len(input)
  /\ \A i \in 1..Len(out) :
       \/ out[i] = input[i]
       \/ out[i] = Short /\ "short_write" \in Faults

\* The reader leaves its loop normally only when it has copied everything,
\* although it tests shm->size after giving the buffer back.  "Lock sem_read,
\* so reading data was done": once the writer is past its last sem_wait(),
\* the reader has copied the whole input and taken the empty block as well,
\* so unlinking the objects leaves nothing unread.
ExitComplete ==
  /\ rpc = "exit" => Len(out) = Len(input)
  /\ wpc = "exit" => /\ Len(out) = Len(input)
                     /\ sem_write = 0
                     /\ rpc \in {"test", "exit", "killed"}

\* Unless one of the programs fails or is killed, the reader copies the
\* whole input and leaves its loop.
ReaderFinished ==
  \/ rpc = "exit" /\ Len(out) = Len(input)
  \/ rpc \in {"error", "killed"} \/ wpc \in {"error", "killed"}

\* Without faults the writer reaches its clean-up, where the semaphores and
\* the shared memory are unlinked.
WriterFinishes == <>(wpc = "exit")

-----------------------------------------------------------------------------
(* The inductive invariant behind the safety properties.  The two          *)
(* semaphores and the two programs share at most one token.  Where it is   *)
(* tells whether the buffer still has to be copied (ToCopy) or may be      *)
(* overwritten (Drained), and with it how wdone relates to the output.     *)

TokenCount ==
  sem_read + sem_write + (IF wpc \in {"read", "post"} THEN 1 ELSE 0)
                       + (IF rpc \in {"write", "post"} THEN 1 ELSE 0)

ToCopy == wpc = "post" \/ sem_write = 1 \/ rpc = "write"
Drained == sem_read = 1 \/ wpc = "read" \/ rpc = "post"

DataInv ==
  /\ ToCopy /\ shm = Empty => wdone = Len(input) /\ Len(out) = wdone
  /\ ToCopy /\ shm # Empty => wdone > 0 /\ Len(out) = wdone - 1 /\ shm = input[wdone]
  /\ Drained => Len(out) = wdone
  /\ wpc = "test" /\ shm = Empty => wdone = Len(input)
  /\ wpc \in {"last", "exit"} => wdone = Len(input) /\ shm = Empty
  /\ wpc \in {"test", "last"} /\ shm = Empty /\ sem_read = 1
       => rpc \in {"test", "exit", "killed"}
  /\ rpc \in {"post", "test"} /\ shm = Empty => Len(out) = Len(input)

IInv ==
  /\ TypeOK
  /\ TokenCount <= 1
  /\ DataInv
  /\ CopyIsPrefix
  /\ ExitComplete
=============================================================================
