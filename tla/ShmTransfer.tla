---------------------------- MODULE ShmTransfer -----------------------------
(***************************************************************************)
(* LinuxAPI2/ipc_systemv_shm_writer.c and ipc_systemv_shm/..._reader.c:    *)
(* the writer copies its stdin through one shared segment to the reader's  *)
(* stdout, two semaphores WRITE_SEM and READ_SEM handing the segment back  *)
(* and forth.  A chunk is what one read(2) returned: its number and its    *)
(* size; size 0 is end of file and -1 a failed read.                       *)
(***************************************************************************)
EXTENDS Integers, Sequences

CONSTANTS Input,       \* sizes returned by the successive reads of stdin
          MaxErrors,   \* bound on failed reads of stdin
          WriterFirst, \* the reader is started once the writer is in its loop
          Leftovers    \* IPC objects a killed earlier run may have left: set
                       \* of [w, r |-> semaphore values], {} for none

ASSUME InputOK ==
  /\ Input \in Seq(Nat \ {0})
  /\ MaxErrors \in Nat
  /\ WriterFirst \in BOOLEAN
  /\ Leftovers \subseteq [w : {0, 1}, r : {0, 1}]

VARIABLES wpc, rpc,     \* next call of the writer and of the reader
          set, seg,     \* the semaphore set and the segment exist
          wsem, rsem,   \* values of WRITE_SEM and READ_SEM
          buf, cnt,     \* the segment: number of the chunk in it, its size
          read,         \* chunks read from stdin so far
          ret,          \* what the writer's read(2) returned
          errors,       \* failed reads so far
          opened,       \* the reader's semget and shmat have succeeded
          out           \* chunks written to stdout, as <<number, size>>

ipc    == <<set, seg>>
sems   == <<wsem, rsem>>
shmmsg == <<buf, cnt>>
vars   == <<wpc, rpc, ipc, sems, shmmsg, read, ret, errors, opened, out>>

Chunks  == 1..Len(Input)
Counts  == {-1, 0} \cup {Input[i] : i \in Chunks}
Setup   == {"setval_w", "setval_r", "shmget"}
Cleanup == {"rmid", "shmrm", "done"}

(* The state is well formed: semaphores are binary, the segment holds a    *)
(* chunk (0: nothing of this run) and a value read(2) can return.          *)
TypeOK ==
  /\ wpc \in Setup \cup Cleanup \cup {"p", "fill", "count", "v", "test", "final"}
  /\ rpc \in {"semget", "shmget", "p", "test", "write", "v", "detach", "last",
              "done", "errExit", "segv"}
  /\ set \in BOOLEAN /\ seg \in BOOLEAN
  /\ wsem \in {0, 1} /\ rsem \in {0, 1}
  /\ buf \in {0} \cup Chunks
  /\ cnt \in Counts /\ ret \in Counts
  /\ read \in 0..Len(Input)
  /\ errors \in 0..MaxErrors
  /\ opened \in [set : BOOLEAN, seg : BOOLEAN]
  /\ out \in Seq((0..Len(Input)) \X (Nat \ {0}))

Init ==
  /\ wpc = "setval_w" /\ rpc = "semget"
  /\ \/ set = FALSE /\ seg = FALSE /\ wsem = 0 /\ rsem = 0 /\ cnt = 0
     \/ \E l \in Leftovers : /\ set = TRUE /\ seg = TRUE
                             /\ wsem = l.w /\ rsem = l.r
                             /\ cnt \in {0} \cup {Input[i] : i \in Chunks}
  /\ buf = 0
  /\ read = 0 /\ ret = 0 /\ errors = 0
  /\ opened = [set |-> FALSE, seg |-> FALSE]
  /\ out = <<>>
-----------------------------------------------------------------------------
(* The writer. *)
WGoto(l) == wpc' = l /\ UNCHANGED rpc

\* semget(IPC_CREAT) without IPC_EXCL, then the two SETVALs.
SetvalWrite ==
  /\ wpc = "setval_w" /\ WGoto("setval_r")
  /\ set' = TRUE /\ wsem' = 1
  /\ UNCHANGED <<seg, rsem, shmmsg, read, ret, errors, opened, out>>

MutSetvalReadFull ==
  /\ wpc = "setval_r" /\ WGoto("shmget") /\ rsem' = 1
  /\ UNCHANGED <<ipc, wsem, shmmsg, read, ret, errors, opened, out>>

SetvalRead ==
  /\ wpc = "setval_r" /\ WGoto("shmget")
  /\ rsem' = 0
  /\ UNCHANGED <<ipc, wsem, shmmsg, read, ret, errors, opened, out>>

Shmget ==
  /\ wpc = "shmget" /\ WGoto("p")
  /\ seg' = TRUE
  /\ UNCHANGED <<set, sems, shmmsg, read, ret, errors, opened, out>>

\* semop(WRITE_SEM, -1), at the top of the loop or for the last time.
WReserve ==
  /\ wpc \in {"p", "final"} /\ wsem > 0
  /\ wsem' = wsem - 1
  /\ WGoto(IF wpc = "p" THEN "fill" ELSE "rmid")
  /\ UNCHANGED <<ipc, rsem, shmmsg, read, ret, errors, opened, out>>

(* read(STDIN_FILENO, shmp->buf, BUF_SIZE): the next chunk goes into the   *)
(* buffer, or it is the end of file, or the read fails ...                 *)
WFill ==
  /\ wpc = "fill" /\ WGoto("count")
  /\ \/ /\ read < Len(Input)
        /\ read' = read + 1 /\ buf' = read + 1 /\ ret' = Input[read + 1]
        /\ UNCHANGED errors
     \/ read = Len(Input) /\ ret' = 0 /\ UNCHANGED <<read, buf, errors>>
     \/ /\ errors < MaxErrors /\ errors' = errors + 1
        /\ ret' = -1 /\ UNCHANGED <<read, buf>>
  /\ UNCHANGED <<ipc, sems, cnt, opened, out>>

\* ... and only then is shmp->cnt stored.
WCount ==
  /\ wpc = "count" /\ WGoto("v")
  /\ cnt' = ret
  /\ UNCHANGED <<ipc, sems, buf, read, ret, errors, opened, out>>

\* semop(READ_SEM, +1) publishes the chunk.
WPublish ==
  /\ wpc = "v" /\ WGoto("test")
  /\ rsem' = rsem + 1
  /\ UNCHANGED <<ipc, wsem, shmmsg, read, ret, errors, opened, out>>

\* `if (shmp->cnt == 0) break;' looks at the segment after publishing it.
WTest ==
  /\ wpc = "test" /\ WGoto(IF cnt = 0 THEN "final" ELSE "p")
  /\ UNCHANGED <<ipc, sems, shmmsg, read, ret, errors, opened, out>>

(* semctl(semid, IPC_RMID, 0) passes IPC_RMID as semnum and 0 as cmd; both *)
(* are 0 on Linux, so the set is removed all the same.                     *)
WRemove ==
  /\ \/ wpc = "rmid" /\ WGoto("shmrm") /\ set' = FALSE /\ UNCHANGED seg
     \/ wpc = "shmrm" /\ WGoto("done") /\ seg' = FALSE /\ UNCHANGED set
  /\ UNCHANGED <<sems, shmmsg, read, ret, errors, opened, out>>

Writer == \/ SetvalWrite \/ SetvalRead \/ Shmget \/ WReserve \/ WFill
          \/ WCount \/ WPublish \/ WTest \/ WRemove
-----------------------------------------------------------------------------
(* The reader. *)
RGoto(l) == rpc' = l /\ UNCHANGED wpc
WQuiet == UNCHANGED <<ipc, shmmsg, read, ret, errors>>

\* semget, shmget and shmat: none of their results is checked.
ROpen ==
  /\ \/ /\ rpc = "semget" /\ RGoto("shmget")
        /\ WriterFirst => wpc \notin Setup
        /\ opened' = [opened EXCEPT !.set = set]
     \/ /\ rpc = "shmget" /\ RGoto("p")
        /\ opened' = [opened EXCEPT !.seg = seg]
  /\ WQuiet /\ UNCHANGED <<sems, out>>

\* semop(READ_SEM, -1); it fails when there is no such set (any more).
RAwait ==
  /\ rpc = "p"
  /\ LET ok == opened.set /\ set IN
       /\ ok => rsem > 0
       /\ rsem' = IF ok THEN rsem - 1 ELSE rsem
       /\ RGoto(IF ok THEN "test" ELSE "errExit")
  /\ WQuiet /\ UNCHANGED <<wsem, opened, out>>

MutReleaseBeforeWrite ==
  /\ rpc = "test"
  /\ RGoto(IF ~opened.seg THEN "segv" ELSE IF cnt = 0 THEN "detach" ELSE "write")
  /\ wsem' = IF cnt = 0 THEN wsem ELSE 1
  /\ WQuiet /\ UNCHANGED <<rsem, opened, out>>

\* The end-of-file test is the first access to *shmp.
RTest ==
  /\ rpc = "test"
  /\ RGoto(IF ~opened.seg THEN "segv" ELSE IF cnt = 0 THEN "detach" ELSE "write")
  /\ WQuiet /\ UNCHANGED <<sems, opened, out>>

\* write(STDOUT_FILENO, shmp->buf, shmp->cnt); a count of -1 is refused.
RWrite ==
  /\ rpc = "write" /\ RGoto("v")
  /\ out' = IF cnt > 0 THEN Append(out, <<buf, cnt>>) ELSE out
  /\ WQuiet /\ UNCHANGED <<sems, opened>>

MutForgetLast ==
  /\ rpc \in {"v", "last"} /\ RGoto(IF rpc = "v" THEN "p" ELSE "done")
  /\ wsem' = IF rpc = "v" THEN wsem + 1 ELSE wsem
  /\ WQuiet /\ UNCHANGED <<rsem, opened, out>>

\* semop(WRITE_SEM, +1), after a chunk or for the last time.
RRelease ==
  /\ rpc \in {"v", "last"}
  /\ wsem' = IF set THEN wsem + 1 ELSE wsem
  /\ RGoto(IF ~set THEN "errExit" ELSE IF rpc = "v" THEN "p" ELSE "done")
  /\ WQuiet /\ UNCHANGED <<rsem, opened, out>>

RDetach ==
  /\ rpc = "detach" /\ RGoto("last")
  /\ WQuiet /\ UNCHANGED <<sems, opened, out>>

Reader == ROpen \/ RAwait \/ RTest \/ RWrite \/ RRelease \/ RDetach

Next == Writer \/ Reader

Spec == Init /\ [][Next]_vars

(* Two processes, each run by the scheduler whenever it is not blocked.    *)
FairSpec == Spec /\ WF_vars(Writer) /\ WF_vars(Reader)
-----------------------------------------------------------------------------
WriterHas == wpc \in {"fill", "count", "v"} \cup Cleanup
ReaderHas == rpc \in {"test", "write", "v", "detach", "last"}
One(b)    == IF b THEN 1 ELSE 0

(* Once the writer has set the semaphores up, the right to touch the       *)
(* segment is in exactly one place: in a semaphore, with the writer or     *)
(* with the reader.                                                        *)
OneToken ==
  wpc \notin Setup => wsem + rsem + One(WriterHas) + One(ReaderHas) = 1

(* The chunks on stdout are the writer's reads, complete (never a new      *)
(* buffer with an old count), in order, none lost and none twice.          *)
OutputFaithful ==
  \A i \in 1..Len(out) : i \in Chunks /\ out[i] = <<i, Input[i]>>

(* The writer removes the set only after the reader's last semop, so no    *)
(* semop of the reader ever fails.                                         *)
ReaderUndisturbed == rpc # "errExit"

(* The transfer implements a stream with room for one chunk. *)
Published == IF wpc \in {"count", "v"} /\ ret > 0 THEN read - 1 ELSE read
Transfer == INSTANCE Stream WITH
              Items    <- {<<i, Input[i]>> : i \in Chunks},
              Capacity <- 1,
              sent     <- [i \in 1..Published |-> <<i, Input[i]>>],
              received <- out
ImplementsStream == Transfer!Spec

(* Everything read from stdin reaches stdout, and both processes end: the  *)
(* last WRITE_SEM hand-over cannot leave the writer waiting.               *)
AllDelivered == <>(wpc = "done" /\ rpc = "done" /\ Len(out) = Len(Input))
-----------------------------------------------------------------------------
(* The reader's line 17 says it "gets the semaphores and the shared memory *)
(* the writer created": it never uses a segment it has not got.            *)
ReaderGotSegment == rpc # "segv"
=============================================================================
