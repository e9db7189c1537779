------------------------------ MODULE EventIO -------------------------------
(***************************************************************************)
(* Waiting for input: level-triggered (select, poll, epoll) on FIFOs whose *)
(* writers come and go, and edge-triggered (SIGIO) on a terminal.          *)
(*   LinuxAPI2/alt_io_sample.c, api3/fileio_select_poll.c, fileio_epoll.c  *)
(* Input 1 is test or test1, or the terminal; input 2 is test2.  What came *)
(* through a FIFO is named by the writer it came from, the first or a      *)
(* later one; what came from the terminal by how a buffer of it begins,    *)
(* and old if it was typed before O_ASYNC was set.                         *)
(***************************************************************************)
EXTENDS Samples, Naturals, Sequences, SequencesExt, FiniteSetsExt

CONSTANTS MaxChunks,  \* times that something is written to an input
          MaxOpens    \* writers of one FIFO, one after the other
ASSUME EventAssumption == MaxChunks \in Nat \ {0} /\ MaxOpens \in Nat \ {0}

Inputs == {1, 2}
SelectSamples == {"select_sample", "pselect_sample", "poll_sample"}
FifoSamples   == SelectSamples \cup {"alt_io_epoll", "epoll_sample"}
EventSamples  == FifoSamples \cup {"alt_io_select", "alt_io_poll", "alt_io_signal"}
NumFifos      == IF sample = "alt_io_epoll" THEN 2 ELSE 1

VARIABLES src,   \* per input: contents, is a writer there, which, writes so far
          io     \* the reader

eventVars == <<src, io>>

(* The reader's descriptors are inputs that have had a writer; what an     *)
(* event says was true of the input when epoll_wait returned.              *)
EventTypeOK ==
  /\ \A i \in Inputs : /\ src[i].up \in BOOLEAN /\ src[i].gen \in 0..MaxOpens
                       /\ src[i].n \in 0..MaxChunks
                       /\ ToSet(src[i].buf) \subseteq {"first", "later", "text", "nl", "old"}
  /\ io.pc \in {"start", "wait", "handle", "read", "sleep", "drain", "end", "errExit"}
  /\ \A i \in io.fds : src[i].gen > 0
  /\ \A e \in ToSet(io.evs) : e.fd \in io.fds /\ (e.in => src[e.fd].buf # <<>>)

EventInit ==
  /\ src = [i \in Inputs |-> [buf |-> <<>>, n |-> 0,
                              up |-> i = 1 /\ sample \in {"alt_io_select", "alt_io_signal"},
                              gen |-> 0]]
  /\ io = [pc |-> "start", fds |-> {}, evs |-> <<>>, ready |-> 0,
           got_sig_io |-> FALSE, first |-> "none"]   \* first: buf[0] == '\n' or not
-----------------------------------------------------------------------------
(* The writers: cat > test, or a user at the terminal.                     *)
Written(i) ==
  IF sample \in FifoSamples THEN {<<IF src[i].gen = 1 THEN "first" ELSE "later">>}
  ELSE IF io.pc = "start" THEN {<<"old">>} ELSE {<<"text">>, <<"text", "nl">>}

sigio_handler == [io EXCEPT !.got_sig_io = TRUE]

WriteInput(i) ==
  /\ src[i].up /\ src[i].n < MaxChunks /\ UNCHANGED sample
  /\ \E w \in Written(i) : src' = [src EXCEPT ![i].buf = @ \o w, ![i].n = @ + 1]
  /\ io' = IF sample = "alt_io_signal" /\ io.pc # "start" THEN sigio_handler ELSE io

HangUp(i) ==
  /\ sample \in FifoSamples /\ src[i].up
  /\ src' = [src EXCEPT ![i].up = FALSE] /\ UNCHANGED <<sample, io>>

WriterComesBack(i) ==
  /\ i \in io.fds /\ ~src[i].up /\ src[i].gen < MaxOpens
  /\ src' = [src EXCEPT ![i].up = TRUE, ![i].gen = @ + 1] /\ UNCHANGED <<sample, io>>
-----------------------------------------------------------------------------
\* open waits for a writer, one FIFO after the other.
OpenFifo ==
  /\ sample \in FifoSamples /\ io.pc = "start" /\ UNCHANGED sample
  /\ LET i == Cardinality(io.fds) + 1 IN
     \/ /\ src' = [src EXCEPT ![i].up = TRUE, ![i].gen = 1]
        /\ io' = [io EXCEPT !.fds = @ \cup {i}, !.pc = IF i = NumFifos THEN "wait" ELSE @]
     \/ io' = [io EXCEPT !.pc = "errExit"] /\ UNCHANGED src

Readable(i) == src[i].buf # <<>> \/ ~src[i].up

\* epoll_wait tells what is ready, in any order; interrupted, it is called again.
EpollWait ==
  LET R == {i \in io.fds : Readable(i)} IN
  /\ sample = "alt_io_epoll" /\ io.pc = "wait" /\ R # {} /\ UNCHANGED <<sample, src>>
  /\ \E order \in SetToSeqs(R) :
       io' = [io EXCEPT !.pc = "handle", !.ready = Cardinality(R),
              !.evs = [j \in DOMAIN order |-> [fd |-> order[j], in |-> src[order[j]].buf # <<>>,
                                               hup |-> ~src[order[j]].up]]]

MutHupFirst(e)  == e.hup
MutIgnoreHup(e) == FALSE
\* Input is read before a hang-up is looked at.
closing(e) == ~e.in /\ e.hup

HandleEvent ==
  /\ io.pc = "handle" /\ UNCHANGED sample
  /\ LET e    == Head(io.evs)
         fds2 == IF closing(e) THEN io.fds \ {e.fd} ELSE io.fds
     IN
     /\ src' = IF closing(e) THEN src ELSE [src EXCEPT ![e.fd].buf = <<>>]
     /\ io' = [io EXCEPT !.fds = fds2, !.evs = Tail(@),
               !.pc = IF Len(io.evs) > 1 THEN @ ELSE IF fds2 = {} THEN "end" ELSE "wait"]
-----------------------------------------------------------------------------
\* One FIFO: wait until it may be read, at most for five seconds if limited.
WaitFor(readable, limited) ==
  /\ io.pc = "wait" /\ UNCHANGED <<sample, src>>
  /\ \/ readable /\ io' = [io EXCEPT !.pc = "read"]
     \/ limited /\ ~Readable(1) /\ io' = [io EXCEPT !.pc = "end"]      \* time elapsed

ReadThen(next, open) ==
  /\ io.pc = "read" /\ UNCHANGED sample
  /\ src' = [src EXCEPT ![1].buf = <<>>] /\ io' = [io EXCEPT !.pc = next, !.fds = open]

(* select and pselect find a FIFO readable at its end of file, for ever;   *)
(* poll says POLLHUP without POLLIN and is called again at once.           *)
select_sample  == sample = "select_sample"  /\ (WaitFor(Readable(1), TRUE) \/ ReadThen("wait", {1}))
pselect_sample == sample = "pselect_sample" /\ (WaitFor(Readable(1), TRUE) \/ ReadThen("wait", {1}))
poll_sample    == sample = "poll_sample" /\ (WaitFor(src[1].buf # <<>>, TRUE) \/ ReadThen("wait", {1}))
\* Waits and reads once, and closes.
epoll_sample   == sample = "epoll_sample" /\ (WaitFor(Readable(1), FALSE) \/ ReadThen("end", {}))

alt_io_select ==
  /\ sample = "alt_io_select" /\ io.pc = "start" /\ UNCHANGED <<sample, src>>
  /\ io' = [io EXCEPT !.pc = "end", !.ready = IF Readable(1) THEN 1 ELSE 0]

\* Ten pipes, two of them written to; poll does not wait.
alt_io_poll ==
  LET pfds == [i \in 0..9 |-> IF i \in {5, 6} THEN <<"a">> ELSE <<>>] IN
  /\ sample = "alt_io_poll" /\ io.pc = "start" /\ UNCHANGED <<sample, src>>
  /\ io' = [io EXCEPT !.pc = "end", !.ready = Cardinality({i \in DOMAIN pfds : pfds[i] # <<>>})]
-----------------------------------------------------------------------------
(* SIGIO: sleep, look at the flag, clear it, read all there is.            *)
SetAsync ==
  /\ sample = "alt_io_signal" /\ io.pc = "start" /\ UNCHANGED <<sample, src>>
  /\ io' = [io EXCEPT !.pc = "sleep"]

CheckFlag ==
  /\ io.pc = "sleep" /\ io.got_sig_io /\ UNCHANGED <<sample, src>>
  /\ io' = [io EXCEPT !.pc = "drain", !.got_sig_io = FALSE]

read_loop_ends == [io EXCEPT !.pc = "sleep"]

ReadChunk ==
  /\ io.pc = "drain" /\ UNCHANGED sample
  /\ IF src[1].buf = <<>> THEN io' = read_loop_ends /\ UNCHANGED src
     ELSE /\ src' = [src EXCEPT ![1].buf = Tail(@)]
          /\ io' = [(IF Head(src[1].buf) = "nl" THEN read_loop_ends ELSE io)
                      EXCEPT !.first = Head(src[1].buf)]
-----------------------------------------------------------------------------
ReaderStep ==
  \/ EpollWait \/ HandleEvent \/ select_sample \/ pselect_sample
  \/ poll_sample \/ epoll_sample \/ alt_io_select \/ alt_io_poll \/ SetAsync \/ CheckFlag \/ ReadChunk

EventNext ==
  /\ sample \in EventSamples
  /\ OpenFifo \/ ReaderStep \/ \E i \in Inputs : WriteInput(i) \/ HangUp(i) \/ WriterComesBack(i)

\* Nobody has to come and write; what is ready is handled in the end.
EventFairness == WF_eventVars(sample \in EventSamples /\ ReaderStep)
-----------------------------------------------------------------------------
(* Nothing is forgotten.  A FIFO that alt_io_epoll has closed holds at     *)
(* most what came from a writer that opened it after the first had hung    *)
(* up, between epoll_wait and close.  While alt_io_signal sleeps with its  *)
(* flag clear, what has been typed since O_ASYNC was set has all been read *)
(* unless the read loop was left at a newline.                             *)
NothingForgotten ==
  /\ sample = "alt_io_epoll" /\ io.pc \notin {"start", "errExit"} =>
       \A i \in Inputs \ io.fds : "first" \notin ToSet(src[i].buf)
  /\ io.pc = "sleep" /\ ~io.got_sig_io =>
       ToSet(src[1].buf) \subseteq {"old"} \/ io.first = "nl"

(* A level-triggered reader that has something to read reads it or has     *)
(* returned; and alt_io_epoll comes to its end once both writers are gone, *)
(* unless one comes back.                                                  *)
LevelTriggered ==
  /\ \A i \in Inputs :
       sample \in FifoSamples /\ i \in io.fds /\ src[i].buf # <<>> ~>
         src[i].buf = <<>> \/ io.pc \in {"start", "end", "errExit"} \/ i \notin io.fds
  /\ sample = "alt_io_epoll" /\ io.fds = Inputs /\ (\A i \in Inputs : ~src[i].up) ~>
       io.pc = "end" \/ \E i \in Inputs : src[i].up

(* The comment in alt_io_signal: everything is read before the next signal *)
(* comes.                                                                  *)
ReadsAll ==
  io.pc = "sleep" /\ ~io.got_sig_io => ToSet(src[1].buf) \subseteq {"old"}
=============================================================================
