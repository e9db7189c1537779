-------------------------- MODULE ChannelPrograms ---------------------------
(***************************************************************************)
(* The samples about pipes, FIFOs and sockets as programs, one for each    *)
(* process; module Channels says what the calls do.  Sources:              *)
(*   LinuxAPI2/ipc_pipe.c, ipc_fifo_server.c, ipc_fifo/ipc_fifo_client.c,  *)
(*   socket_unix_domain.c, socket_inet_domain.c                            *)
(* Process a is the parent or the server, b and c are the child or the     *)
(* clients.  What is read is printed; printing is left out.                *)
(***************************************************************************)
EXTENDS Samples, Naturals, Sequences

CONSTANT NumMsgs   \* messages that one process writes
ASSUME NumMsgsAssumption == NumMsgs \in Nat \ {0}

Do(o)          == [op |-> o]
CloseRd        == [op |-> "close", side |-> "rd", fd |-> "pfd"]
CloseWr(fd)    == [op |-> "close", side |-> "wr", fd |-> fd]
WriteUpTo(n)   == [op |-> "write", n |-> n]
ReadElse(n)    == [op |-> "read", eof |-> n]    \* n: where to go at end of file
Again(n)       == [op |-> "goto", to |-> n]
-----------------------------------------------------------------------------
(* The reader of a pipe or a socket pair gives up the end it does not use  *)
(* and reads until the end of file; the writer writes, closes and waits.   *)
MutKeepWriteEnd == << ReadElse(2), CloseRd, Do("exit") >>

pipe_child  == << CloseWr("pfd"), ReadElse(3), CloseRd, Do("exit") >>
pipe_parent == << Do("pipe"), Do("fork"), CloseRd, WriteUpTo(1), CloseWr("pfd"),
                  Do("wait"), Do("exit") >>

ipc_pipe == [a |-> pipe_parent, b |-> pipe_child, c |-> <<>>]

\* The parent's writing end becomes its standard output.
ipc_pipe_stdinout ==
  [a |-> << Do("pipe"), Do("fork"), CloseRd, Do("dup2"), CloseWr("pfd"),
            WriteUpTo(1), CloseWr("stdout"), Do("wait"), Do("exit") >>,
   b |-> pipe_child, c |-> <<>>]

\* popen makes the pipe and the child that writes, pclose waits for it.
ipc_pipe_popen ==
  [a |-> << Do("pipe"), Do("fork"), CloseWr("pfd"), ReadElse(5), CloseRd, Do("wait"), Do("exit") >>,
   b |-> << CloseRd, WriteUpTo(NumMsgs), Do("exit") >>, c |-> <<>>]

socket_pair_sample == [a |-> pipe_parent, b |-> pipe_child, c |-> <<>>]
-----------------------------------------------------------------------------
MutNoDummy == << Do("mkfifo"), Do("openRd"), ReadElse(3), Again(3) >>

\* A server that reads end of file goes on reading it.
ipc_fifo_server == << Do("mkfifo"), Do("openRd"), Do("openWr"), ReadElse(4), Again(4) >>
ipc_fifo_client == << Do("openWr"), WriteUpTo(1), Do("exit") >>
ipc_fifo == [a |-> ipc_fifo_server, b |-> ipc_fifo_client, c |-> ipc_fifo_client]
-----------------------------------------------------------------------------
(* One connection after the other, each read to its end.  The servers of   *)
(* the Internet domain ask accept for the client's address.                *)
socket_unix_domain_stream_server ==
  << Do("bind"), Do("accept"), ReadElse(4), Do("closeConn"), Again(2) >>
socket_unix_domain_stream_client == << Do("connect"), WriteUpTo(NumMsgs), Do("exit") >>

socket_inet_domain_stream_server ==
  << Do("bindInet"), Do("acceptFrom"), ReadElse(4), Do("closeConn"), Again(2) >>
socket_inet_domain_stream_client ==
  << Do("connect"), WriteUpTo(NumMsgs), Do("exit") >>

\* Every address is tried.  If none will do the server fails at listen, but
\* the client goes on with a closed descriptor and fails at its first write.
socket_inet_domain_stream_server_v2 ==
  << Do("bindInet"), Do("acceptFrom"), ReadElse(4), Do("closeConn"), Again(2) >>
socket_inet_domain_stream_client_v2 ==
  << Do("connectAny"), WriteUpTo(NumMsgs), Do("exit") >>
-----------------------------------------------------------------------------
(* Messages that are sent back to where they came from.  The client of     *)
(* the Unix domain needs a path of its own, that of the Internet does not. *)
socket_unix_domain_datagram_server ==
  << Do("bindPath"), Do("recvfrom"), Do("answer"), Again(2) >>
socket_unix_domain_datagram_client ==
  << Do("bindPath"), Do("sendto"), Do("recvfrom"), Again(2) >>

socket_inet_domain_datagram_server ==
  << Do("bindInet"), Do("recvfrom"), Do("answer"), Again(2) >>
socket_inet_domain_datagram_client == << Do("sendto"), Do("recvfrom"), Again(1) >>
=============================================================================
