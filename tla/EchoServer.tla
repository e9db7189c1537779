----------------------------- MODULE EchoServer -----------------------------
(***************************************************************************)
(* LinuxAPI2/socket_echo_server_example.c and ..._client_example.c: a      *)
(* server that forks a child for every connection and reaps it in the      *)
(* SIGCHLD handler of Children, and clients of two processes each: one     *)
(* sends stdin, one prints the echo.  Kid c serves client c.  A connection *)
(* is a byte stream both ways: counts of messages are enough.              *)
(***************************************************************************)
EXTENDS Children

CONSTANTS NumClients,   \* clients, and children that serve them
          NumMessages,  \* lines on each client's stdin
          Backlog       \* listen(lfd, backlog): 5

ASSUME ClientsAssumption ==
  NumClients \in 0..NumChildren /\ NumMessages \in Nat /\ Backlog \in Nat \ {0}

Clients == 1..NumClients

VARIABLES conn,     \* per client: none, backlog, open
          cur,      \* client whose socket accept returned last
          fds,      \* per client: processes that have its server end open
          lfd,      \* processes that have the listening socket open
          kpc,      \* per child: next step
          sent, shut,         \* client: messages written; SHUT_WR done
          taken, echoed,      \* child: messages read and written back
          got, eof            \* client: messages read; end of file seen

esVars == <<conn, cur, fds, lfd, kpc, sent, shut, taken, echoed, got, eof>>
clientVars == <<sent, shut, got, eof>>

Server  == 0                   \* the parent, among those who hold descriptors
Holders == {Server} \cup Clients

(* The state of the connections is well formed. *)
EsTypeOK ==
  /\ conn \in [Clients -> {"none", "backlog", "open"}] /\ cur \in 0..NumClients
  /\ fds \in [Clients -> SUBSET Holders]
  /\ lfd \subseteq Holders
  /\ kpc \in [Clients -> {"start", "echo", "write", "accept", "second", "gone"}]
  /\ sent \in [Clients -> 0..NumMessages] /\ taken \in [Clients -> 0..NumMessages]
  /\ echoed \in [Clients -> 0..NumMessages] /\ got \in [Clients -> 0..NumMessages]
  /\ shut \in [Clients -> BOOLEAN] /\ eof \in [Clients -> BOOLEAN]

EsInit ==
  LET zero == [c \in Clients |-> 0]
      no   == [c \in Clients |-> FALSE]
  IN /\ conn = [c \in Clients |-> "none"] /\ cur = 0
     /\ fds = [c \in Clients |-> {}] /\ lfd = {Server}
     /\ kpc = [c \in Clients |-> "start"]
     /\ sent = zero /\ taken = zero /\ echoed = zero /\ got = zero
     /\ shut = no /\ eof = no
-----------------------------------------------------------------------------
(* The parent; SIGCHLD may interrupt it between any two steps. *)
Accept ==
  /\ par = "accept" /\ par' = "accepted"
  /\ \E c \in Clients : /\ conn[c] = "backlog" /\ cur' = c
                        /\ conn' = [conn EXCEPT ![c] = "open"]
                        /\ fds' = [fds EXCEPT ![c] = {Server}]
  /\ UNCHANGED <<kernelVars, lfd, kpc, clientVars, taken, echoed>>

\* The child inherits both sockets.
Fork ==
  /\ par = "accepted" /\ par' = "close"
  /\ kid' = [kid EXCEPT ![cur] = "running"]
  /\ fds' = [c \in Clients |-> IF Server \in fds[c] THEN fds[c] \cup {cur} ELSE fds[c]]
  /\ lfd' = lfd \cup {cur}
  /\ UNCHANGED <<pending, handler, conn, cur, kpc, clientVars, taken, echoed>>

\* errExit ends the server; the children go on.
ServerEnds ==
  /\ par' = "errExit"
  /\ fds' = [c \in Clients |-> fds[c] \ {Server}] /\ lfd' = lfd \ {Server}
  /\ UNCHANGED <<kernelVars, conn, cur, kpc, clientVars, taken, echoed>>

ForkFails == par = "accepted" /\ ServerEnds

MutCloseClient ==
  /\ par = "close" /\ par' = "accept"
  /\ UNCHANGED <<kernelVars, conn, cur, fds, lfd, kpc, clientVars, taken, echoed>>

CloseClient ==
  /\ par = "close" /\ par' = "accept"
  /\ fds' = [fds EXCEPT ![cur] = @ \ {Server}]
  /\ UNCHANGED <<kernelVars, conn, cur, lfd, kpc, clientVars, taken, echoed>>

socket_echo_server ==
  /\ sample = "socket_echo_server" /\ handler = "idle"
  /\ Accept \/ Fork \/ ForkFails \/ CloseClient
  /\ UNCHANGED <<sample, child_cnt, forked>>

\* accept fails, for want of a descriptor, say; nothing obliges it to.
AcceptFails ==
  /\ sample = "socket_echo_server" /\ handler = "idle" /\ par = "accept"
  /\ ServerEnds /\ UNCHANGED <<sample, child_cnt, forked>>

CloseListener(c) == lfd' = lfd \ {c}

MutEcho(c) ==
  \/ /\ kpc[c] = "echo" /\ taken[c] < sent[c]
     /\ taken' = [taken EXCEPT ![c] = sent[c]]
     /\ kpc' = [kpc EXCEPT ![c] = "write"] /\ UNCHANGED echoed
  \/ /\ kpc[c] = "echo" /\ shut[c]
     /\ kpc' = [kpc EXCEPT ![c] = "accept"] /\ UNCHANGED <<taken, echoed>>
  \/ /\ kpc[c] = "write" /\ echoed' = [echoed EXCEPT ![c] = taken[c]]
     /\ kpc' = [kpc EXCEPT ![c] = "echo"] /\ UNCHANGED taken

(* echo(): read what has arrived, or part of it, and write it back, until  *)
(* the client has shut its side and all is read.                           *)
echo(c) ==
  \/ /\ kpc[c] = "echo" /\ \E n \in taken[c] + 1 .. sent[c] : taken' = [taken EXCEPT ![c] = n]
     /\ kpc' = [kpc EXCEPT ![c] = "write"] /\ UNCHANGED echoed
  \/ /\ kpc[c] = "echo" /\ taken[c] = sent[c] /\ shut[c]
     /\ kpc' = [kpc EXCEPT ![c] = "accept"] /\ UNCHANGED <<taken, echoed>>
  \/ /\ kpc[c] = "write" /\ echoed' = [echoed EXCEPT ![c] = taken[c]]
     /\ kpc' = [kpc EXCEPT ![c] = "echo"] /\ UNCHANGED taken

(* A child: the break after echo() leads back to the accept loop.  Its own *)
(* listening socket is closed, so accept fails and errExit ends it; with   *)
(* an open one it would be a second server.                                *)
EchoChild(c) ==
  /\ sample = "socket_echo_server" /\ kid[c] = "running"
  /\ \/ /\ kpc[c] = "start" /\ kpc' = [kpc EXCEPT ![c] = "echo"] /\ CloseListener(c)
        /\ UNCHANGED <<kid, pending, fds, taken, echoed>>
     \/ echo(c) /\ UNCHANGED <<kid, pending, fds, lfd>>
     \/ /\ kpc[c] = "accept"
        /\ kpc' = [kpc EXCEPT ![c] = IF c \in lfd THEN "second" ELSE "gone"]
        /\ IF c \in lfd THEN UNCHANGED <<kid, pending, fds, lfd>>
           ELSE Exit(c) /\ fds' = [d \in Clients |-> fds[d] \ {c}] /\ UNCHANGED lfd
        /\ UNCHANGED <<taken, echoed>>
  /\ UNCHANGED <<sample, handler, par, child_cnt, forked, conn, cur, clientVars>>
-----------------------------------------------------------------------------
\* Nobody has the other end of the client's connection, or ever will.
Dead(c) == IF conn[c] = "open" THEN fds[c] = {} ELSE lfd = {}

(* A client connects when there is room in the backlog; without a listener *)
(* it is refused and ends.                                                 *)
connector(c) ==
  /\ conn[c] = "none" /\ ~eof[c] /\ UNCHANGED <<sent, got>>
  /\ IF lfd = {}
       THEN shut' = [shut EXCEPT ![c] = TRUE] /\ eof' = [eof EXCEPT ![c] = TRUE] /\ UNCHANGED conn
       ELSE /\ Cardinality({d \in Clients : conn[d] = "backlog"}) < Backlog
            /\ conn' = [conn EXCEPT ![c] = "backlog"] /\ UNCHANGED <<shut, eof>>

(* Its parent process sends its stdin and shuts the writing side; a write  *)
(* to a dead connection ends it ...                                        *)
ClientWrite(c) ==
  /\ conn[c] # "none" /\ ~shut[c] /\ UNCHANGED <<conn, got, eof>>
  /\ IF sent[c] < NumMessages /\ ~Dead(c)
       THEN sent' = [sent EXCEPT ![c] = @ + 1] /\ UNCHANGED shut
       ELSE shut' = [shut EXCEPT ![c] = TRUE] /\ UNCHANGED sent

(* ... and its child reads until end of file or a reset, which comes when  *)
(* everybody has closed the server's end.                                  *)
ClientRead(c) ==
  /\ conn[c] # "none" /\ ~eof[c] /\ UNCHANGED <<conn, sent, shut>>
  /\ \/ /\ \E n \in got[c] + 1 .. echoed[c] : got' = [got EXCEPT ![c] = n]
        /\ UNCHANGED eof
     \/ /\ got[c] = echoed[c] /\ Dead(c)
        /\ eof' = [eof EXCEPT ![c] = TRUE] /\ UNCHANGED got

\* A client that cannot fork just returns, and both its sides are closed.
ClientForkFails(c) ==
  /\ conn[c] # "none" /\ sent[c] = 0 /\ ~shut[c] /\ ~eof[c]
  /\ shut' = [shut EXCEPT ![c] = TRUE] /\ eof' = [eof EXCEPT ![c] = TRUE]
  /\ UNCHANGED <<conn, sent, got>>

socket_echo_client(c) ==
  /\ sample = "socket_echo_server"
  /\ connector(c) \/ ClientWrite(c) \/ ClientRead(c) \/ ClientForkFails(c)
  /\ UNCHANGED <<sample, chVars, cur, fds, lfd, kpc, taken, echoed>>

EsNext == \/ socket_echo_server \/ AcceptFails
          \/ \E c \in Clients : EchoChild(c) \/ socket_echo_client(c)

EsSpec == /\ ChInit /\ EsInit
          /\ [][(ChNext /\ UNCHANGED esVars) \/ EsNext]_<<sample, chVars, esVars>>

EsFairness ==
  /\ WF_<<chVars, esVars>>(socket_echo_server)
  /\ \A c \in Clients : WF_<<chVars, esVars>>(EchoChild(c))
                     /\ WF_<<chVars, esVars>>(socket_echo_client(c))
-----------------------------------------------------------------------------
(* A client that sees the end of file has got back all it sent, unless the *)
(* server ended, in accept or fork, before it had a child of its own.      *)
EchoComplete ==
  \A c \in Clients : 
    eof[c] => \/ shut[c] /\ got[c] = sent[c]
              \/ par = "errExit" /\ kid[c] = "none"

(* Only the parent accepts: a child that falls back into the accept loop   *)
(* ends there.                                                             *)
OneAcceptor == \A c \in Clients : kpc[c] # "second"

(* A connection is open in the parent only until its child is forked, and  *)
(* never in another client's child: a child that falls back into the       *)
(* accept loop has no listening socket left to accept with.                *)
DescriptorsPrivate ==
  /\ OneAcceptor
  /\ \A c \in Clients : /\ fds[c] \subseteq {Server, c}
                        /\ Server \in fds[c] => c = cur /\ par \in {"accepted", "close"}

(* Every client comes to its end, and every child is reaped while the      *)
(* server is there to do it.                                               *)
AllServed ==
  \A c \in Clients :
    sample = "socket_echo_server" ~> eof[c] /\ (kid[c] = "reaped" \/ par = "errExit")
=============================================================================
