------------------------------ MODULE Channels ------------------------------
(***************************************************************************)
(* What the calls of ChannelPrograms do: ends of a channel held by several *)
(* processes, end of file when the last writing end is closed, FIFOs that  *)
(* open when both ends are there, connections waiting to be accepted, and  *)
(* datagrams, which the Internet domain may lose.  Anybody but process a   *)
(* may be killed at any time, and the kernel closes what it had open.      *)
(***************************************************************************)
EXTENDS ChannelPrograms, SequencesExt

CONSTANT MaxKills   \* processes killed from outside
ASSUME MaxKillsAssumption == MaxKills \in Nat

Procs == {"a", "b", "c"}
Chans == {"b", "c"}        \* pipes and FIFOs use b, a connection its client's

WithClients(s, t) == [a |-> s, b |-> t, c |-> t]
ChProgs ==
  [ipc_pipe |-> ipc_pipe, ipc_pipe_stdinout |-> ipc_pipe_stdinout,
   ipc_pipe_popen |-> ipc_pipe_popen, socket_pair_sample |-> socket_pair_sample,
   ipc_fifo |-> ipc_fifo,
   unix_stream |-> WithClients(socket_unix_domain_stream_server, socket_unix_domain_stream_client),
   inet_stream |-> WithClients(socket_inet_domain_stream_server, socket_inet_domain_stream_client),
   inet_stream_v2 |-> WithClients(socket_inet_domain_stream_server_v2, socket_inet_domain_stream_client_v2),
   unix_datagram |-> WithClients(socket_unix_domain_datagram_server, socket_unix_domain_datagram_client),
   inet_datagram |-> WithClients(socket_inet_domain_datagram_server, socket_inet_domain_datagram_client)]
PipeSamples   == {"ipc_pipe", "ipc_pipe_stdinout", "ipc_pipe_popen", "socket_pair_sample"}
StreamSamples == {"unix_stream", "inet_stream", "inet_stream_v2"}
GramSamples   == {"unix_datagram", "inet_datagram"}
ChanSamples   == DOMAIN ChProgs

VARIABLES q,    \* per process: its record
          ch,   \* per channel: contents and the ends that are open
          net,  \* the server's socket, and what the network did
          got   \* messages read so far, in order

chanVars == <<q, ch, net, got>>

FreshProc == [st |-> "run", pc |-> 1, n |-> 0,    \* n: messages written
              eof |-> FALSE, got |-> <<"a", 0>>] \* got: last datagram
NoChan    == [buf |-> <<>>, rd |-> {}, wr |-> {}]

(* Processes are at a call of their program, and the ends of a channel     *)
(* belong to processes that run.                                           *)
ChanTypeOK ==
  /\ \A p \in Procs :
       /\ q[p].st \in {"none", "run", "exit", "errExit", "killed"}
       /\ q[p].st = "run" /\ sample \in ChanSamples => q[p].pc \in DOMAIN ChProgs[sample][p]
       /\ q[p].n \in 0..NumMsgs
  /\ \A c \in Chans : ch[c].rd \cup ch[c].wr \subseteq
                        {p \in Procs : q[p].st = "run"} \X {"pfd", "stdout", "socket"}
  /\ net.kills \in 0..MaxKills /\ net.lost \in BOOLEAN /\ net.bound \subseteq Procs

ChanInit ==
  /\ q = [p \in Procs |-> [FreshProc EXCEPT
           !.st = IF p = "a" \/ sample \notin PipeSamples THEN @ ELSE "none"]]
  /\ ch = [c \in Chans |-> NoChan]
  /\ net = [bound |-> {}, queue |-> <<>>, conn |-> "b",
            box |-> [p \in Procs |-> <<>>], lost |-> FALSE, kills |-> 0]
  /\ got = <<>>

Cmd(p)     == ChProgs[sample][p][q[p].pc]
Calls(p, o) == q[p].st = "run" /\ Cmd(p).op = o
Advance(p) == q' = [q EXCEPT ![p].pc = @ + 1]
\* The channel p reads or writes: a client's own, the server's connection.
Chan(p)    == IF sample \notin StreamSamples THEN "b" ELSE IF p = "a" THEN net.conn ELSE p
Drop(e, p) == {x \in e : x[1] # p}
Without(p) == [c \in Chans |-> [ch[c] EXCEPT !.rd = Drop(@, p), !.wr = Drop(@, p)]]

Leave(p, how) ==
  /\ q' = [q EXCEPT ![p].st = how] /\ ch' = Without(p)
  /\ net' = [net EXCEPT !.bound = @ \ {p}, !.kills = IF how = "killed" THEN @ + 1 ELSE @]
-----------------------------------------------------------------------------
PipeCall(p) ==
  /\ Calls(p, "pipe") /\ Advance(p) /\ UNCHANGED <<sample, net, got>>
  /\ ch' = [ch EXCEPT !["b"] = [buf |-> <<>>, rd |-> {<<p, "pfd">>}, wr |-> {<<p, "pfd">>}]]

\* The child gets a copy of every end.  A fork that fails ends the parent.
ForkCall(p) ==
  /\ Calls(p, "fork") /\ UNCHANGED <<sample, got>>
  /\ \/ /\ q' = [q EXCEPT ![p].pc = @ + 1, !["b"].st = "run"]
        /\ ch' = [ch EXCEPT !["b"].rd = @ \cup {<<"b", "pfd">>},
                            !["b"].wr = @ \cup {<<"b", "pfd">>}]
        /\ UNCHANGED net
     \/ Leave(p, "errExit")

CloseCall(p) ==
  /\ Calls(p, "close") /\ Advance(p) /\ UNCHANGED <<sample, net, got>>
  /\ IF Cmd(p).side = "rd" THEN ch' = [ch EXCEPT !["b"].rd = @ \ {<<p, Cmd(p).fd>>}]
                           ELSE ch' = [ch EXCEPT !["b"].wr = @ \ {<<p, Cmd(p).fd>>}]

Dup2Call(p) ==
  /\ Calls(p, "dup2") /\ Advance(p) /\ UNCHANGED <<sample, net, got>>
  /\ ch' = [ch EXCEPT !["b"].wr = @ \cup {<<p, "stdout">>}]

\* A FIFO opens for reading when somebody has it open, or is opening it, for
\* writing, and the other way round.
OpenCall(p) ==
  /\ UNCHANGED <<sample, net, got>>
  /\ \/ /\ Calls(p, "openRd") /\ Advance(p)
        /\ ch["b"].wr # {} \/ \E r \in Procs : Calls(r, "openWr")
        /\ ch' = [ch EXCEPT !["b"].rd = @ \cup {<<p, "pfd">>}]
     \/ /\ Calls(p, "openWr") /\ Advance(p)
        /\ ch["b"].rd # {}
        /\ ch' = [ch EXCEPT !["b"].wr = @ \cup {<<p, "pfd">>}]

\* The FIFO may be there from an earlier run.  If it is not, a client that
\* comes before the server has made it finds nothing to open.
Mkfifo(p) == Calls(p, "mkfifo") /\ Advance(p) /\ UNCHANGED <<sample, ch, net, got>>
OpenFails(p) ==
  /\ Calls(p, "openWr") /\ Calls("a", "mkfifo")
  /\ Leave(p, "errExit") /\ UNCHANGED <<sample, got>>

\* A write to a descriptor that is closed, or that nobody reads, is fatal.
WriteCall(p) ==
  LET c == Chan(p) IN
  /\ Calls(p, "write") /\ UNCHANGED <<sample, got>>
  /\ IF q[p].n = Cmd(p).n THEN Advance(p) /\ UNCHANGED <<ch, net>>
     ELSE IF ch[c].rd = {} \/ \A e \in ch[c].wr : e[1] # p THEN Leave(p, "errExit")
     ELSE /\ q' = [q EXCEPT ![p].n = @ + 1] /\ UNCHANGED net
          /\ ch' = [ch EXCEPT ![c].buf = Append(@, <<p, q[p].n + 1>>)]

ReadCall(p) ==
  LET c == Chan(p) IN
  /\ Calls(p, "read") /\ UNCHANGED <<sample, net>>
  /\ \/ /\ ch[c].buf # <<>>
        /\ ch' = [ch EXCEPT ![c].buf = Tail(@)] /\ got' = Append(got, Head(ch[c].buf))
        /\ UNCHANGED q
     \/ /\ ch[c].buf = <<>> /\ ch[c].wr = {}
        /\ q' = [q EXCEPT ![p].pc = Cmd(p).eof, ![p].eof = TRUE]
        /\ UNCHANGED <<ch, got>>
-----------------------------------------------------------------------------
(* socket, bind and listen.  An Internet address may still be in use; the  *)
(* Unix-domain servers remove the path first.                              *)
BindCall(p) ==
  /\ UNCHANGED <<sample, got>>
  /\ \/ /\ Calls(p, "bind") \/ Calls(p, "bindInet") \/ Calls(p, "bindPath")
        /\ Advance(p) /\ net' = [net EXCEPT !.bound = @ \cup {p}] /\ UNCHANGED ch
     \/ Calls(p, "bindInet") /\ Leave(p, "errExit")

\* Refused while nobody listens.  Connected, a client may write though the
\* server has not accepted it yet.
ConnectCall(p) ==
  /\ UNCHANGED <<sample, got>>
  /\ \/ /\ Calls(p, "connect") \/ Calls(p, "connectAny")
        /\ "a" \in net.bound /\ Advance(p)
        /\ net' = [net EXCEPT !.queue = Append(@, p)]
        /\ ch' = [ch EXCEPT ![p].wr = {<<p, "socket">>}, ![p].rd = {<<"a", "socket">>}]
     \/ Calls(p, "connect") /\ "a" \notin net.bound /\ Leave(p, "errExit")
     \/ /\ Calls(p, "connectAny") /\ "a" \notin net.bound
        /\ Advance(p) /\ UNCHANGED <<ch, net>>

AcceptCall(p) ==
  /\ Calls(p, "accept") \/ Calls(p, "acceptFrom")
  /\ net.queue # <<>> /\ Advance(p) /\ UNCHANGED <<sample, ch, got>>
  /\ net' = [net EXCEPT !.queue = Tail(@), !.conn = Head(net.queue)]

\* Nothing has set the length of the buffer for the client's address: accept
\* takes whatever is there for it, and refuses what is negative.
AcceptInvalid(p) ==
  /\ Calls(p, "acceptFrom") /\ net.queue # <<>>
  /\ Leave(p, "errExit") /\ UNCHANGED <<sample, got>>

CloseConn(p) ==
  /\ Calls(p, "closeConn") /\ Advance(p) /\ UNCHANGED <<sample, net, got>>
  /\ ch' = [ch EXCEPT ![net.conn].rd = {}]
-----------------------------------------------------------------------------
\* A datagram for d: in its box, lost on the way, or refused by the kernel
\* where the address is a path that is gone.
SendGram(p, d, m) ==
  /\ UNCHANGED <<sample, got>>
  /\ IF sample = "unix_datagram" /\ d \notin net.bound THEN Leave(p, "errExit")
     ELSE /\ q' = [q EXCEPT ![p].pc = @ + 1, ![p].n = IF p = "a" THEN @ ELSE @ + 1]
          /\ UNCHANGED ch
          /\ \/ d \in net.bound \cup {"b", "c"} /\ net' = [net EXCEPT !.box[d] = Append(@, m)]
             \/ sample = "inet_datagram" /\ net' = [net EXCEPT !.lost = TRUE]

\* The client reads a line from its user and sends it.
Sendto(p) == Calls(p, "sendto") /\ q[p].n < NumMsgs /\ SendGram(p, "a", <<p, q[p].n + 1>>)

Recvfrom(p) ==
  /\ Calls(p, "recvfrom") /\ net.box[p] # <<>> /\ UNCHANGED <<sample, ch, got>>
  /\ q' = [q EXCEPT ![p].pc = @ + 1, ![p].got = Head(net.box[p])]
  /\ net' = [net EXCEPT !.box[p] = Tail(@)]

\* recvfrom's address is where the answer goes; what was read goes back.
client_addr(r) == r.got[1]
Answer(p) == Calls(p, "answer") /\ SendGram(p, client_addr(q[p]), q[p].got)
-----------------------------------------------------------------------------
Ends(p) ==
  /\ UNCHANGED <<sample, got>>
  /\ \/ /\ Calls(p, "wait") /\ q["b"].st \notin {"none", "run"}
        /\ Advance(p) /\ UNCHANGED <<ch, net>>
     \/ Calls(p, "goto") /\ q' = [q EXCEPT ![p].pc = Cmd(p).to] /\ UNCHANGED <<ch, net>>
     \/ Calls(p, "exit") /\ Leave(p, "exit")

\* Somebody interrupts a child or a client.
Interrupt(p) ==
  /\ p # "a" /\ q[p].st = "run" /\ net.kills < MaxKills
  /\ Leave(p, "killed") /\ UNCHANGED <<sample, got>>

ProcStep(p) ==
  \/ PipeCall(p) \/ ForkCall(p) \/ CloseCall(p) \/ Dup2Call(p)
  \/ Mkfifo(p) \/ OpenCall(p) \/ OpenFails(p) \/ WriteCall(p) \/ ReadCall(p)
  \/ BindCall(p) \/ ConnectCall(p) \/ AcceptCall(p) \/ AcceptInvalid(p) \/ CloseConn(p)
  \/ Sendto(p) \/ Recvfrom(p) \/ Answer(p) \/ Ends(p)

ChanNext == /\ sample \in ChanSamples
            /\ \E p \in Procs : ProcStep(p) \/ Interrupt(p)

ChanFairness == \A p \in Procs : WF_chanVars(sample \in ChanSamples /\ ProcStep(p))
-----------------------------------------------------------------------------
Gone(p) == q[p].st \in {"exit", "errExit", "killed"}

(* When parent and child of a pipe or a socket pair have both ended and    *)
(* nobody was killed, everything that was to be written has been read, in  *)
(* order; and the FIFO server, which holds a writing end of its own, never *)
(* sees an end of file, however its clients come and go.                   *)
PipeDelivers ==
  /\ sample \in PipeSamples /\ Gone("a") /\ Gone("b") /\ net.kills = 0 =>
       got = IF sample = "ipc_pipe_popen" THEN [k \in 1..NumMsgs |-> <<"b", k>>]
                                          ELSE <<<<"a", 1>>>>
  /\ sample = "ipc_fifo" => ~q["a"].eof

(* Parent and child of a pipe end, since no writing end is left open.      *)
(* Whatever a client has written to the FIFO or to a connection is read,   *)
(* though the server takes one connection at a time, unless the server has *)
(* died in an accept that was given no length.  A client of the            *)
(* datagram servers gets the answer to its own message unless a datagram   *)
(* was lost or a killed client has taken the server with it.               *)
GetThrough ==
  /\ sample \in PipeSamples ~> Gone("a") /\ ~(q["b"].st = "run")
  /\ \A p \in {"b", "c"} :
       sample \in StreamSamples \cup {"ipc_fifo"} /\ q[p].n > 0 ~>
         \/ \A k \in 1..q[p].n : <<p, k>> \in ToSet(got)
         \/ q["a"].st = "errExit" /\ Cmd("a").op = "acceptFrom"
  /\ \A p \in {"b", "c"} :
       sample \in GramSamples /\ Calls(p, "recvfrom") ~>
         q[p].got = <<p, q[p].n>> \/ net.lost \/ q[p].st = "killed"
         \/ (q["a"].st = "errExit" /\ net.kills > 0)
=============================================================================
