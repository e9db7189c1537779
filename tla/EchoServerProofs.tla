-------------------------- MODULE EchoServerProofs --------------------------
(***************************************************************************)
(* Proofs about EsSpec, for any number of children, clients and messages:  *)
(* no zombie is forgotten, only the parent accepts, descriptors stay       *)
(* private, and a client that sees the end of file has got back all it     *)
(* sent.                                                                   *)
(***************************************************************************)
EXTENDS EchoServer, TLAPS

allVars == <<sample, chVars, esVars>>
EsStep  == (ChNext /\ UNCHANGED esVars) \/ EsNext

(* main() calls one sample, whatever it does. *)
LEMMA SampleFixed == [EsStep]_allVars => sample' = sample
BY DEF EsStep, allVars, ChNext, Parent, Kernel, SignalFirst, ChildExit, Deliver,
       sigchld_signal_handler, HandlerReturn, process_wait_by_signal, process_wait,
       process_waitpid, process_func, process_exec, fork_exec_wait,
       EsNext, socket_echo_server, AcceptFails, EchoChild, socket_echo_client

-----------------------------------------------------------------------------
KidType == kid \in [Kids -> KidStates]

(* A child is in one of its states. *)
LEMMA KidTypeStep ==
  ASSUME KidType, [EsStep]_allVars
  PROVE  KidType'
<1>1. ASSUME NEW c, NEW s \in KidStates, kid' = [kid EXCEPT ![c] = s] PROVE KidType'
  BY <1>1 DEF KidType
<1>2. CASE UNCHANGED kid
  BY <1>2 DEF KidType
<1>3. CASE Kernel
  BY <1>1, <1>2, <1>3 DEF Kernel, Deliver, sigchld_signal_handler, HandlerReturn, KidStates
<1>4. CASE Parent
  <2>1. ASSUME NEW p, ForkLoop(p) PROVE KidType'
    BY <1>1, <1>2, <2>1 DEF ForkLoop, KidStates
  <2>2. CASE process_wait_by_signal
    BY <1>2, <2>1, <2>2 DEF process_wait_by_signal, kernelVars
  <2>3. CASE process_wait
    BY <1>1, <1>2, <2>1, <2>3 DEF process_wait, KidStates
  <2>4. CASE process_waitpid
    BY <2>1, <2>4 DEF process_waitpid, KidStates, KidType
  <2>5. CASE process_func \/ process_exec \/ fork_exec_wait
    BY <1>1, <1>2, <2>5 DEF process_func, process_exec, fork_exec_wait, ForkOnce,
                            WaitForIt, kernelVars, KidStates
  <2>6. QED BY <1>4, <2>2, <2>3, <2>4, <2>5 DEF Parent
<1>5. CASE SignalFirst
  BY <1>1, <1>5 DEF SignalFirst, KidStates
<1>6. ASSUME NEW c \in Kids, ChildExit(c) PROVE KidType'
  BY <1>1, <1>6 DEF ChildExit, Exit, KidStates
<1>7. CASE socket_echo_server \/ AcceptFails
  BY <1>1, <1>2, <1>7 DEF socket_echo_server, Accept, AcceptFails, Fork, ForkFails, ServerEnds,
                          CloseClient, kernelVars, KidStates
<1>8. ASSUME NEW c \in Clients, EchoChild(c) \/ socket_echo_client(c) PROVE KidType'
  BY <1>1, <1>2, <1>8 DEF EchoChild, Exit, socket_echo_client, chVars, kernelVars, KidStates
<1>9. CASE UNCHANGED allVars
  BY <1>2, <1>9 DEF allVars, chVars, kernelVars
<1>10. QED
  BY <1>3, <1>4, <1>5, <1>6, <1>7, <1>8, <1>9 DEF EsStep, ChNext, EsNext

(* Zombies, signal and handler, whoever the parent is. *)
LEMMA ZombieStep ==
  ASSUME KidType, NoZombieForgotten, [EsStep]_allVars
  PROVE  NoZombieForgotten'
<1> SUFFICES ASSUME sample \in {"process_wait_by_signal", "socket_echo_server"},
                    Zombies' # {}
             PROVE  pending' \/ handler' = "loop"
  BY SampleFixed DEF NoZombieForgotten
<1> DEFINE Quiet == Zombies' \subseteq Zombies /\ pending' = pending /\ handler' = handler
<1>0. ASSUME Quiet PROVE pending' \/ handler' = "loop"
  BY <1>0 DEF NoZombieForgotten
<1>1. CASE Deliver
  BY <1>1 DEF Deliver
<1>2. CASE sigchld_signal_handler
  BY <1>2 DEF sigchld_signal_handler, Zombies
<1>3. CASE HandlerReturn
  BY <1>3 DEF HandlerReturn, NoZombieForgotten, Zombies
<1>4. ASSUME NEW c \in Kids, ChildExit(c) PROVE pending'
  BY <1>4 DEF ChildExit, Exit
<1>5. CASE process_wait_by_signal
  <2>1. Quiet
    BY <1>5 DEF process_wait_by_signal, ForkLoop, kernelVars, Zombies, KidType
  <2>2. QED BY <2>1, <1>0
<1>6. CASE EsNext
  <2>1. CASE socket_echo_server \/ AcceptFails
    <3>1. Quiet
      BY <2>1 DEF socket_echo_server, Accept, AcceptFails, Fork, ForkFails, ServerEnds,
                  CloseClient, kernelVars, Zombies, KidType
    <3>2. QED BY <3>1, <1>0
  <2>2. ASSUME NEW c \in Clients, EchoChild(c) PROVE pending' \/ handler' = "loop"
    <3>1. UNCHANGED <<kid, pending, handler>> \/ pending'
      BY <2>2 DEF EchoChild, echo, Exit
    <3>2. QED BY <3>1, <1>0 DEF Zombies
  <2>3. ASSUME NEW c \in Clients, socket_echo_client(c) PROVE pending' \/ handler' = "loop"
    BY <2>3, <1>0 DEF socket_echo_client, chVars, kernelVars, Zombies
  <2>4. QED BY <1>6, <2>1, <2>2, <2>3 DEF EsNext
<1>7. CASE UNCHANGED allVars
  BY <1>7, <1>0 DEF allVars, chVars, kernelVars, Zombies
<1>8. QED
  BY <1>1, <1>2, <1>3, <1>4, <1>5, <1>6, <1>7
     DEF EsStep, ChNext, Parent, Kernel, SignalFirst, process_wait, process_waitpid,
         process_func, process_exec, fork_exec_wait

(* However many children end while SIGCHLD is blocked or pending, the one  *)
(* bit it is and the loop around waitpid miss none of them.                *)
THEOREM ZombiesFound == EsSpec => []NoZombieForgotten
<1>1. ChInit => KidType /\ NoZombieForgotten
  BY DEF ChInit, NoZombieForgotten, Zombies, KidType, KidStates
<1>2. KidType /\ NoZombieForgotten /\ [EsStep]_allVars => (KidType /\ NoZombieForgotten)'
  BY KidTypeStep, ZombieStep
<1>3. QED
  BY <1>1, <1>2, PTL DEF EsSpec, EsStep, allVars
-----------------------------------------------------------------------------
(***************************************************************************)
(* The inductive invariant of the echo server.  A client's connection      *)
(* passes from the backlog through the parent to its child; Held says who  *)
(* keeps it open, Flow how far its messages are, and AllBack what the end  *)
(* of file means.                                                          *)
(***************************************************************************)
Echoing == sample = "socket_echo_server"

Orphan(c) == par = "errExit" /\ kid[c] = "none"

Held(c) ==
  /\ fds[c] \subseteq {Server, c}
  /\ Server \in fds[c] => c = cur /\ par \in {"accepted", "close"}
  /\ kid[c] = "running" => c \in fds[c]
  /\ kid[c] \in {"none", "running"} \/ kpc[c] = "gone"
  /\ kid[c] = "none" => kpc[c] = "start" /\ (conn[c] = "open" => Server \in fds[c] \/ par = "errExit")
  /\ conn[c] # "open" => kid[c] = "none" /\ fds[c] = {}
  /\ kpc[c] # "second" /\ (kpc[c] # "start" => c \notin lfd)

Flow(c) ==
  /\ got[c] <= echoed[c] /\ echoed[c] <= taken[c] /\ taken[c] <= sent[c]
  /\ kpc[c] # "write" => echoed[c] = taken[c]
  /\ kpc[c] \in {"accept", "gone"} => taken[c] = sent[c] /\ shut[c]

AllBack(c) == eof[c] => (shut[c] /\ got[c] = sent[c]) \/ Orphan(c)

ParentInv ==
  /\ Server \in lfd \/ par = "errExit"
  /\ par \in {"accepted", "close"} => cur \in Clients /\ conn[cur] = "open"
  /\ par = "accepted" => kid[cur] = "none"
  /\ par = "close" => kid[cur] # "none"

EsInv ==
  /\ KidType /\ EsTypeOK
  /\ Echoing  => ParentInv /\ \A c \in Clients : Held(c) /\ Flow(c) /\ AllBack(c)
  /\ ~Echoing => \A c \in Clients : ~eof[c] /\ kpc[c] = "start" /\ fds[c] = {}

ClientInv == \A c \in Clients : Held(c) /\ Flow(c) /\ AllBack(c)

(* The kernel's part, SIGCHLD and its handler, only turns zombies into     *)
(* reaped children.                                                        *)
LEMMA KernelKeeps ==
  ASSUME EsInv, Echoing, Kernel, UNCHANGED esVars
  PROVE  ParentInv' /\ ClientInv' /\ EsTypeOK'
<1>1. \A c \in Clients : \/ kid'[c] = kid[c]
                         \/ kid[c] = "zombie" /\ kid'[c] = "reaped"
  BY ClientsAssumption, NumChildrenAssumption
     DEF Kernel, Deliver, sigchld_signal_handler, HandlerReturn, EsInv, KidType, Zombies, Kids, Clients
<1>2. par' = par \/ (par = "suspend" /\ par' = "test")
  BY DEF Kernel, Deliver, sigchld_signal_handler, HandlerReturn, SA_RESTART, Echoing
<1>3. EsTypeOK'
  BY DEF EsInv, EsTypeOK, esVars
<1>4. ParentInv'
  BY <1>1, <1>2 DEF EsInv, ParentInv, esVars
<1>5. ASSUME NEW c \in Clients PROVE (Held(c) /\ Flow(c) /\ AllBack(c))'
  <2>1. Held(c)' BY <1>1, <1>2 DEF EsInv, Held, esVars
  <2>2. Flow(c)' BY DEF EsInv, Flow, esVars
  <2>3. AllBack(c)' BY <1>1, <1>2 DEF EsInv, AllBack, Orphan, esVars
  <2>4. QED BY <2>1, <2>2, <2>3
<1>6. QED BY <1>3, <1>4, <1>5 DEF ClientInv

(* The parent hands a connection from the backlog to a new child. *)
LEMMA ServerKeeps ==
  ASSUME EsInv, Echoing, Accept \/ Fork \/ ServerEnds \/ CloseClient
  PROVE  ParentInv' /\ ClientInv' /\ EsTypeOK'
<1> USE ClientsAssumption, NumChildrenAssumption DEF clientVars, kernelVars
<1>0. KidType /\ EsTypeOK /\ ParentInv /\ ClientInv
  BY DEF EsInv, ClientInv
<1>1. CASE Accept
  <2> PICK b \in Clients : /\ conn[b] = "backlog" /\ cur' = b
                          /\ conn' = [conn EXCEPT ![b] = "open"]
                          /\ fds' = [fds EXCEPT ![b] = {Server}]
    BY <1>1 DEF Accept
  <2>0. Held(b) BY <1>0 DEF ClientInv
  <2>1. EsTypeOK'
    BY <1>0, <1>1 DEF Accept, EsTypeOK, Clients, Holders
  <2>2. ParentInv'
    BY <1>0, <1>1, <2>0 DEF Accept, EsTypeOK, ParentInv, Held
  <2>3. ASSUME NEW c \in Clients PROVE (Held(c) /\ Flow(c) /\ AllBack(c))'
    <3>1. Held(c)'
      <4>1. Held(c) BY <1>0 DEF ClientInv
      <4>2. CASE c = b
        BY <1>0, <1>1, <2>0, <4>2 DEF Accept, EsTypeOK, Held, Server, Clients
      <4>3. CASE c # b
        BY <1>0, <1>1, <4>1, <4>3 DEF Accept, EsTypeOK, Held
      <4>4. QED BY <4>2, <4>3
    <3>2. Flow(c)' BY <1>0, <1>1 DEF Accept, ClientInv, Flow
    <3>3. AllBack(c)' BY <1>0, <1>1 DEF Accept, ClientInv, AllBack, Orphan
    <3>4. QED BY <3>1, <3>2, <3>3
  <2>4. QED BY <2>1, <2>2, <2>3 DEF ClientInv
<1>2. CASE Fork
  <2>1. EsTypeOK'
    BY <1>0, <1>2 DEF Fork, EsTypeOK, ParentInv, Holders
  <2>2. ParentInv'
    BY <1>0, <1>2 DEF Fork, ParentInv, KidType, Clients, Kids
  <2>3. ASSUME NEW c \in Clients PROVE (Held(c) /\ Flow(c) /\ AllBack(c))'
    <3>1. c \in Kids BY DEF Clients, Kids
    <3>2. Held(c)'
      BY <1>0, <1>2, <3>1 DEF Fork, EsTypeOK, KidType, ParentInv, ClientInv, Held, Clients, Server
    <3>3. Flow(c)' BY <1>0, <1>2 DEF Fork, ClientInv, Flow
    <3>4. AllBack(c)' BY <1>0, <1>2 DEF Fork, ClientInv, AllBack, Orphan
    <3>5. QED BY <3>2, <3>3, <3>4
  <2>4. QED BY <2>1, <2>2, <2>3 DEF ClientInv
<1>3. CASE ServerEnds
  <2>1. EsTypeOK'
    BY <1>0, <1>3 DEF ServerEnds, EsTypeOK
  <2>2. ParentInv'
    BY <1>0, <1>3 DEF ServerEnds, ParentInv
  <2>3. ASSUME NEW c \in Clients PROVE (Held(c) /\ Flow(c) /\ AllBack(c))'
    BY <1>0, <1>3 DEF ServerEnds, EsTypeOK, ClientInv, Held, Flow, AllBack, Orphan, Clients, Server
  <2>4. QED BY <2>1, <2>2, <2>3 DEF ClientInv
<1>4. CASE CloseClient
  <2>1. EsTypeOK'
    BY <1>0, <1>4 DEF CloseClient, EsTypeOK
  <2>2. ParentInv'
    BY <1>0, <1>4 DEF CloseClient, ParentInv
  <2>3. ASSUME NEW c \in Clients PROVE (Held(c) /\ Flow(c) /\ AllBack(c))'
    BY <1>0, <1>4 DEF CloseClient, EsTypeOK, ParentInv, ClientInv, Held, Flow, AllBack, Orphan, Clients, Server
  <2>4. QED BY <2>1, <2>2, <2>3 DEF ClientInv
<1>5. QED BY <1>1, <1>2, <1>3, <1>4

(* A child's steps touch its own connection alone. *)
LEMMA ChildKeeps ==
  ASSUME EsInv, Echoing, NEW d \in Clients, EchoChild(d)
  PROVE  ParentInv' /\ ClientInv' /\ EsTypeOK'
<1> USE DEF clientVars
<1>0. KidType /\ EsTypeOK /\ ParentInv /\ ClientInv
  BY DEF EsInv, ClientInv
<1>1. UNCHANGED <<par, cur, conn, sent, shut, got, eof>> /\ kid[d] = "running"
  BY DEF EchoChild
<1>2. d \in Kids /\ d # Server
  BY ClientsAssumption, NumChildrenAssumption DEF Clients, Kids, Server
<1>3. CASE /\ kpc[d] = "start" /\ kpc' = [kpc EXCEPT ![d] = "echo"] /\ lfd' = lfd \ {d}
           /\ UNCHANGED <<kid, pending, fds, taken, echoed>>
  <2>1. EsTypeOK' BY <1>0, <1>1, <1>3 DEF EsTypeOK
  <2>2. ParentInv' BY <1>0, <1>1, <1>2, <1>3 DEF ParentInv
  <2>3. ASSUME NEW c \in Clients PROVE (Held(c) /\ Flow(c) /\ AllBack(c))'
    BY <1>0, <1>1, <1>3 DEF EsTypeOK, ClientInv, Held, Flow, AllBack, Orphan
  <2>4. QED BY <2>1, <2>2, <2>3 DEF ClientInv
<1>4. CASE echo(d) /\ UNCHANGED <<kid, pending, fds, lfd>>
  <2>0. Flow(d) BY <1>0 DEF ClientInv
  <2>a. sent[d] \in 0..NumMessages /\ taken[d] \in 0..NumMessages /\ NumMessages \in Nat
    BY <1>0, ClientsAssumption DEF EsTypeOK
  <2>1. EsTypeOK'
    BY <1>0, <1>1, <1>4, <2>a DEF echo, EsTypeOK
  <2>2. ParentInv' BY <1>0, <1>1, <1>4 DEF ParentInv
  <2>3. ASSUME NEW c \in Clients PROVE (Held(c) /\ Flow(c) /\ AllBack(c))'
    <3>0. Held(c) /\ Flow(c) /\ AllBack(c) BY <1>0 DEF ClientInv
    <3>1. Held(c)' BY <1>0, <1>1, <1>4, <3>0 DEF echo, EsTypeOK, Held
    <3>2. Flow(c)'
      <4>1. CASE c = d
        BY <1>0, <1>1, <1>4, <2>0, <2>a, <4>1 DEF echo, EsTypeOK, Flow
      <4>2. CASE c # d
        BY <1>0, <1>1, <1>4, <3>0, <4>2 DEF echo, EsTypeOK, Flow
      <4>3. QED BY <4>1, <4>2
    <3>3. AllBack(c)' BY <1>1, <1>4, <3>0 DEF AllBack, Orphan
    <3>4. QED BY <3>1, <3>2, <3>3
  <2>4. QED BY <2>1, <2>2, <2>3 DEF ClientInv
<1>5. CASE /\ kpc[d] = "accept" /\ kpc' = [kpc EXCEPT ![d] = "gone"]
           /\ kid' = [kid EXCEPT ![d] = "zombie"]
           /\ fds' = [c \in Clients |-> fds[c] \ {d}] /\ UNCHANGED <<lfd, taken, echoed>>
  <2>1. EsTypeOK' BY <1>0, <1>1, <1>5 DEF EsTypeOK
  <2>2. ParentInv' BY <1>0, <1>1, <1>5 DEF ParentInv, KidType
  <2>3. ASSUME NEW c \in Clients PROVE (Held(c) /\ Flow(c) /\ AllBack(c))'
    <3>0. Held(c) /\ Flow(c) /\ AllBack(c) BY <1>0 DEF ClientInv
    <3>a. c \in Kids BY ClientsAssumption, NumChildrenAssumption DEF Clients, Kids
    <3>1. Held(c)' BY <1>0, <1>1, <1>2, <1>5, <3>0, <3>a DEF EsTypeOK, KidType, Held
    <3>2. Flow(c)' BY <1>0, <1>1, <1>5, <3>0 DEF EsTypeOK, Flow
    <3>3. AllBack(c)' BY <1>0, <1>1, <1>5, <3>0, <3>a DEF KidType, AllBack, Orphan
    <3>4. QED BY <3>1, <3>2, <3>3
  <2>4. QED BY <2>1, <2>2, <2>3 DEF ClientInv
<1>6. kpc[d] = "accept" => d \notin lfd
  BY <1>0 DEF ClientInv, Held
<1>7. QED BY <1>3, <1>4, <1>5, <1>6 DEF EchoChild, CloseListener, Exit

(* A client's steps touch its own counts alone. *)
LEMMA ClientKeeps ==
  ASSUME EsInv, Echoing, NEW d \in Clients, socket_echo_client(d)
  PROVE  ParentInv' /\ ClientInv' /\ EsTypeOK'
<1> USE DEF clientVars
<1>0. KidType /\ EsTypeOK /\ ParentInv /\ ClientInv
  BY DEF EsInv, ClientInv
<1>1. UNCHANGED <<par, kid, cur, fds, lfd, kpc, taken, echoed>>
  BY DEF socket_echo_client, chVars, kernelVars
<1>2. Held(d) /\ Flow(d) /\ AllBack(d)
  BY <1>0 DEF ClientInv
<1>a. /\ sent[d] \in 0..NumMessages /\ taken[d] \in 0..NumMessages
      /\ echoed[d] \in 0..NumMessages /\ got[d] \in 0..NumMessages /\ NumMessages \in Nat
  BY <1>0, ClientsAssumption DEF EsTypeOK
<1>3. Dead(d) => Orphan(d) \/ kpc[d] = "gone"
  BY <1>0, <1>2 DEF Dead, Orphan, ParentInv, Held, EsTypeOK, KidType, KidStates
<1>4. CASE connector(d)
  <2>1. EsTypeOK' BY <1>0, <1>1, <1>4 DEF connector, EsTypeOK
  <2>2. ParentInv' BY <1>0, <1>1, <1>4 DEF connector, ParentInv, EsTypeOK
  <2>3. ASSUME NEW c \in Clients PROVE (Held(c) /\ Flow(c) /\ AllBack(c))'
    <3>0. Held(c) /\ Flow(c) /\ AllBack(c) BY <1>0 DEF ClientInv
    <3>1. Held(c)' BY <1>0, <1>1, <1>4, <3>0 DEF connector, EsTypeOK, Held
    <3>2. Flow(c)' BY <1>0, <1>1, <1>4, <3>0 DEF connector, EsTypeOK, Flow
    <3>3. AllBack(c)'
      BY <1>0, <1>1, <1>2, <1>3, <1>4, <3>0 DEF connector, EsTypeOK, AllBack, Orphan, Dead, Held
    <3>4. QED BY <3>1, <3>2, <3>3
  <2>4. QED BY <2>1, <2>2, <2>3 DEF ClientInv
<1>5. CASE ClientWrite(d) \/ ClientRead(d) \/ ClientForkFails(d)
  <2>0. UNCHANGED conn BY <1>5 DEF ClientWrite, ClientRead, ClientForkFails
  <2>1. EsTypeOK'
    <3>1. CASE ClientWrite(d)
      <4>1. \/ sent' = sent
            \/ sent' = [sent EXCEPT ![d] = sent[d] + 1] /\ sent[d] + 1 \in 0..NumMessages
        BY <1>0, <1>a, <3>1 DEF ClientWrite, EsTypeOK
      <4>2. shut' = shut \/ shut' = [shut EXCEPT ![d] = TRUE]
        BY <3>1 DEF ClientWrite
      <4>3. sent' \in [Clients -> 0..NumMessages] /\ shut' \in [Clients -> BOOLEAN]
        BY <1>0, <4>1, <4>2 DEF EsTypeOK
      <4>4. QED BY <1>0, <1>1, <3>1, <4>3 DEF ClientWrite, EsTypeOK
    <3>2. CASE ClientRead(d)
      <4>1. got' = got \/ \E n \in 0..NumMessages : got' = [got EXCEPT ![d] = n]
        BY <1>a, <3>2 DEF ClientRead
      <4>2. eof' = eof \/ eof' = [eof EXCEPT ![d] = TRUE]
        BY <3>2 DEF ClientRead
      <4>3. got' \in [Clients -> 0..NumMessages] /\ eof' \in [Clients -> BOOLEAN]
        BY <1>0, <4>1, <4>2 DEF EsTypeOK
      <4>4. QED BY <1>0, <1>1, <3>2, <4>3 DEF ClientRead, EsTypeOK
    <3>3. CASE ClientForkFails(d)
      BY <1>0, <1>1, <3>3 DEF ClientForkFails, EsTypeOK
    <3>4. QED BY <1>5, <3>1, <3>2, <3>3
  <2>2. ParentInv' BY <1>0, <1>1, <2>0 DEF ParentInv
  <2>3. ASSUME NEW c \in Clients PROVE (Held(c) /\ Flow(c) /\ AllBack(c))'
    <3>0. Held(c) /\ Flow(c) /\ AllBack(c) BY <1>0 DEF ClientInv
    <3>1. Held(c)' BY <1>1, <2>0, <3>0 DEF Held
    <3>2. CASE c # d
      BY <1>0, <1>1, <1>5, <3>0, <3>1, <3>2
         DEF ClientWrite, ClientRead, ClientForkFails, EsTypeOK, Flow, AllBack, Orphan
    <3>3. CASE c = d
      <4>1. Flow(d)'
        BY <1>0, <1>1, <1>2, <1>5, <1>a DEF ClientWrite, ClientRead, ClientForkFails, EsTypeOK, Flow
      <4>2. AllBack(d)'
        BY <1>0, <1>1, <1>2, <1>3, <1>5, <1>a
           DEF ClientWrite, ClientRead, ClientForkFails, EsTypeOK, Flow, AllBack, Orphan
      <4>3. QED BY <3>1, <3>3, <4>1, <4>2
    <3>4. QED BY <3>2, <3>3
  <2>4. QED BY <2>1, <2>2, <2>3 DEF ClientInv
<1>6. QED BY <1>4, <1>5 DEF socket_echo_client

(* EsInv is inductive. *)
LEMMA EsInvStep ==
  ASSUME EsInv, [EsStep]_allVars
  PROVE  EsInv'
<1>1. KidType' /\ sample' = sample
  BY KidTypeStep, SampleFixed DEF EsInv
<1>2. CASE ~Echoing
  <2>1. UNCHANGED esVars
    BY <1>2 DEF Echoing, EsStep, allVars, EsNext, socket_echo_server, AcceptFails,
                EchoChild, socket_echo_client
  <2>2. QED BY <1>1, <1>2, <2>1 DEF EsInv, EsTypeOK, Echoing, esVars
<1>3. CASE Echoing /\ UNCHANGED allVars
  <2>1. ParentInv' BY <1>3 DEF EsInv, ParentInv, allVars, chVars, kernelVars, esVars
  <2>2. EsTypeOK' BY <1>3 DEF EsInv, EsTypeOK, allVars, esVars
  <2>3. ASSUME NEW c \in Clients PROVE (Held(c) /\ Flow(c) /\ AllBack(c))'
    BY <1>3 DEF EsInv, Held, Flow, AllBack, Orphan, allVars, chVars, kernelVars, esVars
  <2>4. QED BY <1>1, <1>3, <2>1, <2>2, <2>3 DEF EsInv, Echoing
<1>4. CASE Echoing /\ EsStep
  <2>1. \/ Kernel /\ UNCHANGED esVars
        \/ Accept \/ Fork \/ ServerEnds \/ CloseClient
        \/ \E d \in Clients : EchoChild(d) \/ socket_echo_client(d)
    BY <1>4 DEF Echoing, EsStep, ChNext, Parent, SignalFirst, ChildExit, WaitSamples,
                ExecSamples, process_wait_by_signal, process_wait, process_waitpid,
                process_func, process_exec, fork_exec_wait, EsNext, socket_echo_server,
                ForkFails, AcceptFails
  <2>2. ParentInv' /\ ClientInv' /\ EsTypeOK'
    BY <1>4, <2>1, KernelKeeps, ServerKeeps, ChildKeeps, ClientKeeps
  <2>3. QED BY <1>1, <1>4, <2>2 DEF EsInv, ClientInv, Echoing
<1>5. QED BY <1>2, <1>3, <1>4

(* At first there is no connection.                                        *)
LEMMA EsInitHolds == ChInit /\ EsInit => EsInv
<1> SUFFICES ASSUME ChInit, EsInit PROVE EsInv
  OBVIOUS
<1>1. KidType BY DEF ChInit, KidType, KidStates
<1>2. EsTypeOK BY ClientsAssumption DEF EsInit, EsTypeOK, Holders
<1>3. Echoing => ParentInv BY DEF ChInit, EsInit, ParentInv, Echoing
<1>4. ASSUME NEW c \in Clients, Echoing PROVE Held(c) /\ Flow(c) /\ AllBack(c)
  BY <1>4, ClientsAssumption, NumChildrenAssumption
     DEF ChInit, EsInit, Held, Flow, AllBack, Orphan, Echoing, Clients, Kids, Server
<1>5. \A c \in Clients : ~eof[c] /\ kpc[c] = "start" /\ fds[c] = {}
  BY DEF EsInit
<1>6. QED BY <1>1, <1>2, <1>3, <1>4, <1>5 DEF EsInv

(* The invariant holds whenever the server or any other sample runs. *)
THEOREM EsInvariant == EsSpec => []EsInv
<1>1. ChInit /\ EsInit => EsInv
  BY EsInitHolds
<1>2. EsInv /\ [EsStep]_allVars => EsInv'
  BY EsInvStep
<1>3. QED
  BY <1>1, <1>2, PTL DEF EsSpec, EsStep, allVars

(* The connections' state is well formed. *)
THEOREM EsTypeCorrect == EsSpec => []EsTypeOK
<1>1. EsInv => EsTypeOK
  BY DEF EsInv
<1>2. QED BY <1>1, EsInvariant, PTL

(* A child that falls out of its switch back into the accept loop never    *)
(* becomes a second server: the parent alone accepts.                      *)
THEOREM ParentAccepts == EsSpec => []OneAcceptor
<1>1. EsInv => OneAcceptor
  BY DEF EsInv, OneAcceptor, Held
<1>2. QED BY <1>1, EsInvariant, PTL

(* A connection is never inherited by the child of another client, the     *)
(* parent keeps it only until it has forked, and it alone accepts others.  *)
THEOREM ConnectionsPrivate == EsSpec => []DescriptorsPrivate
<1>1. EsInv => DescriptorsPrivate
  BY DEF EsInv, DescriptorsPrivate, OneAcceptor, Held
<1>2. QED BY <1>1, EsInvariant, PTL

(* The end of file means that everything came back, unless the server ended *)
(* in accept or fork, before it had a child for the client.                *)
THEOREM NothingUnechoed == EsSpec => []EchoComplete
<1>1. EsInv => EchoComplete
  BY DEF EsInv, EchoComplete, AllBack, Orphan
<1>2. QED BY <1>1, EsInvariant, PTL
=============================================================================
