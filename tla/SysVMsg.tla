------------------------------ MODULE SysVMsg -------------------------------
(***************************************************************************)
(* The System V message queue server and its clients, which learn the id   *)
(* of the queue from a file: LinuxAPI2/ipc_systemv_msg_server.c and        *)
(* ipc_systemv_msg/ipc_systemv_msg_client.c.  A server that starts removes *)
(* the queue an earlier one left behind or still uses.  Ids are not used   *)
(* twice; id 1 is the queue that is there before the servers start.        *)
(***************************************************************************)
EXTENDS Samples, Naturals, Sequences, SequencesExt, FiniteSetsExt

CONSTANTS Servers, Clients
ASSUME ServersAssumption == IsFiniteSet(Servers) /\ "old" \notin Clients

MsgSamples == {"ipc_systemv_msg"}
Ids        == 1..(1 + Cardinality(Servers))
NoQueue    == 0                      \* msgget's -1, and a file that is not there
Empty      == 1 + Cardinality(Servers) + 1     \* a file that has been truncated

VARIABLES key,   \* the queue that the key names
          msq,   \* per id: does it exist, its messages <<type, sender>>
          file,  \* what ID_PATH holds
          srv,   \* per server: where it is and its msqid
          cli,   \* per client: where it is and its msqid
          rcvd   \* per server: what msgrcv has returned, in order

msgVars == <<key, msq, file, srv, cli, rcvd>>

(* At most one queue exists, the one the key names, and a server's id is   *)
(* one that was handed out.                                                *)
MsgTypeOK ==
  /\ \A i \in Ids : msq[i].there => i = key
  /\ key # NoQueue => msq[key].there
  /\ file \in Ids \cup {NoQueue, Empty}
  /\ \A s \in Servers :
       /\ srv[s].pc \in {"msgget", "lookup", "rmid", "open", "write", "msgrcv", "stat",
                         "return", "errExit", "killed"}
       /\ srv[s].msqid \in Ids \cup {NoQueue}
       /\ srv[s].pc \in {"open", "write", "msgrcv", "stat"} => srv[s].msqid # NoQueue
  /\ \A c \in Clients : cli[c].pc \in {"read", "send1", "send2", "exit", "errExit"}

\* An earlier server may have left its queue, a message in it and the file.
MsgInit ==
  /\ key \in IF sample \in MsgSamples THEN {NoQueue, 1} ELSE {NoQueue}
  /\ file \in IF key = 1 THEN {NoQueue, 1} ELSE {NoQueue}
  /\ msq = [i \in Ids |-> [there |-> i = key, q |-> IF i = key THEN << <<1, "old">> >> ELSE <<>>]]
  /\ srv = [s \in Servers |-> [pc |-> "msgget", msqid |-> NoQueue]]
  /\ cli = [c \in Clients |-> [pc |-> "read", msqid |-> NoQueue]]
  /\ rcvd = [s \in Servers |-> <<>>]

Exists(i)    == i \in Ids /\ msq[i].there
Goes(s, l)   == srv' = [srv EXCEPT ![s].pc = l]
Used         == {i \in Ids : i = 1 \/ \E s \in Servers : srv[s].msqid = i}
-----------------------------------------------------------------------------
\* IPC_CREAT | IPC_EXCL.
Msgget(s) ==
  /\ srv[s].pc = "msgget" /\ UNCHANGED <<sample, file, cli, rcvd>>
  /\ IF key # NoQueue THEN Goes(s, "lookup") /\ UNCHANGED <<key, msq>>
     ELSE LET i == Min(Ids \ Used) IN
          /\ key' = i /\ msq' = [msq EXCEPT ![i].there = TRUE]
          /\ srv' = [srv EXCEPT ![s] = [pc |-> "open", msqid |-> i]]

Lookup(s) ==
  /\ srv[s].pc = "lookup" /\ UNCHANGED <<sample, key, msq, file, cli, rcvd>>
  /\ srv' = [srv EXCEPT ![s] = [pc |-> "rmid", msqid |-> key]]

MutReuse(s) ==
  /\ srv[s].pc = "rmid" /\ UNCHANGED <<sample, key, msq, file, cli, rcvd>>
  /\ Goes(s, IF Exists(srv[s].msqid) THEN "open" ELSE "errExit")
\* The queue looked up may be gone by now; a server waiting in it is woken.
Rmid(s) ==
  /\ srv[s].pc = "rmid" /\ UNCHANGED <<sample, file, cli, rcvd>>
  /\ IF Exists(srv[s].msqid)
     THEN /\ key' = NoQueue /\ Goes(s, "msgget")
          /\ msq' = [msq EXCEPT ![srv[s].msqid] = [there |-> FALSE, q |-> <<>>]]
     ELSE Goes(s, "errExit") /\ UNCHANGED <<key, msq>>

\* O_TRUNC, and the write that follows.
OpenIdFile(s) ==
  /\ srv[s].pc = "open" /\ Goes(s, "write") /\ file' = Empty
  /\ UNCHANGED <<sample, key, msq, cli, rcvd>>

WriteIdFile(s) ==
  /\ srv[s].pc = "write" /\ Goes(s, "msgrcv") /\ file' = srv[s].msqid
  /\ UNCHANGED <<sample, key, msq, cli, rcvd>>

MutFirstType(q) == {k \in DOMAIN q : q[k][1] = 1}
\* msgtyp -2: the lowest type first, the oldest of that type.
msgtyp(q) == {k \in DOMAIN q : q[k][1] <= 2 /\ \A j \in DOMAIN q : q[k][1] <= q[j][1]}

Msgrcv(s) ==
  LET i == srv[s].msqid IN
  /\ srv[s].pc = "msgrcv" /\ UNCHANGED <<sample, key, file, cli>>
  /\ \/ /\ ~Exists(i) /\ Goes(s, "return") /\ UNCHANGED <<msq, rcvd>>
     \/ /\ Exists(i) /\ msgtyp(msq[i].q) # {} /\ Goes(s, "stat")
        /\ LET k == Min(msgtyp(msq[i].q)) IN
           /\ rcvd' = [rcvd EXCEPT ![s] = Append(@, msq[i].q[k])]
           /\ msq' = [msq EXCEPT ![i].q = RemoveAt(@, k)]

IpcStat(s) ==
  /\ srv[s].pc = "stat" /\ UNCHANGED <<sample, key, msq, file, cli, rcvd>>
  /\ Goes(s, IF Exists(srv[s].msqid) THEN "msgrcv" ELSE "errExit")

\* A server ends by an interrupt; the queue and the file stay.
KillServer(s) ==
  /\ srv[s].pc \notin {"return", "errExit", "killed"} /\ Goes(s, "killed")
  /\ UNCHANGED <<sample, key, msq, file, cli, rcvd>>
-----------------------------------------------------------------------------
ReadIdFile(c) ==
  /\ cli[c].pc = "read" /\ UNCHANGED <<sample, key, msq, file, srv, rcvd>>
  /\ cli' = [cli EXCEPT ![c] = IF file \in Ids THEN [pc |-> "send1", msqid |-> file]
                                               ELSE [@ EXCEPT !.pc = "errExit"]]

Msgsnd(c, type, now, next) ==
  LET i == cli[c].msqid IN
  /\ cli[c].pc = now /\ UNCHANGED <<sample, key, file, srv, rcvd>>
  /\ IF Exists(i)
     THEN /\ msq' = [msq EXCEPT ![i].q = Append(@, <<type, c>>)]
          /\ cli' = [cli EXCEPT ![c].pc = next]
     ELSE cli' = [cli EXCEPT ![c].pc = "errExit"] /\ UNCHANGED msq

ClientStep(c) == \/ ReadIdFile(c) \/ Msgsnd(c, 1, "send1", "send2")
                 \/ Msgsnd(c, 2, "send2", "exit")
-----------------------------------------------------------------------------
ServerStep(s) == \/ Msgget(s) \/ Lookup(s) \/ Rmid(s) \/ OpenIdFile(s) \/ WriteIdFile(s)
                 \/ Msgrcv(s) \/ IpcStat(s)

MsgNext == /\ sample \in MsgSamples
           /\ \/ \E s \in Servers : ServerStep(s) \/ KillServer(s)
              \/ \E c \in Clients : ClientStep(c)

MsgFairness == \A s \in Servers : WF_msgVars(sample \in MsgSamples /\ ServerStep(s))
-----------------------------------------------------------------------------
(* Each server serves a queue of its own: two that are past msgget never   *)
(* have the same id, however they remove and create, and no server prints  *)
(* a message that was sent before it started or printed by another.        *)
OwnQueue ==
  /\ \A s, t \in Servers :
       s # t /\ {srv[s].pc, srv[t].pc} \subseteq {"open", "write", "msgrcv", "stat"} =>
         srv[s].msqid # srv[t].msqid
  /\ \A s \in Servers : <<1, "old">> \notin ToSet(rcvd[s])
  /\ \A s, t \in Servers : s # t => ToSet(rcvd[s]) \cap ToSet(rcvd[t]) = {}

(* A message that msgsnd has put into a server's queue is received, of     *)
(* whatever type it is, unless the queue is removed or its server stopped. *)
SentIsReceived ==
  \A i \in Ids :
    sample \in MsgSamples /\ msq[i].q # <<>> ~>
      msq[i].q = <<>> \/ \A s \in Servers :
        srv[s].msqid = i => srv[s].pc \in {"return", "errExit", "killed"}
=============================================================================
