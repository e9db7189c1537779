---------------------------- MODULE MCProcesses -----------------------------
(* The samples about processes, under TLC: main() calls any one of them. *)
EXTENDS EchoServer, Daemon, Signals

Init ==
  /\ sample \in WaitSamples \cup {"socket_echo_server", "process_daemonize", "make_daemon"}
                             \cup SigSamples
  /\ ChInit /\ EsInit /\ DmInit /\ SigInit

Next ==
  \/ ChNext /\ UNCHANGED <<esVars, dmVars, sigVars>>
  \/ EsNext /\ UNCHANGED <<dmVars, sigVars>>
  \/ DmNext /\ UNCHANGED <<chVars, esVars, sigVars>>
  \/ SigNext /\ UNCHANGED <<chVars, esVars, dmVars>>

Spec == /\ Init /\ [][Next]_<<sample, chVars, esVars, dmVars, sigVars>>
        /\ ChFairness /\ EsFairness /\ DmFairness /\ SigFairness

(* The state of every process sample is well formed: counts stay in their  *)
(* ranges and descriptors in the table.                                    *)
TypesOK == ChTypeOK /\ EsTypeOK /\ DmTypeOK /\ SigTypeOK
=============================================================================
