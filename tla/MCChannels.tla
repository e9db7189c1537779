---------------------------- MODULE MCChannels ------------------------------
(* The samples about passing data between processes, under TLC: main()     *)
(* calls any one of them.                                                  *)
EXTENDS Channels, EventIO, SysVMsg, FileLock, PosixIpc

Init ==
  /\ sample \in ChanSamples \cup EventSamples \cup MsgSamples \cup LockSamples \cup ShareSamples
  /\ ChanInit /\ EventInit /\ MsgInit /\ LockInit /\ ShareInit

Next ==
  \/ ChanNext /\ UNCHANGED <<eventVars, msgVars, lockVars, shareVars>>
  \/ EventNext /\ UNCHANGED <<chanVars, msgVars, lockVars, shareVars>>
  \/ MsgNext /\ UNCHANGED <<chanVars, eventVars, lockVars, shareVars>>
  \/ LockNext /\ UNCHANGED <<chanVars, eventVars, msgVars, shareVars>>
  \/ ShareNext /\ UNCHANGED <<chanVars, eventVars, msgVars, lockVars>>

Spec == /\ Init /\ [][Next]_<<sample, chanVars, eventVars, msgVars, lockVars, shareVars>>
        /\ ChanFairness /\ EventFairness /\ MsgFairness

(* The state of every channel sample is well formed: processes are at a    *)
(* call of their program, and ends, queues, locks and objects belong to    *)
(* processes that can have them.                                           *)
TypesOK == ChanTypeOK /\ EventTypeOK /\ MsgTypeOK /\ LockTypeOK /\ ShareTypeOK
=============================================================================
