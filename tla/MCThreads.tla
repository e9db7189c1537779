----------------------------- MODULE MCThreads ------------------------------
(* The thread samples under TLC: main() calls any one of them. *)
EXTENDS LockedSum, CondQueue, ThreadLife

Init == /\ sample \in SumSamples \cup WorkSamples \cup {TimerSample} \cup LifeSamples
        /\ SumInit /\ CondInit /\ LifeInit

Next == \/ SumNext /\ UNCHANGED <<condVars, lifeVars>>
        \/ CondNext /\ UNCHANGED <<sumVars, lifeVars>>
        \/ LifeNext /\ UNCHANGED <<sumVars, condVars>>

Spec == /\ Init /\ [][Next]_<<sample, sumVars, condVars, lifeVars>>
        /\ SumFairness /\ CondFairness

(* The state of every thread sample is well formed: work never goes below  *)
(* zero and no lock has two owners.                                        *)
TypesOK == SumTypeOK /\ CondTypeOK /\ LifeTypeOK
=============================================================================
