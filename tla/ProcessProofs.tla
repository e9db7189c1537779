---------------------------- MODULE ProcessProofs ---------------------------
(***************************************************************************)
(* Proofs about the process samples on the specification TLC checks, where *)
(* main() calls any one of them: for any number of children, clients,      *)
(* messages, descriptors, signals, moves of the log and failures.          *)
(***************************************************************************)
EXTENDS MCProcesses, EchoServerProofs, FiniteSetTheorems, SequenceTheorems, WellFoundedInduction

processVars == <<sample, chVars, esVars, dmVars, sigVars>>
-----------------------------------------------------------------------------
(* The daemon.  It gives up its terminal before it can serve, and the      *)
(* descriptors it holds on log files are its log and the ones that failed  *)
(* writes have left behind.                                                *)
Logs(table) == {f \in Fds : table[f] > 0}
NoTerminal ==
  /\ dpc \in {"fork2", "closeall", "devnull", "log_open", "forever"} \cup Serving => ~ctty
  /\ dpc \in {"fork2", "log_open"} \cup Serving => InDaemon
  /\ InDaemon /\ dpc \in {"closeall", "devnull", "log_open"} \cup Serving => ~sleader
Table ==
  /\ dpc \in {"fork1", "setsid", "fork2", "closeall"} => \A f \in Fds : fdt[f] \in {Closed, Tty}
  /\ dpc = "devnull" => \A f \in Fds : fdt[f] = Closed
  /\ dpc = "forever" => /\ \A f \in Fds : fdt[f] \in {Closed, Null}
                        /\ failures = 0 => \A f \in 0..2 : fdt[f] = Null
  /\ dpc \in Serving \cup {"log_open"} => \A f \in 0..2 : fdt[f] = Null
LogOpen ==
  dpc \in Serving => fd \in 3..MaxFd /\ (dpc # "reopen" => fdt[fd] > 0)
LogsCounted ==
  /\ Cardinality(Logs(fdt)) <= failures + 1
  /\ dpc \in Setup \cup {"log_open", "reopen"} => Cardinality(Logs(fdt)) <= failures
DmInv == DmTypeOK /\ NoTerminal /\ Table /\ LogOpen /\ LogsCounted

(* There are finitely many descriptors.                                    *)
LEMMA LogsFinite ==
  ASSUME NEW table
  PROVE  IsFiniteSet(Logs(table)) /\ Cardinality(Logs(table)) \in Nat
<1>1. IsFiniteSet(Fds)
  BY FS_Interval, DaemonAssumption DEF Fds
<1>2. Logs(table) \subseteq Fds
  BY DEF Logs
<1> QED
  BY <1>1, <1>2, FS_Subset, FS_CardinalityType

(* A table without log files.                                              *)
LEMMA NoLogs ==
  ASSUME NEW table, \A f \in Fds : table[f] \in {Closed, Null, Tty}
  PROVE  Cardinality(Logs(table)) = 0
<1>1. Logs(table) = {}
  BY DEF Logs, Closed, Null, Tty
<1> QED
  BY <1>1, FS_EmptySet

(* A set of numbers has a least one.                                       *)
LEMMA Least ==
  ASSUME NEW S \in SUBSET Nat, S # {}
  PROVE  \E x \in S : \A y \in S : x <= y
<1> DEFINE R == OpToRel(<, Nat)
<1>1. R = {ss \in Nat \X Nat : ss[1] < ss[2]} /\ IsWellFoundedOn(R, Nat)
  BY NatLessThanWellFounded, Zenon DEF OpToRel
<1> HIDE DEF R
<1>2. \E x \in S : \A y \in S : ~(<<y, x>> \in R)
  BY <1>1, WFMin
<1>3. \A x, y \in Nat : ~(<<y, x>> \in R) => x <= y
  BY <1>1
<1> QED
  BY <1>2, <1>3

(* open returns the lowest descriptor that is closed.                      *)
LEMMA OpenSlotLowest ==
  ASSUME NEW table, NEW h \in Fds, table[h] = Closed
  PROVE  /\ OpenSlot(table) \in Fds /\ table[OpenSlot(table)] = Closed
         /\ \A g \in Fds : g < OpenSlot(table) => table[g] # Closed
<1> DEFINE S == {f \in Fds : table[f] = Closed}
<1>1. S \in SUBSET Nat /\ S # {}
  BY DaemonAssumption DEF Fds
<1>2. PICK x \in S : \A y \in S : x <= y
  BY <1>1, Least
<1>3. \A y \in S : ~(y < x)
  BY <1>1, <1>2
<1>4. x \in Fds /\ table[x] = Closed /\ \A g \in Fds : g < x => table[g] # Closed
  BY <1>2, <1>3
<1> QED
  BY <1>4 DEF OpenSlot

(* One more descriptor on a log file, or one fewer.                        *)
LEMMA LogsStep ==
  ASSUME NEW table, table \in [Fds -> Int], NEW f \in Fds, NEW v \in Int
  PROVE  /\ table[f] <= 0 /\ v > 0 => Cardinality(Logs([table EXCEPT ![f] = v])) = Cardinality(Logs(table)) + 1
         /\ table[f] > 0 /\ v <= 0 => Cardinality(Logs([table EXCEPT ![f] = v])) = Cardinality(Logs(table)) - 1
<1>1. IsFiniteSet(Logs(table))
  BY LogsFinite
<1>2. ASSUME table[f] <= 0, v > 0
      PROVE  Cardinality(Logs([table EXCEPT ![f] = v])) = Cardinality(Logs(table)) + 1
  <2>1. Logs([table EXCEPT ![f] = v]) = Logs(table) \cup {f} /\ f \notin Logs(table)
    BY <1>2 DEF Logs
  <2> QED
    BY <1>1, <2>1, FS_AddElement
<1>3. ASSUME table[f] > 0, v <= 0
      PROVE  Cardinality(Logs([table EXCEPT ![f] = v])) = Cardinality(Logs(table)) - 1
  <2>1. Logs([table EXCEPT ![f] = v]) = Logs(table) \ {f} /\ f \in Logs(table)
    BY <1>3 DEF Logs
  <2> QED
    BY <1>1, <2>1, FS_RemoveElement
<1> QED
  BY <1>2, <1>3

(* Started from a shell.                                                   *)
LEMMA DmInitHolds == DmInit => DmInv
<1> SUFFICES ASSUME DmInit PROVE DmInv
  OBVIOUS
<1>1. \A f \in Fds : fdt[f] \in {Closed, Tty}
  BY DEF DmInit
<1>2. DmTypeOK
  <2>1. /\ dpc \in Setup /\ gleader \in BOOLEAN /\ sleader \in BOOLEAN /\ ctty \in BOOLEAN
        /\ hup_signaled \in BOOLEAN /\ wanted \in BOOLEAN /\ unslept \in {"zero", "some"}
    BY DEF DmInit, Setup
  <2>2. lastFile \in Nat /\ path \in 0..lastFile /\ fd \in {-1} \cup 3..MaxFd
    BY DEF DmInit
  <2>3. fdt \in [Fds -> {Closed, Null, Tty} \cup 1..lastFile]
    BY DEF DmInit
  <2>4. hups \in 0..MaxHups /\ moves \in 0..MaxMoves /\ failures \in 0..MaxFailures
    BY DaemonAssumption DEF DmInit
  <2> QED
    BY <2>1, <2>2, <2>3, <2>4 DEF DmTypeOK
<1>3. Cardinality(Logs(fdt)) = 0
  BY <1>1, NoLogs
<1>4. LogsCounted
  BY <1>3 DEF LogsCounted, DmInit
<1> QED
  BY <1>1, <1>2, <1>4 DEF DmInv, NoTerminal, Table, LogOpen, DmInit, Serving

(* The parts of the type invariant, flags apart from numbers.              *)
DmFlags ==
  /\ gleader \in BOOLEAN /\ sleader \in BOOLEAN /\ ctty \in BOOLEAN
  /\ hup_signaled \in BOOLEAN /\ wanted \in BOOLEAN /\ unslept \in {"zero", "some"}
DmFiles ==
  /\ lastFile \in Nat /\ path \in 0..lastFile
  /\ fdt \in [Fds -> {Closed, Null, Tty} \cup 1..lastFile] /\ fd \in {-1} \cup 3..MaxFd
DmBounds == hups \in 0..MaxHups /\ moves \in 0..MaxMoves /\ failures \in 0..MaxFailures
DmPlaces == Setup \cup Serving \cup {"log_open", "errExit", "forever"}

(* These parts together are the type invariant.                            *)
LEMMA DmTypeParts == DmTypeOK <=> dpc \in DmPlaces /\ DmFlags /\ DmFiles /\ DmBounds
  BY DEF DmTypeOK, DmPlaces, DmFlags, DmFiles, DmBounds

(* A call fails, or it does not.                                           *)
LEMMA FailuresStep ==
  ASSUME DmBounds, UNCHANGED user, NoFail \/ Fails
  PROVE  /\ DmBounds' /\ failures \in Nat /\ failures' \in Nat /\ failures <= failures' /\ failures' <= failures + 1
         /\ Fails => failures' = failures + 1
  BY DaemonAssumption DEF DmBounds, user, NoFail, Fails

(* fork and setsid leave the descriptors alone.                            *)
LEMMA SessionStep ==
  ASSUME DmInv, Fork1 \/ Setsid \/ (InDaemon /\ Fork2), UNCHANGED <<sample, hup_signaled, unslept, wanted, user>>
  PROVE  DmInv'
<1>1. /\ UNCHANGED files /\ dpc \in {"fork1", "setsid", "fork2"} /\ (NoFail \/ Fails)
      /\ dpc' \in {"setsid", "fork2", "closeall", "errExit"}
  BY DEF Fork1, Setsid, Fork2
<1>2. dpc \in DmPlaces /\ DmFlags /\ DmFiles /\ DmBounds /\ NoTerminal /\ Table /\ LogsCounted
  BY DmTypeParts DEF DmInv
<1>3. DmFiles'
  BY <1>1, <1>2 DEF DmFiles, files
<1>4. DmFlags'
  BY <1>2 DEF DmFlags, Fork1, Setsid, Fork2, session
<1>5. DmBounds' /\ failures \in Nat /\ failures' \in Nat /\ failures <= failures'
  BY <1>1, <1>2, FailuresStep
<1>6. \A f \in Fds : fdt'[f] \in {Closed, Tty}
  BY <1>1, <1>2 DEF Table, files
<1>7. NoTerminal'
  BY <1>2 DEF NoTerminal, InDaemon, Serving, Fork1, Setsid, Fork2, session
<1>8. Table'
  BY <1>1, <1>6 DEF Table, Serving
<1>9. LogsCounted'
  <2>1. PICK n : n = Cardinality(Logs(fdt'))
    OBVIOUS
  <2>2. n = 0
    BY <1>6, <2>1, NoLogs
  <2>3. PICK m \in Nat : m = failures'
    BY <1>5
  <2>4. n <= m /\ n <= m + 1
    BY <2>2
  <2> QED
    BY <2>1, <2>3, <2>4 DEF LogsCounted
<1>10. LogOpen' /\ dpc' \in DmPlaces
  BY <1>1 DEF LogOpen, Serving, DmPlaces, Setup
<1>11. DmTypeOK'
  BY <1>3, <1>4, <1>5, <1>10, Zenon DEF DmTypeOK, DmPlaces, DmFlags, DmFiles, DmBounds
<1> QED
  BY <1>7, <1>8, <1>9, <1>10, <1>11 DEF DmInv

(* Every descriptor is closed.                                             *)
LEMMA CloseAllStep ==
  ASSUME DmInv, CloseAll, UNCHANGED <<sample, hup_signaled, unslept, wanted, user>>
  PROVE  DmInv'
<1>2. dpc \in DmPlaces /\ DmFlags /\ DmFiles /\ DmBounds /\ NoTerminal /\ Table /\ LogsCounted
  BY DmTypeParts DEF DmInv
<1>3. DmFiles'
  BY <1>2 DEF DmFiles, CloseAll
<1>4. DmFlags'
  BY <1>2 DEF DmFlags, CloseAll, session
<1>5. DmBounds' /\ failures' \in Nat
  BY <1>2, FailuresStep DEF CloseAll
<1>6. \A f \in Fds : fdt'[f] = Closed
  BY DEF CloseAll
<1>7. NoTerminal'
  BY <1>2 DEF NoTerminal, InDaemon, Serving, CloseAll, session
<1>8. dpc' = "devnull"
  BY DEF CloseAll
<1>9. LogsCounted'
  <2>1. PICK n : n = Cardinality(Logs(fdt'))
    OBVIOUS
  <2>2. n = 0
    BY <1>6, <2>1, NoLogs
  <2>3. PICK m \in Nat : m = failures'
    BY <1>5
  <2>4. n <= m /\ n <= m + 1
    BY <2>2
  <2> QED
    BY <2>1, <2>3, <2>4 DEF LogsCounted
<1>10. Table' /\ LogOpen' /\ dpc' \in DmPlaces
  BY <1>6, <1>8 DEF Table, LogOpen, Serving, DmPlaces, Setup
<1>11. DmTypeOK'
  BY <1>3, <1>4, <1>5, <1>10, Zenon DEF DmTypeOK, DmPlaces, DmFlags, DmFiles, DmBounds
<1> QED
  BY <1>7, <1>9, <1>10, <1>11 DEF DmInv

(* 0, 1 and 2 on /dev/null, by dup2 or by dup.                             *)
LEMMA DevNullStep ==
  ASSUME DmInv, (InDaemon /\ DevNull) \/ DevNullByDup, UNCHANGED <<sample, hup_signaled, unslept, wanted, user>>
  PROVE  DmInv'
<1>1. dpc = "devnull" /\ UNCHANGED <<session, fd, path, lastFile>> /\ (NoFail \/ Fails)
  BY DEF DevNull, DevNullByDup
<1>2. dpc \in DmPlaces /\ DmFlags /\ DmFiles /\ DmBounds /\ NoTerminal /\ Table /\ LogsCounted
  BY DmTypeParts DEF DmInv
<1>3. \A f \in Fds : fdt[f] = Closed
  BY <1>1, <1>2 DEF Table
<1>4. 0 \in Fds /\ 1 \in Fds /\ 2 \in Fds /\ 0..2 \subseteq Fds /\ fdt \in [Fds -> {Closed, Null, Tty} \cup 1..lastFile]
  BY <1>2, DaemonAssumption DEF Fds, DmFiles
<1>5. DmBounds' /\ failures \in Nat /\ failures' \in Nat /\ failures <= failures' /\ (Fails => failures' = failures + 1)
  BY <1>1, <1>2, FailuresStep
<1>6. /\ fdt' \in [Fds -> {Closed, Null}]
      /\ \/ dpc' = "log_open" /\ InDaemon /\ \A f \in 0..2 : fdt'[f] = Null
         \/ dpc' = "errExit"
         \/ dpc' = "forever" /\ (failures' = 0 => \A f \in 0..2 : fdt'[f] = Null)
  <2>1. CASE InDaemon /\ DevNull
    <3>1. PICK z : z = [fdt EXCEPT ![0] = Closed]
      OBVIOUS
    <3>2. z = fdt /\ \A f \in Fds : z[f] = Closed
      BY <1>3, <1>4, <3>1
    <3>3. OpenSlot(z) = 0
      <4>1. OpenSlot(z) \in Fds /\ \A g \in Fds : g < OpenSlot(z) => z[g] # Closed
        BY <1>4, <3>2, OpenSlotLowest
      <4>2. ~(0 < OpenSlot(z))
        BY <1>4, <3>2, <4>1
      <4> QED
        BY <4>1, <4>2, DaemonAssumption DEF Fds
    <3>4. \/ fdt' = [z EXCEPT ![0] = Null, ![1] = Null, ![2] = Null] /\ dpc' = "log_open"
          \/ fdt' = z /\ dpc' = "errExit"
      BY <2>1, <3>1, <3>3 DEF DevNull
    <3>5. CASE fdt' = [z EXCEPT ![0] = Null, ![1] = Null, ![2] = Null] /\ dpc' = "log_open"
      <4>1. \A f \in 0..2 : f = 0 \/ f = 1 \/ f = 2
        OBVIOUS
      <4> QED
        BY <1>3, <1>4, <2>1, <3>2, <3>5, <4>1
    <3>6. CASE fdt' = z /\ dpc' = "errExit"
      BY <1>3, <1>4, <3>2, <3>6
    <3> QED
      BY <3>4, <3>5, <3>6
  <2>2. CASE DevNullByDup
    <3>1. dpc' = "forever"
      BY <2>2 DEF DevNullByDup
    <3>2. CASE fdt' = [f \in Fds |-> IF f <= 2 THEN Null ELSE fdt[f]]
      BY <1>3, <1>4, <3>1, <3>2
    <3>3. CASE Fails /\ \E n \in 0..2 : fdt' = [f \in Fds |-> IF f < n THEN Null ELSE fdt[f]]
      BY <1>3, <1>5, <3>1, <3>3
    <3> QED
      BY <2>2, <3>2, <3>3 DEF DevNullByDup
  <2> QED
    BY <2>1, <2>2
<1>7. DmFiles'
  BY <1>1, <1>2, <1>6 DEF DmFiles
<1>8. DmFlags'
  BY <1>1, <1>2 DEF DmFlags, session
<1>9. NoTerminal'
  BY <1>1, <1>2, <1>6 DEF NoTerminal, InDaemon, Serving, session
<1>10. LogsCounted'
  <2>1. PICK n : n = Cardinality(Logs(fdt'))
    OBVIOUS
  <2>2. n = 0
    BY <1>6, <2>1, NoLogs
  <2>3. PICK m \in Nat : m = failures'
    BY <1>5
  <2>4. n <= m /\ n <= m + 1
    BY <2>2
  <2> QED
    BY <2>1, <2>3, <2>4 DEF LogsCounted
<1>11. Table' /\ LogOpen' /\ dpc' \in DmPlaces
  BY <1>6 DEF Table, LogOpen, Serving, DmPlaces
<1>12. DmTypeOK'
  BY <1>5, <1>7, <1>8, <1>11, Zenon DEF DmTypeOK, DmPlaces, DmFlags, DmFiles, DmBounds
<1> QED
  BY <1>9, <1>10, <1>11, <1>12 DEF DmInv

(* The log on the lowest free descriptor, which is never 0, 1 or 2.        *)
LEMMA LogOpenStep ==
  ASSUME DmInv, log_open
  PROVE  DmInv'
<1>1. /\ InDaemon /\ dpc \in {"log_open", "reopen"} /\ UNCHANGED <<sample, session, hup_signaled, unslept, user>>
      /\ wanted' \in {FALSE, wanted} /\ (NoFail \/ Fails)
  BY DEF log_open
<1>2. dpc \in DmPlaces /\ DmFlags /\ DmFiles /\ DmBounds /\ NoTerminal /\ Table /\ LogsCounted /\ LogOpen
  BY DmTypeParts DEF DmInv
<1>3. DmBounds' /\ failures \in Nat /\ failures' \in Nat /\ failures <= failures'
  BY <1>1, <1>2, FailuresStep
<1>4. DmFlags'
  BY <1>1, <1>2 DEF DmFlags, session
<1>5. ~ctty' /\ ~sleader' /\ InDaemon'
  BY <1>1, <1>2 DEF NoTerminal, Serving, session, InDaemon
<1>6. /\ \A f \in 0..2 : fdt[f] = Null /\ f \in Fds
      /\ Cardinality(Logs(fdt)) <= failures /\ Cardinality(Logs(fdt)) \in Nat
  BY <1>1, <1>2, LogsFinite, DaemonAssumption DEF Table, LogsCounted, Serving, Fds
<1>7. CASE dpc' = "errExit" /\ fd' = -1 /\ UNCHANGED <<fdt, path, lastFile>>
  <2>1. DmFiles'
    BY <1>2, <1>7 DEF DmFiles
  <2>2. LogsCounted'
    BY <1>3, <1>6, <1>7 DEF LogsCounted, Setup
  <2>3. NoTerminal' /\ Table' /\ LogOpen' /\ dpc' \in DmPlaces
    BY <1>7 DEF NoTerminal, Table, LogOpen, Serving, DmPlaces
  <2>4. DmTypeOK'
    BY <1>3, <1>4, <2>1, <2>3, Zenon DEF DmTypeOK, DmPlaces, DmFlags, DmFiles, DmBounds
  <2> QED
    BY <2>2, <2>3, <2>4 DEF DmInv
<1>8. CASE ~(dpc' = "errExit" /\ fd' = -1 /\ UNCHANGED <<fdt, path, lastFile>>)
  <2>1. PICK n, s : n = (IF path = 0 THEN lastFile + 1 ELSE path) /\ s = OpenSlot(fdt)
    OBVIOUS
  <2>2. /\ \E f \in Fds : fdt[f] = Closed
        /\ fd' = s /\ fdt' = [fdt EXCEPT ![s] = n] /\ path' = n /\ failures' = failures
        /\ lastFile' = (IF path = 0 THEN n ELSE lastFile) /\ dpc' \in {"reset", "sleep"}
    BY <1>8, <2>1 DEF log_open, NoFail
  <2>3. s \in Fds /\ fdt[s] = Closed
    BY <2>1, <2>2, OpenSlotLowest
  <2>4. s \notin 0..2 /\ s \in 3..MaxFd
    BY <1>6, <2>3, DaemonAssumption DEF Fds, Null, Closed
  <2>5. /\ lastFile \in Nat /\ path \in 0..lastFile /\ fdt \in [Fds -> {Closed, Null, Tty} \cup 1..lastFile]
    BY <1>2 DEF DmFiles
  <2>6. n \in 1..lastFile' /\ lastFile' \in Nat /\ lastFile <= lastFile' /\ path' \in 0..lastFile'
    BY <2>1, <2>2, <2>5
  <2>7. fdt' \in [Fds -> {Closed, Null, Tty} \cup 1..lastFile']
    <3>1. 1..lastFile \subseteq 1..lastFile'
      BY <2>5, <2>6
    <3> QED
      BY <2>2, <2>5, <2>6, <3>1
  <2>8. DmFiles'
    BY <2>2, <2>4, <2>6, <2>7 DEF DmFiles
  <2>9. fdt'[s] = n /\ n > 0 /\ \A f \in 0..2 : fdt'[f] = Null
    BY <1>6, <2>2, <2>3, <2>4, <2>5, <2>6
  <2>10. Table' /\ LogOpen' /\ dpc' \in DmPlaces
    BY <2>2, <2>4, <2>9 DEF Table, LogOpen, Serving, DmPlaces
  <2>11. LogsCounted'
    <3>1. fdt \in [Fds -> Int] /\ n \in Int /\ fdt[s] <= 0
      BY <2>3, <2>5, <2>6 DEF Closed, Null, Tty
    <3>2. Cardinality(Logs(fdt')) = Cardinality(Logs(fdt)) + 1
      BY <2>2, <2>3, <2>9, <3>1, LogsStep
    <3>3. dpc' \notin Setup \cup {"log_open", "reopen"}
      BY <2>2 DEF Setup
    <3> QED
      BY <1>3, <1>6, <2>2, <3>2, <3>3 DEF LogsCounted
  <2>12. NoTerminal'
    BY <1>5 DEF NoTerminal
  <2>13. DmTypeOK'
    BY <1>3, <1>4, <2>8, <2>10, Zenon DEF DmTypeOK, DmPlaces, DmFlags, DmFiles, DmBounds
  <2> QED
    BY <2>10, <2>11, <2>12, <2>13 DEF DmInv
<1> QED
  BY <1>7, <1>8

(* log_close gives the descriptor back, unless its write fails.            *)
LEMMA LogCloseStep ==
  ASSUME DmInv, log_close
  PROVE  DmInv'
<1>1. /\ InDaemon /\ dpc = "log_close" /\ dpc' = "reopen" /\ (NoFail \/ Fails)
      /\ UNCHANGED <<sample, session, fd, path, lastFile, hup_signaled, unslept, wanted, user>>
  BY DEF log_close
<1>2. dpc \in DmPlaces /\ DmFlags /\ DmFiles /\ DmBounds /\ NoTerminal /\ Table /\ LogsCounted /\ LogOpen
  BY DmTypeParts DEF DmInv
<1>3. DmBounds' /\ failures \in Nat /\ failures' \in Nat /\ (Fails => failures' = failures + 1)
  BY <1>1, <1>2, FailuresStep
<1>4. DmFlags'
  BY <1>1, <1>2 DEF DmFlags, session
<1>5. fd \in 3..MaxFd /\ fdt[fd] > 0 /\ \A f \in 0..2 : fdt[f] = Null
  BY <1>1, <1>2 DEF LogOpen, Table, Serving
<1>6. fd \in Fds /\ fdt \in [Fds -> {Closed, Null, Tty} \cup 1..lastFile] /\ lastFile \in Nat
  BY <1>2, <1>5, DaemonAssumption DEF Fds, DmFiles
<1>7. Cardinality(Logs(fdt)) <= failures + 1 /\ Cardinality(Logs(fdt)) \in Nat
  BY <1>2, LogsFinite DEF LogsCounted
<1>8. CASE NoFail /\ fdt' = [fdt EXCEPT ![fd] = Closed]
  <2>1. fdt' \in [Fds -> {Closed, Null, Tty} \cup 1..lastFile] /\ \A f \in 0..2 : fdt'[f] = Null
    <3>1. \A f \in 0..2 : f \in Fds /\ f # fd
      BY <1>5, DaemonAssumption DEF Fds
    <3> QED
      BY <1>5, <1>6, <1>8, <3>1
  <2>2. Cardinality(Logs(fdt')) = Cardinality(Logs(fdt)) - 1
    <3>1. fdt \in [Fds -> Int] /\ Closed \in Int /\ Closed <= 0
      BY <1>6 DEF Closed, Null, Tty
    <3> QED
      BY <1>5, <1>6, <1>8, <3>1, LogsStep
  <2> QED
    <3>1. DmFiles' /\ LogsCounted' /\ Table' /\ LogOpen'
      <4>1. DmFiles'
        BY <1>1, <1>2, <2>1 DEF DmFiles
      <4>2. LogsCounted'
        BY <1>3, <1>7, <1>8, <2>2 DEF LogsCounted, NoFail
      <4> QED
        BY <1>1, <1>5, <2>1, <4>1, <4>2 DEF Table, LogOpen, Serving
    <3>2. NoTerminal' /\ dpc' \in DmPlaces
      BY <1>1, <1>2 DEF NoTerminal, session, InDaemon, Serving, DmPlaces
    <3>3. DmTypeOK'
      BY <1>3, <1>4, <3>1, <3>2, Zenon DEF DmTypeOK, DmPlaces, DmFlags, DmFiles, DmBounds
    <3> QED
      BY <3>1, <3>2, <3>3 DEF DmInv
<1>9. CASE Fails /\ UNCHANGED fdt
  <2>1. DmFiles' /\ LogsCounted' /\ Table' /\ LogOpen'
    <3>1. DmFiles'
      BY <1>1, <1>2, <1>9 DEF DmFiles
    <3>2. LogsCounted'
      BY <1>3, <1>7, <1>9 DEF LogsCounted
    <3> QED
      BY <1>1, <1>5, <1>9, <3>1, <3>2 DEF Table, LogOpen, Serving
  <2>2. NoTerminal' /\ dpc' \in DmPlaces
    BY <1>1, <1>2 DEF NoTerminal, session, InDaemon, Serving, DmPlaces
  <2>3. DmTypeOK'
    BY <1>3, <1>4, <2>1, <2>2, Zenon DEF DmTypeOK, DmPlaces, DmFlags, DmFiles, DmBounds
  <2> QED
    BY <2>1, <2>2, <2>3 DEF DmInv
<1> QED
  BY <1>8, <1>9 DEF log_close

(* The daemon goes round, SIGHUP comes, or the user moves the log away.    *)
LEMMA ServeStep ==
  ASSUME DmInv, process_daemonize \/ hup_signal_handler \/ Move
  PROVE  DmInv'
<1>1. /\ InDaemon /\ UNCHANGED <<sample, session, fdt, fd, lastFile, failures>> /\ path' \in {path, 0}
      /\ \/ dpc' = dpc
         \/ dpc \in Serving /\ dpc' \in Serving /\ dpc # "reopen" /\ dpc' # "reopen"
  BY DEF process_daemonize, LogIdle, Sleep, CheckHup, ResetHup, Message, hup_signal_handler, Move, files, Serving
<1>2. dpc \in DmPlaces /\ DmFlags /\ DmFiles /\ DmBounds /\ NoTerminal /\ Table /\ LogsCounted /\ LogOpen
  BY DmTypeParts DEF DmInv
<1>3. DmFlags'
  BY <1>1, <1>2 DEF DmFlags, process_daemonize, LogIdle, Sleep, CheckHup, ResetHup, Message, hup_signal_handler,
                    Move, session
<1>4. DmBounds'
  BY <1>2, DaemonAssumption DEF DmBounds, process_daemonize, LogIdle, hup_signal_handler, Move, user
<1>5. DmFiles'
  BY <1>1, <1>2 DEF DmFiles
<1>6. dpc' = dpc \/ dpc' \notin Setup \cup {"log_open", "reopen"}
  BY <1>1 DEF Serving, Setup
<1>7. LogsCounted'
  BY <1>1, <1>2, <1>6 DEF LogsCounted
<1>8. NoTerminal' /\ Table' /\ LogOpen' /\ dpc' \in DmPlaces
  BY <1>1, <1>2 DEF NoTerminal, session, InDaemon, Serving, DmPlaces, Table, LogOpen
<1>9. DmTypeOK'
  BY <1>3, <1>4, <1>5, <1>8, Zenon DEF DmTypeOK, DmPlaces, DmFlags, DmFiles, DmBounds
<1> QED
  BY <1>7, <1>8, <1>9 DEF DmInv

(* DmInv is inductive.                                                     *)
LEMMA DmKept ==
  ASSUME DmInv, DmNext
  PROVE  DmInv'
<1>1. CASE make_daemon
  BY <1>1, SessionStep, CloseAllStep, DevNullStep DEF make_daemon
<1>2. CASE become_daemon
  BY <1>2, SessionStep, CloseAllStep, DevNullStep DEF become_daemon
<1> QED
  BY <1>1, <1>2, LogOpenStep, LogCloseStep, ServeStep DEF DmNext, DaemonStep

(* What it says of the daemon.                                             *)
LEMMA DmInvImplies ==
  ASSUME DmInv
  PROVE  DmTypeOK /\ Detached
<1>1. 0..2 \subseteq Fds
  BY DaemonAssumption DEF Fds
<1>2. dpc = "forever" => \A f \in 0..2 : fdt[f] # Tty
  BY <1>1 DEF DmInv, Table, Closed, Null, Tty
<1>3. dpc \in Serving => fd > 2
  BY DaemonAssumption DEF DmInv, LogOpen
<1>4. Cardinality({f \in Fds : fdt[f] > 0}) <= failures + 1
  BY DEF DmInv, LogsCounted, Logs
<1> QED
  BY <1>2, <1>3, <1>4 DEF Detached, DmInv, NoTerminal, Table, LogOpen
-----------------------------------------------------------------------------
(* Waiting for children.  The counter of process_wait_by_signal is the     *)
(* number of children that the handler has not reaped yet, so it never     *)
(* goes below zero.                                                        *)
Reaped == {c \in Kids : kid[c] = "reaped"}
Pars == {"fork", "test", "call", "suspend", "restore", "wait", "done",
         "accept", "accepted", "close", "errExit"}
ChPlaces == pending \in BOOLEAN /\ handler \in {"idle", "loop", "return"} /\ par \in Pars
ForkCount == forked \in 0..NumChildren /\ (par = "fork" => forked < NumChildren)
KidCount ==
  /\ sample = "process_wait_by_signal" =>
       /\ child_cnt = NumChildren - Cardinality(Reaped)
       /\ \A c \in Kids : c > forked => kid[c] = "none"
  /\ sample # "process_wait_by_signal" => child_cnt = NumChildren
ChInv == KidType /\ ChPlaces /\ ForkCount /\ KidCount

(* There are NumChildren children at most.                                 *)
LEMMA ReapedCount ==
  /\ IsFiniteSet(Reaped) /\ Cardinality(Reaped) \in Nat /\ Cardinality(Reaped) <= NumChildren
<1>1. IsFiniteSet(Kids) /\ Cardinality(Kids) = NumChildren
  BY FS_Interval, NumChildrenAssumption DEF Kids
<1>2. Reaped \subseteq Kids
  BY DEF Reaped
<1> QED
  BY <1>1, <1>2, FS_Subset, FS_CardinalityType

(* No child exists at first.                                               *)
LEMMA ChInitHolds == ChInit => ChInv
<1> SUFFICES ASSUME ChInit PROVE ChInv
  OBVIOUS
<1>1. KidType /\ \A c \in Kids : kid[c] = "none"
  BY DEF ChInit, KidType, KidStates
<1>2. Reaped = {}
  BY <1>1 DEF Reaped
<1>3. Cardinality(Reaped) = 0
  BY <1>2, FS_EmptySet
<1>4. KidCount
  BY <1>1, <1>3, NumChildrenAssumption DEF KidCount, ChInit
<1>5. ForkCount
  BY NumChildrenAssumption DEF ForkCount, ChInit
<1>6. ChPlaces
  BY DEF ChPlaces, ChInit, Pars
<1> QED
  BY <1>1, <1>4, <1>5, <1>6 DEF ChInv

(* Where the parent and its handler are.                                   *)
LEMMA PlacesKept ==
  ASSUME ChPlaces, [EsStep]_allVars
  PROVE  ChPlaces'
<1>0. pending \in BOOLEAN /\ handler \in {"idle", "loop", "return"} /\ par \in Pars
  BY DEF ChPlaces
<1>1. CASE Kernel
  BY <1>0, <1>1 DEF Kernel, Deliver, sigchld_signal_handler, HandlerReturn, ChPlaces, Pars
<1>2. CASE Parent
  <2>1. UNCHANGED <<pending, handler>>
    BY <1>2 DEF Parent, process_wait_by_signal, process_wait, process_waitpid, process_func, process_exec,
                fork_exec_wait, ForkLoop, ForkOnce, WaitForIt, kernelVars
  <2>2. par' \in Pars
    BY <1>0, <1>2 DEF Parent, process_wait_by_signal, process_wait, process_waitpid, process_func, process_exec,
                fork_exec_wait, ForkLoop, ForkOnce, WaitForIt, Pars
  <2> QED
    BY <1>0, <2>1, <2>2 DEF ChPlaces
<1>3. CASE SignalFirst \/ \E c \in Kids : ChildExit(c)
  BY <1>0, <1>3 DEF SignalFirst, ChildExit, Exit, ChPlaces
<1>4. CASE socket_echo_server \/ AcceptFails
  BY <1>0, <1>4 DEF socket_echo_server, Accept, AcceptFails, Fork, ForkFails, ServerEnds, CloseClient, kernelVars,
                    ChPlaces, Pars
<1>5. CASE \E c \in Clients : EchoChild(c) \/ socket_echo_client(c)
  BY <1>0, <1>5 DEF EchoChild, Exit, socket_echo_client, chVars, kernelVars, ChPlaces
<1>6. CASE UNCHANGED allVars
  BY <1>0, <1>6 DEF allVars, chVars, kernelVars, ChPlaces
<1> QED
  BY <1>1, <1>2, <1>3, <1>4, <1>5, <1>6 DEF EsStep, ChNext, EsNext

(* The loop around fork is left when every child has been forked.          *)
LEMMA ForkCountKept ==
  ASSUME ForkCount, [EsStep]_allVars
  PROVE  ForkCount'
<1>1. ASSUME NEW p, p # "fork", ForkLoop(p) PROVE ForkCount'
  BY <1>1, NumChildrenAssumption DEF ForkLoop, ForkCount
<1>2. ASSUME ForkOnce PROVE ForkCount'
  BY <1>2, NumChildrenAssumption DEF ForkOnce, ForkCount
<1>3. ASSUME UNCHANGED forked, par' = par \/ par' # "fork" PROVE ForkCount'
  BY <1>3 DEF ForkCount
<1>4. CASE Kernel
  BY <1>3, <1>4 DEF Kernel, Deliver, sigchld_signal_handler, HandlerReturn
<1>5. CASE Parent
  BY <1>1, <1>2, <1>3, <1>5 DEF Parent, process_wait_by_signal, process_wait, process_waitpid, process_func,
               process_exec, fork_exec_wait, WaitForIt
<1>6. CASE SignalFirst \/ \E c \in Kids : ChildExit(c)
  BY <1>3, <1>6 DEF SignalFirst, ChildExit
<1>7. CASE socket_echo_server \/ AcceptFails
  BY <1>3, <1>7 DEF socket_echo_server, Accept, AcceptFails, Fork, ForkFails, ServerEnds, CloseClient
<1>8. CASE \E c \in Clients : EchoChild(c) \/ socket_echo_client(c)
  BY <1>3, <1>8 DEF EchoChild, socket_echo_client, chVars
<1>9. CASE UNCHANGED allVars
  BY <1>3, <1>9 DEF allVars, chVars
<1> QED
  BY <1>4, <1>5, <1>6, <1>7, <1>8, <1>9 DEF EsStep, ChNext, EsNext

(* The counter goes down by one with every child that is reaped.           *)
LEMMA KidCountKept ==
  ASSUME KidType, ForkCount, KidCount, [EsStep]_allVars
  PROVE  KidCount'
<1>0. sample' = sample
  BY SampleFixed
<1>1. CASE sample # "process_wait_by_signal"
  <2>1. child_cnt' = child_cnt
    BY <1>1 DEF EsStep, ChNext, EsNext, Kernel, Deliver, sigchld_signal_handler, HandlerReturn, Parent,
         process_wait_by_signal, process_wait, process_waitpid, process_func, process_exec, fork_exec_wait,
         ForkLoop, ForkOnce, WaitForIt, SignalFirst, ChildExit, socket_echo_server, AcceptFails, EchoChild,
         socket_echo_client, allVars, chVars
  <2> QED
    BY <1>0, <1>1, <2>1 DEF KidCount
<1>2. CASE sample = "process_wait_by_signal"
  <2>0. /\ kid \in [Kids -> KidStates] /\ child_cnt = NumChildren - Cardinality(Reaped)
        /\ \A c \in Kids : c > forked => kid[c] = "none"
    BY <1>2 DEF KidType, KidCount
  <2>1. CASE UNCHANGED <<kid, forked, child_cnt>>
    BY <1>0, <2>1 DEF KidCount, Reaped
  <2>2. CASE \E c \in Kids : ChildExit(c)
    <3>1. PICK c \in Kids : kid[c] = "running" /\ kid' = [kid EXCEPT ![c] = "zombie"] /\ UNCHANGED <<forked, child_cnt>>
      BY <2>2 DEF ChildExit, Exit
    <3>2. Reaped' = Reaped
      BY <2>0, <3>1 DEF Reaped
    <3>3. \A d \in Kids : d > forked => kid'[d] = "none"
      BY <2>0, <3>1
    <3> QED
      BY <1>0, <2>0, <3>1, <3>2, <3>3 DEF KidCount
  <2>3. CASE ForkLoop("test") /\ UNCHANGED child_cnt /\ forked' = forked + 1 /\ kid' = [kid EXCEPT ![forked'] = "running"]
    <3>1. forked + 1 \in Kids /\ forked \in Nat
      BY <2>3, NumChildrenAssumption DEF ForkLoop, ForkCount, Kids
    <3>2. kid[forked + 1] = "none" /\ kid' = [kid EXCEPT ![forked + 1] = "running"]
      BY <2>0, <2>3, <3>1
    <3>3. Reaped' = Reaped
      BY <2>0, <3>1, <3>2 DEF Reaped
    <3>4. \A d \in Kids : d > forked' => kid'[d] = "none"
      <4>1. \A d \in Kids : d \in Nat
        BY DEF Kids
      <4> QED
        BY <2>0, <2>3, <3>1, <3>2, <4>1
    <3> QED
      BY <1>0, <2>0, <2>3, <3>3, <3>4 DEF KidCount
  <2>4. CASE sigchld_signal_handler /\ ~UNCHANGED <<kid, forked, child_cnt>>
    <3>1. PICK c \in Zombies : /\ kid' = [kid EXCEPT ![c] = "reaped"] /\ child_cnt' = child_cnt - 1
                               /\ UNCHANGED forked
      BY <1>2, <2>4 DEF sigchld_signal_handler
    <3>2. c \in Kids /\ kid[c] = "zombie"
      BY DEF Zombies
    <3>3. Reaped' = Reaped \cup {c} /\ c \notin Reaped
      BY <2>0, <3>1, <3>2 DEF Reaped
    <3>4. Cardinality(Reaped') = Cardinality(Reaped) + 1
      BY <3>3, ReapedCount, FS_AddElement
    <3>5. child_cnt' = NumChildren - Cardinality(Reaped')
      BY <2>0, <3>1, <3>4, ReapedCount, NumChildrenAssumption
    <3>6. \A d \in Kids : d > forked => kid'[d] = "none"
      BY <2>0, <3>1, <3>2
    <3> QED
      BY <1>0, <1>2, <3>1, <3>5, <3>6 DEF KidCount
  <2>5. CASE process_wait_by_signal
    BY <2>1, <2>3, <2>5 DEF process_wait_by_signal, ForkLoop, kernelVars
  <2>6. CASE Kernel
    BY <2>1, <2>4, <2>6 DEF Kernel, Deliver, HandlerReturn
  <2>7. CASE UNCHANGED allVars
    BY <2>1, <2>7 DEF allVars, chVars, kernelVars
  <2> QED
    BY <1>2, <2>2, <2>5, <2>6, <2>7
       DEF EsStep, ChNext, EsNext, Parent, process_wait, process_waitpid, process_func, process_exec, fork_exec_wait,
           SignalFirst, socket_echo_server, AcceptFails, EchoChild, socket_echo_client
<1> QED
  BY <1>1, <1>2

(* ChInv is inductive.                                                     *)
LEMMA ChKept ==
  ASSUME ChInv, [EsStep]_allVars
  PROVE  ChInv'
  BY KidTypeStep, PlacesKept, ForkCountKept, KidCountKept DEF ChInv

(* What it says of the parent.                                             *)
LEMMA ChInvImplies ==
  ASSUME ChInv
  PROVE  ChTypeOK
<1>1. child_cnt \in 0..NumChildren
  BY ReapedCount, NumChildrenAssumption DEF ChInv, KidCount
<1> QED
  BY <1>1 DEF ChInv, ChTypeOK, KidType, ChPlaces, ForkCount, Pars
-----------------------------------------------------------------------------
(* Signals and timers.  What the programs are like: control stays inside a *)
(* program and never comes back to its first call, and what a handler of   *)
(* one sample relies on is set up by that sample alone.                    *)
Truth   == BOOLEAN
Prog    == Programs[sample]
Actions == {"SIG_DFL", "SIG_IGN", "print", "basic", "suspend", "jump", "reset", "on_timer", "deref"}
Waiting == {"pause", "sleep", "read", "wait", "sigwaitinfo", "sigsuspend"}
Flowing(P) ==
  \A k \in DOMAIN P :
    /\ k \in Nat /\ k # 0
    /\ P[k].op \notin {"goto", "takeTick", "exit", "errExit"} => k + 1 \in DOMAIN P
    /\ P[k].op \in {"goto", "ifFlag", "loop"} => P[k].to \in DOMAIN P \ {1}
    /\ P[k].op = "fork" => P[k].child \in DOMAIN P \ {1}
Typed(P) ==
  \A k \in DOMAIN P :
    /\ P[k].op \in {"block", "setmask", "sigaction"} => P[k].set \subseteq Sigs
    /\ P[k].op = "kill" => P[k].to \in SigProcs /\ P[k].sig \in Sigs
    /\ P[k].op = "sigsetjmp" => P[k].save \in Truth
    /\ P[k].op = "timer" => /\ P[k].n \in 1..2 /\ P[k].sig \in Sigs
                            /\ P[k].kind \in {"off", "once", "periodic"}
Handling(P, name) ==
  \A k \in DOMAIN P :
    P[k].op = "sigaction" => /\ P[k].h \in Actions /\ P[k].restart \in Truth
                             /\ P[k].h = "basic" => /\ name = "signal_basic" /\ k = 1
                                                    /\ P[k].set = {INT, QUIT}
                             /\ P[k].h = "jump" => name = "signal_longjmp"
Ticking(P, name) ==
  \A k \in DOMAIN P :
    /\ P[k].op = "takeTick" => name = "timer_func" /\ P[k].sleep = 4 /\ P[k].out = 6
    /\ P[k].op = "loop" => name # "signal_basic"
    /\ name = "timer_func" => /\ {4, 6} \subseteq DOMAIN P
                              /\ k >= 6 => P[k].op \in {"timer", "pause", "exit"}
    /\ name = "signal_longjmp" => 4 \in DOMAIN P
Sound(P, name) == Flowing(P) /\ Typed(P) /\ Handling(P, name) /\ Ticking(P, name) /\ 1 \in DOMAIN P

(* A process is at a call of its program; its counter and its queue of     *)
(* pending signals are bounded because the handler that counts is removed  *)
(* at the third signal, and the one that raises a signal at the first.     *)
Entries == [sig : Sigs, from : {"kill", "raise", "timer 1", "timer 2"}]
Disps   == [Sigs -> [h : Actions, restart : Truth]]
SigRec  == [st : Statuses, pc : Nat, at : {"run", "call", "woken"},
            mask : SUBSET Sigs, old : SUBSET Sigs, env : SUBSET Sigs, saved : Truth,
            pend : Seq(Entries), disp : Disps, flag : Truth, cnt : Nat, res : Int]
InProg(r) ==
  sample \in SigSamples /\ r.st = "run" =>
    r.pc \in DOMAIN Prog /\ (r.at # "run" => Prog[r.pc].op \in Waiting)
Counted(r) ==
  /\ r.cnt <= IF sample = "signal_basic" THEN 3 ELSE Ticks
  /\ sample = "signal_basic" /\ r.disp[INT].h = "basic" => r.cnt <= 2
  /\ sample = "timer_func" /\ r.st = "run" /\ r.pc <= 5 => r.cnt < Ticks
  /\ r.st = "run" /\ r.pc = 1 => r.cnt = 0
OwnHandlers(r) ==
  \A s \in Sigs : /\ r.disp[s].h = "basic" => /\ sample = "signal_basic" /\ s \in {INT, QUIT}
                                              /\ ~(r.st = "run" /\ r.pc = 1)
                  /\ r.disp[s].h = "jump" => sample = "signal_longjmp"
QueuedOnce(r) ==
  /\ \A k, l \in DOMAIN r.pend : r.pend[k] = r.pend[l] /\ k # l => r.pend[k].sig \in Realtime
  /\ \A k \in DOMAIN r.pend :
       r.pend[k].from = "raise" => r.disp[QUIT].h # "basic" /\ ~(r.st = "run" /\ r.pc = 1)
Good(r)  == InProg(r) /\ Counted(r) /\ OwnHandlers(r) /\ QueuedOnce(r)
SigInv   == /\ ps \in [SigProcs -> SigRec] /\ \A p \in SigProcs : Good(ps[p])
            /\ timers \in [1..2 -> Sigs \X {"off", "once", "periodic"}]
            /\ asked \subseteq FromAfar /\ nsent \in 0..MaxSent

(* What the calls with flags are like.                                     *)
LEMMA FlagCalls ==
  /\ \A S, h : /\ Handle(S, h).op = "sigaction" /\ Handle(S, h).set = S /\ Handle(S, h).h = h
               /\ Handle(S, h).restart \in Truth
  /\ \A S, h : /\ Signal(S, h).op = "sigaction" /\ Signal(S, h).set = S /\ Signal(S, h).h = h
               /\ Signal(S, h).restart \in Truth
  /\ SuspendKept.op = "sigsuspend" /\ SuspendEmpty.op = "sigsuspend"
  /\ Sigsetjmp(TRUE).op = "sigsetjmp" /\ Sigsetjmp(TRUE).save \in Truth
  BY DEF Handle, Signal, SuspendKept, SuspendEmpty, Sigsetjmp, Truth

(* The programs of the samples with signals.                               *)
LEMMA SignalSound ==
  /\ Sound(process_sync_by_signal, "process_sync_by_signal")
  /\ Sound(signal_suspend, "signal_suspend")
  /\ Sound(signal_suspend_sync, "signal_suspend_sync")
  /\ Sound(signal_basic, "signal_basic")
  /\ Sound(signal_longjmp, "signal_longjmp")
  /\ Sound(signal_restart, "signal_restart")
  /\ Sound(signal_realtime, "signal_realtime")
  /\ Sound(signal_legacy, "signal_legacy")
  /\ Sound(signal_send, "signal_send")
  /\ Sound(signal_block, "signal_block")
  /\ Sound(api3_signal_suspend, "api3_signal_suspend")
  /\ Sound(signal_sigaction, "signal_sigaction")
<1> USE FlagCalls DEF Sound, Flowing, Typed, Handling, Ticking, Actions, Sigs, SigProcs, INT, QUIT, USR1, ALRM, TERM, RT, RTMAX,
            Call, Block, SetMask, Restore, ForkTo, Kill, Goto, SleepCall,  Pause, ExitCall, ErrExit
<1>1. Sound(process_sync_by_signal, "process_sync_by_signal")
  BY DEF process_sync_by_signal
<1>2. Sound(signal_suspend, "signal_suspend")
  BY DEF signal_suspend
<1>3. Sound(signal_suspend_sync, "signal_suspend_sync")
  BY DEF signal_suspend_sync
<1>4. Sound(signal_basic, "signal_basic")
  BY DEF signal_basic
<1>5. Sound(signal_longjmp, "signal_longjmp")
  <2>1. PICK c : c = Sigsetjmp(TRUE)
    OBVIOUS
  <2>2. c.op = "sigsetjmp" /\ c.save \in Truth
    BY <2>1
  <2>3. signal_longjmp = << Handle({INT}, "jump"), c, Call("setFlag"), Pause, Goto(4) >>
    BY <2>1, Zenon DEF signal_longjmp
  <2> QED
    BY <2>2, <2>3
<1>6. Sound(signal_restart, "signal_restart")
  BY DEF signal_restart
<1>7. Sound(signal_realtime, "signal_realtime")
  BY DEF signal_realtime
<1>8. Sound(signal_legacy, "signal_legacy")
  BY DEF signal_legacy
<1>9. Sound(signal_send, "signal_send")
  BY DEF signal_send
<1>10. Sound(signal_block, "signal_block")
  BY DEF signal_block
<1>11. Sound(api3_signal_suspend, "api3_signal_suspend")
  BY DEF api3_signal_suspend
<1>12. Sound(signal_sigaction, "signal_sigaction")
  BY DEF signal_sigaction
<1> HIDE DEF Sound
<1> QED
  BY <1>1, <1>2, <1>3, <1>4, <1>5, <1>6, <1>7, <1>8, <1>9, <1>10, <1>11, <1>12

(* The programs of the samples with timers.                                *)
LEMMA TimerSound ==
  /\ Sound(timer_func, "timer_func")
  /\ Sound(timer_sync_expire, "timer_sync_expire")
  /\ Sound(timer_sleep, "timer_sleep")
  /\ Sound(timer_advanced_signal, "timer_advanced_signal")
  /\ Sound(timer_clock_nanosleep, "timer_clock_nanosleep")
  /\ Sound(time_sleep, "time_sleep")
  /\ Sound(time_clock_nanosleep, "time_clock_nanosleep")
  /\ Sound(timer_example_setitimer, "timer_example_setitimer")
  /\ Sound(timer_example_alarm, "timer_example_alarm")
  /\ Sound(timer_example_settime_signal, "timer_example_settime_signal")
<1> USE FlagCalls DEF Sound, Flowing, Typed, Handling, Ticking, Actions, Sigs, SigProcs, INT, QUIT, USR1, ALRM, TERM, RT, RTMAX,
            Call, Goto, SleepCall, Pause, ExitCall, Timer, TimerOff, Loop, TakeTick
<1>1. Sound(timer_func, "timer_func")
  BY DEF timer_func
<1>2. Sound(timer_sync_expire, "timer_sync_expire")
  BY DEF timer_sync_expire
<1>3. Sound(timer_sleep, "timer_sleep")
  BY DEF timer_sleep
<1>4. Sound(timer_advanced_signal, "timer_advanced_signal")
  BY DEF timer_advanced_signal
<1>5. Sound(timer_clock_nanosleep, "timer_clock_nanosleep")
  BY DEF timer_clock_nanosleep
<1>6. Sound(time_sleep, "time_sleep")
  BY DEF time_sleep
<1>7. Sound(time_clock_nanosleep, "time_clock_nanosleep")
  BY DEF time_clock_nanosleep
<1>8. Sound(timer_example_setitimer, "timer_example_setitimer")
  BY DEF timer_example_setitimer
<1>9. Sound(timer_example_alarm, "timer_example_alarm")
  BY DEF timer_example_alarm
<1>10. Sound(timer_example_settime_signal, "timer_example_settime_signal")
  BY DEF timer_example_settime_signal
<1> HIDE DEF Sound
<1> QED
  BY <1>1, <1>2, <1>3, <1>4, <1>5, <1>6, <1>7, <1>8, <1>9, <1>10

(* The program of every sample.                                            *)
LEMMA ProgSound ==
  ASSUME sample \in SigSamples
  PROVE  Sound(Prog, sample)
<1>1. \A s \in SigSamples : Sound(Programs[s], s)
  BY SignalSound, TimerSound DEF SigSamples, Programs
<1> QED
  BY <1>1 DEF Prog

(* The fields of a process have their types.                               *)
LEMMA FieldTypes ==
  ASSUME NEW r \in SigRec
  PROVE  /\ r.st \in Statuses /\ r.pc \in Nat /\ r.at \in {"run", "call", "woken"}
         /\ r.mask \in SUBSET Sigs /\ r.old \in SUBSET Sigs /\ r.env \in SUBSET Sigs /\ r.saved \in Truth
         /\ r.pend \in Seq(Entries) /\ r.disp \in Disps /\ r.flag \in Truth /\ r.cnt \in Nat /\ r.res \in Int
  BY DEF SigRec

(* A process that has not begun.                                           *)
LEMMA FreshType ==
  /\ Fresh \in SigRec /\ Fresh.st = "none" /\ Fresh.pc = 1 /\ Fresh.at = "run" /\ Fresh.pend = <<>> /\ Fresh.cnt = 0
  /\ \A x \in Sigs : Fresh.disp[x].h = "SIG_DFL"
<1>1. PICK f \in Truth : f = FALSE
  BY DEF Truth
<1>2. PICK d \in [h : Actions, restart : Truth] : d = [h |-> "SIG_DFL", restart |-> f]
  BY <1>1 DEF Actions
<1>3. PICK D \in Disps : D = [x \in Sigs |-> d]
  BY DEF Disps
<1>4. PICK b : b = [st |-> "none", pc |-> 1, at |-> "run", mask |-> {}, old |-> {}, env |-> {}, saved |-> f,
                    pend |-> <<>>, disp |-> D, flag |-> f, cnt |-> 0, res |-> 0]
  OBVIOUS
<1>5. /\ b \in SigRec /\ b.st = "none" /\ b.pc = 1 /\ b.at = "run" /\ b.pend = <<>> /\ b.cnt = 0
      /\ \A x \in Sigs : b.disp[x].h = "SIG_DFL"
  BY <1>2, <1>3, <1>4 DEF SigRec, Statuses
<1>6. Fresh = b
  BY <1>1, <1>2, <1>3, <1>4, Zenon DEF Fresh
<1> QED
  BY <1>5, <1>6

(* A process with no signal pending and no handler: at the beginning or    *)
(* at the end.                                                             *)
LEMMA QuietGood ==
  ASSUME NEW t \in SigRec, t.pend = <<>>, \A x \in Sigs : t.disp[x].h = "SIG_DFL", t.at = "run",
         t.st = "run" => t.pc = 1 /\ t.cnt = 0,
         t.cnt <= IF sample = "signal_basic" THEN 3 ELSE Ticks
  PROVE  Good(t)
<1>1. INT \in Sigs /\ QUIT \in Sigs /\ DOMAIN t.pend = {}
  BY DEF Sigs
<1>2. OwnHandlers(t) /\ QueuedOnce(t)
  BY <1>1 DEF OwnHandlers, QueuedOnce
<1>3. InProg(t)
  BY ProgSound DEF InProg, Sound
<1>4. Counted(t)
  BY <1>1, TicksAssumption, FieldTypes DEF Counted
<1> QED
  BY <1>2, <1>3, <1>4 DEF Good

(* A process that has ended.                                               *)
LEMMA EndedGood ==
  ASSUME NEW r \in SigRec, Good(r), NEW s \in Statuses, s # "run"
  PROVE  Ended(r, s) \in SigRec /\ Good(Ended(r, s))
<1>1. PICK b \in SigRec : b = Fresh
  BY FreshType
<1>2. PICK t : t = [b EXCEPT !.st = s, !.cnt = r.cnt]
  OBVIOUS
<1>3. t \in SigRec /\ t.st = s /\ t.cnt = r.cnt /\ t.disp = b.disp /\ t.pend = b.pend /\ t.at = b.at
  BY <1>2, FieldTypes DEF SigRec
<1>4. Ended(r, s) = t
  BY <1>1, <1>2 DEF Ended
<1>5. r.cnt <= IF sample = "signal_basic" THEN 3 ELSE Ticks
  BY DEF Good, Counted
<1> QED
  BY <1>1, <1>3, <1>4, <1>5, FreshType, QuietGood

(* Other fields than these do not matter.                                  *)
LEMMA EditGood ==
  ASSUME NEW r, Good(r), NEW t, t.st = r.st, t.pc = r.pc, t.cnt = r.cnt, t.disp = r.disp, t.pend = r.pend,
         t.at = r.at \/ t.at = "run" \/ Prog[t.pc].op \in Waiting
  PROVE  Good(t)
<1>1. InProg(t)
  BY DEF Good, InProg
<1>2. Counted(t) /\ OwnHandlers(t) /\ QueuedOnce(t)
  BY DEF Good, Counted, OwnHandlers, QueuedOnce
<1> QED
  BY <1>1, <1>2 DEF Good

(* Control goes to another call.                                           *)
LEMMA MovedGood ==
  ASSUME sample \in SigSamples, NEW r \in SigRec, Good(r), r.st = "run",
         NEW t \in SigRec, t.st = "run", t.at = "run", t.cnt = r.cnt, t.disp = r.disp, t.pend = r.pend,
         t.pc \in DOMAIN Prog, t.pc # 1, sample = "timer_func" /\ t.pc <= 5 => r.pc <= 5
  PROVE  Good(t)
<1>1. InProg(t)
  BY DEF InProg
<1>2. Counted(t)
  BY DEF Good, Counted
<1>3. OwnHandlers(t) /\ QueuedOnce(t)
  BY DEF Good, OwnHandlers, QueuedOnce
<1> QED
  BY <1>1, <1>2, <1>3 DEF Good

(* Control goes to the next call.                                          *)
LEMMA StepGood ==
  ASSUME sample \in SigSamples, NEW r \in SigRec, Good(r), r.st = "run",
         Prog[r.pc].op \notin {"goto", "takeTick", "exit", "errExit"}
  PROVE  Step(r) \in SigRec /\ Good(Step(r))
<1>1. r.pc \in DOMAIN Prog /\ r.pc \in Nat /\ r.pc # 0 /\ r.pc + 1 \in DOMAIN Prog
  BY ProgSound, FieldTypes DEF Good, InProg, Sound, Flowing
<1>2. PICK n \in Nat : n = r.pc + 1 /\ n # 1 /\ n \in DOMAIN Prog /\ (n <= 5 => r.pc <= 5)
  BY <1>1
<1>3. Step(r) = [r EXCEPT !.pc = n, !.at = "run"]
  BY <1>2 DEF Step
<1>4. PICK t : t = [r EXCEPT !.pc = n, !.at = "run"]
  OBVIOUS
<1>5. t \in SigRec /\ t.st = r.st /\ t.pc = n /\ t.at = "run" /\ t.cnt = r.cnt /\ t.disp = r.disp /\ t.pend = r.pend
  BY <1>4 DEF SigRec
<1> QED
  BY <1>2, <1>3, <1>4, <1>5, MovedGood

(* Control goes to any other call than the first.                          *)
LEMMA GoToGood ==
  ASSUME sample \in SigSamples, NEW r \in SigRec, Good(r), r.st = "run", r.at = "run",
         NEW n \in Nat, n # 1, n \in DOMAIN Prog, sample = "timer_func" /\ n <= 5 => r.pc <= 5
  PROVE  [r EXCEPT !.pc = n] \in SigRec /\ Good([r EXCEPT !.pc = n])
<1>1. PICK t : t = [r EXCEPT !.pc = n]
  OBVIOUS
<1>2. t \in SigRec /\ t.st = r.st /\ t.pc = n /\ t.at = "run" /\ t.cnt = r.cnt /\ t.disp = r.disp /\ t.pend = r.pend
  BY <1>1 DEF SigRec
<1> QED
  BY <1>1, <1>2, MovedGood

(* Control goes to a call that is named.                                   *)
LEMMA JumpGood ==
  ASSUME sample \in SigSamples, NEW r \in SigRec, Good(r), r.st = "run", r.at = "run",
         Prog[r.pc].op \in {"goto", "ifFlag", "loop"}
  PROVE  [r EXCEPT !.pc = Prog[r.pc].to] \in SigRec /\ Good([r EXCEPT !.pc = Prog[r.pc].to])
<1>1. r.pc \in DOMAIN Prog /\ r.pc \in Nat
  BY FieldTypes DEF Good, InProg
<1>2. PICK n \in Nat : n = Prog[r.pc].to /\ n # 1 /\ n \in DOMAIN Prog
  BY <1>1, ProgSound DEF Sound, Flowing
<1>3. sample = "timer_func" => r.pc <= 5
  BY <1>1, ProgSound DEF Sound, Ticking
<1> QED
  BY <1>2, <1>3, GoToGood

(* One entry is taken out of a queue.  Before(j, k): where an entry was     *)
(* that is j-th after the k-th was taken out.                              *)
Rest(s, k)   == SubSeq(s, 1, k - 1) \o SubSeq(s, k + 1, Len(s))
Before(j, k) == IF j < k THEN j ELSE j + 1

LEMMA TakenOut ==
  ASSUME NEW S, NEW s \in Seq(S), NEW k \in 1..Len(s)
  PROVE  /\ Rest(s, k) \in Seq(S)
         /\ \A j \in DOMAIN Rest(s, k) :
              j \in Nat /\ Before(j, k) \in DOMAIN s /\ Rest(s, k)[j] = s[Before(j, k)]
<1> DEFINE front == SubSeq(s, 1, k - 1)
           back  == SubSeq(s, k + 1, Len(s))
<1>1. /\ front \in Seq(S) /\ Len(front) = k - 1
      /\ \A j \in 1..k - 1 : front[j] = s[j]
  BY ElementOfSeq, SubSeqProperties
<1>2. /\ back \in Seq(S) /\ Len(back) = Len(s) - k
      /\ \A j \in 1..Len(s) - k : back[j] = s[k + j]
  BY ElementOfSeq, SubSeqProperties
<1> HIDE DEF front, back
<1>3. /\ front \o back \in Seq(S) /\ Len(front \o back) = Len(front) + Len(back)
      /\ \A j \in 1..Len(front) + Len(back) :
           (front \o back)[j] = IF j <= Len(front) THEN front[j] ELSE back[j - Len(front)]
  BY <1>1, <1>2, ConcatProperties, Zenon
<1>4. Len(front) + Len(back) = Len(s) - 1 /\ Len(s) \in Nat /\ DOMAIN s = 1..Len(s)
  BY <1>1, <1>2
<1>5. PICK t : t = front \o back /\ t = Rest(s, k)
  BY DEF front, back, Rest
<1>6. t \in Seq(S) /\ Len(t) = Len(s) - 1
  BY <1>3, <1>4, <1>5
<1>7. ASSUME NEW j \in 1..Len(s) - 1
      PROVE  j \in Nat /\ Before(j, k) \in 1..Len(s) /\ (front \o back)[j] = s[Before(j, k)]
  <2>1. CASE j <= k - 1
    <3>1. (front \o back)[j] = s[j] /\ j \in 1..Len(s) /\ j < k
      BY <1>1, <1>3, <1>4, <2>1
    <3>2. Before(j, k) = j
      BY <3>1 DEF Before
    <3> QED
      BY <3>1, <3>2
  <2>2. CASE j > k - 1
    <3>1. (front \o back)[j] = back[j - (k - 1)]
      BY <1>1, <1>3, <1>4, <2>2
    <3>2. j - (k - 1) \in 1..Len(s) - k /\ k + (j - (k - 1)) = j + 1 /\ j + 1 \in 1..Len(s) /\ ~(j < k)
      BY <1>4, <2>2
    <3>3. (front \o back)[j] = s[j + 1]
      BY <1>2, <3>1, <3>2
    <3>4. Before(j, k) = j + 1
      BY <3>2 DEF Before
    <3> QED
      BY <3>2, <3>3, <3>4
  <2> QED
    BY <1>4, <2>1, <2>2
<1>8. DOMAIN t = 1..Len(s) - 1
  BY <1>6, LenProperties
<1> QED
  BY <1>4, <1>5, <1>6, <1>7, <1>8

(* A signal is no longer pending.                                          *)
LEMMA WithoutGood ==
  ASSUME NEW r \in SigRec, Good(r), NEW k \in DOMAIN r.pend
  PROVE  /\ Without(r, k) \in SigRec /\ Good(Without(r, k))
         /\ Without(r, k).st = r.st /\ Without(r, k).pc = r.pc /\ Without(r, k).at = r.at
         /\ Without(r, k).disp = r.disp
<1>1. PICK s \in Seq(Entries) : s = r.pend
  BY FieldTypes
<1>2. PICK q : q = Rest(s, k)
  OBVIOUS
<1>3. /\ q \in Seq(Entries) /\ k \in Nat
      /\ \A j \in DOMAIN q : j \in Nat /\ Before(j, k) \in DOMAIN r.pend /\ q[j] = r.pend[Before(j, k)]
  <2>1. k \in 1..Len(s) /\ k \in Nat
    BY <1>1
  <2>2. q \in Seq(Entries) /\ \A j \in DOMAIN q : j \in Nat /\ Before(j, k) \in DOMAIN s /\ q[j] = s[Before(j, k)]
    BY <1>2, <2>1, TakenOut
  <2> QED
    BY <1>1, <2>1, <2>2
<1>4. PICK t : t = [r EXCEPT !.pend = q]
  OBVIOUS
<1>5. /\ t \in SigRec /\ t.pend = q /\ t.st = r.st /\ t.pc = r.pc /\ t.at = r.at /\ t.disp = r.disp
      /\ t.cnt = r.cnt
  BY <1>3, <1>4 DEF SigRec
<1>6. InProg(t) /\ Counted(t) /\ OwnHandlers(t)
  BY <1>5 DEF Good, InProg, Counted, OwnHandlers
<1>7. QueuedOnce(t)
  <2>1. /\ \A i, j \in DOMAIN r.pend : r.pend[i] = r.pend[j] /\ i # j => r.pend[i].sig \in Realtime
        /\ \A i \in DOMAIN r.pend :
             r.pend[i].from = "raise" => r.disp[QUIT].h # "basic" /\ ~(r.st = "run" /\ r.pc = 1)
    BY DEF Good, QueuedOnce
  <2>2. \A i, j \in DOMAIN q : i # j => Before(i, k) # Before(j, k)
    BY <1>1, <1>3 DEF Before
  <2>3. \A i, j \in DOMAIN q : q[i] = q[j] /\ i # j => q[i].sig \in Realtime
    BY <1>3, <2>1, <2>2
  <2>4. \A i \in DOMAIN q : q[i].from = "raise" => r.disp[QUIT].h # "basic" /\ ~(r.st = "run" /\ r.pc = 1)
    BY <1>3, <2>1
  <2> QED
    BY <1>5, <2>3, <2>4 DEF QueuedOnce
<1>8. Without(r, k) = t
  BY <1>1, <1>2, <1>4 DEF Without, Rest
<1> QED
  BY <1>5, <1>6, <1>7, <1>8 DEF Good

(* One more signal is pending, which was not, or is of another origin.     *)
LEMMA AppendGood ==
  ASSUME NEW r \in SigRec, Good(r), NEW e \in Entries,
         \A k \in DOMAIN r.pend : r.pend[k] = e => e.sig \in Realtime,
         e.from = "raise" => r.disp[QUIT].h # "basic" /\ ~(r.st = "run" /\ r.pc = 1)
  PROVE  LET t == [r EXCEPT !.pend = Append(@, e)]
         IN  t \in SigRec /\ Good(t) /\ t.st = r.st
<1>1. r.pend \in Seq(Entries) /\ Len(r.pend) \in Nat /\ DOMAIN r.pend = 1..Len(r.pend)
  BY FieldTypes
<1>2. PICK q : q = Append(r.pend, e)
  OBVIOUS
<1>3. /\ q \in Seq(Entries) /\ Len(q) = Len(r.pend) + 1 /\ q[Len(r.pend) + 1] = e
      /\ \A i \in 1..Len(r.pend) : q[i] = r.pend[i]
  BY <1>1, <1>2, AppendProperties
<1>4. \A i \in DOMAIN q : (i \in DOMAIN r.pend /\ q[i] = r.pend[i]) \/ (i = Len(r.pend) + 1 /\ q[i] = e)
  BY <1>1, <1>3
<1>5. PICK t : t = [r EXCEPT !.pend = q]
  OBVIOUS
<1>6. /\ t \in SigRec /\ t.pend = q /\ t.st = r.st /\ t.pc = r.pc /\ t.at = r.at /\ t.disp = r.disp
      /\ t.cnt = r.cnt
  BY <1>3, <1>5 DEF SigRec
<1>7. InProg(t) /\ Counted(t) /\ OwnHandlers(t)
  BY <1>6 DEF Good, InProg, Counted, OwnHandlers
<1>8. QueuedOnce(t)
  <2>1. /\ \A i, j \in DOMAIN r.pend : r.pend[i] = r.pend[j] /\ i # j => r.pend[i].sig \in Realtime
        /\ \A i \in DOMAIN r.pend :
             r.pend[i].from = "raise" => r.disp[QUIT].h # "basic" /\ ~(r.st = "run" /\ r.pc = 1)
    BY DEF Good, QueuedOnce
  <2>2. \A i, j \in DOMAIN q : q[i] = q[j] /\ i # j => q[i].sig \in Realtime
    BY <1>4, <2>1
  <2>3. \A i \in DOMAIN q : q[i].from = "raise" => r.disp[QUIT].h # "basic" /\ ~(r.st = "run" /\ r.pc = 1)
    BY <1>4, <2>1
  <2> QED
    BY <1>6, <2>2, <2>3 DEF QueuedOnce
<1>9. [r EXCEPT !.pend = Append(@, e)] = t
  BY <1>2, <1>5
<1> QED
  BY <1>6, <1>7, <1>8, <1>9 DEF Good

(* A signal is sent.                                                       *)
LEMMA QueuedGood ==
  ASSUME NEW r \in SigRec, Good(r), NEW sig \in Sigs, NEW from \in {"kill", "timer 1", "timer 2"}
  PROVE  Queued(r, sig, from) \in SigRec /\ Good(Queued(r, sig, from)) /\ Queued(r, sig, from).st = r.st
<1>1. PICK e : e = [sig |-> sig, from |-> from]
  OBVIOUS
<1>2. e \in Entries /\ e.sig = sig /\ e.from = from /\ e.from # "raise"
  BY <1>1 DEF Entries
<1>3. CASE \E k \in DOMAIN r.pend : r.pend[k].sig = sig
                                    /\ (sig \notin Realtime \/ (from # "kill" /\ r.pend[k].from = from))
  BY <1>3 DEF Queued
<1>4. CASE ~\E k \in DOMAIN r.pend : r.pend[k].sig = sig
                                     /\ (sig \notin Realtime \/ (from # "kill" /\ r.pend[k].from = from))
  <2>1. \A k \in DOMAIN r.pend : r.pend[k] = e => e.sig \in Realtime
    BY <1>2, <1>4
  <2>2. Queued(r, sig, from) = [r EXCEPT !.pend = Append(@, e)]
    BY <1>1, <1>4 DEF Queued
  <2> QED
    BY <1>2, <2>1, <2>2, AppendGood
<1> QED
  BY <1>3, <1>4

(* The signal taken first is pending.                                      *)
LEMMA FirstPending ==
  ASSUME NEW r \in SigRec, NEW S \in SUBSET Sigs, PendingIn(r, S) # {}
  PROVE  First(r, S) \in DOMAIN r.pend /\ r.pend[First(r, S)].sig \in S /\ r.pend[First(r, S)] \in Entries
<1>1. /\ r.pend \in Seq(Entries) /\ DOMAIN r.pend \subseteq Nat /\ Sigs \subseteq Nat
      /\ \A k \in DOMAIN r.pend : r.pend[k] \in Entries /\ r.pend[k].sig \in Sigs
  <2>1. r.pend \in Seq(Entries)
    BY FieldTypes
  <2>2. Sigs \subseteq Nat
    BY DEF Sigs, INT, QUIT, USR1, ALRM, TERM, RT, RTMAX
  <2>3. \A e \in Entries : e.sig \in Sigs
    BY DEF Entries
  <2> QED
    BY <2>1, <2>2, <2>3
<1>2. PICK s \in PendingIn(r, S) : \A x \in PendingIn(r, S) : s <= x
  BY <1>1, Least DEF PendingIn
<1> DEFINE K == {k \in DOMAIN r.pend : r.pend[k].sig = s}
<1>3. K \in SUBSET Nat /\ K # {}
  BY <1>1, <1>2 DEF PendingIn
<1>4. PICK k \in K : \A l \in K : k <= l
  BY <1>3, Least
<1>5. k \in DOMAIN r.pend /\ r.pend[k].sig = s /\ s \in S /\ s \in Nat
  BY <1>1, <1>2, <1>4 DEF PendingIn
<1>6. \A l \in DOMAIN r.pend : r.pend[l].sig \in S => \/ r.pend[k].sig < r.pend[l].sig
                                                      \/ r.pend[k].sig = r.pend[l].sig /\ k <= l
  <2> SUFFICES ASSUME NEW l \in DOMAIN r.pend, r.pend[l].sig \in S
               PROVE  s < r.pend[l].sig \/ (s = r.pend[l].sig /\ k <= l)
    BY <1>5
  <2>1. r.pend[l].sig \in PendingIn(r, S) /\ r.pend[l].sig \in Nat
    BY <1>1 DEF PendingIn
  <2>2. s <= r.pend[l].sig
    BY <1>2, <2>1
  <2>3. CASE s = r.pend[l].sig
    BY <1>4, <2>3
  <2> QED
    BY <1>5, <2>1, <2>2, <2>3
<1>7. First(r, S) \in DOMAIN r.pend /\ r.pend[First(r, S)].sig \in S
  BY <1>5, <1>6, Zenon DEF First
<1> QED
  BY <1>1, <1>7

(* Handlers are set.                                                       *)
LEMMA SigactionGood ==
  ASSUME sample \in SigSamples, NEW r \in SigRec, Good(r), r.st = "run", Prog[r.pc].op = "sigaction",
         NEW D, D = [s \in Sigs |-> IF s \in Prog[r.pc].set
                                      THEN [h |-> Prog[r.pc].h, restart |-> Prog[r.pc].restart] ELSE r.disp[s]]
  PROVE  Step([r EXCEPT !.disp = D]) \in SigRec /\ Good(Step([r EXCEPT !.disp = D]))
<1>1. r.pc \in DOMAIN Prog /\ r.pc \in Nat /\ r.pc # 0 /\ r.pc + 1 \in DOMAIN Prog
  BY ProgSound, FieldTypes DEF Good, InProg, Sound, Flowing
<1>2. PICK n \in Nat : n = r.pc + 1 /\ n # 1 /\ n \in DOMAIN Prog /\ (n <= 5 => r.pc <= 5)
  BY <1>1
<1>3. PICK S, h, f : S = Prog[r.pc].set /\ h = Prog[r.pc].h /\ f = Prog[r.pc].restart
  OBVIOUS
<1>4. /\ S \subseteq Sigs /\ h \in Actions /\ f \in Truth
      /\ h = "basic" => sample = "signal_basic" /\ r.pc = 1 /\ S = {INT, QUIT}
      /\ h = "jump" => sample = "signal_longjmp"
  BY <1>1, <1>3, ProgSound DEF Sound, Typed, Handling
<1>5. PICK d \in [h : Actions, restart : Truth] : d = [h |-> h, restart |-> f] /\ d.h = h
  <2>1. PICK d : d = [h |-> h, restart |-> f]
    OBVIOUS
  <2>2. d \in [h : Actions, restart : Truth] /\ d.h = h
    BY <1>4, <2>1
  <2> QED
    BY <2>1, <2>2
<1>6. D \in Disps /\ \A s \in Sigs : D[s] = IF s \in S THEN d ELSE r.disp[s]
  <2>1. r.disp \in Disps
    BY FieldTypes
  <2>2. D = [s \in Sigs |-> IF s \in S THEN d ELSE r.disp[s]]
    BY <1>3, <1>5
  <2> QED
    BY <2>1, <2>2 DEF Disps
<1>7. PICK u, t : u = [r EXCEPT !.disp = D] /\ t = [u EXCEPT !.pc = n, !.at = "run"]
  OBVIOUS
<1>8. Step([r EXCEPT !.disp = D]) = t
  <2>1. u.pc = r.pc
    BY <1>7 DEF SigRec
  <2> QED
    BY <1>2, <1>7, <2>1 DEF Step
<1>9. t \in SigRec /\ t.st = r.st /\ t.pc = n /\ t.at = "run" /\ t.cnt = r.cnt /\ t.disp = D /\ t.pend = r.pend
  BY <1>6, <1>7 DEF SigRec
<1>10. INT \in Sigs /\ QUIT \in Sigs
  BY DEF Sigs
<1>11. InProg(t)
  BY <1>2, <1>9 DEF InProg
<1>12. \A s \in Sigs : D[s].h = IF s \in S THEN h ELSE r.disp[s].h
  BY <1>5, <1>6
<1>13. OwnHandlers(t)
  BY <1>2, <1>4, <1>9, <1>12 DEF Good, OwnHandlers
<1>14. Counted(t)
  <2>1. /\ r.cnt <= IF sample = "signal_basic" THEN 3 ELSE Ticks
        /\ sample = "timer_func" /\ t.st = "run" /\ t.pc <= 5 => r.cnt < Ticks
    BY <1>2, <1>9 DEF Good, Counted
  <2>2. sample = "signal_basic" /\ D[INT].h = "basic" => r.cnt <= 2
    <3>1. CASE INT \in S /\ h = "basic"
      <4>1. r.cnt = 0
        BY <1>4, <3>1 DEF Good, Counted
      <4> QED
        BY <4>1
    <3>2. CASE ~(INT \in S /\ h = "basic")
      BY <1>10, <1>12, <3>2 DEF Good, Counted
    <3> QED
      BY <3>1, <3>2
  <2> QED
    BY <1>2, <1>9, <2>1, <2>2 DEF Counted
<1>15. QueuedOnce(t)
  <2>1. \A k \in DOMAIN r.pend : r.pend[k].from = "raise" => D[QUIT].h # "basic"
    BY <1>4, <1>10, <1>12 DEF Good, QueuedOnce
  <2> QED
    BY <1>2, <1>9, <2>1 DEF Good, QueuedOnce
<1> QED
  BY <1>8, <1>9, <1>11, <1>13, <1>14, <1>15 DEF Good

(* An expiry is counted, or there was none.                                *)
LEMMA TickGood ==
  ASSUME sample \in SigSamples, NEW r \in SigRec, Good(r), r.st = "run", r.at = "run", Prog[r.pc].op = "takeTick",
         NEW t, t = IF ~r.flag THEN [r EXCEPT !.pc = Prog[r.pc].sleep]
                    ELSE [r EXCEPT !.flag = FALSE, !.cnt = @ + 1,
                            !.pc = IF r.cnt + 1 < Ticks THEN Prog[r.pc].sleep ELSE Prog[r.pc].out]
  PROVE  t \in SigRec /\ Good(t)
<1>1. r.pc \in DOMAIN Prog /\ r.pc \in Nat /\ r.cnt \in Nat
  BY FieldTypes DEF Good, InProg
<1>2. /\ sample = "timer_func" /\ Prog[r.pc].sleep = 4 /\ Prog[r.pc].out = 6 /\ 4 \in DOMAIN Prog /\ 6 \in DOMAIN Prog
      /\ r.pc <= 5
  BY <1>1, ProgSound DEF Sound, Ticking
<1>3. r.cnt < Ticks
  BY <1>2 DEF Good, Counted
<1>4. CASE ~r.flag
  <2>1. t = [r EXCEPT !.pc = 4]
    BY <1>2, <1>4
  <2> QED
    BY <1>2, <2>1, GoToGood
<1>5. CASE r.flag
  <2>1. PICK f \in Truth : f = FALSE
    BY DEF Truth
  <2>2. PICK c \in Nat : c = r.cnt + 1 /\ c <= Ticks
    BY <1>1, <1>3, TicksAssumption
  <2>3. PICK n \in Nat : n = (IF c < Ticks THEN 4 ELSE 6) /\ n # 1 /\ n \in DOMAIN Prog /\ (n <= 5 => c < Ticks)
    BY <1>2
  <2>4. t = [r EXCEPT !.flag = f, !.cnt = c, !.pc = n]
    BY <1>2, <1>5, <2>1, <2>2, <2>3, Zenon
  <2>5. t \in SigRec /\ t.st = r.st /\ t.pc = n /\ t.at = r.at /\ t.cnt = c /\ t.disp = r.disp /\ t.pend = r.pend
    BY <2>4 DEF SigRec
  <2>6. InProg(t)
    BY <2>3, <2>5 DEF InProg
  <2>7. OwnHandlers(t) /\ QueuedOnce(t)
    BY <2>3, <2>5 DEF Good, OwnHandlers, QueuedOnce
  <2>8. Counted(t)
    BY <1>2, <2>2, <2>3, <2>5 DEF Counted
  <2> QED
    BY <2>5, <2>6, <2>7, <2>8 DEF Good
<1> QED
  BY <1>4, <1>5

(* A turn of a loop over expiries.                                         *)
LEMMA LoopGood ==
  ASSUME sample \in SigSamples, NEW r \in SigRec, Good(r), r.st = "run", r.at = "run", Prog[r.pc].op = "loop",
         NEW t, t = IF r.cnt + 1 < Ticks THEN [r EXCEPT !.cnt = @ + 1, !.pc = Prog[r.pc].to] ELSE Step(r)
  PROVE  t \in SigRec /\ Good(t)
<1>1. r.pc \in DOMAIN Prog /\ r.cnt \in Nat /\ Ticks \in Nat
  BY FieldTypes, TicksAssumption DEF Good, InProg
<1>2. PICK n \in Nat : n = Prog[r.pc].to /\ n # 1 /\ n \in DOMAIN Prog
  BY <1>1, ProgSound DEF Sound, Flowing
<1>3. sample # "signal_basic"
  BY <1>1, ProgSound DEF Sound, Ticking
<1>4. CASE r.cnt + 1 < Ticks
  <2>1. PICK c \in Nat : c = r.cnt + 1 /\ c < Ticks /\ c <= Ticks
    BY <1>1, <1>4
  <2>2. t = [r EXCEPT !.cnt = c, !.pc = n]
    BY <1>2, <1>4, <2>1
  <2>3. t \in SigRec /\ t.st = r.st /\ t.pc = n /\ t.at = r.at /\ t.cnt = c /\ t.disp = r.disp /\ t.pend = r.pend
    BY <2>2 DEF SigRec
  <2>4. InProg(t)
    BY <1>2, <2>3 DEF InProg
  <2>5. OwnHandlers(t) /\ QueuedOnce(t)
    BY <1>2, <2>3 DEF Good, OwnHandlers, QueuedOnce
  <2>6. Counted(t)
    BY <1>2, <1>3, <2>1, <2>3 DEF Counted
  <2> QED
    BY <2>3, <2>4, <2>5, <2>6 DEF Good
<1>5. CASE ~(r.cnt + 1 < Ticks)
  BY <1>5, StepGood
<1> QED
  BY <1>4, <1>5

(* The mask does not matter to Good.                                       *)
LEMMA MaskGood ==
  ASSUME NEW r \in SigRec, Good(r), NEW M \in SUBSET Sigs
  PROVE  /\ [r EXCEPT !.mask = M] \in SigRec /\ Good([r EXCEPT !.mask = M])
         /\ [r EXCEPT !.mask = M].st = r.st /\ [r EXCEPT !.mask = M].disp = r.disp
<1>1. PICK t : t = [r EXCEPT !.mask = M]
  OBVIOUS
<1>2. t \in SigRec /\ t.st = r.st /\ t.pc = r.pc /\ t.at = r.at /\ t.cnt = r.cnt /\ t.disp = r.disp /\ t.pend = r.pend
  BY <1>1 DEF SigRec
<1> QED
  BY <1>1, <1>2, EditGood

(* A handler is called, and returns.                                       *)
LEMMA CaughtGood ==
  ASSUME NEW r \in SigRec, Good(r), NEW sig \in Sigs
  PROVE  /\ Caught(r, sig) \in SigRec /\ Good(Caught(r, sig)) /\ Caught(r, sig).st = r.st
         /\ Caught(r, sig).disp = r.disp
<1>1. PICK M \in SUBSET Sigs : M = r.mask \cup {sig}
  BY FieldTypes
<1>2. Caught(r, sig) = [r EXCEPT !.mask = M]
  BY <1>1 DEF Caught
<1> QED
  BY <1>2, MaskGood

LEMMA ReturnGood ==
  ASSUME NEW r \in SigRec, Good(r), NEW sig
  PROVE  Return(r, sig) \in SigRec /\ Good(Return(r, sig))
<1>1. PICK M \in SUBSET Sigs : M = r.mask \ {sig}
  BY FieldTypes
<1>2. Return(r, sig) = [r EXCEPT !.mask = M]
  BY <1>1 DEF Return
<1> QED
  BY <1>2, MaskGood

(* The third SIGINT is the last one that signal_basic counts, and SIGQUIT  *)
(* raises itself once.                                                     *)
LEMMA BasicGood ==
  ASSUME NEW r \in SigRec, Good(r), NEW sig \in Sigs, r.disp[sig].h = "basic"
  PROVE  signal_basic_handler(r, sig) \in SigRec /\ Good(signal_basic_handler(r, sig))
<1>1. /\ sample = "signal_basic" /\ sig \in {INT, QUIT} /\ ~(r.st = "run" /\ r.pc = 1)
      /\ INT \in Sigs /\ QUIT \in Sigs /\ INT # QUIT /\ r.cnt \in Nat /\ r.disp \in Disps
  BY FieldTypes DEF Good, OwnHandlers, Sigs, INT, QUIT
<1>2. CASE sig = INT
  <2>1. PICK c \in Nat : c = r.cnt + 1 /\ c <= 3 /\ (c # 3 => c <= 2)
    <3>1. r.cnt <= 2
      BY <1>1, <1>2 DEF Good, Counted
    <3> QED
      BY <1>1, <3>1
  <2>2. PICK a \in Actions : a = (IF c = 3 THEN "SIG_IGN" ELSE "basic") /\ (a = "basic" => c <= 2) /\ a # "jump"
    BY <2>1 DEF Actions
  <2>3. PICK D : D = [r.disp EXCEPT ![INT].h = a]
    OBVIOUS
  <2>4. D \in Disps /\ D[INT].h = a /\ \A s \in Sigs : s # INT => D[s] = r.disp[s]
    BY <1>1, <2>3 DEF Disps
  <2>5. PICK t : t = [r EXCEPT !.cnt = c, !.disp = D]
    OBVIOUS
  <2>6. t \in SigRec /\ t.st = r.st /\ t.pc = r.pc /\ t.at = r.at /\ t.cnt = c /\ t.disp = D /\ t.pend = r.pend
    BY <2>4, <2>5 DEF SigRec
  <2>7. signal_basic_handler(r, sig) = Return(t, sig)
    BY <1>2, <2>1, <2>2, <2>3, <2>5 DEF signal_basic_handler
  <2>8. InProg(t)
    BY <2>6 DEF Good, InProg
  <2>9. OwnHandlers(t)
    BY <1>1, <2>2, <2>4, <2>6 DEF Good, OwnHandlers
  <2>10. QueuedOnce(t)
    BY <1>1, <2>4, <2>6 DEF Good, QueuedOnce
  <2>11. Counted(t)
    BY <1>1, <2>1, <2>2, <2>4, <2>6 DEF Counted
  <2> QED
    BY <2>6, <2>7, <2>8, <2>9, <2>10, <2>11, ReturnGood DEF Good
<1>3. CASE sig = QUIT
  <2>1. PICK D : D = [r.disp EXCEPT ![QUIT].h = "SIG_DFL"]
    OBVIOUS
  <2>2. D \in Disps /\ D[QUIT].h = "SIG_DFL" /\ \A s \in Sigs : s # QUIT => D[s] = r.disp[s]
    BY <1>1, <2>1 DEF Disps, Actions
  <2>3. PICK u : u = [r EXCEPT !.disp = D]
    OBVIOUS
  <2>4. u \in SigRec /\ u.st = r.st /\ u.pc = r.pc /\ u.at = r.at /\ u.cnt = r.cnt /\ u.disp = D /\ u.pend = r.pend
    BY <2>2, <2>3 DEF SigRec
  <2>5. InProg(u)
    BY <2>4 DEF Good, InProg
  <2>6. OwnHandlers(u)
    BY <1>1, <2>2, <2>4 DEF Good, OwnHandlers
  <2>7. QueuedOnce(u) /\ \A k \in DOMAIN r.pend : r.pend[k].from # "raise"
    BY <1>3, <2>2, <2>4 DEF Good, QueuedOnce
  <2>8. Counted(u)
    BY <1>1, <2>2, <2>4 DEF Good, Counted
  <2>9. PICK e : e = [sig |-> QUIT, from |-> "raise"]
    OBVIOUS
  <2>10. e \in Entries /\ e.from = "raise"
    BY <1>1, <2>9 DEF Entries
  <2>11. signal_basic_handler(r, sig) = Return([u EXCEPT !.pend = Append(@, e)], sig)
    BY <1>1, <1>3, <2>1, <2>3, <2>9 DEF signal_basic_handler
  <2>12. Good(u)
    BY <2>5, <2>6, <2>7, <2>8 DEF Good
  <2>13. PICK w : w = [u EXCEPT !.pend = Append(@, e)]
    OBVIOUS
  <2>14. [u EXCEPT !.pend = Append(@, e)] \in SigRec /\ Good([u EXCEPT !.pend = Append(@, e)])
    BY <1>1, <2>2, <2>4, <2>7, <2>10, <2>12, AppendGood
  <2> QED
    BY <2>11, <2>13, <2>14, ReturnGood
<1> QED
  BY <1>1, <1>2, <1>3

(* Whatever a handler does leaves the process well formed.                 *)
LEMMA HandlerGood ==
  ASSUME sample \in SigSamples, NEW r \in SigRec, Good(r), r.st = "run", NEW sig \in Sigs,
         NEW h, h = r.disp[sig].h, NEW t, t = Handler(r, h, sig)
  PROVE  t \in SigRec /\ Good(t)
<1>1. CASE h = "basic"
  <2>1. t = signal_basic_handler(r, sig)
    BY <1>1 DEF Handler
  <2> QED
    BY <1>1, <2>1, BasicGood
<1>2. ASSUME NEW f \in Truth PROVE [r EXCEPT !.flag = f] \in SigRec /\ Good([r EXCEPT !.flag = f])
  <2>1. PICK u : u = [r EXCEPT !.flag = f]
    OBVIOUS
  <2>2. u \in SigRec /\ u.st = r.st /\ u.pc = r.pc /\ u.at = r.at /\ u.cnt = r.cnt /\ u.disp = r.disp /\ u.pend = r.pend
    BY <2>1 DEF SigRec
  <2> QED
    BY <2>1, <2>2, EditGood
<1>3. CASE h = "suspend"
  <2>1. t = Return([r EXCEPT !.flag = r.flag \/ sig = QUIT], sig)
    BY <1>3 DEF Handler, signal_suspend_handler
  <2>2. (r.flag \/ sig = QUIT) \in Truth
    BY DEF Truth
  <2> QED
    BY <1>2, <2>1, <2>2, ReturnGood, Zenon
<1>4. CASE h = "on_timer"
  <2>1. t = Return([r EXCEPT !.flag = TRUE], sig)
    BY <1>4 DEF Handler, on_timer
  <2>2. TRUE \in Truth
    BY DEF Truth
  <2> QED
    BY <1>2, <2>1, <2>2, ReturnGood, Zenon
<1>5. CASE h = "jump"
  <2>1. t = Return(r, sig) \/ \E M \in {r.env, r.mask} : t = [r EXCEPT !.pc = 4, !.at = "run", !.mask = M]
    BY <1>5 DEF Handler, signal_handler_func
  <2>2. ASSUME NEW M \in SUBSET Sigs, NEW u, u = [r EXCEPT !.pc = 4, !.at = "run", !.mask = M]
        PROVE  u \in SigRec /\ Good(u)
    <3>1. /\ u \in SigRec /\ u.st = r.st /\ u.pc = 4 /\ u.at = "run" /\ u.cnt = r.cnt /\ u.disp = r.disp
          /\ u.pend = r.pend
      BY <2>2, FieldTypes DEF SigRec
    <3>2. sample = "signal_longjmp" /\ 4 \in DOMAIN Prog
      <4>1. sample = "signal_longjmp"
        BY <1>5 DEF Good, OwnHandlers
      <4> QED
        BY <4>1, ProgSound DEF Sound, Ticking
    <3> QED
      BY <3>1, <3>2, MovedGood
  <2>3. r.env \in SUBSET Sigs /\ r.mask \in SUBSET Sigs
    BY FieldTypes
  <2> QED
    BY <2>1, <2>2, <2>3, ReturnGood
<1>6. CASE h = "reset"
  <2>1. PICK u : u = [r EXCEPT !.cnt = 0]
    OBVIOUS
  <2>2. t = Return(u, sig)
    BY <1>6, <2>1 DEF Handler, signal_handler_sigint
  <2>3. u \in SigRec /\ u.st = r.st /\ u.pc = r.pc /\ u.at = r.at /\ u.cnt = 0 /\ u.disp = r.disp /\ u.pend = r.pend
    BY <2>1 DEF SigRec
  <2>4. InProg(u) /\ OwnHandlers(u) /\ QueuedOnce(u)
    BY <2>3 DEF Good, InProg, OwnHandlers, QueuedOnce
  <2>5. Counted(u)
    BY <2>3, TicksAssumption DEF Counted
  <2>6. Good(u)
    BY <2>4, <2>5 DEF Good
  <2> QED
    BY <2>2, <2>3, <2>6, ReturnGood
<1>7. CASE h = "deref"
  <2>1. t = Return(r, sig) \/ t = [r EXCEPT !.st = "killed"]
    BY <1>7 DEF Handler, signal_handler_adv
  <2>2. PICK u : u = [r EXCEPT !.st = "killed"]
    OBVIOUS
  <2>3. /\ u \in SigRec /\ u.st = "killed" /\ u.pc = r.pc /\ u.at = r.at /\ u.cnt = r.cnt /\ u.disp = r.disp
        /\ u.pend = r.pend
    BY <2>2 DEF SigRec, Statuses
  <2>4. InProg(u) /\ OwnHandlers(u) /\ QueuedOnce(u)
    BY <2>3 DEF Good, InProg, OwnHandlers, QueuedOnce
  <2>5. Counted(u)
    BY <2>3 DEF Good, Counted
  <2>6. Good(u)
    BY <2>4, <2>5 DEF Good
  <2> QED
    BY <2>1, <2>2, <2>3, <2>6, ReturnGood
<1>8. CASE h \notin {"basic", "suspend", "jump", "reset", "on_timer", "deref"}
  BY <1>8, ReturnGood DEF Handler
<1> QED
  BY <1>1, <1>3, <1>4, <1>5, <1>6, <1>7, <1>8

(* So does a signal that kills or is ignored.                              *)
LEMMA HandledGood ==
  ASSUME sample \in SigSamples, NEW r \in SigRec, Good(r), r.st = "run", NEW sig \in Sigs,
         NEW t, t = Handled(r, r.disp[sig].h, sig)
  PROVE  t \in SigRec /\ Good(t)
<1>1. PICK h : h = r.disp[sig].h
  OBVIOUS
<1>2. CASE h = "SIG_DFL"
  <2>1. t = Ended(r, "killed")
    BY <1>1, <1>2 DEF Handled
  <2>2. "killed" \in Statuses
    BY DEF Statuses
  <2> QED
    BY <2>1, <2>2, EndedGood
<1>3. CASE h = "SIG_IGN"
  BY <1>1, <1>3 DEF Handled
<1>4. CASE h \notin {"SIG_DFL", "SIG_IGN"}
  <2>1. PICK c : c = Caught(r, sig)
    OBVIOUS
  <2>2. c \in SigRec /\ Good(c) /\ c.st = "run" /\ h = c.disp[sig].h
    BY <1>1, <2>1, CaughtGood
  <2>3. t = Handler(c, h, sig)
    BY <1>1, <1>4, <2>1 DEF Handled
  <2> QED
    BY <2>2, <2>3, HandlerGood
<1> QED
  BY <1>2, <1>3, <1>4

(* One process changes.                                                    *)
LEMMA BecomesGood ==
  ASSUME SigInv, UNCHANGED sample, NEW p \in SigProcs, NEW r \in SigRec, Good(r), Becomes(p, r),
         timers' \in [1..2 -> Sigs \X {"off", "once", "periodic"}], asked' \subseteq FromAfar, nsent' \in 0..MaxSent
  PROVE  SigInv'
<1>1. ps' \in [SigProcs -> SigRec] /\ \A q \in SigProcs : Good(ps'[q])
  BY DEF SigInv, Becomes
<1>2. \A q \in SigProcs : Good(ps[q])'
  BY <1>1 DEF Good, InProg, Counted, OwnHandlers, QueuedOnce, Prog
<1> QED
  BY <1>1, <1>2 DEF SigInv

(* The process that makes a call.                                          *)
LEMMA AtGood ==
  ASSUME SigInv, NEW p \in SigProcs
  PROVE  /\ ps[p] \in SigRec /\ Good(ps[p]) /\ Ins(p) = Prog[ps[p].pc]
         /\ \A o : At(p, o) => ps[p].st = "run" /\ ps[p].at = "run" /\ Prog[ps[p].pc].op = o
         /\ \A o : In(p, o) => ps[p].st = "run" /\ ps[p].at = "call" /\ Prog[ps[p].pc].op = o
  BY DEF SigInv, Ins, Prog, At, In

(* Only the process changes.                                               *)
LEMMA QuietKept ==
  ASSUME SigInv, Quiet, NEW p \in SigProcs, NEW r \in SigRec, Good(r), Becomes(p, r)
  PROVE  SigInv'
  BY BecomesGood DEF Quiet, SigInv

(* Calls that change the mask.                                             *)
LEMMA SigprocmaskKept ==
  ASSUME SigInv, sample \in SigSamples, NEW p \in SigProcs, Sigprocmask(p)
  PROVE  SigInv'
<1>1. PICK r \in SigRec : r = ps[p] /\ Good(r) /\ Ins(p) = Prog[r.pc]
  BY AtGood
<1>2. PICK o \in {"block", "setmask", "restore"} : At(p, o)
  BY DEF Sigprocmask
<1>3. r.st = "run" /\ Prog[r.pc].op = o
  BY <1>1, <1>2, AtGood
<1>4. PICK m, n \in SUBSET Sigs : Becomes(p, Step([r EXCEPT !.old = m, !.mask = n]))
  <2>1. r.mask \in SUBSET Sigs /\ r.old \in SUBSET Sigs
    BY FieldTypes
  <2>2. r.pc \in DOMAIN Prog
    BY <1>1, <1>3 DEF Good, InProg
  <2>3. CASE At(p, "block")
    <3>1. Ins(p).set \subseteq Sigs
      BY <1>1, <2>2, <2>3, AtGood, ProgSound DEF Sound, Typed
    <3>2. Becomes(p, Step([r EXCEPT !.old = r.mask, !.mask = r.mask \cup Ins(p).set]))
      BY <1>1, <2>3, AtGood DEF Sigprocmask, At
    <3> QED
      BY <2>1, <3>1, <3>2
  <2>4. CASE At(p, "setmask")
    <3>1. Ins(p).set \subseteq Sigs
      BY <1>1, <2>2, <2>4, AtGood, ProgSound DEF Sound, Typed
    <3>2. Becomes(p, Step([r EXCEPT !.old = r.mask, !.mask = Ins(p).set]))
      BY <1>1, <2>4, AtGood DEF Sigprocmask, At
    <3> QED
      BY <2>1, <3>1, <3>2
  <2>5. CASE At(p, "restore")
    <3>1. Becomes(p, Step([r EXCEPT !.mask = r.old]))
      BY <1>1, <2>5, AtGood DEF Sigprocmask, At
    <3>2. [r EXCEPT !.mask = r.old] = [r EXCEPT !.old = r.old, !.mask = r.old]
      BY DEF SigRec
    <3> QED
      BY <2>1, <3>1, <3>2
  <2> QED
    BY <1>2, <2>3, <2>4, <2>5
<1>5. PICK t : t = [r EXCEPT !.old = m, !.mask = n]
  OBVIOUS
<1>6. t \in SigRec /\ t.st = r.st /\ t.pc = r.pc /\ t.at = r.at /\ t.cnt = r.cnt /\ t.disp = r.disp /\ t.pend = r.pend
  BY <1>5 DEF SigRec
<1>7. Good(t)
  BY <1>1, <1>6, EditGood
<1>8. Step(t) \in SigRec /\ Good(Step(t))
  BY <1>3, <1>6, <1>7, StepGood
<1> QED
  BY <1>4, <1>5, <1>8, QuietKept DEF Sigprocmask

(* Handlers are set.                                                       *)
LEMMA SigactionKept ==
  ASSUME SigInv, sample \in SigSamples, NEW p \in SigProcs, Sigaction(p)
  PROVE  SigInv'
<1>1. PICK r \in SigRec : r = ps[p] /\ Good(r) /\ Ins(p) = Prog[r.pc]
  BY AtGood
<1>2. r.st = "run" /\ Prog[r.pc].op = "sigaction"
  BY <1>1, AtGood DEF Sigaction
<1>3. PICK D : D = [s \in Sigs |-> IF s \in Prog[r.pc].set
                                     THEN [h |-> Prog[r.pc].h, restart |-> Prog[r.pc].restart] ELSE r.disp[s]]
  OBVIOUS
<1>4. Becomes(p, Step([r EXCEPT !.disp = D]))
  BY <1>1, <1>3, Zenon DEF Sigaction
<1>5. Step([r EXCEPT !.disp = D]) \in SigRec /\ Good(Step([r EXCEPT !.disp = D]))
  BY <1>1, <1>2, <1>3, SigactionGood
<1> QED
  BY <1>4, <1>5, QuietKept DEF Sigaction

(* Two processes change.                                                   *)
LEMMA BothGood ==
  ASSUME SigInv, Quiet, NEW p \in SigProcs, NEW q \in SigProcs, NEW r \in SigRec, NEW t \in SigRec, Good(r), Good(t),
         ps' = [ps EXCEPT ![p] = r, ![q] = t]
  PROVE  SigInv'
<1>1. ps' \in [SigProcs -> SigRec] /\ \A x \in SigProcs : Good(ps'[x])
  BY DEF SigInv
<1>2. \A x \in SigProcs : Good(ps[x])'
  BY <1>1 DEF Good, InProg, Counted, OwnHandlers, QueuedOnce, Prog, Quiet
<1> QED
  BY <1>1, <1>2 DEF SigInv, Quiet

(* A child is created, or cannot be.                                       *)
LEMMA ForkKept ==
  ASSUME SigInv, sample \in SigSamples, NEW p \in SigProcs, ForkCall(p)
  PROVE  SigInv'
<1>1. PICK r \in SigRec : r = ps[p] /\ Good(r) /\ Ins(p) = Prog[r.pc]
  BY AtGood
<1>2. r.st = "run" /\ r.at = "run" /\ Prog[r.pc].op = "fork" /\ Quiet
  BY <1>1, AtGood DEF ForkCall
<1>3. CASE Becomes(p, Ended(ps[p], "errExit"))
  <2>1. "errExit" \in Statuses
    BY DEF Statuses
  <2> QED
    BY <1>1, <1>2, <1>3, <2>1, EndedGood, QuietKept
<1>4. CASE ps' = [ps EXCEPT ![p] = Step(@), !["child"] = [ps[p] EXCEPT !.pc = Ins(p).child, !.pend = <<>>]]
  <2>1. PICK n \in Nat : n = Prog[r.pc].child /\ n # 1 /\ n \in DOMAIN Prog
    BY <1>1, <1>2, ProgSound DEF Sound, Flowing, Good, InProg
  <2>2. sample # "timer_func" \/ r.pc <= 5
    BY <1>1, <1>2, ProgSound, FieldTypes DEF Sound, Ticking, Good, InProg
  <2>3. PICK u : u = [r EXCEPT !.pc = n]
    OBVIOUS
  <2>4. u \in SigRec /\ Good(u)
    BY <1>1, <1>2, <2>1, <2>2, <2>3, GoToGood
  <2>a. PICK none \in Seq(Entries) : none = <<>>
    BY EmptySeq, Zenon
  <2>5. PICK t : t = [u EXCEPT !.pend = none]
    OBVIOUS
  <2>6. /\ t \in SigRec /\ t.st = u.st /\ t.pc = u.pc /\ t.at = u.at /\ t.cnt = u.cnt /\ t.disp = u.disp
        /\ t.pend = none
    BY <2>4, <2>5 DEF SigRec
  <2>7. QueuedOnce(t)
    BY <2>a, <2>6 DEF QueuedOnce
  <2>8. Good(t)
    BY <2>4, <2>6, <2>7 DEF Good, InProg, Counted, OwnHandlers
  <2>9. [ps[p] EXCEPT !.pc = Ins(p).child, !.pend = <<>>] = t
    BY <1>1, <2>1, <2>3, <2>a, <2>5
  <2>10. ps' = [ps EXCEPT ![p] = Step(r), !["child"] = t] /\ "child" \in SigProcs
    BY <1>1, <1>4, <2>9 DEF SigProcs
  <2>11. Step(r) \in SigRec /\ Good(Step(r))
    BY <1>1, <1>2, StepGood
  <2> QED
    BY <1>2, <2>6, <2>8, <2>10, <2>11, BothGood
<1> QED
  BY <1>3, <1>4 DEF ForkCall

(* A signal is sent to a process that lives.                               *)
LEMMA KillKept ==
  ASSUME SigInv, sample \in SigSamples, NEW p \in SigProcs, KillCall(p)
  PROVE  SigInv'
<1>1. PICK r \in SigRec : r = ps[p] /\ Good(r) /\ Ins(p) = Prog[r.pc]
  BY AtGood
<1>2. r.st = "run" /\ Prog[r.pc].op = "kill" /\ Quiet
  BY <1>1, AtGood DEF KillCall
<1>3. PICK t \in SigRec : t = Step(r) /\ Good(t)
  BY <1>1, <1>2, StepGood
<1>4. PICK q \in SigProcs, s \in Sigs : q = Ins(p).to /\ s = Ins(p).sig
  BY <1>1, <1>2, ProgSound DEF Sound, Typed, Good, InProg
<1>5. PICK moved \in [SigProcs -> SigRec] : moved = [ps EXCEPT ![p] = t] /\ Good(moved[q])
  <2>1. PICK moved : moved = [ps EXCEPT ![p] = t]
    OBVIOUS
  <2>2. moved \in [SigProcs -> SigRec] /\ (moved[q] = t \/ moved[q] = ps[q])
    BY <2>1 DEF SigInv
  <2>3. Good(moved[q])
    BY <1>3, <2>2 DEF SigInv
  <2> QED
    BY <2>1, <2>2, <2>3
<1>6. PICK u \in SigRec : u = Queued(moved[q], s, "kill") /\ Good(u)
  BY <1>5, QueuedGood
<1>7. ps' = moved \/ ps' = [moved EXCEPT ![q] = u]
  BY <1>1, <1>3, <1>4, <1>5, <1>6 DEF KillCall
<1>8. CASE ps' = moved
  BY <1>2, <1>3, <1>5, <1>8, QuietKept DEF Becomes
<1>9. CASE ps' = [moved EXCEPT ![q] = u]
  BY <1>2, <1>3, <1>5, <1>6, <1>9, BothGood
<1> QED
  BY <1>7, <1>8, <1>9

(* A timer is set or stopped.                                              *)
LEMMA TimerKept ==
  ASSUME SigInv, sample \in SigSamples, NEW p \in SigProcs, TimerCall(p)
  PROVE  SigInv'
<1>1. PICK r \in SigRec : r = ps[p] /\ Good(r) /\ Ins(p) = Prog[r.pc]
  BY AtGood
<1>2. r.st = "run" /\ Prog[r.pc].op = "timer"
  BY <1>1, AtGood DEF TimerCall
<1>3. Step(r) \in SigRec /\ Good(Step(r))
  BY <1>1, <1>2, StepGood
<1>4. PICK n \in 1..2, s \in Sigs, k \in {"off", "once", "periodic"} : n = Ins(p).n /\ s = Ins(p).sig /\ k = Ins(p).kind
  BY <1>1, <1>2, ProgSound DEF Sound, Typed, Good, InProg
<1>5. timers' = [timers EXCEPT ![n] = <<s, k>>]
  BY <1>4 DEF TimerCall
<1>6. timers' \in [1..2 -> Sigs \X {"off", "once", "periodic"}]
  BY <1>5 DEF SigInv
<1> QED
  BY <1>1, <1>3, <1>6, BecomesGood DEF TimerCall, SigInv

(* Branches, assignments and the end of a program.                         *)
LEMMA LocalKept ==
  ASSUME SigInv, sample \in SigSamples, NEW p \in SigProcs, Local(p)
  PROVE  SigInv'
<1>1. PICK r \in SigRec : r = ps[p] /\ Good(r) /\ Ins(p) = Prog[r.pc]
  BY AtGood
<1>2. Quiet
  BY DEF Local
<1>3. ASSUME NEW t \in SigRec, Good(t), Becomes(p, t) PROVE SigInv'
  BY <1>2, <1>3, QuietKept
<1>4. ASSUME NEW o, At(p, o) PROVE r.st = "run" /\ r.at = "run" /\ Prog[r.pc].op = o
  BY <1>1, <1>4, AtGood
<1>5. "exit" \in Statuses /\ "errExit" \in Statuses
  BY DEF Statuses
<1>6. CASE At(p, "goto") /\ Becomes(p, [ps[p] EXCEPT !.pc = Ins(p).to])
  BY <1>1, <1>3, <1>4, <1>6, JumpGood
<1>7. CASE At(p, "setFlag") /\ Becomes(p, Step([ps[p] EXCEPT !.flag = TRUE]))
  <2>1. PICK f \in Truth : f = TRUE
    BY DEF Truth
  <2>2. PICK t : t = [r EXCEPT !.flag = f]
    OBVIOUS
  <2>3. t \in SigRec /\ t.st = r.st /\ t.pc = r.pc /\ t.at = r.at /\ t.cnt = r.cnt /\ t.disp = r.disp /\ t.pend = r.pend
    BY <2>2 DEF SigRec
  <2>4. Good(t)
    BY <1>1, <2>3, EditGood
  <2>5. Step(t) \in SigRec /\ Good(Step(t))
    BY <1>4, <1>7, <2>3, <2>4, StepGood
  <2>6. Becomes(p, Step(t))
    BY <1>1, <1>7, <2>1, <2>2, Zenon
  <2> QED
    BY <1>3, <2>5, <2>6
<1>8. CASE At(p, "sigsetjmp") /\ Becomes(p, Step([ps[p] EXCEPT !.env = ps[p].mask, !.saved = Ins(p).save]))
  <2>0. PICK v \in Truth : v = Ins(p).save
    BY <1>1, <1>4, <1>8, ProgSound DEF Good, InProg, Sound, Typed
  <2>1. PICK t : t = [r EXCEPT !.env = r.mask, !.saved = v]
    OBVIOUS
  <2>2. t \in SigRec /\ t.st = r.st /\ t.pc = r.pc /\ t.at = r.at /\ t.cnt = r.cnt /\ t.disp = r.disp /\ t.pend = r.pend
    BY <2>1, FieldTypes DEF SigRec
  <2>3. Good(t)
    BY <1>1, <2>2, EditGood
  <2>4. Step(t) \in SigRec /\ Good(Step(t))
    BY <1>4, <1>8, <2>2, <2>3, StepGood
  <2>5. Becomes(p, Step(t))
    BY <1>1, <1>8, <2>0, <2>1, Zenon
  <2> QED
    BY <1>3, <2>4, <2>5
<1>9. CASE /\ At(p, "ifFlag")
           /\ Becomes(p, IF ps[p].flag THEN [ps[p] EXCEPT !.pc = Ins(p).to] ELSE Step(ps[p]))
  <2>1. Becomes(p, [r EXCEPT !.pc = Prog[r.pc].to]) \/ Becomes(p, Step(r))
    BY <1>1, <1>9
  <2> QED
    BY <1>1, <1>3, <1>4, <1>9, <2>1, JumpGood, StepGood
<1>10. CASE /\ At(p, "takeTick")
            /\ Becomes(p, IF ~ps[p].flag THEN [ps[p] EXCEPT !.pc = Ins(p).sleep]
                          ELSE [ps[p] EXCEPT !.flag = FALSE, !.cnt = @ + 1,
                                  !.pc = IF ps[p].cnt + 1 < Ticks THEN Ins(p).sleep ELSE Ins(p).out])
  <2>1. PICK t : t = IF ~r.flag THEN [r EXCEPT !.pc = Prog[r.pc].sleep]
                     ELSE [r EXCEPT !.flag = FALSE, !.cnt = @ + 1,
                             !.pc = IF r.cnt + 1 < Ticks THEN Prog[r.pc].sleep ELSE Prog[r.pc].out]
    OBVIOUS
  <2>2. t \in SigRec /\ Good(t)
    BY <1>1, <1>4, <1>10, <2>1, TickGood
  <2>3. Becomes(p, t)
    BY <1>1, <1>10, <2>1, Zenon
  <2> QED
    BY <1>3, <2>2, <2>3
<1>11. CASE /\ At(p, "loop")
            /\ Becomes(p, IF ps[p].cnt + 1 < Ticks
                            THEN [ps[p] EXCEPT !.cnt = @ + 1, !.pc = Ins(p).to] ELSE Step(ps[p]))
  <2>1. PICK t : t = IF r.cnt + 1 < Ticks THEN [r EXCEPT !.cnt = @ + 1, !.pc = Prog[r.pc].to] ELSE Step(r)
    OBVIOUS
  <2>2. t \in SigRec /\ Good(t)
    BY <1>1, <1>4, <1>11, <2>1, LoopGood
  <2>3. Becomes(p, t)
    BY <1>1, <1>11, <2>1, Zenon
  <2> QED
    BY <1>3, <2>2, <2>3
<1>12. CASE /\ At(p, "exitIf")
            /\ Becomes(p, IF ps[p].res \in Ins(p).set THEN Ended(ps[p], "exit") ELSE Step(ps[p]))
  <2>1. Becomes(p, Ended(r, "exit")) \/ Becomes(p, Step(r))
    BY <1>1, <1>12
  <2> QED
    BY <1>1, <1>3, <1>4, <1>5, <1>12, <2>1, EndedGood, StepGood
<1>13. CASE /\ At(p, "errIfEintr")
            /\ Becomes(p, IF ps[p].res = -1 THEN Ended(ps[p], "errExit") ELSE Step(ps[p]))
  <2>1. Becomes(p, Ended(r, "errExit")) \/ Becomes(p, Step(r))
    BY <1>1, <1>13
  <2> QED
    BY <1>1, <1>3, <1>4, <1>5, <1>13, <2>1, EndedGood, StepGood
<1>14. CASE Becomes(p, Ended(ps[p], "exit")) \/ Becomes(p, Ended(ps[p], "errExit"))
  BY <1>1, <1>3, <1>5, <1>14, EndedGood
<1> QED
  BY <1>6, <1>7, <1>8, <1>9, <1>10, <1>11, <1>12, <1>13, <1>14 DEF Local

(* A call that waits begins.                                               *)
LEMMA EnterKept ==
  ASSUME SigInv, sample \in SigSamples, NEW p \in SigProcs, Enter(p)
  PROVE  SigInv'
<1>1. PICK r \in SigRec : r = ps[p] /\ Good(r) /\ Ins(p) = Prog[r.pc]
  BY AtGood
<1>2. PICK o \in Waiting : At(p, o)
  BY DEF Enter, Waiting
<1>3. Prog[r.pc].op \in Waiting
  BY <1>1, <1>2, AtGood
<1>4. r.mask \in SUBSET Sigs /\ r.old \in SUBSET Sigs /\ r.env \in SUBSET Sigs
  BY FieldTypes
<1>5. PICK m, n \in SUBSET Sigs : Becomes(p, [r EXCEPT !.at = "call", !.env = m, !.mask = n])
  <2>1. CASE Becomes(p, [ps[p] EXCEPT !.at = "call"])
    <3>1. [r EXCEPT !.at = "call"] = [r EXCEPT !.at = "call", !.env = r.env, !.mask = r.mask]
      BY DEF SigRec
    <3> QED
      BY <1>1, <1>4, <2>1, <3>1
  <2>2. CASE Becomes(p, [ps[p] EXCEPT !.at = "call", !.env = ps[p].mask, !.mask = IF Ins(p).kept THEN ps[p].old ELSE {}])
    <3>1. PICK n \in SUBSET Sigs : n = IF Ins(p).kept THEN r.old ELSE {}
      BY <1>4
    <3>2. Becomes(p, [r EXCEPT !.at = "call", !.env = r.mask, !.mask = n])
      BY <1>1, <2>2, <3>1, Zenon
    <3> QED
      BY <1>4, <3>2
  <2> QED
    BY <2>1, <2>2 DEF Enter
<1>6. PICK t : t = [r EXCEPT !.at = "call", !.env = m, !.mask = n]
  OBVIOUS
<1>7. t \in SigRec /\ t.st = r.st /\ t.pc = r.pc /\ t.cnt = r.cnt /\ t.disp = r.disp /\ t.pend = r.pend
  BY <1>6 DEF SigRec
<1>8. Good(t)
  BY <1>1, <1>3, <1>7, EditGood
<1> QED
  BY <1>5, <1>6, <1>7, <1>8, QuietKept DEF Enter

(* A call that waits ends, with what it waited for or with EINTR.          *)
LEMMA CompleteKept ==
  ASSUME SigInv, sample \in SigSamples, NEW p \in SigProcs, Complete(p) \/ Input(p) \/ Interrupted(p)
  PROVE  SigInv'
<1>1. PICK r \in SigRec : r = ps[p] /\ Good(r) /\ Ins(p) = Prog[r.pc]
  BY AtGood
<1>2. r.st = "run" /\ Prog[r.pc].op \in Waiting /\ Quiet
  <2>1. Quiet /\ r.st = "run" /\ r.at # "run"
    BY <1>1 DEF Complete, Input, Interrupted, In
  <2> QED
    BY <1>1, <2>1 DEF Good, InProg
<1>3. ASSUME NEW u \in SigRec, Good(u), u.st = "run", u.pc = r.pc, NEW n \in Int, NEW m \in SUBSET Sigs,
             Becomes(p, Step([u EXCEPT !.res = n, !.mask = m]))
      PROVE  SigInv'
  <2>1. PICK t : t = [u EXCEPT !.res = n, !.mask = m]
    OBVIOUS
  <2>2. t \in SigRec /\ t.st = u.st /\ t.pc = u.pc /\ t.at = u.at /\ t.cnt = u.cnt /\ t.disp = u.disp /\ t.pend = u.pend
    BY <1>3, <2>1 DEF SigRec
  <2>3. Good(t)
    BY <1>3, <2>2, EditGood
  <2>4. Step(t) \in SigRec /\ Good(Step(t))
    BY <1>2, <1>3, <2>2, <2>3, StepGood DEF Waiting
  <2> QED
    BY <1>2, <1>3, <2>1, <2>4, QuietKept
<1>4. CASE Becomes(p, Step(ps[p]))
  <2>1. Step(r) \in SigRec /\ Good(Step(r))
    BY <1>1, <1>2, StepGood DEF Waiting
  <2> QED
    BY <1>1, <1>2, <1>4, <2>1, QuietKept
<1>5. CASE Interrupted(p)
  <2>1. PICK m \in SUBSET Sigs : m = IF Ins(p).op = "sigsuspend" THEN r.env ELSE r.mask
    BY FieldTypes
  <2>2. PICK n \in Int : n = -1
    OBVIOUS
  <2>3. Becomes(p, Step([r EXCEPT !.res = n, !.mask = m]))
    <3>1. [r EXCEPT !.res = n, !.mask = IF Ins(p).op = "sigsuspend" THEN r.env ELSE @] = [r EXCEPT !.res = n, !.mask = m]
      BY <2>1 DEF SigRec
    <3> QED
      BY <1>1, <1>5, <2>2, <3>1 DEF Interrupted
  <2> QED
    BY <1>1, <1>2, <1>3, <2>3
<1>6. CASE Becomes(p, Step([ps[p] EXCEPT !.res = 0]))
  <2>1. [r EXCEPT !.res = 0] = [r EXCEPT !.res = 0, !.mask = r.mask]
    BY DEF SigRec
  <2>2. PICK n \in Int, m \in SUBSET Sigs : n = 0 /\ m = r.mask
    BY FieldTypes
  <2>3. Becomes(p, Step([r EXCEPT !.res = n, !.mask = m]))
    BY <1>1, <1>6, <2>1, <2>2
  <2> QED
    BY <1>1, <1>2, <1>3, <2>3
<1>7. CASE /\ PendingIn(ps[p], Sigs) # {}
           /\ LET k == First(ps[p], Sigs)
              IN Becomes(p, Step([Without(ps[p], k) EXCEPT !.res = ps[p].pend[k].sig]))
  <2>1. PICK k : k = First(r, Sigs)
    OBVIOUS
  <2>2. k \in DOMAIN r.pend /\ r.pend[k].sig \in Sigs
    BY <1>1, <1>7, <2>1, FirstPending
  <2>3. PICK n \in Int : n = r.pend[k].sig
    BY <2>2 DEF Sigs, INT, QUIT, USR1, ALRM, TERM, RT, RTMAX
  <2>4. PICK u \in SigRec : u = Without(r, k) /\ Good(u) /\ u.st = r.st /\ u.pc = r.pc
    BY <1>1, <2>2, WithoutGood
  <2>5. Becomes(p, Step([u EXCEPT !.res = n]))
    BY <1>1, <1>7, <2>1, <2>3, <2>4
  <2>6. [u EXCEPT !.res = n] = [u EXCEPT !.res = n, !.mask = u.mask]
    BY DEF SigRec
  <2> QED
    BY <1>2, <1>3, <2>4, <2>5, <2>6, FieldTypes
<1> QED
  BY <1>4, <1>5, <1>6, <1>7 DEF Complete, Input

(* A signal is delivered.                                                  *)
LEMMA DeliverKept ==
  ASSUME SigInv, sample \in SigSamples, NEW p \in SigProcs, DeliverSignal(p)
  PROVE  SigInv'
<1>1. PICK r \in SigRec : r = ps[p] /\ Good(r) /\ Ins(p) = Prog[r.pc]
  BY AtGood
<1>2. r.st = "run" /\ PendingIn(r, Sigs \ r.mask) # {} /\ Quiet
  BY <1>1 DEF DeliverSignal
<1>3. PICK k : k = First(r, Sigs \ r.mask)
  OBVIOUS
<1>4. k \in DOMAIN r.pend /\ r.pend[k] \in Entries
  BY <1>2, <1>3, FirstPending
<1>5. PICK e \in Entries : e = r.pend[k]
  BY <1>4
<1>6. PICK u \in SigRec : u = Without(r, k) /\ Good(u) /\ u.st = r.st /\ u.pc = r.pc /\ u.at = r.at /\ u.disp = r.disp
  BY <1>1, <1>4, WithoutGood
<1>7. PICK again : again = (r.disp[e.sig].h = "SIG_IGN" \/ (r.disp[e.sig].restart /\ Ins(p).op \in {"read", "wait"}))
  OBVIOUS
<1>8. PICK w : w = IF u.at = "call" /\ ~again THEN "woken" ELSE u.at
  OBVIOUS
<1>9. PICK v : v = [u EXCEPT !.at = w]
  OBVIOUS
<1>10. Becomes(p, Handled(v, r.disp[e.sig].h, e.sig))
  <2>1. v = [Without(r, k) EXCEPT !.at = IF @ = "call" /\ ~again THEN "woken" ELSE @]
    BY <1>6, <1>8, <1>9 DEF SigRec
  <2> QED
    BY <1>1, <1>3, <1>5, <1>7, <2>1, Zenon DEF DeliverSignal
<1>11. /\ v \in SigRec /\ v.st = u.st /\ v.pc = u.pc /\ v.at = w /\ v.cnt = u.cnt /\ v.disp = u.disp /\ v.pend = u.pend
  BY <1>8, <1>9, FieldTypes DEF SigRec
<1>12. w = u.at \/ Prog[v.pc].op \in Waiting
  BY <1>1, <1>2, <1>6, <1>8, <1>11 DEF Good, InProg
<1>13. Good(v)
  BY <1>6, <1>11, <1>12, EditGood
<1>14. v.disp = r.disp /\ v.st = "run"
  BY <1>2, <1>6, <1>11
<1>15. PICK s : s = Handled(v, v.disp[e.sig].h, e.sig) /\ Becomes(p, s)
  BY <1>10, <1>14
<1>16. s \in SigRec /\ Good(s)
  <2>1. e.sig \in Sigs
    BY DEF Entries
  <2> QED
    BY <1>11, <1>13, <1>14, <1>15, <2>1, HandledGood
<1> QED
  BY <1>2, <1>15, <1>16, QuietKept

(* The second component of a pair is replaced.                             *)
LEMMA SecondOfPair ==
  ASSUME NEW s, NEW k, NEW j
  PROVE  [<<s, k>> EXCEPT ![2] = j] = <<s, j>>
  OBVIOUS

(* A timer expires.                                                        *)
LEMMA ExpireKept ==
  ASSUME SigInv, NEW n \in 1..2, Expire(n)
  PROVE  SigInv'
<1>1. "main" \in SigProcs
  BY DEF SigProcs
<1>2. PICK s \in Sigs, k \in {"off", "once", "periodic"} : timers[n] = <<s, k>> /\ timers[n][1] = s /\ timers[n][2] = k
  BY DEF SigInv
<1>3. PICK f \in {"timer 1", "timer 2"} : f = IF n = 1 THEN "timer 1" ELSE "timer 2"
  OBVIOUS
<1>4. Becomes("main", Queued(ps["main"], s, f))
  BY <1>2, <1>3, Zenon DEF Expire
<1>5. Queued(ps["main"], s, f) \in SigRec /\ Good(Queued(ps["main"], s, f))
  BY <1>1, AtGood, QueuedGood
<1>6. timers' \in [1..2 -> Sigs \X {"off", "once", "periodic"}]
  <2>1. PICK j \in {"off", "once", "periodic"} : j = IF k = "once" THEN "off" ELSE k
    OBVIOUS
  <2>2. timers' = [timers EXCEPT ![n] = <<s, j>>]
    <3>1. timers' = [timers EXCEPT ![n][2] = j]
      BY <1>2, <2>1 DEF Expire
    <3>2. [<<s, k>> EXCEPT ![2] = j] = <<s, j>>
      BY SecondOfPair, Zenon
    <3> QED
      BY <1>2, <3>1, <3>2
  <2> QED
    BY <2>2 DEF SigInv
<1> QED
  BY <1>1, <1>4, <1>5, <1>6, BecomesGood DEF Expire, SigInv

(* A signal comes from outside.                                            *)
LEMMA SenderKept ==
  ASSUME SigInv, NEW sig \in Sendable, signal_sender(sig)
  PROVE  SigInv'
<1>1. "main" \in SigProcs /\ sig \in Sigs /\ sig \in FromAfar
  BY DEF SigProcs, Sendable, FromAfar, Sigs
<1>2. Queued(ps["main"], sig, "kill") \in SigRec /\ Good(Queued(ps["main"], sig, "kill"))
  BY <1>1, AtGood, QueuedGood
<1>3. PICK n : n = nsent'
  OBVIOUS
<1>4. n \in 0..MaxSent
  BY <1>3, MaxSentAssumption DEF signal_sender, SigInv
<1>5. asked' \subseteq FromAfar
  BY <1>1 DEF signal_sender, SigInv
<1> QED
  BY <1>1, <1>2, <1>3, <1>4, <1>5, BecomesGood DEF signal_sender, SigInv

(* SigInv is inductive.                                                    *)
LEMMA SigInitHolds == SigInit => SigInv
<1> SUFFICES ASSUME SigInit PROVE SigInv
  OBVIOUS
<1>1. PICK b \in SigRec : b = Fresh
  BY FreshType
<1>2. PICK m : m = [b EXCEPT !.st = "run"]
  OBVIOUS
<1>3. m \in SigRec /\ m.st = "run" /\ m.pc = b.pc /\ m.at = b.at /\ m.pend = b.pend /\ m.cnt = b.cnt /\ m.disp = b.disp
  BY <1>2 DEF SigRec, Statuses
<1>4. [b EXCEPT !.st = @] = b
  BY DEF SigRec
<1>5. ps = [p \in SigProcs |-> IF p = "main" THEN m ELSE b]
  BY <1>1, <1>2, <1>4 DEF SigInit
<1>6. 0 <= IF sample = "signal_basic" THEN 3 ELSE Ticks
  BY TicksAssumption
<1>7. Good(b)
  BY <1>1, <1>6, FreshType, QuietGood
<1>8. Good(m)
  BY <1>1, <1>3, <1>6, FreshType, QuietGood
<1>9. ps \in [SigProcs -> SigRec] /\ \A p \in SigProcs : Good(ps[p])
  BY <1>3, <1>5, <1>7, <1>8
<1>10. timers \in [1..2 -> Sigs \X {"off", "once", "periodic"}]
  BY DEF SigInit, Sigs
<1>11. asked \subseteq FromAfar /\ nsent \in 0..MaxSent
  BY MaxSentAssumption DEF SigInit
<1> QED
  BY <1>9, <1>10, <1>11 DEF SigInv

(* It is kept by every step of a sample with signals.                      *)
LEMMA SigKept ==
  ASSUME SigInv, SigNext
  PROVE  SigInv'
<1>1. sample \in SigSamples
  BY DEF SigNext
<1>2. ASSUME NEW p \in SigProcs, Proceed(p) PROVE SigInv'
  BY <1>1, <1>2, SigprocmaskKept, SigactionKept, ForkKept, KillKept, TimerKept, LocalKept, EnterKept, CompleteKept
     DEF Proceed
<1> QED
  BY <1>1, <1>2, DeliverKept, CompleteKept, ExpireKept, SenderKept DEF SigNext

(* What it says of a process.                                              *)
LEMMA SigInvImplies == SigInv => SigTypeOK
<1> SUFFICES ASSUME SigInv PROVE SigTypeOK
  OBVIOUS
<1>1. ASSUME NEW p \in SigProcs
      PROVE  /\ ps[p].st \in Statuses /\ ps[p].at \in {"run", "call", "woken"}
             /\ ps[p].mask \subseteq Sigs /\ ps[p].old \subseteq Sigs
             /\ ps[p].cnt \in 0..3 + MaxSent + Ticks
             /\ sample \in SigSamples /\ ps[p].st = "run" => ps[p].pc \in DOMAIN Programs[sample]
             /\ \A k, l \in DOMAIN ps[p].pend :
                  ps[p].pend[k] = ps[p].pend[l] /\ k # l => ps[p].pend[k].sig \in Realtime
  <2>1. PICK r \in SigRec : r = ps[p] /\ Good(r)
    BY AtGood
  <2>2. r.st \in Statuses /\ r.at \in {"run", "call", "woken"} /\ r.mask \subseteq Sigs /\ r.old \subseteq Sigs
    BY FieldTypes
  <2>3. r.cnt \in 0..3 + MaxSent + Ticks
    <3>1. r.cnt \in Nat /\ Ticks \in Nat /\ MaxSent \in Nat /\ (r.cnt <= 3 \/ r.cnt <= Ticks)
      BY <2>1, FieldTypes, TicksAssumption, MaxSentAssumption DEF Good, Counted
    <3> QED
      BY <3>1
  <2>4. sample \in SigSamples /\ r.st = "run" => r.pc \in DOMAIN Programs[sample]
    BY <2>1 DEF Good, InProg, Prog
  <2>5. \A k, l \in DOMAIN r.pend : r.pend[k] = r.pend[l] /\ k # l => r.pend[k].sig \in Realtime
    BY <2>1 DEF Good, QueuedOnce
  <2> QED
    BY <2>1, <2>2, <2>3, <2>4, <2>5
<1> QED
  BY <1>1 DEF SigTypeOK, SigInv
-----------------------------------------------------------------------------
(* No step changes the sample that main() has called.                      *)
LEMMA SampleKept ==
  ASSUME [Next]_processVars
  PROVE  sample' = sample
<1>1. DmNext => sample' = sample
  BY DEF DmNext, DaemonStep, make_daemon, become_daemon, log_open, log_close, process_daemonize, LogIdle,
         hup_signal_handler, Move
<1>2. SigNext => sample' = sample
  <2>1. ASSUME NEW p, Proceed(p) \/ DeliverSignal(p) \/ Input(p) PROVE sample' = sample
    BY <2>1 DEF Proceed, Sigprocmask, Sigaction, ForkCall, KillCall, TimerCall, Local, Enter, Complete, Interrupted,
                DeliverSignal, Input, Quiet
  <2>2. ASSUME NEW n, Expire(n) PROVE sample' = sample
    BY <2>2 DEF Expire
  <2>3. ASSUME NEW s, signal_sender(s) PROVE sample' = sample
    BY <2>3 DEF signal_sender
  <2> QED
    BY <2>1, <2>2, <2>3 DEF SigNext
<1>3. EsStep => sample' = sample
  BY SampleFixed
<1> QED
  BY <1>1, <1>2, <1>3 DEF Next, EsStep, processVars

(* A step of another sample is none of the parents' and the server's.      *)
LEMMA EsStepOrNone ==
  ASSUME [Next]_processVars
  PROVE  [EsStep]_allVars
  BY SampleKept DEF Next, EsStep, allVars, processVars

(* The inductive invariant of the parents that wait.                       *)
THEOREM ChInvariance == Spec => []ChInv
<1>1. Init => ChInv
  BY ChInitHolds DEF Init
<1>2. ChInv /\ [Next]_processVars => ChInv'
  BY ChKept, EsStepOrNone
<1> QED
  BY <1>1, <1>2, PTL DEF Spec, processVars

(* However many children end while SIGCHLD is blocked or pending, the one  *)
(* bit it is and the loop around waitpid miss none of them.                *)
THEOREM NoZombieForgottenHolds == Spec => []NoZombieForgotten
<1>1. Init => KidType /\ NoZombieForgotten
  BY DEF Init, ChInit, NoZombieForgotten, Zombies, KidType, KidStates
<1>2. (KidType /\ NoZombieForgotten) /\ [Next]_processVars => (KidType /\ NoZombieForgotten)'
  BY KidTypeStep, ZombieStep, EsStepOrNone
<1> QED
  BY <1>1, <1>2, PTL DEF Spec, processVars

(* The inductive invariant of the echo server, whatever sample runs.       *)
THEOREM EsInvariance == Spec => []EsInv
<1>1. Init => EsInv
  BY EsInitHolds DEF Init
<1>2. EsInv /\ [Next]_processVars => EsInv'
  BY EsInvStep, EsStepOrNone
<1> QED
  BY <1>1, <1>2, PTL DEF Spec, processVars

(* A connection is never inherited by the child of another client, the     *)
(* parent keeps it only until it has forked, and it alone accepts others.  *)
THEOREM DescriptorsPrivateHolds == Spec => []DescriptorsPrivate
<1>1. EsInv => DescriptorsPrivate
  BY DEF EsInv, DescriptorsPrivate, OneAcceptor, Held
<1> QED
  BY <1>1, EsInvariance, PTL

(* The end of file means that everything came back, unless the server ended *)
(* before it could fork the client's child.                                 *)
THEOREM EchoCompleteHolds == Spec => []EchoComplete
<1>1. EsInv => EchoComplete
  BY DEF EsInv, EchoComplete, AllBack, Orphan
<1> QED
  BY <1>1, EsInvariance, PTL

(* The inductive invariant of the daemon.                                  *)
THEOREM DmInvariance == Spec => []DmInv
<1>1. Init => DmInv
  BY DmInitHolds DEF Init
<1>2. DmInv /\ [Next]_processVars => DmInv'
  <2> SUFFICES ASSUME DmInv, [Next]_processVars PROVE DmInv'
    OBVIOUS
  <2>1. CASE DmNext
    BY <2>1, DmKept
  <2>2. CASE UNCHANGED dmVars
    <3>1. UNCHANGED <<sample, dpc, gleader, sleader, ctty, fdt, fd, path, lastFile, hup_signaled, unslept, wanted,
                      hups, moves, failures>>
      BY <2>2, SampleKept DEF dmVars
    <3> QED
      BY <3>1 DEF DmInv, DmTypeOK, NoTerminal, InDaemon, Table, LogOpen, LogsCounted
  <2> QED
    BY <2>1, <2>2 DEF Next, processVars
<1> QED
  BY <1>1, <1>2, PTL DEF Spec, processVars

(* A daemon that serves has no terminal and can get none, its log is open  *)
(* and is not one of the descriptors 0, 1 and 2, and a descriptor is left  *)
(* behind only by a write that failed.                                     *)
THEOREM DetachedHolds == Spec => []Detached
  BY DmInvariance, DmInvImplies, PTL

(* The inductive invariant of the samples with signals and timers.         *)
THEOREM SigInvariance == Spec => []SigInv
<1>1. Init => SigInv
  BY SigInitHolds DEF Init
<1>2. SigInv /\ [Next]_processVars => SigInv'
  <2> SUFFICES ASSUME SigInv, [Next]_processVars PROVE SigInv'
    OBVIOUS
  <2>1. CASE SigNext
    BY <2>1, SigKept
  <2>2. CASE UNCHANGED sigVars
    <3>1. UNCHANGED <<sample, ps, timers, asked, nsent>>
      BY <2>2, SampleKept DEF sigVars
    <3>2. \A p \in SigProcs : Good(ps[p])'
      BY <3>1 DEF SigInv, Good, InProg, Counted, OwnHandlers, QueuedOnce, Prog
    <3> QED
      BY <3>1, <3>2 DEF SigInv
  <2> QED
    BY <2>1, <2>2 DEF Next, processVars
<1> QED
  BY <1>1, <1>2, PTL DEF Spec, processVars

(* Every sample about processes keeps to its types: the children that are  *)
(* left are counted, descriptors stay in the table, a process is at a call *)
(* of its program, its counter is bounded, and a standard signal is        *)
(* pending at most once.                                                   *)
THEOREM TypesOKHolds == Spec => []TypesOK
<1>1. ChInv /\ EsInv /\ DmInv /\ SigInv => TypesOK
  BY ChInvImplies, SigInvImplies DEF EsInv, DmInv, TypesOK
<1> QED
  BY <1>1, ChInvariance, EsInvariance, DmInvariance, SigInvariance, PTL
=============================================================================
