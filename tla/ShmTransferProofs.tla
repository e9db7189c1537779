------------------------- MODULE ShmTransferProofs --------------------------
(***************************************************************************)
(* Proofs about ShmTransfer for every input, every number of failed reads  *)
(* and every leftover of an earlier run, provided the reader is started    *)
(* after the writer.                                                       *)
(***************************************************************************)
EXTENDS ShmTransfer, SequenceTheorems, TLAPS

(* Until the writer is in its loop the reader has not been started.        *)
Quiet ==
  /\ wpc \in Setup => rpc = "semget" /\ out = <<>> /\ read = 0
  /\ wpc \in {"setval_r", "shmget"} => set /\ wsem = 1
  /\ wpc = "shmget" => rsem = 0

(* The IPC objects exist while anybody uses them, and the reader has them. *)
Objects ==
  /\ wpc \in {"p", "fill", "count", "v", "test", "final", "rmid"} => set
  /\ wpc \in {"p", "fill", "count", "v", "test", "final"} => seg
  /\ rpc # "semget" => opened.set
  /\ rpc \notin {"semget", "shmget"} => opened.seg
  /\ rpc \notin {"errExit", "segv"}

(* The end of file travels like a chunk: whoever has seen it, it is in the *)
(* segment, and the writer only cleans up when the reader is through.      *)
EndOfFile ==
  /\ rpc \in {"detach", "last", "done"}
       => cnt = 0 /\ wpc \in {"test", "final"} \cup Cleanup
  /\ wpc \in {"final"} \cup Cleanup => cnt = 0
  /\ wpc \in Cleanup => rpc = "done"
  /\ rpc \in {"write", "v"} => cnt # 0
  /\ wpc \in {"test", "final"} /\ cnt = 0 /\ wsem = 1 => rpc = "done"
  /\ wpc = "p" /\ (rsem = 1 \/ ReaderHas) => cnt # 0

(* What has been read from stdin and not yet written to stdout is the      *)
(* chunk v stands for: none if v is an error or the end of file.           *)
Owes(v) ==
  IF v > 0 THEN read = Len(out) + 1 /\ buf = read /\ v = Input[read]
           ELSE read = Len(out)

(* Where the token is tells how far stdout is behind stdin.                *)
Ledger ==
  /\ wpc \in {"p", "final"} /\ wsem = 1 => read = Len(out)
  /\ wpc = "fill" => read = Len(out)
  /\ wpc \in {"count", "v"} => Owes(ret)
  /\ wpc = "v" => cnt = ret
  /\ wpc = "test" /\ wsem = 1 => read = Len(out)
  /\ rsem = 1 /\ wpc \notin Setup => Owes(cnt)
  /\ rpc \in {"test", "write"} => Owes(cnt)
  /\ rpc \in {"v", "detach", "last", "done"} => read = Len(out)

IInv ==
  /\ TypeOK
  /\ Quiet
  /\ Objects
  /\ OneToken
  /\ EndOfFile
  /\ Ledger
  /\ OutputFaithful
-----------------------------------------------------------------------------
(* The initial states satisfy the invariant, whatever an earlier run left. *)
LEMMA InitIInv == Init => IInv
<1> SUFFICES ASSUME Init PROVE IInv
  OBVIOUS
<1>1. TypeOK
  <2>1. set \in BOOLEAN /\ seg \in BOOLEAN
    BY DEF Init
  <2> QED
    BY <2>1, InputOK DEF Init, TypeOK, Setup, Chunks, Counts
<1>2. Quiet /\ Objects /\ OneToken /\ EndOfFile /\ Ledger
  BY DEF Init, Quiet, Objects, OneToken, EndOfFile, Ledger, Setup, Cleanup, ReaderHas
<1>3. OutputFaithful
  BY DEF Init, OutputFaithful
<1> QED
  BY <1>1, <1>2, <1>3 DEF IInv

(* The token moves and is never doubled or lost.                           *)
LEMMA TokenStep ==
  ASSUME TypeOK, Quiet, Objects, EndOfFile, OneToken, Next
  PROVE  OneToken'
<1> USE DEF TypeOK, Quiet, Objects, EndOfFile, OneToken, One, WriterHas, ReaderHas, WGoto, RGoto, WQuiet, ipc, sems, shmmsg, Setup, Cleanup
<1>1. ASSUME SetvalWrite PROVE OneToken'
  BY <1>1 DEF SetvalWrite
<1>2. ASSUME SetvalRead PROVE OneToken'
  BY <1>2 DEF SetvalRead
<1>3. ASSUME Shmget PROVE OneToken'
  BY <1>3 DEF Shmget
<1>4. ASSUME WReserve PROVE OneToken'
  BY <1>4 DEF WReserve
<1>5. ASSUME WFill PROVE OneToken'
  BY <1>5 DEF WFill
<1>6. ASSUME WCount PROVE OneToken'
  BY <1>6 DEF WCount
<1>7. ASSUME WPublish PROVE OneToken'
  BY <1>7 DEF WPublish
<1>8. ASSUME WTest PROVE OneToken'
  BY <1>8 DEF WTest
<1>9. ASSUME WRemove PROVE OneToken'
  BY <1>9 DEF WRemove
<1>10. ASSUME ROpen PROVE OneToken'
  BY <1>10 DEF ROpen
<1>11. ASSUME RAwait PROVE OneToken'
  BY <1>11 DEF RAwait
<1>12. ASSUME RTest PROVE OneToken'
  BY <1>12 DEF RTest
<1>13. ASSUME RWrite PROVE OneToken'
  BY <1>13 DEF RWrite
<1>14. ASSUME RRelease PROVE OneToken'
  BY <1>14 DEF RRelease
<1>15. ASSUME RDetach PROVE OneToken'
  BY <1>15 DEF RDetach
<1> QED
  BY <1>1, <1>2, <1>3, <1>4, <1>5, <1>6, <1>7, <1>8,
     <1>9, <1>10, <1>11, <1>12, <1>13, <1>14, <1>15
     DEF Next, Writer, Reader

(* The protocol of set-up, end of file and clean-up.                       *)
LEMMA ControlStep ==
  ASSUME WriterFirst, TypeOK, Quiet, Objects, OneToken, EndOfFile, Ledger, Next
  PROVE  Quiet' /\ Objects' /\ EndOfFile'
<1> USE DEF TypeOK, Quiet, Objects, OneToken, EndOfFile, Ledger, Owes, One, WriterHas, ReaderHas, WGoto, RGoto, WQuiet, ipc, sems, shmmsg, Setup, Cleanup
<1>1. ASSUME SetvalWrite PROVE Quiet' /\ Objects' /\ EndOfFile'
  BY <1>1 DEF SetvalWrite
<1>2. ASSUME SetvalRead PROVE Quiet' /\ Objects' /\ EndOfFile'
  BY <1>2 DEF SetvalRead
<1>3. ASSUME Shmget PROVE Quiet' /\ Objects' /\ EndOfFile'
  BY <1>3 DEF Shmget
<1>4. ASSUME WReserve PROVE Quiet' /\ Objects' /\ EndOfFile'
  BY <1>4 DEF WReserve
<1>5. ASSUME WFill PROVE Quiet' /\ Objects' /\ EndOfFile'
  BY <1>5 DEF WFill
<1>6. ASSUME WCount PROVE Quiet' /\ Objects' /\ EndOfFile'
  BY <1>6 DEF WCount
<1>7. ASSUME WPublish PROVE Quiet' /\ Objects' /\ EndOfFile'
  BY <1>7 DEF WPublish
<1>8. ASSUME WTest PROVE Quiet' /\ Objects' /\ EndOfFile'
  BY <1>8 DEF WTest
<1>9. ASSUME WRemove PROVE Quiet' /\ Objects' /\ EndOfFile'
  BY <1>9 DEF WRemove
<1>10. ASSUME ROpen PROVE Quiet' /\ Objects' /\ EndOfFile'
  BY <1>10 DEF ROpen
<1>11. ASSUME RAwait PROVE Quiet' /\ Objects' /\ EndOfFile'
  BY <1>11 DEF RAwait
<1>12. ASSUME RTest PROVE Quiet' /\ Objects' /\ EndOfFile'
  BY <1>12 DEF RTest
<1>13. ASSUME RWrite PROVE Quiet' /\ Objects' /\ EndOfFile'
  BY <1>13 DEF RWrite
<1>14. ASSUME RRelease PROVE Quiet' /\ Objects' /\ EndOfFile'
  BY <1>14 DEF RRelease
<1>15. ASSUME RDetach PROVE Quiet' /\ Objects' /\ EndOfFile'
  BY <1>15 DEF RDetach
<1> QED
  BY <1>1, <1>2, <1>3, <1>4, <1>5, <1>6, <1>7, <1>8,
     <1>9, <1>10, <1>11, <1>12, <1>13, <1>14, <1>15
     DEF Next, Writer, Reader

(* Stdout is behind stdin by what the token carries.                       *)
LEMMA LedgerStep ==
  ASSUME TypeOK, Quiet, Objects, OneToken, EndOfFile, Ledger, Next
  PROVE  Ledger'
<1> USE InputOK DEF TypeOK, Quiet, Objects, OneToken, EndOfFile, Ledger, Owes, One, WriterHas, ReaderHas, WGoto, RGoto, WQuiet, ipc, sems, shmmsg, Setup, Cleanup
<1>1. ASSUME SetvalWrite PROVE Ledger'
  BY <1>1 DEF SetvalWrite
<1>2. ASSUME SetvalRead PROVE Ledger'
  BY <1>2 DEF SetvalRead
<1>3. ASSUME Shmget PROVE Ledger'
  BY <1>3 DEF Shmget
<1>4. ASSUME WReserve PROVE Ledger'
  BY <1>4 DEF WReserve
<1>5. ASSUME WFill PROVE Ledger'
  BY <1>5 DEF WFill
<1>6. ASSUME WCount PROVE Ledger'
  BY <1>6 DEF WCount
<1>7. ASSUME WPublish PROVE Ledger'
  BY <1>7 DEF WPublish
<1>8. ASSUME WTest PROVE Ledger'
  BY <1>8 DEF WTest
<1>9. ASSUME WRemove PROVE Ledger'
  BY <1>9 DEF WRemove
<1>10. ASSUME ROpen PROVE Ledger'
  BY <1>10 DEF ROpen
<1>11. ASSUME RAwait PROVE Ledger'
  BY <1>11 DEF RAwait
<1>12. ASSUME RTest PROVE Ledger'
  BY <1>12 DEF RTest
<1>13. ASSUME RWrite PROVE Ledger'
  BY <1>13 DEF RWrite
<1>14. ASSUME RRelease PROVE Ledger'
  BY <1>14 DEF RRelease
<1>15. ASSUME RDetach PROVE Ledger'
  BY <1>15 DEF RDetach
<1> QED
  BY <1>1, <1>2, <1>3, <1>4, <1>5, <1>6, <1>7, <1>8,
     <1>9, <1>10, <1>11, <1>12, <1>13, <1>14, <1>15
     DEF Next, Writer, Reader

(* A read of stdin stays within the input.                                 *)
LEMMA FillTypes ==
  ASSUME TypeOK, WFill
  PROVE  read' \in 0..Len(Input) /\ buf' \in {0} \cup Chunks
<1>1. Len(Input) \in Nat
  BY InputOK
<1>2. read \in 0..Len(Input) /\ buf \in {0} \cup Chunks
  BY DEF TypeOK
<1>3. \/ read < Len(Input) /\ read' = read + 1 /\ buf' = read + 1
      \/ read' = read /\ buf' = buf
  BY DEF WFill
<1> QED
  BY <1>1, <1>2, <1>3 DEF Chunks

(* Every step keeps the state well formed.                                 *)
LEMMA TypeStep ==
  ASSUME TypeOK, Quiet, Objects, OneToken, EndOfFile, Ledger, Next
  PROVE  TypeOK'
<1> USE InputOK DEF TypeOK, Quiet, Objects, OneToken, EndOfFile, Ledger, Owes, One, WriterHas, ReaderHas, Chunks, Counts, WGoto, RGoto, WQuiet, ipc, sems, shmmsg, Setup, Cleanup
<1>1. ASSUME SetvalWrite PROVE TypeOK'
  BY <1>1 DEF SetvalWrite
<1>2. ASSUME SetvalRead PROVE TypeOK'
  BY <1>2 DEF SetvalRead
<1>3. ASSUME Shmget PROVE TypeOK'
  BY <1>3 DEF Shmget
<1>4. ASSUME WReserve PROVE TypeOK'
  BY <1>4 DEF WReserve
<1>5. ASSUME WFill PROVE TypeOK'
  <2>1. read < Len(Input) => read + 1 \in 1..Len(Input)
    OBVIOUS
  <2>2. ret' \in Counts
    BY <1>5, <2>1 DEF WFill
  <2>3. read' \in 0..Len(Input) /\ buf' \in {0} \cup Chunks
    BY <1>5, FillTypes
  <2>4. errors' \in 0..MaxErrors
    BY <1>5 DEF WFill
  <2> QED
    BY <1>5, <2>2, <2>3, <2>4 DEF WFill
<1>6. ASSUME WCount PROVE TypeOK'
  BY <1>6 DEF WCount
<1>7. ASSUME WPublish PROVE TypeOK'
  BY <1>7 DEF WPublish
<1>8. ASSUME WTest PROVE TypeOK'
  BY <1>8 DEF WTest
<1>9. ASSUME WRemove PROVE TypeOK'
  BY <1>9 DEF WRemove
<1>10. ASSUME ROpen PROVE TypeOK'
  BY <1>10 DEF ROpen
<1>11. ASSUME RAwait PROVE TypeOK'
  BY <1>11 DEF RAwait
<1>12. ASSUME RTest PROVE TypeOK'
  BY <1>12 DEF RTest
<1>13. ASSUME RWrite PROVE TypeOK'
  <2> DEFINE S == (0..Len(Input)) \X (Nat \ {0})
  <2>1. cnt \in Int /\ (cnt > 0 => <<buf, cnt>> \in S)
    OBVIOUS
  <2>2. out \in Seq(S)
    OBVIOUS
  <2>3. out' \in Seq(S)
    <3> HIDE DEF S, TypeOK
    <3> QED
      BY <1>13, <2>1, <2>2 DEF RWrite
  <2> QED
    BY <1>13, <2>3 DEF RWrite
<1>14. ASSUME RRelease PROVE TypeOK'
  BY <1>14 DEF RRelease
<1>15. ASSUME RDetach PROVE TypeOK'
  BY <1>15 DEF RDetach
<1> QED
  BY <1>1, <1>2, <1>3, <1>4, <1>5, <1>6, <1>7, <1>8,
     <1>9, <1>10, <1>11, <1>12, <1>13, <1>14, <1>15
     DEF Next, Writer, Reader

(* The reader writes the chunk that is due.                                *)
LEMMA OutputStep ==
  ASSUME TypeOK, Quiet, Objects, OneToken, EndOfFile, Ledger, OutputFaithful, Next
  PROVE  OutputFaithful'
<1> USE InputOK DEF TypeOK, Ledger, Owes, OutputFaithful, Chunks, WGoto, RGoto, WQuiet, ipc, sems, shmmsg, Setup, Cleanup
<1>1. ASSUME SetvalWrite PROVE OutputFaithful'
  BY <1>1 DEF SetvalWrite
<1>2. ASSUME SetvalRead PROVE OutputFaithful'
  BY <1>2 DEF SetvalRead
<1>3. ASSUME Shmget PROVE OutputFaithful'
  BY <1>3 DEF Shmget
<1>4. ASSUME WReserve PROVE OutputFaithful'
  BY <1>4 DEF WReserve
<1>5. ASSUME WFill PROVE OutputFaithful'
  BY <1>5 DEF WFill
<1>6. ASSUME WCount PROVE OutputFaithful'
  BY <1>6 DEF WCount
<1>7. ASSUME WPublish PROVE OutputFaithful'
  BY <1>7 DEF WPublish
<1>8. ASSUME WTest PROVE OutputFaithful'
  BY <1>8 DEF WTest
<1>9. ASSUME WRemove PROVE OutputFaithful'
  BY <1>9 DEF WRemove
<1>10. ASSUME ROpen PROVE OutputFaithful'
  BY <1>10 DEF ROpen
<1>11. ASSUME RAwait PROVE OutputFaithful'
  BY <1>11 DEF RAwait
<1>12. ASSUME RTest PROVE OutputFaithful'
  BY <1>12 DEF RTest
<1>13. ASSUME RWrite PROVE OutputFaithful'
  <2>1. CASE cnt > 0
    <3>1. out' = Append(out, <<buf, cnt>>) /\ Len(out) \in Nat
      BY <1>13, <2>1 DEF RWrite
    <3>2. buf = Len(out) + 1 /\ cnt = Input[buf] /\ buf \in Chunks
      BY <1>13, <2>1 DEF RWrite
    <3>3. Len(out') = Len(out) + 1 /\ out'[Len(out) + 1] = <<buf, cnt>>
          /\ \A i \in 1..Len(out) : out'[i] = out[i]
      BY <3>1
    <3>4. ASSUME NEW i \in 1..Len(out')
          PROVE  i \in Chunks /\ out'[i] = <<i, Input[i]>>
      <4>1. CASE i = Len(out) + 1
        BY <3>2, <3>3, <4>1
      <4>2. CASE i \in 1..Len(out)
        BY <3>3, <4>2
      <4> QED
        BY <3>1, <3>3, <4>1, <4>2
    <3> QED
      BY <3>4
  <2>2. CASE ~(cnt > 0)
    BY <1>13, <2>2 DEF RWrite
  <2> QED
    BY <2>1, <2>2
<1>14. ASSUME RRelease PROVE OutputFaithful'
  BY <1>14 DEF RRelease
<1>15. ASSUME RDetach PROVE OutputFaithful'
  BY <1>15 DEF RDetach
<1> QED
  BY <1>1, <1>2, <1>3, <1>4, <1>5, <1>6, <1>7, <1>8,
     <1>9, <1>10, <1>11, <1>12, <1>13, <1>14, <1>15
     DEF Next, Writer, Reader

(* The inductive step. *)
LEMMA NextIInv ==
  ASSUME WriterFirst
  PROVE  IInv /\ [Next]_vars => IInv'
<1>1. ASSUME IInv, Next PROVE IInv'
  BY <1>1, WriterFirst, TypeStep, TokenStep, ControlStep, LedgerStep, OutputStep
     DEF IInv
<1>2. ASSUME IInv, UNCHANGED vars PROVE IInv'
  BY <1>2 DEF IInv, vars, ipc, sems, shmmsg, TypeOK, Quiet, Objects, OneToken,
              WriterHas, ReaderHas, EndOfFile, Ledger, Owes, OutputFaithful
<1> QED
  BY <1>1, <1>2
-----------------------------------------------------------------------------
(* Started after the writer, the reader finds the invariant for ever.      *)
THEOREM Invariance ==
  ASSUME WriterFirst
  PROVE  Spec => []IInv
BY WriterFirst, InitIInv, NextIInv, PTL DEF Spec

(* Both programs keep their state well formed; in particular neither       *)
(* semaphore ever exceeds 1.                                               *)
THEOREM TypeCorrect ==
  ASSUME WriterFirst
  PROVE  Spec => []TypeOK
<1>1. IInv => TypeOK
  BY DEF IInv
<1> QED
  BY <1>1, Invariance, PTL

(* The semaphores hand the segment back and forth: it is in one place.     *)
THEOREM HandOver ==
  ASSUME WriterFirst
  PROVE  Spec => []OneToken
<1>1. IInv => OneToken
  BY DEF IInv
<1> QED
  BY <1>1, Invariance, PTL

(* What the reader writes to stdout is what the writer read from stdin.    *)
THEOREM Faithful ==
  ASSUME WriterFirst
  PROVE  Spec => []OutputFaithful
<1>1. IInv => OutputFaithful
  BY DEF IInv
<1> QED
  BY <1>1, Invariance, PTL

(* No semop of the reader meets a removed set.                             *)
THEOREM Undisturbed ==
  ASSUME WriterFirst
  PROVE  Spec => []ReaderUndisturbed
<1>1. IInv => ReaderUndisturbed
  BY DEF IInv, Objects, ReaderUndisturbed
<1> QED
  BY <1>1, Invariance, PTL
-----------------------------------------------------------------------------
Sent(n) == [i \in 1..n |-> <<i, Input[i]>>]

(* Sent(n) is a sequence of n items, and Sent(n + 1) adds the next one. *)
LEMMA SentGrows ==
  ASSUME NEW n \in Nat
  PROVE  /\ Len(Sent(n)) = n
         /\ Sent(n + 1) = Append(Sent(n), <<n + 1, Input[n + 1]>>)
<1> DEFINE T == {<<i, Input[i]>> : i \in 1..(n + 1)}
           e == <<n + 1, Input[n + 1]>>
<1>1. Sent(n) \in [1..n -> T] /\ Sent(n + 1) \in [1..(n + 1) -> T]
  BY DEF Sent
<1>2. Sent(n) \in Seq(T) /\ Sent(n + 1) \in Seq(T)
  <2> HIDE DEF T
  <2>1. \A m \in Nat : \A f \in [1..m -> T] : f \in Seq(T)
    BY SeqDef, Zenon
  <2>2. n + 1 \in Nat
    OBVIOUS
  <2> QED
    BY <1>1, <2>1, <2>2
<1>3. Len(Sent(n)) = n /\ Len(Sent(n + 1)) = n + 1
  BY <1>1, <1>2
<1>4. /\ \A i \in 1..n : Sent(n)[i] = Sent(n + 1)[i]
      /\ Sent(n + 1)[n + 1] = e
  <2>1. \A i \in 1..n : i \in 1..(n + 1)
    OBVIOUS
  <2>2. n + 1 \in 1..(n + 1)
    OBVIOUS
  <2> QED
    BY <2>1, <2>2, Zenon DEF Sent
<1>5. e \in T
  OBVIOUS
<1> HIDE DEF T, e
<1>6. Sent(n + 1) = Append(Sent(n), e)
  BY <1>2, <1>3, <1>4, <1>5, AppendProperties
<1> QED
  BY <1>3, <1>6 DEF e

(* Every step sends the chunk it publishes, receives the chunk it writes   *)
(* out, or does nothing that the stream sees.                              *)
LEMMA StreamStep ==
  ASSUME WriterFirst, IInv, [Next]_vars
  PROVE  Transfer!Next \/ (Sent(Published)' = Sent(Published) /\ out' = out)
<1> USE InputOK DEF IInv, TypeOK, WGoto, RGoto, WQuiet, ipc, sems, shmmsg
<1>1. CASE WPublish /\ ret > 0
  <2>1. Published = Len(out) /\ Published' = Len(out) + 1 /\ read = Len(out) + 1
    BY <1>1 DEF WPublish, Published, Ledger, Owes
  <2>2. PICK i \in Chunks : i = read
    BY <2>1 DEF Chunks
  <2>3. /\ Len(Sent(Published)) < Len(out) + 1
        /\ Sent(Published)' = Append(Sent(Published), <<i, Input[i]>>)
        /\ out' = out
    BY <1>1, <2>1, <2>2, SentGrows DEF WPublish, Sent
  <2>4. Transfer!Send(<<i, Input[i]>>)
    BY <2>3 DEF Transfer!Send, Sent
  <2> QED
    BY <2>4 DEF Transfer!Next
<1>2. CASE RWrite /\ cnt > 0
  <2>1. read = Len(out) + 1 /\ buf = read /\ cnt = Input[read]
    BY <1>2 DEF RWrite, Ledger, Owes
  <2>2. wpc \notin {"count", "v"}
    BY <1>2, <2>1 DEF RWrite, OneToken, One, WriterHas, ReaderHas, Setup
  <2>3. Published = read /\ Published' = read
    BY <1>2, <2>2 DEF RWrite, Published
  <2>4. Len(Sent(Published)) = read /\ Sent(Published)[Len(out) + 1] = <<read, Input[read]>>
    BY <2>1, <2>3, SentGrows DEF Sent
  <2>5. Transfer!Receive
    BY <1>2, <2>1, <2>3, <2>4 DEF RWrite, Transfer!Receive, Sent
  <2> QED
    BY <2>5 DEF Transfer!Next
<1>3. CASE WFill
  BY <1>3 DEF WFill, Published, Sent
<1>4. CASE \/ SetvalWrite \/ SetvalRead \/ Shmget \/ WReserve \/ WCount
           \/ (WPublish /\ ~(ret > 0)) \/ WTest \/ WRemove
  BY <1>4 DEF SetvalWrite, SetvalRead, Shmget, WReserve, WCount, WPublish,
              WTest, WRemove, Published, Sent
<1>5. CASE ROpen \/ RAwait \/ RTest \/ RRelease \/ RDetach \/ (RWrite /\ ~(cnt > 0))
  BY <1>5 DEF ROpen, RAwait, RTest, RRelease, RDetach, RWrite, Published, Sent
<1>6. CASE UNCHANGED vars
  BY <1>6 DEF vars, Published, Sent
<1> QED
  BY <1>1, <1>2, <1>3, <1>4, <1>5, <1>6 DEF Next, Writer, Reader

(* The two programs implement a one-place stream.                          *)
THEOREM Refinement ==
  ASSUME WriterFirst
  PROVE  Spec => ImplementsStream
<1>1. Init => Transfer!Init
  BY DEF Init, Transfer!Init, Published
<1>2. IInv /\ [Next]_vars => [Transfer!Next]_(Transfer!vars)
  BY WriterFirst, StreamStep DEF Sent, Transfer!vars
<1> QED
  BY <1>1, <1>2, Invariance, PTL DEF Spec, Transfer!Spec, ImplementsStream
=============================================================================
