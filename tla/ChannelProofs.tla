--------------------------- MODULE ChannelProofs ----------------------------
(***************************************************************************)
(* Proofs about the samples that pass data between processes, for any sets *)
(* of processes and any bounds, on the specification TLC checks: main()    *)
(* calls any one of the samples.  A component's invariant is kept by its   *)
(* own steps, and the steps of the other components leave its variables    *)
(* and the choice of the sample alone.                                     *)
(***************************************************************************)
EXTENDS MCChannels, FiniteSetTheorems, FunctionTheorems, SequenceTheorems,
        WellFoundedInduction, TLAPS

allVars == <<sample, chanVars, eventVars, msgVars, lockVars, shareVars>>
-----------------------------------------------------------------------------
(* File locks: a run that thinks it holds its lock is in the kernel's      *)
(* table, and the locks in the table do not conflict.                      *)
Told       == {"nothing", "free", "locked"}
LockPcs    == {"open", "flock", "getlk", "setlk", "sleep", "pause", "exit", "errExit", "killed"}
Runs       == [pc : LockPcs, type : {"read", "write"}, opt : {"b", "n"}, region : SUBSET Bytes,
               told : Told]
LockShape  == lk \in [Lockers -> Runs]
Holding    == {"sleep", "pause"}
Registered == \A p \in Lockers : lk[p].pc \in Holding => <<p, lk[p].type, lk[p].region>> \in held
Compatible == \A g, h \in held : g[1] # h[1] /\ "write" \in {g[2], h[2]} => g[3] \cap h[3] = {}
LockInv    == LockShape /\ LockTypeOK /\ Registered /\ Compatible

(* At first nobody holds a lock and nobody believes to.                    *)
LEMMA LockInitHolds == LockInit => LockInv
<1> SUFFICES ASSUME LockInit PROVE LockInv
  OBVIOUS
<1>1. Region \subseteq SUBSET Bytes
  BY DEF Region
<1>2. Arguments \subseteq [pc : {"open"}, told : {"nothing"}, type : {"read", "write"},
                          opt : {"b", "n"}, region : SUBSET Bytes]
  BY <1>1 DEF Arguments
<1>3. lk \in [Lockers -> [pc : {"open"}, told : {"nothing"}, type : {"read", "write"},
                          opt : {"b", "n"}, region : SUBSET Bytes]]
  BY <1>2 DEF LockInit
<1>4. LockShape
  BY <1>3 DEF LockShape, Runs, LockPcs, Told
<1>5. \A p \in Lockers : lk[p].pc = "open" /\ lk[p].type \in {"read", "write"}
                        /\ lk[p].opt \in {"b", "n"} /\ lk[p].region \subseteq Bytes
  BY <1>3
<1> QED
  BY <1>4, <1>5 DEF LockInit, LockInv, LockTypeOK, Holding, Registered, Compatible

(* flock returns, fcntl has not said EAGAIN: nothing stood in the way.     *)
LEMMA TakeLockStep ==
  ASSUME LockInv, NEW p \in Lockers, lk[p].pc \in {"flock", "setlk"}, Conflicts(p) = {},
         TakeLock(p), NEW l \in Holding, Goto(p, l)
  PROVE  LockInv'
<1> USE DEF LockInv, LockShape, Runs, LockPcs, Holding, TakeLock, Goto
<1>0. \A r \in Lockers :
        /\ lk'[r].type = lk[r].type /\ lk'[r].opt = lk[r].opt /\ lk'[r].region = lk[r].region
        /\ lk'[r].pc = IF r = p THEN l ELSE lk[r].pc
  OBVIOUS
<1>1. LockShape' /\ LockTypeOK'
  <2>1. LockShape'
    OBVIOUS
  <2>2. LockTypeOK'
    BY <1>0 DEF LockTypeOK
  <2> QED
    BY <2>1, <2>2
<1>2. Registered'
  BY <1>0 DEF Registered
<1>3. \A h \in held : h[1] # p /\ "write" \in {h[2], lk[p].type} => h[3] \cap lk[p].region = {}
  BY DEF Conflicts
<1>4. Compatible'
  BY <1>3 DEF Compatible
<1> QED
  BY <1>1, <1>2, <1>4

(* A run that gives up its lock or ends is not in the table.               *)
LEMMA GiveUpStep ==
  ASSUME LockInv, NEW p \in Lockers, GiveUp(p), NEW l \in {"exit", "killed"}, Goto(p, l)
  PROVE  LockInv'
<1> USE DEF LockInv, LockShape, Runs, LockPcs, Holding, GiveUp, Goto
<1>0. \A r \in Lockers :
        /\ lk'[r].type = lk[r].type /\ lk'[r].opt = lk[r].opt /\ lk'[r].region = lk[r].region
        /\ lk'[r].pc = IF r = p THEN l ELSE lk[r].pc
  OBVIOUS
<1>1. LockShape' /\ LockTypeOK'
  <2>1. LockShape'
    OBVIOUS
  <2>2. LockTypeOK'
    BY <1>0 DEF LockTypeOK
  <2> QED
    BY <2>1, <2>2
<1>2. Registered' /\ Compatible'
  BY <1>0 DEF LockTypeOK, Registered, Compatible
<1> QED
  BY <1>1, <1>2

(* The steps that do not touch the table are taken without a lock.         *)
LEMMA NoLockStep ==
  ASSUME LockInv, NEW p \in Lockers, lk[p].pc \in {"open", "flock", "getlk", "setlk"},
         UNCHANGED held, NEW l \in {"flock", "getlk", "setlk", "errExit"},
         NEW t \in Told, lk' = [lk EXCEPT ![p].pc = l, ![p].told = t]
  PROVE  LockInv'
<1> USE DEF LockInv, LockShape, Holding
<1>a. [lk[p] EXCEPT !.pc = l, !.told = t] \in Runs
  <2>1. lk[p] \in Runs /\ l \in LockPcs
    BY DEF LockPcs
  <2> QED
    BY <2>1 DEF Runs
<1>0. \A r \in Lockers :
        /\ lk'[r].type = lk[r].type /\ lk'[r].opt = lk[r].opt /\ lk'[r].region = lk[r].region
        /\ lk'[r].pc = IF r = p THEN l ELSE lk[r].pc
  BY DEF Runs
<1>1. LockShape' /\ LockTypeOK'
  <2>1. LockShape'
    BY <1>a
  <2>2. LockTypeOK'
    BY <1>0 DEF LockTypeOK, LockPcs, Runs
  <2> QED
    BY <2>1, <2>2
<1>2. Registered' /\ Compatible'
  BY <1>0 DEF LockTypeOK, Registered, Compatible
<1> QED
  BY <1>1, <1>2

(* Every step of a run of file_lock keeps the invariant.                   *)
LEMMA LockKept ==
  ASSUME LockInv, LockNext
  PROVE  LockInv'
<1> PICK p \in Lockers : LockStep(p) \/ KillLocker(p)
  BY DEF LockNext
<1>0. ASSUME NEW l \in {"flock", "getlk", "setlk", "errExit"}, Goto(p, l)
      PROVE  \E t \in Told : lk' = [lk EXCEPT ![p].pc = l, ![p].told = t]
  <2>1. lk' = [lk EXCEPT ![p].pc = l, ![p].told = lk[p].told] /\ lk[p].told \in Told
    BY <1>0 DEF Goto, LockInv, LockShape, Runs
  <2> QED
    BY <2>1
<1>1. CASE OpenSample(p)
  BY <1>0, <1>1, NoLockStep DEF OpenSample
<1>2. CASE Flock(p)
  BY <1>0, <1>2, NoLockStep, TakeLockStep DEF Flock, Holding
<1>3. CASE Funlock(p)
  BY <1>3, GiveUpStep DEF Funlock
<1>4. CASE lock_region_is_locked(p)
  BY <1>4, NoLockStep DEF lock_region_is_locked, Told
<1>5. CASE lock_region_block(p)
  BY <1>5, TakeLockStep DEF lock_region_block, Holding
<1>6. CASE lock_region_nblock(p)
  <2>1. CASE Conflicts(p) = {}
    <3>1. TakeLock(p) /\ Goto(p, "pause") /\ lk[p].pc = "setlk"
      BY <1>6, <2>1 DEF lock_region_nblock, locked_by_others, TakeLock
    <3> QED
      BY <2>1, <3>1, TakeLockStep DEF Holding
  <2>2. CASE Conflicts(p) # {}
    <3>1. Goto(p, "errExit") /\ UNCHANGED held /\ lk[p].pc = "setlk"
      BY <1>6, <2>2 DEF lock_region_nblock, locked_by_others
    <3> QED
      BY <1>0, <3>1, NoLockStep
  <2> QED
    BY <2>1, <2>2
<1>7. CASE KillLocker(p)
  BY <1>7, GiveUpStep DEF KillLocker
<1> QED
  BY <1>1, <1>2, <1>3, <1>4, <1>5, <1>6, <1>7 DEF LockStep

(* What the invariant says of two runs that both think they hold a lock.   *)
LEMMA LockInvImplies == LockInv => BeliefsAgree
<1> SUFFICES ASSUME LockInv, NEW p \in Lockers, NEW r \in Lockers, p # r,
                    lk[p].pc \in Holding, lk[r].pc \in Holding,
                    "write" \in {lk[p].type, lk[r].type}
             PROVE  lk[p].region \cap lk[r].region = {}
  BY DEF BeliefsAgree, Holding
<1>1. <<p, lk[p].type, lk[p].region>> \in held /\ <<r, lk[r].type, lk[r].region>> \in held
  BY DEF LockInv, Registered
<1> QED
  BY <1>1 DEF LockInv, Compatible
-----------------------------------------------------------------------------
(* Shared memory and semaphores: the name stands for an object that a user *)
(* has created; a cell of shared memory holds nothing or its creator; and  *)
(* what a reader has copied so far is what is in its object, which is      *)
(* complete if it was when the reader opened it.                           *)
Somebody == Users \cup {NoUser}
Pair(S)  == [1..2 -> S]
UserPcs  == 1..10
UserOps  == {"create", "acquire", "release", "destroy", "write", "read", "show", "set", "none"}
UserRecs == [op : UserOps, pc : UserPcs, obj : Somebody, size : {0, 2}, out : Pair(Somebody),
             late : BOOLEAN]
Objects  == [val : Nat, cell : Pair(Somebody), size : {0, 2}]
ShareShape ==
  /\ name \in Somebody
  /\ mem \in [Users -> Objects]
  /\ us \in [Users -> UserRecs]
Allowed ==
  \A u \in Users :
    /\ sample = "ipc_posix_sem" => us[u].op \in {"create", "acquire", "release", "destroy"}
    /\ us[u].op = "read" => sample = "ipc_posix_shm"
    /\ us[u].op \in {"show", "set"} => sample = "mmap_file_shared"
    /\ sample = "ipc_posix_shm" => us[u].op \in {"write", "read", "destroy"}
    /\ sample = "mmap_file_shared" => name \in Users /\ us[u].op \in {"show", "set"}
Created ==
  sample \in {"ipc_posix_sem", "ipc_posix_shm"} =>
    /\ name # NoUser => us[name].op \in {"create", "write"}
    /\ \A u \in Users :
         /\ us[u].obj # NoUser => us[us[u].obj].op \in {"create", "write"}
         /\ us[u].op \in {"acquire", "release", "read"} /\ us[u].pc \notin {1, errExit} =>
              us[u].obj # NoUser
WrittenBy ==
  sample = "ipc_posix_shm" =>
    \A o \in Users :
      /\ mem[o].cell[1] \in {o, NoUser} /\ mem[o].cell[2] \in {o, NoUser}
      /\ us[o].op = "write" /\ us[o].pc \in {4, Ended} => mem[o].cell[1] = o
      /\ us[o].op = "write" /\ us[o].pc = Ended => mem[o].cell[2] = o
KnownTo(u) ==
    /\ us[u].late => us[u].obj # NoUser /\ us[us[u].obj].op = "write" /\ us[us[u].obj].pc = Ended
    /\ us[u].pc = 1 => us[u].out[1] = NoUser /\ us[u].out[2] = NoUser
    /\ us[u].out[1] \in {us[u].obj, NoUser} /\ us[u].out[2] \in {us[u].obj, NoUser}
    /\ us[u].late /\ us[u].pc \in {4, Ended} => us[u].out[1] = us[u].obj
    /\ us[u].late /\ us[u].pc = Ended => us[u].out[2] = us[u].obj
ReadFrom == \A u \in Users : us[u].op = "read" => KnownTo(u)
\* parent and child of mmap_anonymous_shared
Family ==
  /\ fam \in [parent : {"start", "forked", "end", "exit"}, child : {"none", "start", "half", "gone"},
              shared : Nat, local : Nat, out : Pair(Nat)]
  /\ fam.child = "start" => fam.shared = 1
  /\ fam.child \in {"half", "gone"} => fam.shared = 2
  /\ fam.child # "none" => fam.local = 1
  /\ fam.parent \in {"start", "exit"} => fam.child = "none"
  /\ fam.parent = "end" => fam.out = <<2, 1>>
ShareInv == ShareShape /\ Allowed /\ Created /\ WrittenBy /\ ReadFrom /\ Family

(* At first no message is in memory and nobody has read one.               *)
LEMMA ShareInitHolds == ShareInit => ShareInv
<1> SUFFICES ASSUME ShareInit PROVE ShareInv
  OBVIOUS
<1> USE UsersAssumption DEF ShareInit, Pair, Somebody
<1>0. (CHOOSE u \in Users : TRUE) \in Users
  OBVIOUS
<1> DEFINE none == <<NoUser, NoUser>>
           can  == IF sample \in DOMAIN Ops THEN Ops[sample] ELSE {"none"}
<1>1. /\ none \in Pair(Somebody) /\ none[1] = NoUser /\ none[2] = NoUser
      /\ can \subseteq UserOps
  <2>1. none \in Pair(Somebody) /\ none[1] = NoUser /\ none[2] = NoUser
    OBVIOUS
  <2>2. can \subseteq UserOps
    BY DEF Ops, UserOps
  <2> QED
    BY <2>1, <2>2
<1>2. us \in [Users -> [op : can, pc : {1}, obj : {NoUser}, size : {0}, out : {none}, late : {FALSE}]]
  OBVIOUS
<1> HIDE DEF none
<1>3. us \in [Users -> UserRecs]
  <2> HIDE DEF Pair, can, Somebody
  <2>1. NoUser \in Somebody /\ 1 \in UserPcs
    BY DEF Somebody, UserPcs
  <2>2. \A r \in [op : can, pc : {1}, obj : {NoUser}, size : {0}, out : {none}, late : {FALSE}] :
          r \in [op : UserOps, pc : UserPcs, obj : Somebody, size : {0, 2}, out : Pair(Somebody),
                late : BOOLEAN]
    BY <1>1, <2>1
  <2> QED
    BY <1>2, <2>2 DEF UserRecs
<1>4. \A u \in Users : /\ us[u].op \in can /\ us[u].pc = 1 /\ us[u].obj = NoUser
                       /\ us[u].out = none /\ us[u].late = FALSE
  <2> HIDE DEF can
  <2> QED
    BY <1>2
<1>5. ShareShape
  <2>1. mem \in [Users -> Objects]
    BY <1>1 DEF none, Objects
  <2> QED
    BY <1>0, <1>3, <2>1 DEF ShareShape
<1>6. Allowed /\ Created
  <2>1. Allowed
    BY <1>0, <1>4 DEF Allowed, Ops
  <2>2. Created
    BY <1>4 DEF Created
  <2> QED
    BY <2>1, <2>2
<1>7. WrittenBy
  BY <1>4 DEF WrittenBy, Ended
<1>8. ReadFrom
  BY <1>1, <1>4 DEF ReadFrom, KnownTo, Ended
<1>9. Family
  BY DEF Family
<1> QED
  BY <1>5, <1>6, <1>7, <1>8, <1>9 DEF ShareInv

(* A user that only goes on keeps what it has.                             *)
LEMMA UserGoesOn ==
  ASSUME ShareShape, NEW u \in Users, NEW l \in UserPcs, To(u, l)
  PROVE  /\ us' \in [Users -> UserRecs]
         /\ \A v \in Users :
              /\ us'[v].op = us[v].op /\ us'[v].obj = us[v].obj /\ us'[v].out = us[v].out
              /\ us'[v].late = us[v].late /\ us'[v].size = us[v].size
              /\ us'[v].pc = IF v = u THEN l ELSE us[v].pc
              /\ v # u => us'[v] = us[v]
<1>1. us \in [Users -> UserRecs]
  BY DEF ShareShape
<1>2. [us[u] EXCEPT !.pc = l] \in UserRecs
  BY <1>1 DEF UserRecs
<1> QED
  BY <1>1, <1>2 DEF To, UserRecs

(* A step of somebody who has not ended and reads nothing does not change  *)
(* what readers know.                                                      *)
LEMMA ReadersKeep ==
  ASSUME ShareInv, NEW u \in Users, us[u].op # "read", us[u].op = "write" => us[u].pc # Ended,
         \A v \in Users : us'[v].op = us[v].op /\ (v # u => us'[v] = us[v])
  PROVE  ReadFrom'
<1> SUFFICES ASSUME NEW v \in Users, us[v].op = "read"
             PROVE  /\ us[v].late =>
                         us[v].obj # NoUser /\ us'[us[v].obj].op = "write" /\ us'[us[v].obj].pc = Ended
                    /\ us'[v] = us[v]
  BY DEF ReadFrom, KnownTo, ShareInv
<1>1. us'[v] = us[v] /\ us[v].obj \in Users \cup {NoUser}
  BY DEF ShareInv, ShareShape, UserRecs, Somebody
<1>2. us[v].late =>
        us[v].obj # NoUser /\ us[us[v].obj].op = "write" /\ us[us[v].obj].pc = Ended
  BY DEF ShareInv, ReadFrom, KnownTo
<1> QED
  BY <1>1, <1>2

(* The semaphore samples and unlinking.                                    *)
LEMMA SemStep ==
  ASSUME ShareInv, NEW u \in Users,
         ipc_posix_sem_create(u) \/ sem_wait(u) \/ sem_post(u) \/ Unlink(u)
  PROVE  ShareInv'
<1> USE UsersAssumption DEF ShareInv
<1>1. PICK l \in {Ended, errExit} : To(u, l)
  BY DEF ipc_posix_sem_create, sem_wait, sem_post, Unlink
<1>2. /\ UNCHANGED <<sample, fam>> /\ us[u].op \in {"create", "acquire", "release", "destroy"}
      /\ us[u].op \in {"acquire", "release"} => us[u].pc = 2
      /\ name' \in {name, NoUser} \/ (name' = u /\ us[u].op = "create")
  BY DEF ipc_posix_sem_create, sem_wait, sem_post, Unlink, At
<1>3. /\ us' \in [Users -> UserRecs]
      /\ \A v \in Users :
           /\ us'[v].op = us[v].op /\ us'[v].obj = us[v].obj /\ us'[v].out = us[v].out
           /\ us'[v].late = us[v].late
           /\ us'[v].pc = IF v = u THEN l ELSE us[v].pc
  BY <1>1, UserGoesOn DEF UserPcs, Ended, errExit
<1>4. mem' \in [Users -> Objects] /\ \A o \in Users : mem'[o].cell = mem[o].cell
  BY DEF ShareShape, Objects, ipc_posix_sem_create, sem_wait, sem_post, Unlink
<1>5. ShareShape'
  BY <1>2, <1>3, <1>4 DEF ShareShape, Somebody
<1>6. Allowed' /\ Created'
  <2>1. Allowed'
    BY <1>2, <1>3 DEF Allowed, ipc_posix_sem_create, sem_wait, sem_post, Unlink, At
  <2>2. Created'
    BY <1>2, <1>3 DEF Created, ShareShape, UserRecs, Somebody, errExit
  <2> QED
    BY <2>1, <2>2
<1>7. WrittenBy'
  BY <1>2, <1>3, <1>4 DEF WrittenBy
<1>8. ReadFrom'
  BY <1>2, <1>3 DEF ReadFrom, KnownTo, ShareShape, UserRecs, Somebody
<1>9. Family'
  BY <1>2 DEF Family
<1> QED
  BY <1>5, <1>6, <1>7, <1>8, <1>9

(* A user opens what the name stands for.                                  *)
LEMMA OpenNameStep ==
  ASSUME ShareInv, NEW u \in Users, OpenName(u)
  PROVE  ShareInv'
<1> USE UsersAssumption DEF ShareInv
<1>1. /\ UNCHANGED <<sample, name, mem, fam>>
      /\ us[u].op \in {"acquire", "release", "read"} /\ us[u].pc = 1
  BY DEF OpenName
<1>2. CASE name = NoUser
  <2>1. To(u, errExit)
    BY <1>2 DEF OpenName
  <2>2. /\ us' \in [Users -> UserRecs]
        /\ \A v \in Users :
             /\ us'[v].op = us[v].op /\ us'[v].obj = us[v].obj /\ us'[v].out = us[v].out
             /\ us'[v].late = us[v].late
             /\ us'[v].pc = IF v = u THEN errExit ELSE us[v].pc
    BY <2>1, UserGoesOn DEF UserPcs, errExit
  <2>3. ShareShape' /\ Allowed'
    BY <1>1, <2>2 DEF ShareShape, Allowed
  <2>4. Created'
    BY <1>1, <2>2 DEF Created, ShareShape, UserRecs, Somebody, errExit
  <2>5. WrittenBy'
    BY <1>1, <2>2 DEF WrittenBy
  <2>6. ReadFrom'
    BY <1>1, <2>2 DEF ReadFrom, KnownTo, ShareShape, UserRecs, Somebody, errExit, Ended
  <2> QED
    BY <1>1, <2>3, <2>4, <2>5, <2>6 DEF Family
<1>3. CASE name # NoUser
  <2>0. name \in Users
    BY <1>3 DEF ShareShape, Somebody
  <2>1. us' = [us EXCEPT ![u].pc = 2, ![u].obj = name, ![u].late = us[name].pc = Ended]
    BY <1>3 DEF OpenName
  <2>2. /\ us' \in [Users -> UserRecs]
        /\ \A v \in Users :
             /\ us'[v].op = us[v].op /\ us'[v].out = us[v].out
             /\ v # u => us'[v] = us[v]
        /\ us'[u].pc = 2 /\ us'[u].obj = name /\ (us'[u].late <=> us[name].pc = Ended)
    <3>1. us \in [Users -> UserRecs] /\ name \in Somebody /\ 2 \in UserPcs
      BY DEF ShareShape, UserPcs
    <3>2. [us[u] EXCEPT !.pc = 2, !.obj = name, !.late = us[name].pc = Ended] \in UserRecs
      BY <3>1 DEF UserRecs
    <3> QED
      BY <2>1, <3>1, <3>2 DEF UserRecs
  <2>3. ShareShape'
    BY <1>1, <2>2 DEF ShareShape
  <2>4. Allowed' /\ Created'
    <3>1. Allowed'
      BY <1>1, <2>2 DEF Allowed
    <3>2. Created'
      BY <1>1, <1>3, <2>0, <2>2 DEF Created, ShareShape, UserRecs, Somebody
    <3> QED
      BY <3>1, <3>2
  <2>5. WrittenBy'
    BY <1>1, <2>2 DEF WrittenBy
  <2>6. ReadFrom'
    <3>1. us[u].op = "read" => us[name].op = "write"
      BY <1>3, <2>0 DEF Created, Allowed
    <3> QED
      BY <1>1, <2>0, <2>2, <3>1 DEF ReadFrom, KnownTo, ShareShape, UserRecs, Somebody, Ended
  <2> QED
    BY <1>1, <2>3, <2>4, <2>5, <2>6 DEF Family
<1> QED
  BY <1>2, <1>3

(* The writer writes into its own object only.                             *)
LEMMA ShmWriteStep ==
  ASSUME ShareInv, NEW u \in Users, ipc_posix_shm_write(u)
  PROVE  ShareInv'
<1> USE UsersAssumption DEF ShareInv
<1>0. us[u].op = "write" /\ UNCHANGED <<sample, fam>>
  BY DEF ipc_posix_shm_write
<1>1. CASE us[u].pc = 1 /\ name # NoUser /\ To(u, errExit) /\ UNCHANGED <<name, mem>>
  <2>1. /\ us' \in [Users -> UserRecs]
        /\ \A v \in Users :
             /\ us'[v].op = us[v].op /\ us'[v].obj = us[v].obj /\ us'[v].out = us[v].out
             /\ us'[v].late = us[v].late
             /\ us'[v].pc = IF v = u THEN errExit ELSE us[v].pc
             /\ v # u => us'[v] = us[v]
    BY <1>1, UserGoesOn DEF UserPcs, errExit
  <2>2. ShareShape' /\ Allowed'
    BY <1>0, <1>1, <2>1 DEF ShareShape, Allowed
  <2>3. Created'
    BY <1>0, <1>1, <2>1 DEF Created, ShareShape, UserRecs, Somebody, errExit
  <2>4. WrittenBy'
    BY <1>0, <1>1, <2>1 DEF WrittenBy, errExit, Ended
  <2>5. ReadFrom'
    BY <1>0, <1>1, <2>1, ReadersKeep DEF Ended
  <2> QED
    BY <1>0, <2>2, <2>3, <2>4, <2>5 DEF Family
<1>2. CASE /\ us[u].pc = 1 /\ name = NoUser /\ name' = u
           /\ us' = [us EXCEPT ![u].pc = 2, ![u].obj = u] /\ UNCHANGED mem
  <2>1. /\ us' \in [Users -> UserRecs]
        /\ \A v \in Users :
             /\ us'[v].op = us[v].op /\ us'[v].out = us[v].out /\ us'[v].late = us[v].late
             /\ v # u => us'[v] = us[v]
        /\ us'[u].pc = 2 /\ us'[u].obj = u
    <3>1. us \in [Users -> UserRecs] /\ u \in Somebody /\ 2 \in UserPcs
      BY DEF ShareShape, UserPcs, Somebody
    <3>2. [us[u] EXCEPT !.pc = 2, !.obj = u] \in UserRecs
      BY <3>1 DEF UserRecs
    <3> QED
      BY <1>2, <3>1, <3>2 DEF UserRecs
  <2>2. ShareShape' /\ Allowed'
    BY <1>0, <1>2, <2>1 DEF ShareShape, Allowed, Somebody
  <2>3. Created'
    BY <1>0, <1>2, <2>1 DEF Created, ShareShape, UserRecs, Somebody
  <2>4. WrittenBy'
    BY <1>0, <1>2, <2>1 DEF WrittenBy, Ended
  <2>5. ReadFrom'
    BY <1>0, <1>2, <2>1, ReadersKeep DEF Ended
  <2> QED
    BY <1>0, <2>2, <2>3, <2>4, <2>5 DEF Family
<1>3. CASE us[u].pc \in {2, 3, 4} /\ UNCHANGED name
  <2>1. PICK l \in {3, 4, Ended} :
          To(u, l) /\ (l = 3 <=> us[u].pc = 2) /\ (l = 4 <=> us[u].pc = 3)
    BY <1>3 DEF ipc_posix_shm_write, Ended
  <2>2. /\ us' \in [Users -> UserRecs]
        /\ \A v \in Users :
             /\ us'[v].op = us[v].op /\ us'[v].obj = us[v].obj /\ us'[v].out = us[v].out
             /\ us'[v].late = us[v].late
             /\ us'[v].pc = IF v = u THEN l ELSE us[v].pc
             /\ v # u => us'[v] = us[v]
    BY <2>1, UserGoesOn DEF UserPcs, Ended
  <2>3. /\ mem' \in [Users -> Objects]
        /\ \A o \in Users \ {u} : mem'[o] = mem[o]
        /\ mem'[u].cell[1] = IF us[u].pc = 3 THEN u ELSE mem[u].cell[1]
        /\ mem'[u].cell[2] = IF us[u].pc = 4 THEN u ELSE mem[u].cell[2]
    <3>1. mem \in [Users -> Objects]
      BY DEF ShareShape
    <3>2. mem[u].cell \in Pair(Somebody) /\ u \in Somebody
      BY <3>1 DEF Objects, Somebody
    <3>3. CASE us[u].pc = 2
      BY <3>1, <3>3 DEF ipc_posix_shm_write, Objects
    <3>4. CASE us[u].pc = 3
      <4>1. [mem[u].cell EXCEPT ![1] = u] \in Pair(Somebody)
        BY <3>2 DEF Pair
      <4>2. mem' = [mem EXCEPT ![u].cell = [mem[u].cell EXCEPT ![1] = u]]
        BY <3>4 DEF ipc_posix_shm_write
      <4> QED
        BY <3>1, <3>2, <3>4, <4>1, <4>2 DEF Objects, Pair
    <3>5. CASE us[u].pc = 4
      <4>1. [mem[u].cell EXCEPT ![2] = u] \in Pair(Somebody)
        BY <3>2 DEF Pair
      <4>2. mem' = [mem EXCEPT ![u].cell = [mem[u].cell EXCEPT ![2] = u]]
        BY <3>5 DEF ipc_posix_shm_write
      <4> QED
        BY <3>1, <3>2, <3>5, <4>1, <4>2 DEF Objects, Pair
    <3> QED
      BY <1>3, <3>3, <3>4, <3>5
  <2>4. ShareShape' /\ Allowed'
    BY <1>0, <1>3, <2>2, <2>3 DEF ShareShape, Allowed
  <2>5. Created'
    BY <1>0, <1>3, <2>2 DEF Created, ShareShape, UserRecs, Somebody
  <2>6. WrittenBy'
    BY <1>0, <1>3, <2>1, <2>2, <2>3 DEF WrittenBy, Ended
  <2>7. ReadFrom'
    BY <1>0, <1>3, <2>2, ReadersKeep DEF Ended
  <2> QED
    BY <1>0, <2>4, <2>5, <2>6, <2>7 DEF Family
<1> QED
  BY <1>1, <1>2, <1>3 DEF ipc_posix_shm_write

(* The reader copies cell after cell of the object it has opened.          *)
LEMMA ShmReadStep ==
  ASSUME ShareInv, NEW u \in Users, ipc_posix_shm_read(u)
  PROVE  ShareInv'
<1> USE UsersAssumption DEF ShareInv
<1>0. /\ us[u].op = "read" /\ UNCHANGED <<sample, name, mem, fam>> /\ us[u].pc \in {2, 3, 4}
      /\ sample = "ipc_posix_shm"
  BY DEF ipc_posix_shm_read, Allowed
<1> DEFINE o == us[u].obj
<1>1. o \in Users /\ us[o].op = "write"
  BY <1>0 DEF Created, Allowed, ShareShape, UserRecs, Somebody, errExit
<1>2. us \in [Users -> UserRecs] /\ mem \in [Users -> Objects] /\ us[u].out \in Pair(Somebody)
  BY DEF ShareShape, UserRecs
<1>3. mem[o].size \in {0, 2} /\ mem[o].cell \in Pair(Somebody)
  BY <1>1, <1>2 DEF Objects
<1>a. 3 \in UserPcs /\ 4 \in UserPcs /\ Ended \in UserPcs
  BY DEF UserPcs, Ended
<1>4. /\ us' \in [Users -> UserRecs]
      /\ \A v \in Users : us'[v].op = us[v].op /\ (v # u => us'[v] = us[v])
      /\ us'[u].obj = o /\ us'[u].late = us[u].late
      /\ us'[u].pc \in {3, 4, Ended, errExit}
      /\ us'[u].out[1] = IF us'[u].pc = 4 THEN mem[o].cell[1] ELSE us[u].out[1]
      /\ us'[u].out[2] = IF us'[u].pc = Ended THEN mem[o].cell[2] ELSE us[u].out[2]
      /\ us'[u].pc = Ended => us[u].pc = 4
  <2>1. CASE us[u].pc = 2
    <3>1. us' = [us EXCEPT ![u].pc = 3, ![u].size = mem[o].size]
      BY <1>0, <2>1 DEF ipc_posix_shm_read, st_size, Obj
    <3>2. [us[u] EXCEPT !.pc = 3, !.size = mem[o].size] \in UserRecs
      BY <1>2, <1>a, <1>3 DEF UserRecs
    <3> QED
      BY <1>2, <2>1, <3>1, <3>2 DEF UserRecs, Ended
  <2>2. CASE us[u].pc = 3 /\ To(u, errExit)
    BY <1>2, <2>2, UserGoesOn DEF errExit, Ended, UserPcs
  <2>3. CASE us[u].pc = 3 /\ ~To(u, errExit)
    <3> DEFINE new == [us[u].out EXCEPT ![1] = mem[o].cell[1]]
    <3>1. new \in Pair(Somebody) /\ new[1] = mem[o].cell[1] /\ new[2] = us[u].out[2]
      BY <1>2, <1>3 DEF Pair
    <3>2. us' = [us EXCEPT ![u].pc = 4, ![u].out = new]
      BY <1>0, <2>3 DEF ipc_posix_shm_read, Obj
    <3> HIDE DEF new
    <3>3. [us[u] EXCEPT !.pc = 4, !.out = new] \in UserRecs
      BY <1>2, <1>a, <3>1 DEF UserRecs
    <3> QED
      BY <1>2, <2>3, <3>1, <3>2, <3>3 DEF UserRecs, Ended
  <2>4. CASE us[u].pc = 4
    <3> DEFINE new == [us[u].out EXCEPT ![2] = mem[o].cell[2]]
    <3>1. new \in Pair(Somebody) /\ new[2] = mem[o].cell[2] /\ new[1] = us[u].out[1]
      BY <1>2, <1>3 DEF Pair
    <3>2. us' = [us EXCEPT ![u].pc = Ended, ![u].out = new]
      BY <1>0, <2>4 DEF ipc_posix_shm_read, Obj
    <3> HIDE DEF new
    <3>3. [us[u] EXCEPT !.pc = Ended, !.out = new] \in UserRecs
      BY <1>2, <1>a, <3>1 DEF UserRecs
    <3> QED
      BY <1>2, <2>4, <3>1, <3>2, <3>3 DEF UserRecs, Ended
  <2> QED
    BY <1>0, <2>1, <2>2, <2>3, <2>4
<1>5. ShareShape' /\ Allowed'
  BY <1>0, <1>4 DEF ShareShape, Allowed
<1>6. Created'
  BY <1>0, <1>1, <1>4 DEF Created, ShareShape, UserRecs, Somebody
<1>7. WrittenBy'
  BY <1>0, <1>4 DEF WrittenBy
<1>8. ReadFrom'
  <2>1. mem[o].cell[1] \in {o, NoUser} /\ mem[o].cell[2] \in {o, NoUser}
    BY <1>0, <1>1 DEF WrittenBy
  <2>2. us[u].late => us[o].pc = Ended /\ mem[o].cell[1] = o /\ mem[o].cell[2] = o
    BY <1>0, <1>1 DEF WrittenBy, ReadFrom, KnownTo
  <2>3. us[o].op = "write" /\ u # o /\ us'[o] = us[o]
    BY <1>0, <1>1, <1>4
  <2> SUFFICES ASSUME NEW v \in Users, us[v].op = "read"
               PROVE  KnownTo(v)'
    BY <1>4 DEF ReadFrom
  <2>4. CASE v = u
    BY <1>0, <1>4, <2>1, <2>2, <2>3, <2>4 DEF KnownTo, ReadFrom, Ended, errExit
  <2>5. CASE v # u
    <3>1. us'[v] = us[v] /\ (us[v].obj # u \/ ~us[v].late)
      BY <1>0, <1>4, <2>5 DEF ReadFrom, KnownTo
    <3> QED
      BY <1>4, <2>5, <3>1 DEF ReadFrom, KnownTo, ShareShape, UserRecs, Somebody
  <2> QED
    BY <2>4, <2>5
<1> QED
  BY <1>0, <1>5, <1>6, <1>7, <1>8 DEF Family

(* mmap_file_shared touches no object of the other samples.                *)
LEMMA MmapFileStep ==
  ASSUME ShareInv, NEW u \in Users, mmap_file_shared(u)
  PROVE  ShareInv'
<1> USE UsersAssumption DEF ShareInv
<1> DEFINE f == mem[name].cell
           Store(l, c) == To(u, l) /\ mem' = [mem EXCEPT ![name].cell = c]
<1>0. us[u].op \in {"show", "set"} /\ UNCHANGED <<sample, name, fam>>
  BY DEF mmap_file_shared
<1>1. sample = "mmap_file_shared" /\ name \in Users
  BY <1>0 DEF Allowed
<1>2. \A l \in {2, 3, 4, 5, Ended} : l \in UserPcs
  BY DEF UserPcs, Ended
<1>3. us \in [Users -> UserRecs] /\ mem \in [Users -> Objects]
  BY DEF ShareShape
<1>4. f \in Pair(Somebody)
  BY <1>1, <1>3 DEF Objects
<1>5. ASSUME NEW l \in {2, 3, 4, 5, Ended}, NEW c \in Pair(Somebody), Store(l, c)
      PROVE  /\ us' \in [Users -> UserRecs] /\ mem' \in [Users -> Objects]
             /\ \A v \in Users : us'[v].op = us[v].op /\ (v # u => us'[v] = us[v])
  <2>1. mem' \in [Users -> Objects]
    BY <1>3, <1>5 DEF Objects
  <2> QED
    BY <1>2, <1>5, <2>1, UserGoesOn
<1>6. ASSUME NEW l \in {2, 3, 4, 5, Ended}, us' = [us EXCEPT ![u].pc = l, ![u].out = f], UNCHANGED mem
      PROVE  /\ us' \in [Users -> UserRecs] /\ mem' \in [Users -> Objects]
             /\ \A v \in Users : us'[v].op = us[v].op /\ (v # u => us'[v] = us[v])
  <2> HIDE DEF f
  <2>1. [us[u] EXCEPT !.pc = l, !.out = f] \in UserRecs
    BY <1>2, <1>3, <1>4 DEF UserRecs
  <2> QED
    BY <1>3, <1>6, <2>1 DEF UserRecs
<1>7. /\ us' \in [Users -> UserRecs] /\ mem' \in [Users -> Objects]
      /\ \A v \in Users : us'[v].op = us[v].op /\ (v # u => us'[v] = us[v])
  <2>1. /\ <<NoUser, NoUser>> \in Pair(Somebody) /\ <<u, f[2]>> \in Pair(Somebody)
        /\ <<f[1], u>> \in Pair(Somebody)
    BY <1>4 DEF Pair, Somebody
  <2>2. \/ \E l \in {2, Ended} : us' = [us EXCEPT ![u].pc = l, ![u].out = f] /\ UNCHANGED mem
        \/ Store(3, <<NoUser, NoUser>>) \/ Store(4, <<u, f[2]>>) \/ Store(5, <<f[1], u>>)
    BY DEF mmap_file_shared
  <2> HIDE DEF f, Store
  <2> QED
    BY <1>5, <1>6, <2>1, <2>2
<1>8. ShareShape' /\ Allowed'
  BY <1>0, <1>7 DEF ShareShape, Allowed
<1>9. Created' /\ WrittenBy'
  BY <1>0, <1>1 DEF Created, WrittenBy
<1>10. ReadFrom'
  BY <1>0, <1>7, ReadersKeep
<1> QED
  BY <1>0, <1>8, <1>9, <1>10 DEF Family

(* The child's increment is seen by the parent that has waited for it.     *)
LEMMA FamilyStep ==
  ASSUME ShareInv, mmap_anonymous_shared
  PROVE  ShareInv'
<1> USE DEF ShareInv
<1>1. UNCHANGED <<sample, name, mem, us>>
  BY DEF mmap_anonymous_shared
<1>2. Family'
  <2> USE DEF Family
  <2>1. CASE fam' = [fam EXCEPT !.parent = "forked", !.child = "start", !.shared = 1, !.local = 1]
    BY <2>1
  <2>2. CASE fam.parent = "start" /\ fam' = [fam EXCEPT !.parent = "exit"]
    BY <2>2
  <2>3. CASE fam.child = "start" /\ fam' = [fam EXCEPT !.child = "half", !.shared = @ + 1]
    <3>1. fam.shared = 1 /\ fam.shared + 1 = 2 /\ fam.local = 1 /\ fam.parent \notin {"start", "exit"}
      BY <2>3
    <3>2. fam' = [fam EXCEPT !.child = "half", !.shared = fam.shared + 1]
      BY <2>3
    <3>3. fam' = [fam EXCEPT !.child = "half", !.shared = 2]
      BY <3>1, <3>2, Zenon
    <3>4. fam' \in [parent : {"start", "forked", "end", "exit"}, child : {"none", "start", "half", "gone"},
                    shared : Nat, local : Nat, out : Pair(Nat)]
      BY <3>3
    <3>5. fam'.child = "half" /\ fam'.shared = 2 /\ fam'.parent = fam.parent
          /\ fam'.out = fam.out /\ fam'.local = fam.local
      BY <3>3
    <3> QED
      BY <3>1, <3>4, <3>5
  <2>4. CASE fam.child = "half" /\ fam' = [fam EXCEPT !.child = "gone"]
    BY <2>4
  <2>5. CASE /\ fam.parent = "forked" /\ fam.child = "gone"
             /\ fam' = [fam EXCEPT !.parent = "end", !.out = <<fam.shared, fam.local>>]
    <3>1. <<fam.shared, fam.local>> \in Pair(Nat)
      BY DEF Pair
    <3> QED
      BY <2>5, <3>1
  <2> QED
    BY <2>1, <2>2, <2>3, <2>4, <2>5 DEF mmap_anonymous_shared, parent_may_print
<1> QED
  BY <1>1, <1>2 DEF ShareShape, Allowed, Created, WrittenBy, ReadFrom, KnownTo

(* Every step of the sharers keeps the invariant.                          *)
LEMMA ShareKept ==
  ASSUME ShareInv, ShareNext
  PROVE  ShareInv'
  BY SemStep, OpenNameStep, ShmWriteStep, ShmReadStep, MmapFileStep, FamilyStep DEF ShareNext

(* An object never gets smaller, so a reader that maps what fstat told it  *)
(* has never more mapped than there is.                                    *)
Mapped == \A u \in Users : us[u].op = "read" /\ us[u].pc \in {3, 4} =>
                            us[u].size <= mem[us[u].obj].size
LEMMA MappedKept ==
  ASSUME ShareInv, Mapped, ShareNext
  PROVE  Mapped'
<1>1. us \in [Users -> UserRecs] /\ mem \in [Users -> Objects]
  BY DEF ShareInv, ShareShape
<1>2. \A o \in Users : mem[o].size \in {0, 2} /\ (mem'[o].size = mem[o].size \/ mem'[o].size = 2)
  <2>1. \A o \in Users : mem[o].size \in {0, 2}
    BY <1>1 DEF Objects
  <2>2. mmap_anonymous_shared => UNCHANGED mem
    BY DEF mmap_anonymous_shared
  <2>3. ASSUME NEW u \in Users,
               ipc_posix_sem_create(u) \/ OpenName(u) \/ Unlink(u) \/ ipc_posix_shm_read(u)
        PROVE  UNCHANGED mem
    BY <2>3 DEF ipc_posix_sem_create, OpenName, Unlink, ipc_posix_shm_read
  <2>4. ASSUME NEW u \in Users, sem_wait(u) \/ sem_post(u) \/ ipc_posix_shm_write(u),
               NEW o \in Users
        PROVE  mem'[o].size = mem[o].size \/ mem'[o].size = 2
    BY <1>1, <2>4 DEF sem_wait, sem_post, ipc_posix_shm_write, Objects
  <2>5. ASSUME NEW u \in Users, mmap_file_shared(u), NEW o \in Users
        PROVE  mem'[o].size = mem[o].size
    <3>1. UNCHANGED mem \/ \E c : mem' = [mem EXCEPT ![name].cell = c]
      BY <2>5 DEF mmap_file_shared
    <3> QED
      BY <1>1, <3>1 DEF Objects
  <2> QED
    BY <2>1, <2>2, <2>3, <2>4, <2>5 DEF ShareNext
<1>3. ASSUME NEW v \in Users, us'[v] = us[v], us[v].op = "read", us[v].pc \in {3, 4}
      PROVE  us'[v].size <= mem'[us'[v].obj].size
  <2>1. us[v].obj \in Users
    BY <1>1, <1>3 DEF ShareInv, Created, Allowed, UserRecs, Somebody, errExit
  <2>2. us[v].size <= mem[us[v].obj].size /\ us[v].size \in {0, 2}
    BY <1>1, <1>3 DEF Mapped, UserRecs
  <2> QED
    BY <1>2, <1>3, <2>1, <2>2
<1>4. ASSUME NEW u \in Users, \A v \in Users : v # u => us'[v] = us[v],
             us'[u].op = us[u].op, us[u].op # "read" \/ us'[u].pc \notin {3, 4}
      PROVE  Mapped'
  BY <1>3, <1>4 DEF Mapped
<1>5. ASSUME NEW u \in Users, us[u].op # "read", \E l \in UserPcs : To(u, l) PROVE Mapped'
  BY <1>4, <1>5, UserGoesOn DEF ShareInv
<1>6. CASE mmap_anonymous_shared
  BY <1>3, <1>6 DEF mmap_anonymous_shared, Mapped
<1>7. ASSUME NEW u \in Users, ipc_posix_sem_create(u) \/ sem_wait(u) \/ sem_post(u) \/ Unlink(u)
      PROVE  Mapped'
  <2>1. us[u].op # "read" /\ (To(u, Ended) \/ To(u, errExit))
    BY <1>7 DEF ipc_posix_sem_create, sem_wait, sem_post, Unlink, At
  <2> QED
    BY <1>5, <2>1 DEF UserPcs, Ended, errExit
<1>8. ASSUME NEW u \in Users, OpenName(u) PROVE Mapped'
  BY <1>1, <1>4, <1>8 DEF OpenName, To, UserRecs, errExit
<1>9. ASSUME NEW u \in Users, ipc_posix_shm_write(u) PROVE Mapped'
  BY <1>1, <1>4, <1>9 DEF ipc_posix_shm_write, To, UserRecs
<1>10. ASSUME NEW u \in Users, mmap_file_shared(u) PROVE Mapped'
  <2>1. us[u].op # "read"
    BY <1>10 DEF mmap_file_shared
  <2>2. \/ \E l \in {3, 4, 5} : To(u, l)
        \/ \E l, c : us' = [us EXCEPT ![u].pc = l, ![u].out = c]
    BY <1>10 DEF mmap_file_shared
  <2>3. CASE \E l \in {3, 4, 5} : To(u, l)
    BY <1>5, <2>1, <2>3 DEF UserPcs
  <2>4. CASE \E l, c : us' = [us EXCEPT ![u].pc = l, ![u].out = c]
    <3>1. PICK l, c : us' = [us EXCEPT ![u].pc = l, ![u].out = c]
      BY <2>4
    <3>2. us'[u].op = us[u].op /\ (\A v \in Users : v # u => us'[v] = us[v])
      BY <1>1, <3>1 DEF UserRecs
    <3> QED
      BY <1>4, <2>1, <3>2
  <2> QED
    BY <2>2, <2>3, <2>4
<1>11. ASSUME NEW u \in Users, ipc_posix_shm_read(u) PROVE Mapped'
  <2>0. us[u].op = "read" /\ UNCHANGED mem
    BY <1>11 DEF ipc_posix_shm_read
  <2>1. us'[u].op = us[u].op /\ (\A v \in Users : v # u => us'[v] = us[v])
    BY <1>1, <1>11 DEF ipc_posix_shm_read, To, UserRecs
  <2>2. CASE us[u].pc = 2
    <3>1. us[u].obj \in Users
      BY <1>1, <2>0, <2>2 DEF ShareInv, Created, Allowed, UserRecs, Somebody, errExit
    <3>2. us'[u].size = mem[us[u].obj].size /\ us'[u].obj = us[u].obj
      BY <1>1, <1>11, <2>2 DEF ipc_posix_shm_read, st_size, Obj, UserRecs
    <3>3. us'[u].size <= mem'[us'[u].obj].size
      BY <1>2, <2>0, <3>1, <3>2
    <3> QED
      BY <1>3, <2>1, <3>3 DEF Mapped
  <2>3. CASE us[u].pc = 3 /\ us[u].size > 0
    <3>1. us'[u].size = us[u].size /\ us'[u].obj = us[u].obj
      BY <1>1, <1>11, <2>3 DEF ipc_posix_shm_read, To, UserRecs
    <3>2. us[u].size <= mem[us[u].obj].size
      BY <2>0, <2>3 DEF Mapped
    <3> QED
      BY <1>3, <2>0, <2>1, <3>1, <3>2 DEF Mapped
  <2>4. CASE us'[u].pc \in {Ended, errExit}
    BY <1>4, <2>1, <2>4 DEF Ended, errExit
  <2> QED
    BY <1>1, <1>11, <2>2, <2>3, <2>4 DEF ipc_posix_shm_read, To, UserRecs
<1> QED
  BY <1>6, <1>7, <1>8, <1>9, <1>10, <1>11 DEF ShareNext

(* What the invariant says: what was finished before is seen whole.        *)
LEMMA ShareInvImplies == ShareInv /\ Mapped => ShareTypeOK /\ SeenWhole
<1> SUFFICES ASSUME ShareInv, Mapped PROVE ShareTypeOK /\ SeenWhole
  OBVIOUS
<1> USE DEF ShareInv
<1>1. ShareTypeOK
  <2>1. name \in Users \cup {NoUser}
    BY DEF ShareShape, Somebody
  <2>2. \A o \in Users : mem[o].val >= 0 /\ mem[o].size \in {0, 2}
    BY DEF ShareShape, Objects
  <2>3. sample \in DOMAIN Ops \ {"mmap_file_shared"} => sample \in {"ipc_posix_sem", "ipc_posix_shm"}
    BY DEF Ops
  <2>4. fam.parent \in {"start", "forked", "end", "exit"} /\ fam.child \in {"none", "start", "half", "gone"}
    BY DEF Family
  <2> QED
    BY <2>1, <2>2, <2>3, <2>4 DEF ShareTypeOK, Created
<1>2. ASSUME NEW u \in Users, us[u].op = "read", us[u].pc = Ended
      PROVE  /\ us[u].late => us[u].out = <<us[u].obj, us[u].obj>>
             /\ {us[u].out[1], us[u].out[2]} \subseteq {us[u].obj, NoUser}
  <2>1. us[u].out \in [1..2 -> Somebody]
    BY DEF ShareShape, UserRecs, Pair
  <2>2. KnownTo(u)
    BY <1>2 DEF ReadFrom
  <2>3. us[u].late => us[u].out = <<us[u].obj, us[u].obj>>
    <3>1. us[u].late => us[u].out[1] = us[u].obj /\ us[u].out[2] = us[u].obj
      BY <1>2, <2>2 DEF KnownTo
    <3> QED
      BY <2>1, <3>1
  <2> QED
    BY <2>2, <2>3 DEF KnownTo
<1> QED
  BY <1>1, <1>2 DEF SeenWhole, Mapped, Obj, Family
-----------------------------------------------------------------------------
(* Message queues: whoever looks a queue up finds the first one or one     *)
(* whose creator never changes its id again, so an id is never handed out  *)
(* twice; and a message stays with the queue its sender has read from the  *)
(* file, and with the server that created that queue.                      *)
Pre     == {"msgget", "lookup", "rmid"}
Past    == {"open", "write", "msgrcv", "stat"}
SrvPcs  == Pre \cup Past \cup {"return", "errExit", "killed"}
CliPcs  == {"read", "send1", "send2", "exit", "errExit"}
Letters == {1, 2} \X (Clients \cup {"old"})
MsgShape ==
  /\ key \in Ids \cup {NoQueue} /\ file \in Ids \cup {NoQueue, Empty}
  /\ msq \in [Ids -> [there : BOOLEAN, q : Seq(Letters)]]
  /\ srv \in [Servers -> [pc : SrvPcs, msqid : Ids \cup {NoQueue}]]
  /\ cli \in [Clients -> [pc : CliPcs, msqid : Ids \cup {NoQueue}]]
  /\ rcvd \in [Servers -> Seq(Letters)]
OneQueue == (\A i \in Ids : msq[i].there => i = key) /\ (key # NoQueue => msq[key].there)
Backed(i) == i \in {NoQueue, 1} \/ \E t \in Servers : srv[t].pc \notin Pre /\ srv[t].msqid = i
AllBacked == Backed(key) /\ \A s \in Servers : Backed(srv[s].msqid)
Served(s) == srv[s].pc \in Past \/ rcvd[s] # <<>>
OwnIds ==
  /\ \A s \in Servers : Served(s) => srv[s].pc \notin Pre /\ srv[s].msqid \notin {NoQueue, 1}
  /\ \A s, t \in Servers : s # t /\ Served(s) /\ Served(t) => srv[s].msqid # srv[t].msqid
From(m, i) == m[2] # "old" /\ cli[m[2]].pc # "read" /\ cli[m[2]].msqid = i
Addressed ==
  /\ \A i \in Ids : \A k \in DOMAIN msq[i].q : From(msq[i].q[k], i) \/ (i = 1 /\ msq[i].q[k][2] = "old")
  /\ \A s \in Servers : \A k \in DOMAIN rcvd[s] : From(rcvd[s][k], srv[s].msqid)
MsgInv == MsgShape /\ OneQueue /\ AllBacked /\ OwnIds /\ Addressed

(* Identifiers of queues are numbers from 1 on, and none of them is -1.    *)
LEMMA IdsType == Cardinality(Servers) \in Nat /\ Ids \subseteq Nat /\ 1 \in Ids /\ NoQueue \notin Ids
  BY ServersAssumption, FS_CardinalityType DEF Ids, NoQueue

(* The least element of a set of numbers is one of them.                   *)
LEMMA MinIsMember ==
  ASSUME NEW S \in SUBSET Nat, S # {}
  PROVE  Min(S) \in S
<1> DEFINE R == OpToRel(<, Nat)
<1>1. R = {ss \in Nat \X Nat : ss[1] < ss[2]} /\ IsWellFoundedOn(R, Nat)
  BY NatLessThanWellFounded, Zenon DEF OpToRel
<1> HIDE DEF R
<1>2. \E x \in S : \A y \in S : ~(<<y, x>> \in R)
  BY <1>1, WFMin
<1>3. \A x, y \in Nat : ~(<<y, x>> \in R) => x <= y
  BY <1>1
<1>4. \E x \in S : \A y \in S : x <= y
  BY <1>2, <1>3
<1> QED
  BY <1>4 DEF Min

(* What is left of a queue after one message is taken out was there.       *)
LEMMA RemoveAtKeeps ==
  ASSUME NEW S, NEW s \in Seq(S), NEW k \in 1..Len(s)
  PROVE  /\ RemoveAt(s, k) \in Seq(S)
         /\ \A j \in DOMAIN RemoveAt(s, k) : \E n \in DOMAIN s : RemoveAt(s, k)[j] = s[n]
<1> DEFINE front == SubSeq(s, 1, k - 1)
           back  == SubSeq(s, k + 1, Len(s))
<1>1. /\ front \in Seq(S) /\ Len(front) = k - 1
      /\ \A j \in 1..k - 1 : front[j] = s[j]
  BY ElementOfSeq, SubSeqProperties
<1>2. /\ back \in Seq(S) /\ Len(back) = Len(s) - k
      /\ \A j \in 1..Len(s) - k : back[j] = s[k + j]
  BY ElementOfSeq, SubSeqProperties
<1>3. RemoveAt(s, k) = front \o back
  BY DEF RemoveAt
<1> HIDE DEF front, back
<1>4. /\ front \o back \in Seq(S) /\ Len(front \o back) = Len(front) + Len(back)
      /\ \A j \in 1..Len(front) + Len(back) :
           (front \o back)[j] = IF j <= Len(front) THEN front[j] ELSE back[j - Len(front)]
  BY <1>1, <1>2, ConcatProperties, Zenon
<1>5. Len(front) + Len(back) = Len(s) - 1 /\ Len(s) \in Nat /\ DOMAIN s = 1..Len(s)
  BY <1>1, <1>2
<1>6. ASSUME NEW j \in 1..Len(s) - 1
      PROVE  \E n \in 1..Len(s) : (front \o back)[j] = s[n]
  <2>1. CASE j <= k - 1
    <3>1. (front \o back)[j] = s[j] /\ j \in 1..Len(s)
      BY <1>1, <1>4, <1>5, <2>1
    <3> QED
      BY <3>1
  <2>2. CASE j > k - 1
    <3>1. (front \o back)[j] = back[j - (k - 1)]
      BY <1>1, <1>4, <1>5, <2>2
    <3>2. j - (k - 1) \in 1..Len(s) - k /\ k + (j - (k - 1)) = j + 1 /\ j + 1 \in 1..Len(s)
      BY <1>5, <2>2
    <3>3. back[j - (k - 1)] = s[j + 1]
      BY <1>2, <3>2
    <3> QED
      BY <3>1, <3>2, <3>3
  <2> QED
    BY <2>1, <2>2, <1>5
<1>7. DOMAIN (front \o back) = 1..Len(s) - 1
  BY <1>4, <1>5, LenProperties
<1> QED
  BY <1>3, <1>4, <1>5, <1>6, <1>7

(* A server that has not created a queue yet finds an id nobody has had.   *)
LEMMA SpareId ==
  ASSUME MsgInv, NEW s \in Servers, srv[s].pc \in Pre
  PROVE  Ids \ Used # {}
<1> DEFINE others == Servers \ {s}
           ids    == {srv[t].msqid : t \in others}
           f      == [t \in others |-> srv[t].msqid]
<1>1. Used \subseteq ids \cup {1}
  BY IdsType DEF MsgInv, AllBacked, Backed, Used
<1>2. IsFiniteSet(others) /\ Cardinality(others) = Cardinality(Servers) - 1
  BY ServersAssumption, FS_RemoveElement
<1>3. f \in Surjection(others, ids)
  BY DEF Surjection
<1>4. IsFiniteSet(ids) /\ Cardinality(ids) <= Cardinality(others)
  BY <1>2, <1>3, FS_Surjection
<1>5. IsFiniteSet(ids \cup {1}) /\ Cardinality(ids \cup {1}) <= Cardinality(ids) + 1
  <2>1. Cardinality(ids) \in Nat
    BY <1>4, FS_CardinalityType
  <2>2. IsFiniteSet(ids \cup {1})
        /\ Cardinality(ids \cup {1}) = IF 1 \in ids THEN Cardinality(ids) ELSE Cardinality(ids) + 1
    BY <1>4, FS_AddElement, Zenon
  <2> QED
    BY <2>1, <2>2
<1>6. Cardinality(Used) <= Cardinality(ids \cup {1})
  BY <1>1, <1>5, FS_Subset
<1>7. IsFiniteSet(Ids) /\ Cardinality(Ids) = Cardinality(Servers) + 1
  BY IdsType, FS_Interval DEF Ids
<1>8. IsFiniteSet(Used) /\ Cardinality(Used) \in Nat /\ Cardinality(ids) \in Nat
      /\ Cardinality(ids \cup {1}) \in Nat
  BY <1>1, <1>4, <1>5, FS_Subset, FS_CardinalityType
<1>9. Cardinality(Used) < Cardinality(Ids)
  BY <1>2, <1>4, <1>5, <1>6, <1>7, <1>8, IdsType
<1>10. Used # Ids /\ Used \subseteq Ids
  BY <1>7, <1>8, <1>9 DEF Used
<1> QED
  BY <1>10

(* At first there is no queue, or one with an old message.                 *)
LEMMA MsgInitHolds == MsgInit => MsgInv
<1> SUFFICES ASSUME MsgInit PROVE MsgInv
  OBVIOUS
<1> USE IdsType DEF MsgInit, NoQueue
<1>0. key \in {0, 1} /\ file \in {0, 1} /\ <<1, "old">> \in Letters
  BY DEF Letters
<1>1. \A i \in Ids : /\ msq[i].there <=> i = key
                     /\ msq[i].q = IF i = key THEN << <<1, "old">> >> ELSE <<>>
  OBVIOUS
<1>2. MsgShape
  <2>1. << <<1, "old">> >> \in Seq(Letters) /\ <<>> \in Seq(Letters)
    BY <1>0
  <2>2. msq \in [Ids -> [there : BOOLEAN, q : Seq(Letters)]]
    BY <2>1
  <2>3. rcvd \in [Servers -> Seq(Letters)]
    BY <2>1
  <2> QED
    BY <1>0, <2>2, <2>3 DEF MsgShape, SrvPcs, CliPcs, Pre
<1>3. OneQueue /\ AllBacked
  BY <1>0, <1>1 DEF OneQueue, AllBacked, Backed
<1>4. OwnIds
  BY DEF OwnIds, Served, Past
<1>5. Addressed
  BY <1>0, <1>1 DEF Addressed
<1> QED
  BY <1>2, <1>3, <1>4, <1>5 DEF MsgInv

(* A server that goes on keeps its id; one that has its queue never looks  *)
(* for another.                                                            *)
LEMMA ServerGoesOn ==
  ASSUME MsgInv, NEW s \in Servers, NEW l \in SrvPcs, Goes(s, l), UNCHANGED rcvd,
         srv[s].pc \notin Pre => l \notin Pre, l \in Past => srv[s].pc \in Past,
         key' \in {key, NoQueue}
  PROVE  /\ srv' \in [Servers -> [pc : SrvPcs, msqid : Ids \cup {NoQueue}]]
         /\ \A t \in Servers : /\ srv'[t].msqid = srv[t].msqid
                               /\ srv'[t].pc = IF t = s THEN l ELSE srv[t].pc
         /\ AllBacked' /\ OwnIds'
<1> USE DEF MsgInv
<1>1. /\ srv' \in [Servers -> [pc : SrvPcs, msqid : Ids \cup {NoQueue}]]
      /\ \A t \in Servers : /\ srv'[t].msqid = srv[t].msqid
                            /\ srv'[t].pc = IF t = s THEN l ELSE srv[t].pc
  BY DEF MsgShape, Goes
<1>2. AllBacked'
  BY <1>1 DEF AllBacked, Backed
<1>3. \A t \in Servers : Served(t)' => Served(t)
  BY <1>1 DEF Served
<1>4. OwnIds'
  BY <1>1, <1>3 DEF OwnIds, Served, Pre, Past
<1> QED
  BY <1>1, <1>2, <1>4
(* Steps of a server that leave all queues alone.                          *)
LEMMA QuietServerStep ==
  ASSUME MsgInv, NEW s \in Servers, NEW l \in SrvPcs, Goes(s, l), UNCHANGED <<key, msq, cli, rcvd>>,
         srv[s].pc \notin Pre => l \notin Pre, l \in Past => srv[s].pc \in Past,
         file' \in Ids \cup {NoQueue, Empty}
  PROVE  MsgInv'
<1> USE DEF MsgInv
<1>1. /\ srv' \in [Servers -> [pc : SrvPcs, msqid : Ids \cup {NoQueue}]]
      /\ \A t \in Servers : srv'[t].msqid = srv[t].msqid
      /\ AllBacked' /\ OwnIds'
  BY ServerGoesOn
<1>2. MsgShape' /\ OneQueue'
  BY <1>1 DEF MsgShape, OneQueue
<1>3. Addressed'
  BY <1>1 DEF Addressed, From
<1> QED
  BY <1>1, <1>2, <1>3

(* msgget makes a queue with an id that nobody has had.                    *)
LEMMA CreateQueueStep ==
  ASSUME MsgInv, NEW s \in Servers, srv[s].pc = "msgget", key = NoQueue, Msgget(s)
  PROVE  MsgInv'
<1> USE IdsType DEF MsgInv
<1>1. PICK i \in Ids \ Used : i = Min(Ids \ Used)
  BY SpareId, MinIsMember DEF Pre
<1>2. /\ UNCHANGED <<file, cli, rcvd>> /\ key' = i /\ msq' = [msq EXCEPT ![i].there = TRUE]
      /\ srv' = [srv EXCEPT ![s] = [pc |-> "open", msqid |-> i]]
  BY <1>1 DEF Msgget
<1>3. i # 1 /\ i # NoQueue /\ \A t \in Servers : srv[t].msqid # i
  BY <1>1 DEF Used
<1>4. /\ srv' \in [Servers -> [pc : SrvPcs, msqid : Ids \cup {NoQueue}]]
      /\ \A t \in Servers \ {s} : srv'[t] = srv[t]
      /\ srv'[s].pc = "open" /\ srv'[s].msqid = i
  BY <1>1, <1>2 DEF MsgShape, SrvPcs, Past
<1>5. /\ msq' \in [Ids -> [there : BOOLEAN, q : Seq(Letters)]]
      /\ \A j \in Ids : msq'[j].q = msq[j].q /\ (msq'[j].there <=> (j = i \/ msq[j].there))
  BY <1>1, <1>2 DEF MsgShape
<1>6. MsgShape'
  BY <1>1, <1>2, <1>4, <1>5 DEF MsgShape
<1>7. OneQueue'
  BY <1>1, <1>2, <1>5 DEF OneQueue, NoQueue
<1>8. AllBacked'
  <2>1. \A j : Backed(j) => Backed(j)'
    BY <1>4 DEF Backed, Pre
  <2>2. Backed(i)'
    BY <1>4 DEF Backed, Pre
  <2> QED
    BY <1>2, <1>4, <2>1, <2>2 DEF AllBacked
<1>9. OwnIds'
  <2>1. \A t \in Servers \ {s} : Served(t)' <=> Served(t)
    BY <1>2, <1>4 DEF Served
  <2> QED
    BY <1>3, <1>4, <2>1 DEF OwnIds, Pre
<1>10. Addressed'
  <2>1. rcvd[s] = <<>>
    BY DEF OwnIds, Served, Pre
  <2> QED
    BY <1>2, <1>4, <1>5, <2>1 DEF Addressed, From
<1> QED
  BY <1>6, <1>7, <1>8, <1>9, <1>10

(* A server notes the id of the queue it has found.                        *)
LEMMA LookupStep ==
  ASSUME MsgInv, NEW s \in Servers, Lookup(s)
  PROVE  MsgInv'
<1> USE DEF MsgInv
<1>1. /\ UNCHANGED <<key, msq, file, cli, rcvd>> /\ srv[s].pc = "lookup"
      /\ srv' = [srv EXCEPT ![s] = [pc |-> "rmid", msqid |-> key]]
  BY DEF Lookup
<1>2. /\ srv' \in [Servers -> [pc : SrvPcs, msqid : Ids \cup {NoQueue}]]
      /\ \A t \in Servers \ {s} : srv'[t] = srv[t]
      /\ srv'[s].pc = "rmid" /\ srv'[s].msqid = key
  BY <1>1 DEF MsgShape, SrvPcs, Pre
<1>3. MsgShape' /\ OneQueue'
  BY <1>1, <1>2 DEF MsgShape, OneQueue
<1>4. AllBacked'
  <2>1. \A j : Backed(j) => Backed(j)'
    BY <1>1, <1>2 DEF Backed, Pre
  <2> QED
    BY <1>1, <1>2, <2>1 DEF AllBacked
<1>5. rcvd[s] = <<>>
  BY <1>1 DEF OwnIds, Served, Pre
<1>6. OwnIds'
  <2>1. \A t \in Servers \ {s} : Served(t)' <=> Served(t)
    BY <1>1, <1>2 DEF Served
  <2>2. ~Served(s)'
    BY <1>1, <1>2, <1>5 DEF Served, Past
  <2> QED
    BY <1>2, <2>1, <2>2 DEF OwnIds
<1>7. Addressed'
  BY <1>1, <1>2, <1>5 DEF Addressed, From
<1> QED
  BY <1>3, <1>4, <1>6, <1>7

(* Removing a queue.                                                       *)
LEMMA RmidStep ==
  ASSUME MsgInv, NEW s \in Servers, Rmid(s), Exists(srv[s].msqid)
  PROVE  MsgInv'
<1> USE DEF MsgInv
<1> DEFINE i == srv[s].msqid
<1>1. /\ UNCHANGED <<file, cli, rcvd>> /\ srv[s].pc = "rmid" /\ key' = NoQueue /\ Goes(s, "msgget")
      /\ msq' = [msq EXCEPT ![i] = [there |-> FALSE, q |-> <<>>]] /\ i \in Ids /\ msq[i].there
  BY DEF Rmid, Exists
<1>2. /\ srv' \in [Servers -> [pc : SrvPcs, msqid : Ids \cup {NoQueue}]]
      /\ \A t \in Servers : srv'[t].msqid = srv[t].msqid
      /\ AllBacked' /\ OwnIds'
  BY <1>1, ServerGoesOn DEF SrvPcs, Pre, Past
<1>3. /\ msq' \in [Ids -> [there : BOOLEAN, q : Seq(Letters)]]
      /\ \A j \in Ids : j # i => msq'[j] = msq[j]
      /\ ~msq'[i].there /\ msq'[i].q = <<>>
  <2>1. msq \in [Ids -> [there : BOOLEAN, q : Seq(Letters)]] /\ <<>> \in Seq(Letters)
    BY DEF MsgShape
  <2>2. [there |-> FALSE, q |-> <<>>] \in [there : BOOLEAN, q : Seq(Letters)]
    BY <2>1
  <2>3. msq' \in [Ids -> [there : BOOLEAN, q : Seq(Letters)]]
    BY <1>1, <2>1, <2>2
  <2>4. ASSUME NEW j \in Ids, j # i PROVE msq'[j] = msq[j]
    BY <1>1, <2>1, <2>4
  <2>5. msq'[i] = [there |-> FALSE, q |-> <<>>]
    BY <1>1, <2>1
  <2>6. ~msq'[i].there /\ msq'[i].q = <<>>
    BY <2>5
  <2> QED
    BY <2>3, <2>4, <2>6
<1>4. MsgShape'
  BY <1>1, <1>2, <1>3 DEF MsgShape
<1>5. OneQueue'
  BY <1>1, <1>3 DEF OneQueue
<1>6. Addressed'
  BY <1>1, <1>2, <1>3 DEF Addressed, From
<1> QED
  BY <1>2, <1>4, <1>5, <1>6
(* A server takes a message out of its own queue.                          *)
LEMMA ReceiveStep ==
  ASSUME MsgInv, NEW s \in Servers, Msgrcv(s), Exists(srv[s].msqid)
  PROVE  MsgInv'
<1> USE DEF MsgInv
<1>1. PICK i \in Ids : i = srv[s].msqid
  BY DEF Exists
<1>2. i # 1 /\ srv[s].pc = "msgrcv"
  BY <1>1 DEF Msgrcv, OwnIds, Served, Past
<1>3. msq[i].q \in Seq(Letters) /\ msgtyp(msq[i].q) # {}
  BY <1>1 DEF Msgrcv, MsgShape
<1>4. PICK k \in 1..Len(msq[i].q) : k = Min(msgtyp(msq[i].q))
  <2>1. DOMAIN msq[i].q = 1..Len(msq[i].q) /\ Len(msq[i].q) \in Nat
    BY <1>3, LenProperties
  <2>2. msgtyp(msq[i].q) \subseteq 1..Len(msq[i].q)
    BY <2>1 DEF msgtyp
  <2>3. msgtyp(msq[i].q) \in SUBSET Nat
    BY <2>1, <2>2
  <2> HIDE DEF msgtyp
  <2>4. Min(msgtyp(msq[i].q)) \in msgtyp(msq[i].q)
    BY <1>3, <2>3, MinIsMember
  <2> QED
    BY <2>2, <2>4
<1> DEFINE m == msq[i].q[k]
           r == RemoveAt(msq[i].q, k)
<1>5. /\ UNCHANGED <<key, file, cli>> /\ Goes(s, "stat")
      /\ rcvd' = [rcvd EXCEPT ![s] = Append(@, m)] /\ msq' = [msq EXCEPT ![i].q = r]
  BY <1>1, <1>2, <1>4 DEF Msgrcv, Exists
<1>6. m \in Letters /\ From(m, i)
  BY <1>2, <1>3, <1>4 DEF Addressed
<1>7. r \in Seq(Letters) /\ \A j \in DOMAIN r : From(r[j], i)
  BY <1>2, <1>3, <1>4, RemoveAtKeeps DEF Addressed
<1> HIDE DEF r
<1>8. /\ srv' \in [Servers -> [pc : SrvPcs, msqid : Ids \cup {NoQueue}]]
      /\ \A t \in Servers : srv'[t].msqid = srv[t].msqid
                              /\ srv'[t].pc = IF t = s THEN "stat" ELSE srv[t].pc
  BY <1>5 DEF MsgShape, Goes, SrvPcs, Past
<1>9. /\ msq' \in [Ids -> [there : BOOLEAN, q : Seq(Letters)]]
      /\ \A j \in Ids : j # i => msq'[j] = msq[j]
      /\ msq'[i].q = r /\ (msq'[i].there <=> msq[i].there)
  BY <1>5, <1>7 DEF MsgShape
<1>10. /\ rcvd' \in [Servers -> Seq(Letters)]
       /\ \A t \in Servers : t # s => rcvd'[t] = rcvd[t]
       /\ \A j \in DOMAIN rcvd'[s] : rcvd'[s][j] = m \/ (j \in DOMAIN rcvd[s] /\ rcvd'[s][j] = rcvd[s][j])
  <2>1. rcvd[s] \in Seq(Letters) /\ rcvd'[s] = Append(rcvd[s], m)
    BY <1>5 DEF MsgShape
  <2>2. /\ Append(rcvd[s], m) \in Seq(Letters)
        /\ \A j \in DOMAIN Append(rcvd[s], m) :
             Append(rcvd[s], m)[j] = m \/ (j \in DOMAIN rcvd[s] /\ Append(rcvd[s], m)[j] = rcvd[s][j])
    BY <1>6, <2>1, AppendProperties
  <2> QED
    BY <1>5, <2>1, <2>2 DEF MsgShape
<1>11. MsgShape' /\ OneQueue'
  <2>1. MsgShape'
    BY <1>5, <1>8, <1>9, <1>10 DEF MsgShape
  <2>2. OneQueue'
    BY <1>1, <1>5, <1>9 DEF OneQueue, MsgShape
  <2> QED
    BY <2>1, <2>2
<1>12. AllBacked'
  BY <1>2, <1>5, <1>8 DEF AllBacked, Backed, Pre
<1>13. OwnIds'
  <2>1. \A t \in Servers : Served(t)' => Served(t)
    BY <1>2, <1>8, <1>10 DEF Served, Past
  <2> QED
    BY <1>2, <1>8, <2>1 DEF OwnIds, Pre
<1>14. Addressed'
  <2>1. \A x, j : From(x, j)' <=> From(x, j)
    BY <1>5 DEF From
  <2>2. ASSUME NEW j \in Ids, NEW n \in DOMAIN msq'[j].q
        PROVE  From(msq'[j].q[n], j) \/ (j = 1 /\ msq'[j].q[n][2] = "old")
    BY <1>7, <1>9 DEF Addressed
  <2>3. ASSUME NEW t \in Servers, NEW n \in DOMAIN rcvd'[t]
        PROVE  From(rcvd'[t][n], srv[t].msqid)
    BY <1>1, <1>6, <1>10 DEF Addressed
  <2> QED
    BY <1>8, <2>1, <2>2, <2>3 DEF Addressed
<1> QED
  BY <1>11, <1>12, <1>13, <1>14

(* A client learns the id from the file before it has sent anything.       *)
LEMMA ReadIdStep ==
  ASSUME MsgInv, NEW c \in Clients, ReadIdFile(c)
  PROVE  MsgInv'
<1> USE DEF MsgInv
<1>1. UNCHANGED <<key, msq, file, srv, rcvd>> /\ cli[c].pc = "read"
  BY DEF ReadIdFile
<1>2. cli' \in [Clients -> [pc : CliPcs, msqid : Ids \cup {NoQueue}]]
      /\ \A d \in Clients : d # c => cli'[d] = cli[d]
  BY DEF ReadIdFile, MsgShape, CliPcs
<1>3. ASSUME NEW x \in Letters, NEW i, From(x, i) PROVE From(x, i)'
  <2>1. x[2] \in Clients /\ x[2] # c
    BY <1>1, <1>3 DEF From, Letters
  <2> QED
    BY <1>2, <1>3, <2>1 DEF From
<1>4. MsgShape' /\ OneQueue'
  BY <1>1, <1>2 DEF MsgShape, OneQueue
<1>5. AllBacked' /\ OwnIds'
  BY <1>1 DEF AllBacked, Backed, OwnIds, Served
<1>6. Addressed'
  <2>1. \A i \in Ids : \A k \in DOMAIN msq[i].q : msq[i].q[k] \in Letters
    BY DEF MsgShape
  <2>2. \A s \in Servers : \A k \in DOMAIN rcvd[s] : rcvd[s][k] \in Letters
    BY DEF MsgShape
  <2> QED
    BY <1>1, <1>3, <2>1, <2>2 DEF Addressed
<1> QED
  BY <1>4, <1>5, <1>6

(* A client sends to the queue it has read of, while it exists.            *)
LEMMA SendStep ==
  ASSUME MsgInv, NEW c \in Clients, NEW type \in {1, 2}, NEW now \in CliPcs \ {"read"},
         NEW next \in CliPcs \ {"read"}, Msgsnd(c, type, now, next)
  PROVE  MsgInv'
<1> USE DEF MsgInv
<1>1. PICK i : i = cli[c].msqid
  OBVIOUS
<1>2. UNCHANGED <<key, file, srv, rcvd>> /\ cli[c].pc # "read"
  BY DEF Msgsnd
<1>3. /\ cli' \in [Clients -> [pc : CliPcs, msqid : Ids \cup {NoQueue}]]
      /\ \A d \in Clients : /\ cli'[d].msqid = cli[d].msqid
                            /\ cli[d].pc # "read" => cli'[d].pc # "read"
  <2>1. PICK l \in CliPcs \ {"read"} : cli' = [cli EXCEPT ![c].pc = l]
    BY DEF Msgsnd, CliPcs
  <2> QED
    BY <2>1 DEF MsgShape
<1>4. \A x \in Letters : \A j : From(x, j) => From(x, j)'
  BY <1>3 DEF From, Letters
<1>5. /\ msq' \in [Ids -> [there : BOOLEAN, q : Seq(Letters)]]
      /\ \A j \in Ids : /\ msq'[j].there <=> msq[j].there
                        /\ \A k \in DOMAIN msq'[j].q :
                             \/ k \in DOMAIN msq[j].q /\ msq'[j].q[k] = msq[j].q[k]
                             \/ j = i /\ msq'[j].q[k] = <<type, c>>
  <2>0. msq \in [Ids -> [there : BOOLEAN, q : Seq(Letters)]]
    BY DEF MsgShape
  <2>1. CASE Exists(i)
    <3> DEFINE new == Append(msq[i].q, <<type, c>>)
    <3>1. i \in Ids /\ msq' = [msq EXCEPT ![i].q = new]
      BY <1>1, <2>1 DEF Msgsnd, Exists
    <3>2. /\ new \in Seq(Letters)
          /\ \A k \in DOMAIN new : (k \in DOMAIN msq[i].q /\ new[k] = msq[i].q[k]) \/ new[k] = <<type, c>>
      <4>1. msq[i].q \in Seq(Letters) /\ <<type, c>> \in Letters
        BY <2>0, <3>1 DEF Letters
      <4> QED
        BY <4>1, AppendProperties
    <3> HIDE DEF new
    <3>3. /\ msq' \in [Ids -> [there : BOOLEAN, q : Seq(Letters)]]
          /\ \A j \in Ids : j # i => msq'[j] = msq[j]
          /\ msq'[i].q = new /\ (msq'[i].there <=> msq[i].there)
      BY <2>0, <3>1, <3>2
    <3> QED
      BY <3>2, <3>3
  <2>2. CASE ~Exists(i)
    BY <1>1, <2>0, <2>2 DEF Msgsnd
  <2> QED
    BY <2>1, <2>2
<1>6. MsgShape' /\ OneQueue'
  <2>1. MsgShape'
    BY <1>2, <1>3, <1>5 DEF MsgShape
  <2>2. OneQueue'
    BY <1>2, <1>5 DEF OneQueue, MsgShape
  <2> QED
    BY <2>1, <2>2
<1>7. AllBacked' /\ OwnIds'
  BY <1>2 DEF AllBacked, Backed, OwnIds, Served
<1>8. Addressed'
  <2>1. \A j \in Ids : \A k \in DOMAIN msq[j].q : msq[j].q[k] \in Letters
    BY DEF MsgShape
  <2>2. \A s \in Servers : \A k \in DOMAIN rcvd[s] : rcvd[s][k] \in Letters
    BY DEF MsgShape
  <2>3. From(<<type, c>>, i)'
    BY <1>1, <1>2, <1>3, ServersAssumption DEF From
  <2>4. ASSUME NEW j \in Ids, NEW n \in DOMAIN msq'[j].q, NEW x, x = msq'[j].q[n]
        PROVE  From(x, j)' \/ (j = 1 /\ x[2] = "old")
    <3>1. CASE n \in DOMAIN msq[j].q /\ msq'[j].q[n] = msq[j].q[n]
      BY <1>4, <2>1, <2>4, <3>1 DEF Addressed
    <3>2. CASE j = i /\ msq'[j].q[n] = <<type, c>>
      BY <2>3, <2>4, <3>2
    <3> QED
      BY <1>5, <3>1, <3>2
  <2>5. ASSUME NEW s \in Servers, NEW n \in DOMAIN rcvd[s]
        PROVE  From(rcvd[s][n], srv[s].msqid)'
    BY <1>2, <1>4, <2>2 DEF Addressed
  <2> QED
    BY <1>2, <2>4, <2>5 DEF Addressed
<1> QED
  BY <1>6, <1>7, <1>8

(* Every step of a server or a client keeps the invariant.                 *)
LEMMA MsgKept ==
  ASSUME MsgInv, MsgNext
  PROVE  MsgInv'
<1> USE DEF SrvPcs, Pre, Past
<1>0. file \in Ids \cup {NoQueue, Empty} /\ \A s \in Servers : srv[s].msqid \in Ids \cup {NoQueue}
  BY DEF MsgInv, MsgShape
<1>1. ASSUME NEW s \in Servers, Msgget(s) PROVE MsgInv'
  <2>1. CASE key = NoQueue
    BY <1>1, <2>1, CreateQueueStep DEF Msgget
  <2>2. CASE key # NoQueue
    BY <1>0, <1>1, <2>2, QuietServerStep DEF Msgget
  <2> QED
    BY <2>1, <2>2
<1>2. ASSUME NEW s \in Servers, Rmid(s) PROVE MsgInv'
  <2>1. CASE Exists(srv[s].msqid)
    BY <1>2, <2>1, RmidStep
  <2>2. CASE ~Exists(srv[s].msqid)
    BY <1>0, <1>2, <2>2, QuietServerStep DEF Rmid
  <2> QED
    BY <2>1, <2>2
<1>3. ASSUME NEW s \in Servers, OpenIdFile(s) \/ WriteIdFile(s) \/ IpcStat(s) \/ KillServer(s)
      PROVE  MsgInv'
  <2>1. /\ UNCHANGED <<key, msq, cli, rcvd>> /\ file' \in Ids \cup {NoQueue, Empty}
        /\ \/ Goes(s, "killed") \/ Goes(s, "errExit")
           \/ srv[s].pc \in Past /\ \E l \in {"write", "msgrcv"} : Goes(s, l)
    BY <1>0, <1>3 DEF OpenIdFile, WriteIdFile, IpcStat, KillServer
  <2> QED
    BY <2>1, QuietServerStep
<1>4. ASSUME NEW s \in Servers, Msgrcv(s) PROVE MsgInv'
  <2>1. CASE Exists(srv[s].msqid)
    BY <1>4, <2>1, ReceiveStep
  <2>2. CASE ~Exists(srv[s].msqid)
    BY <1>0, <1>4, <2>2, QuietServerStep DEF Msgrcv
  <2> QED
    BY <2>1, <2>2
<1>5. ASSUME NEW c \in Clients, ClientStep(c) PROVE MsgInv'
  BY <1>5, ReadIdStep, SendStep DEF ClientStep, CliPcs
<1> QED
  BY <1>1, <1>2, <1>3, <1>4, <1>5, LookupStep DEF MsgNext, ServerStep

(* What the invariant says: no two servers share a queue or a message.     *)
LEMMA MsgInvImplies == MsgInv => MsgTypeOK /\ OwnQueue
<1> SUFFICES ASSUME MsgInv PROVE MsgTypeOK /\ OwnQueue
  OBVIOUS
<1> USE DEF MsgInv
<1>1. MsgTypeOK
  <2>1. \A s \in Servers : srv[s].pc \in Past => srv[s].msqid # NoQueue
    BY DEF OwnIds, Served
  <2> QED
    BY <2>1 DEF MsgTypeOK, MsgShape, OneQueue, SrvPcs, Pre, Past, CliPcs
<1>2. \A s \in Servers : \A m \in ToSet(rcvd[s]) : From(m, srv[s].msqid) /\ rcvd[s] # <<>>
  BY DEF Addressed, ToSet, MsgShape
<1> QED
  BY <1>1, <1>2 DEF OwnQueue, OwnIds, Served, Past, From
-----------------------------------------------------------------------------
(* Waiting for input.  What an event says of an input that is not read any *)
(* more stays true: after a hang-up with nothing left to read, only a      *)
(* later writer can put something there.                                   *)
Texts    == {"first", "later", "text", "nl", "old"}
Counts   == 0..MaxChunks
Gens     == 0..MaxOpens
IoPcs    == {"start", "wait", "handle", "read", "sleep", "drain", "end", "errExit"}
SrcRec   == [buf : Seq(Texts), n : Counts, up : BOOLEAN, gen : Gens]
Events   == [fd : Inputs, in : BOOLEAN, hup : BOOLEAN]
IoRec    == [pc : IoPcs, fds : SUBSET Inputs, evs : Seq(Events), ready : Nat,
             got_sig_io : BOOLEAN, first : Texts \cup {"none"}]
EventShape == src \in [Inputs -> SrcRec] /\ io \in IoRec
Opened(i)  == src[i].gen # 0
NoFirst(i) == /\ \A k \in DOMAIN src[i].buf : src[i].buf[k] # "first"
              /\ src[i].up => src[i].gen # 1
OnlyOld    == \A k \in DOMAIN src[1].buf : src[1].buf[k] = "old"
\* Which sample can be where, and the FIFOs it has opened on the way.
Places ==
  /\ io.pc = "start" => io.fds = {} \/ (io.fds = {1} /\ sample = "alt_io_epoll")
  /\ io.pc = "handle" => sample = "alt_io_epoll" /\ io.evs # <<>>
  /\ io.pc # "handle" => io.evs = <<>>
  /\ io.pc \in {"sleep", "drain"} => sample = "alt_io_signal"
  /\ io.pc \in {"wait", "read", "handle"} => Opened(1)
  /\ \A i \in io.fds : Opened(i)
Reported(e) == e.fd \in io.fds /\ (e.in => src[e.fd].buf # <<>>) /\ (closing(e) => NoFirst(e.fd))
EventsTrue ==
  /\ \A j \in DOMAIN io.evs : Reported(io.evs[j])
  /\ \A j, k \in DOMAIN io.evs : j # k => io.evs[j].fd # io.evs[k].fd
ClosedEmpty ==
  sample = "alt_io_epoll" /\ io.pc \notin {"start", "errExit"} => \A i \in Inputs \ io.fds : NoFirst(i)
Typed ==
  /\ sample = "alt_io_signal" /\ io.pc = "start" => OnlyOld
  /\ io.pc = "sleep" /\ ~io.got_sig_io => OnlyOld \/ io.first = "nl"
EventInv == EventShape /\ Places /\ EventsTrue /\ ClosedEmpty /\ Typed

(* The elements of a concatenation come from its parts.                    *)
LEMMA ConcatElements ==
  ASSUME NEW S, NEW s \in Seq(S), NEW w \in Seq(S)
  PROVE  /\ s \o w \in Seq(S)
         /\ s # <<>> => s \o w # <<>>
         /\ \A k \in DOMAIN (s \o w) : \/ \E j \in DOMAIN s : (s \o w)[k] = s[j]
                                       \/ \E j \in DOMAIN w : (s \o w)[k] = w[j]
<1>1. /\ s \o w \in Seq(S) /\ Len(s \o w) = Len(s) + Len(w)
      /\ \A k \in 1..Len(s) + Len(w) :
           (s \o w)[k] = IF k <= Len(s) THEN s[k] ELSE w[k - Len(s)]
  BY ConcatProperties, Zenon
<1>2. Len(s) \in Nat /\ Len(w) \in Nat /\ DOMAIN s = 1..Len(s) /\ DOMAIN w = 1..Len(w)
      /\ DOMAIN (s \o w) = 1..Len(s) + Len(w)
  BY <1>1, LenProperties
<1>3. s # <<>> => s \o w # <<>>
  <2>1. s # <<>> => Len(s) # 0
    BY EmptySeq
  <2> QED
    BY <1>1, <1>2, <2>1
<1>4. ASSUME NEW k \in 1..Len(s) + Len(w)
      PROVE  \/ \E j \in DOMAIN s : (s \o w)[k] = s[j]
             \/ \E j \in DOMAIN w : (s \o w)[k] = w[j]
  <2>1. CASE k <= Len(s)
    BY <1>1, <1>2, <2>1
  <2>2. CASE ~(k <= Len(s))
    <3>1. (s \o w)[k] = w[k - Len(s)] /\ k - Len(s) \in 1..Len(w)
      BY <1>1, <1>2, <2>2
    <3> QED
      BY <1>2, <3>1
  <2> QED
    BY <2>1, <2>2
<1> QED
  BY <1>1, <1>2, <1>3, <1>4

(* Taking the first element off a sequence leaves the others.              *)
LEMMA TailElements ==
  ASSUME NEW S, NEW s \in Seq(S), s # <<>>
  PROVE  /\ Head(s) \in S /\ Tail(s) \in Seq(S) /\ Len(Tail(s)) = Len(s) - 1 /\ Len(s) \in Nat \ {0}
         /\ DOMAIN s = 1..Len(s) /\ DOMAIN Tail(s) = 1..Len(s) - 1 /\ Head(s) = s[1]
         /\ \A k \in DOMAIN Tail(s) : k + 1 \in DOMAIN s /\ k \in Nat /\ k + 1 # 1 /\ Tail(s)[k] = s[k + 1]
<1>1. Len(s) \in Nat /\ Len(s) # 0 /\ DOMAIN s = 1..Len(s)
  BY LenProperties, EmptySeq
<1>2. /\ Head(s) \in S /\ Head(s) = s[1] /\ Tail(s) \in Seq(S) /\ Len(Tail(s)) = Len(s) - 1
      /\ \A k \in 1..Len(Tail(s)) : Tail(s)[k] = s[k + 1]
  BY <1>1, HeadTailProperties, ElementOfSeq
<1>3. DOMAIN Tail(s) = 1..Len(s) - 1
  BY <1>2, LenProperties
<1> QED
  BY <1>1, <1>2, <1>3

(* Nothing has been opened or written when a sample begins.                *)
LEMMA EventInitHolds == EventInit => EventInv
<1> SUFFICES ASSUME EventInit PROVE EventInv
  OBVIOUS
<1>1. 0 \in Counts /\ 0 \in Gens
  BY EventAssumption DEF Counts, Gens
<1>2. <<>> \in Seq(Texts) /\ <<>> \in Seq(Events)
  OBVIOUS
<1>3. src \in [Inputs -> SrcRec]
  BY <1>1, <1>2 DEF EventInit, SrcRec
<1>4. io \in IoRec
  BY <1>2 DEF EventInit, IoRec, IoPcs, Inputs
<1>5. io.pc = "start" /\ io.fds = {} /\ io.evs = <<>> /\ \A i \in Inputs : src[i].buf = <<>>
  BY DEF EventInit
<1>6. Places /\ EventsTrue /\ ClosedEmpty
  BY <1>5 DEF Places, EventsTrue, ClosedEmpty
<1>7. Typed
  BY <1>5 DEF Typed, OnlyOld, Inputs
<1> QED
  BY <1>3, <1>4, <1>6, <1>7 DEF EventInv, EventShape

(* Somebody writes to an input.                                            *)
LEMMA WriteInputStep ==
  ASSUME EventInv, NEW i \in Inputs, WriteInput(i)
  PROVE  EventInv'
<1> USE DEF EventInv
<1>0. PICK w \in Written(i) : src' = [src EXCEPT ![i].buf = @ \o w, ![i].n = @ + 1]
  BY DEF WriteInput
<1>1. /\ w \in Seq(Texts)
      /\ sample = "alt_io_epoll" /\ src[i].gen # 1 => \A k \in DOMAIN w : w[k] # "first"
      /\ sample = "alt_io_signal" /\ io.pc = "start" => \A k \in DOMAIN w : w[k] = "old"
  <2>1. w \in {<<"first">>, <<"later">>, <<"old">>, <<"text">>, <<"text", "nl">>}
    BY <1>0 DEF Written
  <2>2. sample = "alt_io_epoll" /\ src[i].gen # 1 => w = <<"later">>
    BY <1>0 DEF Written, FifoSamples
  <2>3. sample = "alt_io_signal" /\ io.pc = "start" => w = <<"old">>
    BY <1>0 DEF Written, FifoSamples, SelectSamples
  <2>4. w \in Seq(Texts)
    <3>1. <<"first">> \in Seq(Texts) /\ <<"later">> \in Seq(Texts) /\ <<"old">> \in Seq(Texts)
      BY DEF Texts
    <3>2. <<"text">> \in Seq(Texts) /\ <<"text", "nl">> \in Seq(Texts)
      BY DEF Texts
    <3> QED
      BY <2>1, <3>1, <3>2
  <2>5. \A k \in DOMAIN <<"later">> : <<"later">>[k] # "first"
    OBVIOUS
  <2>6. \A k \in DOMAIN <<"old">> : <<"old">>[k] = "old"
    OBVIOUS
  <2> QED
    BY <2>2, <2>3, <2>4, <2>5, <2>6
<1> DEFINE b == src[i].buf \o w
<1>2. src[i] \in SrcRec /\ src[i].buf \in Seq(Texts) /\ src[i].n + 1 \in Counts /\ src[i].up
  BY DEF EventShape, SrcRec, WriteInput, Counts
<1>3. /\ b \in Seq(Texts) /\ (src[i].buf # <<>> => b # <<>>)
      /\ \A k \in DOMAIN b : \/ \E j \in DOMAIN src[i].buf : b[k] = src[i].buf[j]
                             \/ \E j \in DOMAIN w : b[k] = w[j]
  BY <1>1, <1>2, ConcatElements, Zenon
<1> DEFINE r == [src[i] EXCEPT !.buf = b, !.n = src[i].n + 1]
<1>4. src' = [src EXCEPT ![i] = r]
  BY <1>0
<1> HIDE DEF b
<1>5. r \in SrcRec /\ r.buf = b /\ r.up = src[i].up /\ r.gen = src[i].gen
  BY <1>2, <1>3 DEF SrcRec
<1> HIDE DEF r
<1>6. src' \in [Inputs -> SrcRec] /\ src'[i] = r /\ \A j \in Inputs : j # i => src'[j] = src[j]
  BY <1>4, <1>5 DEF EventShape
<1>7. /\ io' \in IoRec /\ io'.pc = io.pc /\ io'.fds = io.fds /\ io'.evs = io.evs
      /\ io'.first = io.first /\ (io'.got_sig_io <=> (io.got_sig_io \/ (sample = "alt_io_signal" /\ io.pc # "start")))
      /\ sample' = sample
  BY DEF WriteInput, sigio_handler, EventShape, IoRec
<1>8. /\ \A j \in Inputs : Opened(j) => Opened(j)'
      /\ \A j \in Inputs : src[j].buf # <<>> => src'[j].buf # <<>>
  BY <1>3, <1>5, <1>6 DEF Opened
<1>9. sample = "alt_io_epoll" => \A j \in Inputs : NoFirst(j) => NoFirst(j)'
  <2> SUFFICES ASSUME sample = "alt_io_epoll", NEW j \in Inputs, NoFirst(j)
               PROVE  NoFirst(j)'
    OBVIOUS
  <2>1. CASE j # i
    <3>1. src'[j] = src[j]
      BY <1>6, <2>1
    <3> QED
      BY <3>1, Zenon DEF NoFirst
  <2>2. CASE j = i
    <3>1. src'[j].buf = b /\ src'[j].up = src[j].up /\ src'[j].gen = src[j].gen
      BY <1>5, <1>6, <2>2, Zenon
    <3>2. src[j].gen # 1
      BY <1>2, <2>2 DEF NoFirst
    <3>3. \A k \in DOMAIN src[i].buf : src[i].buf[k] # "first"
      BY <2>2, Zenon DEF NoFirst
    <3>4. \A k \in DOMAIN w : w[k] # "first"
      BY <1>1, <2>2, <3>2, Zenon
    <3>5. \A k \in DOMAIN b : b[k] # "first"
      BY <1>3, <3>3, <3>4, Zenon
    <3> QED
      BY <3>1, <3>2, <3>5, Zenon DEF NoFirst
  <2> QED
    BY <2>1, <2>2
<1>10. EventShape' /\ Places'
  BY <1>6, <1>7, <1>8 DEF EventShape, Places, Inputs, IoRec
<1>11. EventsTrue'
  <2>1. CASE io.pc = "handle"
    <3>1. \A e \in Events : Reported(e) => Reported(e)'
      BY <1>7, <1>8, <1>9, <2>1 DEF Reported, Events, Places, closing
    <3>2. \A j \in DOMAIN io.evs : io.evs[j] \in Events
      BY DEF EventShape, IoRec
    <3> QED
      BY <1>7, <3>1, <3>2 DEF EventsTrue
  <2>2. CASE io.pc # "handle"
    BY <1>7, <2>2 DEF EventsTrue, Places
  <2> QED
    BY <2>1, <2>2
<1>12. ClosedEmpty'
  BY <1>7, <1>9 DEF ClosedEmpty
<1>13. Typed'
  <2>1. sample = "alt_io_signal" /\ io.pc = "start" /\ OnlyOld => OnlyOld'
    BY <1>1, <1>3, <1>5, <1>6 DEF OnlyOld, Inputs
  <2> QED
    BY <1>7, <2>1 DEF Typed, Places
<1> QED
  BY <1>10, <1>11, <1>12, <1>13

(* A writer hangs up, or another one comes.                                *)
LEMMA WriterStep ==
  ASSUME EventInv, NEW i \in Inputs, HangUp(i) \/ WriterComesBack(i)
  PROVE  EventInv'
<1> USE DEF EventInv
<1>1. PICK u \in BOOLEAN, g \in Gens :
        /\ src' = [src EXCEPT ![i] = [src[i] EXCEPT !.up = u, !.gen = g]]
        /\ u => i \in io.fds /\ g # 0 /\ g # 1
        /\ ~u => g = src[i].gen
  <2>1. src[i] \in SrcRec /\ src[i].gen \in Gens
    BY DEF EventShape, SrcRec
  <2>2. CASE HangUp(i)
    <3>1. src' = [src EXCEPT ![i] = [src[i] EXCEPT !.up = FALSE, !.gen = src[i].gen]]
      BY <2>1, <2>2 DEF HangUp, EventShape, SrcRec
    <3> QED
      BY <2>1, <3>1
  <2>3. CASE WriterComesBack(i)
    <3>1. src' = [src EXCEPT ![i] = [src[i] EXCEPT !.up = TRUE, !.gen = src[i].gen + 1]] /\ i \in io.fds
      BY <2>3 DEF WriterComesBack
    <3>2. src[i].gen + 1 \in Gens /\ src[i].gen + 1 # 0 /\ src[i].gen + 1 # 1
      BY <2>1, <2>3, EventAssumption DEF WriterComesBack, Places, Opened, Gens
    <3> QED
      BY <3>1, <3>2
  <2> QED
    BY <2>2, <2>3
<1>2. UNCHANGED <<sample, io>>
  BY DEF HangUp, WriterComesBack
<1>3. /\ src' \in [Inputs -> SrcRec] /\ \A j \in Inputs : src'[j].buf = src[j].buf
      /\ \A j \in Inputs : j # i => src'[j] = src[j]
      /\ (src'[i].up <=> u) /\ src'[i].gen = g
  BY <1>1 DEF EventShape, SrcRec
<1>4. \A j \in Inputs : (NoFirst(j) => NoFirst(j)') /\ (Opened(j) => Opened(j)')
  BY <1>1, <1>3 DEF NoFirst, Opened
<1>5. EventShape' /\ Places'
  BY <1>2, <1>3, <1>4 DEF EventShape, Places, Inputs, IoRec
<1>6. EventsTrue'
  <2>1. \A e \in Events : Reported(e) => Reported(e)'
    BY <1>2, <1>3, <1>4 DEF Reported, Events, closing
  <2>2. \A j \in DOMAIN io.evs : io.evs[j] \in Events
    BY DEF EventShape, IoRec
  <2> QED
    BY <1>2, <2>1, <2>2 DEF EventsTrue
<1>7. ClosedEmpty'
  BY <1>2, <1>4 DEF ClosedEmpty
<1>8. Typed'
  BY <1>2, <1>3 DEF Typed, OnlyOld, Inputs
<1> QED
  BY <1>5, <1>6, <1>7, <1>8

(* The reader opens the next FIFO.                                         *)
LEMMA OpenFifoStep ==
  ASSUME EventInv, sample \in FifoSamples, io.pc = "start", UNCHANGED sample,
         NEW i, i = Cardinality(io.fds) + 1,
         src' = [src EXCEPT ![i].up = TRUE, ![i].gen = 1],
         io' = [io EXCEPT !.fds = @ \cup {i}, !.pc = IF i = NumFifos THEN "wait" ELSE @]
  PROVE  EventInv'
<1> USE DEF EventInv
<1>0. Cardinality({}) + 1 = 1 /\ Cardinality({1}) + 1 = 2 /\ 1 \in Gens
  <2>1. Cardinality({}) = 0
    BY FS_EmptySet, Zenon
  <2>2. Cardinality({1}) = 1
    BY FS_Singleton, Zenon
  <2> QED
    BY <2>1, <2>2, EventAssumption DEF Gens
<1>1. /\ i \in Inputs
      /\ \/ io.fds = {} /\ i = 1
         \/ io.fds = {1} /\ i = 2 /\ sample = "alt_io_epoll"
  <2>1. io.fds = {} \/ (io.fds = {1} /\ sample = "alt_io_epoll")
    BY DEF Places
  <2>2. CASE io.fds = {}
    <3>1. i = 1
      BY <1>0, <2>2, Zenon
    <3> QED
      BY <2>2, <3>1 DEF Inputs
  <2>3. CASE io.fds = {1}
    BY <1>0, <2>1, <2>3 DEF Inputs
  <2> QED
    BY <2>1, <2>2, <2>3
<1>2. /\ sample' = sample /\ io.pc = "start" /\ sample \in FifoSamples
      /\ io' = [io EXCEPT !.fds = io.fds \cup {i}, !.pc = IF i = NumFifos THEN "wait" ELSE io.pc]
  OBVIOUS
<1>3. /\ src' \in [Inputs -> SrcRec] /\ \A j \in Inputs : src'[j].buf = src[j].buf
      /\ \A j \in Inputs : j # i => src'[j] = src[j]
      /\ src'[i].up /\ src'[i].gen = 1
  BY <1>0, <1>1 DEF EventShape, SrcRec
<1>4. /\ io' \in IoRec /\ io'.fds = io.fds \cup {i} /\ io'.evs = io.evs
      /\ io'.pc = IF i = NumFifos THEN "wait" ELSE "start"
      /\ io'.first = io.first /\ (io'.got_sig_io <=> io.got_sig_io)
  <2>1. PICK l \in IoPcs : l = IF i = NumFifos THEN "wait" ELSE "start"
    BY DEF IoPcs
  <2>2. PICK open \in SUBSET Inputs : open = io.fds \cup {i}
    BY <1>1 DEF EventShape, IoRec
  <2>3. io' = [io EXCEPT !.fds = open, !.pc = l]
    BY <1>2, <2>1, <2>2
  <2>4. io \in IoRec
    BY DEF EventShape
  <2>5. /\ io' \in IoRec /\ io'.fds = open /\ io'.evs = io.evs /\ io'.pc = l
        /\ io'.first = io.first /\ (io'.got_sig_io <=> io.got_sig_io)
    BY <2>3, <2>4 DEF IoRec
  <2> QED
    BY <2>1, <2>2, <2>5
<1>5. \A j \in Inputs : j = i \/ Opened(j) => Opened(j)'
  BY <1>3 DEF Opened
<1>6. EventShape' /\ Places'
  <2>1. io'.pc = "wait" => 1 \in io'.fds
    BY <1>1, <1>4
  <2>2. \A j \in io'.fds : j \in Inputs /\ (j = i \/ Opened(j))
    BY <1>1, <1>4 DEF Places, Inputs
  <2>3. io'.pc = "start" => (io'.fds = {} \/ (io'.fds = {1} /\ sample = "alt_io_epoll"))
    <3>1. NumFifos \in {1, 2} /\ (sample = "alt_io_epoll" <=> NumFifos = 2)
      BY DEF NumFifos
    <3> QED
      BY <1>1, <1>4, <3>1
  <2>4. io'.pc \in {"start", "wait"} /\ io'.evs = <<>>
    BY <1>2, <1>4 DEF Places
  <2>5. Places'
    BY <1>2, <1>5, <2>1, <2>2, <2>3, <2>4 DEF Places
  <2> QED
    BY <1>3, <1>4, <2>5 DEF EventShape
<1>7. EventsTrue'
  BY <1>2, <1>4 DEF EventsTrue, Places
<1>8. ClosedEmpty'
  <2>1. sample = "alt_io_epoll" /\ io'.pc # "start" => io'.fds = Inputs
    BY <1>1, <1>4 DEF NumFifos, Inputs
  <2> QED
    BY <1>2, <2>1 DEF ClosedEmpty
<1>9. Typed'
  <2>1. sample # "alt_io_signal" /\ io'.pc # "sleep"
    BY <1>2, <1>4 DEF FifoSamples, SelectSamples
  <2> QED
    BY <1>2, <2>1 DEF Typed
<1> QED
  BY <1>6, <1>7, <1>8, <1>9

(* Steps of the reader that only move it, or look at the flag, leave what  *)
(* is known of the inputs alone.                                           *)
Moves ==
  /\ UNCHANGED <<sample, src>> /\ io' \in IoRec /\ io'.fds = io.fds /\ io'.evs = io.evs
  /\ \/ io.pc \in {"start", "wait"} /\ io'.pc \in {"end", "errExit"}
        /\ (io.pc = "start" => (io'.pc = "errExit" \/ sample # "alt_io_epoll"))
     \/ io.pc = "wait" /\ io'.pc = "read"
     \/ io.pc = "start" /\ io'.pc = "sleep" /\ sample = "alt_io_signal"
     \/ io.pc = "sleep" /\ io'.pc = "drain"

(* A step that only moves the reader keeps the invariant.                  *)
LEMMA MovesStep ==
  ASSUME EventInv, Moves
  PROVE  EventInv'
<1> USE DEF EventInv
<1>1. /\ io'.fds = io.fds /\ io'.evs = io.evs /\ io.evs = <<>> /\ io'.pc # "start" /\ io'.pc # "handle"
      /\ \A j \in Inputs : (NoFirst(j)' <=> NoFirst(j)) /\ (Opened(j)' <=> Opened(j))
      /\ (OnlyOld' <=> OnlyOld)
  BY DEF Moves, Places, NoFirst, Opened, OnlyOld
<1>2. EventShape'
  BY DEF Moves, EventShape
<1>3. Places'
  BY <1>1 DEF Moves, Places, Inputs, EventShape, IoRec
<1>4. EventsTrue'
  BY <1>1 DEF EventsTrue
<1>5. ClosedEmpty'
  BY <1>1 DEF Moves, ClosedEmpty, Places
<1>6. Typed'
  BY <1>1 DEF Moves, Typed
<1> QED
  BY <1>2, <1>3, <1>4, <1>5, <1>6

(* epoll_wait reports each ready FIFO once, as it is.                      *)
LEMMA EpollWaitStep ==
  ASSUME EventInv, EpollWait
  PROVE  EventInv'
<1> USE DEF EventInv
<1>1. PICK R : R = {i \in io.fds : Readable(i)}
  OBVIOUS
<1>2. R # {} /\ R \subseteq io.fds /\ R \subseteq {1, 2}
  BY <1>1 DEF EpollWait, EventShape, IoRec, Inputs
<1>3. IsFiniteSet(R) /\ Cardinality(R) \in Nat \ {0}
  <2>1. R \in SUBSET Nat /\ \A x \in R : x <= 2
    BY <1>2
  <2>2. IsFiniteSet(R)
    BY <2>1, FS_BoundedSetOfNaturals
  <2> QED
    BY <1>2, <2>2, FS_CardinalityType, FS_EmptySet
<1> DEFINE n == Cardinality(R)
<1>4. PICK order \in [1..n -> R] :
        /\ \A j, k \in 1..n : j # k => order[j] # order[k]
        /\ io' = [io EXCEPT !.pc = "handle", !.ready = n,
               !.evs = [j \in DOMAIN order |-> [fd |-> order[j], in |-> src[order[j]].buf # <<>>,
                                                hup |-> ~src[order[j]].up]]]
  BY <1>1 DEF EpollWait, SetToSeqs
<1> PICK evs : evs = [j \in 1..n |-> [fd |-> order[j], in |-> src[order[j]].buf # <<>>,
                                      hup |-> ~src[order[j]].up]]
  OBVIOUS
<1>5. /\ DOMAIN evs = 1..n
      /\ \A j \in 1..n : /\ evs[j] \in Events /\ evs[j].fd = order[j]
                          /\ (evs[j].in <=> src[order[j]].buf # <<>>)
                          /\ (evs[j].hup <=> ~src[order[j]].up)
  BY <1>2 DEF Events, Inputs, EventShape, SrcRec
<1>6. io' = [io EXCEPT !.pc = "handle", !.ready = n, !.evs = evs]
  BY <1>4
<1> HIDE DEF n
<1>7. n \in Nat \ {0}
  BY <1>3 DEF n
<1>8. evs \in Seq(Events) /\ evs # <<>>
  <2>1. evs = [j \in 1..n |-> evs[j]]
    OBVIOUS
  <2>2. evs \in [1..n -> Events]
    BY <1>5, <2>1
  <2>3. evs \in Seq(Events)
    BY <1>7, <2>2
  <2>4. 1 \in DOMAIN evs
    BY <1>5, <1>7
  <2> QED
    BY <2>3, <2>4
<1>9. io' \in IoRec /\ io'.pc = "handle" /\ io'.evs = evs /\ io'.fds = io.fds
  BY <1>6, <1>7, <1>8 DEF EventShape, IoRec, IoPcs
<1>10. UNCHANGED <<sample, src>> /\ sample = "alt_io_epoll" /\ io.pc = "wait"
  BY DEF EpollWait
<1>11. EventShape' /\ Places'
  BY <1>8, <1>9, <1>10 DEF EventShape, Places, Opened
<1>12. EventsTrue'
  <2>1. ASSUME NEW j \in 1..n PROVE Reported(evs[j])'
    <3>1. order[j] \in io.fds
      BY <1>2, <1>4
    <3>2. closing(evs[j]) => NoFirst(order[j])
      BY <1>5 DEF closing, NoFirst
    <3>3. NoFirst(order[j])' <=> NoFirst(order[j])
      BY <1>10 DEF NoFirst
    <3> QED
      BY <1>5, <1>9, <1>10, <3>1, <3>2, <3>3 DEF Reported, closing
  <2> QED
    BY <1>4, <1>5, <1>9, <2>1 DEF EventsTrue
<1>13. ClosedEmpty'
  BY <1>9, <1>10 DEF ClosedEmpty, NoFirst
<1>14. Typed'
  BY <1>9, <1>10 DEF Typed
<1> QED
  BY <1>11, <1>12, <1>13, <1>14

(* One event is handled: the input is read, or the descriptor closed.      *)
LEMMA HandleEventStep ==
  ASSUME EventInv, HandleEvent
  PROVE  EventInv'
<1> USE DEF EventInv
<1>1. /\ io.pc = "handle" /\ sample = "alt_io_epoll" /\ sample' = sample
      /\ io.evs \in Seq(Events) /\ io.evs # <<>>
  BY DEF HandleEvent, Places, EventShape, IoRec
<1>2. PICK e, rest : e = Head(io.evs) /\ rest = Tail(io.evs)
  OBVIOUS
<1>3. /\ e \in Events /\ rest \in Seq(Events) /\ Reported(e) /\ Len(io.evs) \in Nat \ {0}
      /\ DOMAIN rest = 1..Len(io.evs) - 1 /\ Len(rest) = Len(io.evs) - 1
      /\ \A j \in DOMAIN rest : Reported(rest[j]) /\ rest[j].fd # e.fd /\ rest[j] \in Events
      /\ \A j, k \in DOMAIN rest : j # k => rest[j].fd # rest[k].fd
  <2>1. /\ e \in Events /\ rest \in Seq(Events) /\ Len(io.evs) \in Nat \ {0}
        /\ DOMAIN rest = 1..Len(io.evs) - 1 /\ Len(rest) = Len(io.evs) - 1
        /\ DOMAIN io.evs = 1..Len(io.evs) /\ e = io.evs[1]
        /\ \A k \in DOMAIN rest : k + 1 \in DOMAIN io.evs /\ k \in Nat /\ k + 1 # 1 /\ rest[k] = io.evs[k + 1]
    BY <1>1, <1>2, TailElements, Zenon
  <2>2. 1 \in DOMAIN io.evs /\ Reported(e)
    BY <2>1 DEF EventsTrue
  <2>3. \A j \in DOMAIN rest : Reported(rest[j]) /\ rest[j].fd # e.fd /\ rest[j] \in Events
    BY <1>1, <2>1, <2>2 DEF EventsTrue
  <2>4. \A j, k \in DOMAIN rest : j # k => rest[j].fd # rest[k].fd
    <3>1. \A j, k \in DOMAIN rest : j # k => j + 1 # k + 1
      BY <2>1
    <3> QED
      BY <2>1, <3>1 DEF EventsTrue
  <2> QED
    BY <2>1, <2>2, <2>3, <2>4
<1>4. PICK c \in BOOLEAN : c <=> closing(e)
  OBVIOUS
<1>5. PICK fds2 : fds2 = IF c THEN io.fds \ {e.fd} ELSE io.fds
  OBVIOUS
<1>6. /\ src' = (IF c THEN src ELSE [src EXCEPT ![e.fd].buf = <<>>])
      /\ io' = [io EXCEPT !.fds = fds2, !.evs = rest,
               !.pc = IF Len(io.evs) > 1 THEN io.pc ELSE IF fds2 = {} THEN "end" ELSE "wait"]
  BY <1>2, <1>4, <1>5 DEF HandleEvent
<1>7. e.fd \in Inputs /\ (c => NoFirst(e.fd))
  BY <1>3, <1>4 DEF Events, Reported
<1>8. /\ src' \in [Inputs -> SrcRec]
      /\ \A j \in Inputs : /\ src'[j].gen = src[j].gen /\ (src'[j].up <=> src[j].up)
                           /\ src'[j].buf = IF ~c /\ j = e.fd THEN <<>> ELSE src[j].buf
  <2>1. <<>> \in Seq(Texts) /\ src \in [Inputs -> SrcRec]
    BY DEF EventShape
  <2>2. CASE c
    BY <1>6, <2>1, <2>2
  <2>3. CASE ~c
    <3>1. src' = [src EXCEPT ![e.fd].buf = <<>>]
      BY <1>6, <2>3
    <3> QED
      BY <1>7, <2>1, <2>3, <3>1 DEF SrcRec
  <2> QED
    BY <2>2, <2>3
<1>9. /\ io' \in IoRec /\ io'.fds = fds2 /\ io'.evs = rest
      /\ io'.pc \in {"handle", "end", "wait"} /\ (io'.pc = "handle" <=> Len(io.evs) > 1)
  <2>1. fds2 \in SUBSET Inputs
    BY <1>5 DEF EventShape, IoRec
  <2> QED
    BY <1>1, <1>3, <1>6, <2>1 DEF EventShape, IoRec, IoPcs
<1>10. \A j \in Inputs : (Opened(j)' <=> Opened(j)) /\ (NoFirst(j) => NoFirst(j)')
  BY <1>8 DEF Opened, NoFirst
<1>11. EventShape' /\ Places'
  <2>1. (io'.pc = "handle" => rest # <<>>) /\ (io'.pc # "handle" => rest = <<>>)
    <3>1. rest = <<>> <=> Len(rest) = 0
      BY <1>3, EmptySeq
    <3> QED
      BY <1>3, <1>9, <3>1
  <2>2. \A j \in fds2 : j \in Inputs /\ Opened(j)
    BY <1>5 DEF Places, EventShape, IoRec
  <2>3. Opened(1) /\ 1 \in Inputs
    BY <1>1 DEF Places, Inputs
  <2> QED
    BY <1>1, <1>8, <1>9, <1>10, <2>1, <2>2, <2>3 DEF EventShape, Places
<1>12. EventsTrue'
  <2>1. ASSUME NEW x \in Events, Reported(x), x.fd # e.fd PROVE Reported(x)'
    <3>1. x.fd \in fds2 /\ x.fd \in Inputs
      BY <1>5, <2>1 DEF Reported, Events
    <3> QED
      BY <1>8, <1>9, <1>10, <2>1, <3>1 DEF Reported, closing
  <2> QED
    BY <1>3, <1>9, <2>1 DEF EventsTrue
<1>13. ClosedEmpty'
  BY <1>1, <1>5, <1>7, <1>9, <1>10 DEF ClosedEmpty
<1>14. Typed'
  BY <1>1, <1>9 DEF Typed
<1> QED
  BY <1>11, <1>12, <1>13, <1>14

(* A reader of one FIFO reads all there is.                                *)
LEMMA ReadThenStep ==
  ASSUME EventInv, NEW l \in {"wait", "end"}, NEW open \in SUBSET {1}, ReadThen(l, open),
         sample \in EventSamples \ {"alt_io_epoll", "alt_io_signal"}
  PROVE  EventInv'
<1> USE DEF EventInv
<1>1. /\ io.pc = "read" /\ sample' = sample /\ src' = [src EXCEPT ![1].buf = <<>>]
      /\ io' = [io EXCEPT !.pc = l, !.fds = open]
  BY DEF ReadThen
<1>2. /\ src' \in [Inputs -> SrcRec]
      /\ \A j \in Inputs : Opened(j)' <=> Opened(j)
  <2>1. <<>> \in Seq(Texts)
    OBVIOUS
  <2> QED
    BY <1>1, <2>1 DEF EventShape, SrcRec, Opened, Inputs
<1>3. io' \in IoRec /\ io'.pc = l /\ io'.fds = open /\ io'.evs = io.evs
  BY <1>1 DEF EventShape, IoRec, IoPcs, Inputs
<1>4. Opened(1)' /\ io.evs = <<>>
  BY <1>1, <1>2 DEF Places, Inputs
<1>5. EventShape' /\ EventsTrue'
  BY <1>2, <1>3, <1>4 DEF EventShape, EventsTrue
<1>7. Places'
  BY <1>3, <1>4 DEF Places
<1>6. ClosedEmpty' /\ Typed'
  BY <1>1, <1>3 DEF ClosedEmpty, Typed
<1> QED
  BY <1>5, <1>6, <1>7

(* The read loop of alt_io_signal takes one buffer, or finds nothing.      *)
LEMMA ReadChunkStep ==
  ASSUME EventInv, ReadChunk
  PROVE  EventInv'
<1> USE DEF EventInv
<1>1. /\ io.pc = "drain" /\ sample = "alt_io_signal" /\ sample' = sample /\ io.evs = <<>>
      /\ src[1].buf \in Seq(Texts)
  BY DEF ReadChunk, Places, EventShape, SrcRec, Inputs
<1>2. /\ src' \in [Inputs -> SrcRec]
      /\ \A j \in Inputs : Opened(j)' <=> Opened(j)
  <2>1. CASE src[1].buf = <<>>
    BY <2>1 DEF ReadChunk, EventShape, Opened
  <2>2. CASE src[1].buf # <<>>
    <3>1. src' = [src EXCEPT ![1].buf = Tail(src[1].buf)] /\ Tail(src[1].buf) \in Seq(Texts)
      BY <1>1, <2>2, TailElements DEF ReadChunk
    <3> QED
      BY <3>1 DEF EventShape, SrcRec, Opened, Inputs
  <2> QED
    BY <2>1, <2>2
<1>3. /\ io' \in IoRec /\ io'.fds = io.fds /\ io'.evs = io.evs /\ io'.pc \in {"drain", "sleep"}
      /\ io'.pc = "sleep" => (src'[1].buf = <<>> \/ io'.first = "nl")
  <2>1. CASE src[1].buf = <<>>
    BY <2>1 DEF ReadChunk, EventShape, IoRec, IoPcs, read_loop_ends
  <2>2. CASE src[1].buf # <<>>
    <3>1. PICK h \in Texts : h = Head(src[1].buf)
      BY <1>1, <2>2, TailElements
    <3>2. CASE h = "nl"
      <4>1. io' = [[io EXCEPT !.pc = "sleep"] EXCEPT !.first = h]
        BY <2>2, <3>1, <3>2 DEF ReadChunk, read_loop_ends
      <4> QED
        BY <3>2, <4>1 DEF EventShape, IoRec, IoPcs
    <3>3. CASE h # "nl"
      <4>1. io' = [io EXCEPT !.first = h]
        BY <2>2, <3>1, <3>3 DEF ReadChunk
      <4> QED
        BY <1>1, <4>1 DEF EventShape, IoRec
    <3> QED
      BY <3>2, <3>3
  <2> QED
    BY <2>1, <2>2
<1>4. EventShape' /\ Places' /\ EventsTrue'
  <2>1. \A i \in io.fds : i \in Inputs
    BY DEF EventShape, IoRec
  <2> QED
    BY <1>1, <1>2, <1>3, <2>1 DEF EventShape, Places, EventsTrue
<1>5. ClosedEmpty' /\ Typed'
  BY <1>1, <1>3 DEF ClosedEmpty, Typed, OnlyOld
<1> QED
  BY <1>4, <1>5

(* Every step of a reader or a writer keeps the invariant.                 *)
LEMMA EventKept ==
  ASSUME EventInv, EventNext
  PROVE  EventInv'
<1>0. io \in IoRec /\ io.ready \in Nat
  BY DEF EventInv, EventShape, IoRec
<1>1. CASE OpenFifo
  <2>1. CASE UNCHANGED src /\ io' = [io EXCEPT !.pc = "errExit"]
    <3>1. Moves
      BY <1>0, <1>1, <2>1 DEF OpenFifo, Moves, IoRec, IoPcs
    <3> QED
      BY <3>1, MovesStep
  <2>2. CASE /\ src' = [src EXCEPT ![Cardinality(io.fds) + 1].up = TRUE,
                                   ![Cardinality(io.fds) + 1].gen = 1]
             /\ io' = [io EXCEPT !.fds = @ \cup {Cardinality(io.fds) + 1},
                                 !.pc = IF Cardinality(io.fds) + 1 = NumFifos THEN "wait" ELSE @]
    <3>1. PICK i : i = Cardinality(io.fds) + 1
      OBVIOUS
    <3> QED
      BY <1>1, <2>2, <3>1, OpenFifoStep DEF OpenFifo
  <2> QED
    BY <1>1, <2>1, <2>2 DEF OpenFifo
<1>2. ASSUME NEW r, NEW m, WaitFor(r, m) PROVE EventInv'
  <2>1. Moves
    BY <1>0, <1>2 DEF WaitFor, Moves, IoRec, IoPcs
  <2> QED
    BY <2>1, MovesStep
<1>3. CASE alt_io_select \/ alt_io_poll
  <2>1. PICK n \in Nat : io' = [io EXCEPT !.pc = "end", !.ready = n]
    <3>1. CASE alt_io_select
      <4>1. PICK n \in Nat : n = IF Readable(1) THEN 1 ELSE 0
        OBVIOUS
      <4> QED
        BY <3>1, <4>1 DEF alt_io_select
    <3>2. CASE alt_io_poll
      <4>1. PICK pfds, S : /\ pfds = [i \in 0..9 |-> IF i \in {5, 6} THEN <<"a">> ELSE <<>>]
                           /\ S = {i \in DOMAIN pfds : pfds[i] # <<>>}
        OBVIOUS
      <4>2. S \in SUBSET Nat /\ \A x \in S : x <= 9
        BY <4>1
      <4>3. Cardinality(S) \in Nat
        BY <4>2, FS_BoundedSetOfNaturals, FS_CardinalityType
      <4>4. io' = [io EXCEPT !.pc = "end", !.ready = Cardinality(S)]
        BY <3>2, <4>1 DEF alt_io_poll
      <4> QED
        BY <4>3, <4>4
    <3> QED
      BY <1>3, <3>1, <3>2
  <2>2. UNCHANGED <<sample, src>> /\ io.pc = "start" /\ sample # "alt_io_epoll"
    BY <1>3 DEF alt_io_select, alt_io_poll
  <2>3. Moves
    BY <1>0, <2>1, <2>2 DEF Moves, IoRec, IoPcs
  <2> QED
    BY <2>3, MovesStep
<1>4. CASE SetAsync \/ CheckFlag
  <2>1. Moves
    BY <1>0, <1>4 DEF SetAsync, CheckFlag, Moves, IoRec, IoPcs
  <2> QED
    BY <2>1, MovesStep
<1>5. CASE select_sample \/ pselect_sample \/ poll_sample \/ epoll_sample
  <2>1. \/ \E r, m : WaitFor(r, m)
        \/ /\ ReadThen("wait", {1}) \/ ReadThen("end", {})
           /\ sample \in EventSamples \ {"alt_io_epoll", "alt_io_signal"}
    BY <1>5 DEF select_sample, pselect_sample, poll_sample, epoll_sample, EventSamples, FifoSamples,
                SelectSamples
  <2> QED
    BY <1>2, <2>1, ReadThenStep
<1> QED
  BY <1>1, <1>3, <1>4, <1>5, WriteInputStep, WriterStep, EpollWaitStep, HandleEventStep, ReadChunkStep
     DEF EventNext, ReaderStep

(* The inductive invariant gives the invariants the run checks.            *)
LEMMA EventInvImplies == EventInv => EventTypeOK /\ NothingForgotten
<1> SUFFICES ASSUME EventInv PROVE EventTypeOK /\ NothingForgotten
  OBVIOUS
<1> USE DEF EventInv
<1>1. ASSUME NEW i \in Inputs
      PROVE  /\ src[i].up \in BOOLEAN /\ src[i].gen \in 0..MaxOpens /\ src[i].n \in 0..MaxChunks
             /\ ToSet(src[i].buf) \subseteq {"first", "later", "text", "nl", "old"}
  <2>1. src[i].up \in BOOLEAN /\ src[i].gen \in Gens /\ src[i].n \in Counts /\ src[i].buf \in Seq(Texts)
    BY DEF EventShape, SrcRec
  <2>2. ToSet(src[i].buf) \subseteq Texts
    BY <2>1 DEF ToSet
  <2> QED
    BY <2>1, <2>2 DEF Gens, Counts, Texts
<1>2. \A i \in io.fds : src[i].gen > 0
  <2>1. \A i \in io.fds : i \in Inputs /\ src[i].gen # 0
    BY DEF EventShape, IoRec, Places, Opened
  <2>2. \A i \in Inputs : src[i].gen \in Nat
    BY <1>1, EventAssumption
  <2> QED
    BY <2>1, <2>2
<1>3. \A e \in ToSet(io.evs) : e.fd \in io.fds /\ (e.in => src[e.fd].buf # <<>>)
  BY DEF ToSet, EventsTrue, Reported
<1>4. io.pc \in {"start", "wait", "handle", "read", "sleep", "drain", "end", "errExit"}
  BY DEF EventShape, IoRec, IoPcs
<1>5. EventTypeOK
  BY <1>1, <1>2, <1>3, <1>4 DEF EventTypeOK
<1>6. \A i \in Inputs : NoFirst(i) => "first" \notin ToSet(src[i].buf)
  BY DEF NoFirst, ToSet
<1>7. OnlyOld => ToSet(src[1].buf) \subseteq {"old"}
  BY DEF OnlyOld, ToSet
<1> QED
  BY <1>5, <1>6, <1>7 DEF NothingForgotten, ClosedEmpty, Typed
-----------------------------------------------------------------------------
(* Pipes, FIFOs and sockets.  What the programs are like: control stays    *)
(* inside a program, a program has one limit of what it writes, and only   *)
(* the right process makes certain calls.                                  *)
Sizes    == 0..NumMsgs
ChOps    == {"pipe", "fork", "close", "dup2", "wait", "exit", "mkfifo", "openRd", "openWr", "write",
             "read", "goto", "bind", "bindInet", "bindPath", "accept", "acceptFrom", "closeConn", "connect", "connectAny",
             "sendto", "recvfrom", "answer"}
Prog(p)  == ChProgs[sample][p]
Closed(P) ==
  \A k \in DOMAIN P :
    /\ k \in Nat /\ P[k].op \in ChOps
    /\ P[k].op \notin {"read", "goto", "exit"} => k + 1 \in DOMAIN P
    /\ P[k].op = "read" => P[k].eof \in DOMAIN P
    /\ P[k].op = "goto" => P[k].to \in DOMAIN P
    /\ P[k].op = "close" => P[k].side \in {"rd", "wr"}
Limited(P, n) ==
  \A k \in DOMAIN P : /\ P[k].op = "write" => P[k].n = n
                      /\ P[k].op = "sendto" => n = NumMsgs
Server(P) == \A k \in DOMAIN P : P[k].op \notin {"connect", "connectAny", "sendto", "fork"}
Client(P) == \A k \in DOMAIN P : P[k].op \notin {"answer", "fork"}
Parent(P) == \A k \in DOMAIN P : P[k].op \notin {"connect", "connectAny", "sendto"}
Sound(P, n) == Closed(P) /\ Limited(P, n) /\ 1 \in DOMAIN P
Limit == IF sample \in (PipeSamples \ {"ipc_pipe_popen"}) \cup {"ipc_fifo"} THEN 1 ELSE NumMsgs

(* The programs of the samples with pipes and FIFOs.                       *)
LEMMA PipePrograms ==
  /\ Sound(pipe_parent, 1) /\ Parent(pipe_parent) /\ Sound(pipe_child, 1) /\ Client(pipe_child)
  /\ Sound(ipc_pipe_stdinout["a"], 1) /\ Parent(ipc_pipe_stdinout["a"])
  /\ ipc_pipe_stdinout["b"] = pipe_child /\ ipc_pipe_stdinout["c"] = <<>>
  /\ Sound(ipc_pipe_popen["a"], NumMsgs) /\ Parent(ipc_pipe_popen["a"])
  /\ Sound(ipc_pipe_popen["b"], NumMsgs) /\ Client(ipc_pipe_popen["b"]) /\ ipc_pipe_popen["c"] = <<>>
  /\ Sound(ipc_fifo_server, 1) /\ Server(ipc_fifo_server)
  /\ Sound(ipc_fifo_client, 1) /\ Client(ipc_fifo_client)
<1> USE DEF Sound, Closed, Limited, Server, Client, Parent, ChOps, Do, CloseRd, CloseWr, WriteUpTo,
            ReadElse, Again
<1>1. Sound(pipe_parent, 1) /\ Parent(pipe_parent)
  BY DEF pipe_parent
<1>2. Sound(pipe_child, 1) /\ Client(pipe_child)
  BY DEF pipe_child
<1>3. PICK P : P = << Do("pipe"), Do("fork"), CloseRd, Do("dup2"), CloseWr("pfd"),
                     WriteUpTo(1), CloseWr("stdout"), Do("wait"), Do("exit") >>
  OBVIOUS
<1>4. Sound(P, 1) /\ Parent(P)
  BY <1>3
<1>5. ipc_pipe_stdinout["a"] = P /\ ipc_pipe_stdinout["b"] = pipe_child /\ ipc_pipe_stdinout["c"] = <<>>
  BY <1>3 DEF ipc_pipe_stdinout
<1>6. PICK Q : Q = << Do("pipe"), Do("fork"), CloseWr("pfd"), ReadElse(5), CloseRd, Do("wait"),
                     Do("exit") >>
  OBVIOUS
<1>7. Sound(Q, NumMsgs) /\ Parent(Q)
  BY <1>6
<1>8. PICK R : R = << CloseRd, WriteUpTo(NumMsgs), Do("exit") >>
  OBVIOUS
<1>9. Sound(R, NumMsgs) /\ Client(R)
  BY <1>8
<1>10. ipc_pipe_popen["a"] = Q /\ ipc_pipe_popen["b"] = R /\ ipc_pipe_popen["c"] = <<>>
  BY <1>6, <1>8 DEF ipc_pipe_popen
<1>11. Sound(ipc_fifo_server, 1) /\ Server(ipc_fifo_server)
  BY DEF ipc_fifo_server
<1>12. Sound(ipc_fifo_client, 1) /\ Client(ipc_fifo_client)
  BY DEF ipc_fifo_client
<1> HIDE DEF Sound, Server, Client, Parent
<1> QED
  BY <1>1, <1>2, <1>4, <1>5, <1>7, <1>9, <1>10, <1>11, <1>12

(* The programs of the samples with sockets.                               *)
LEMMA SocketPrograms ==
  /\ \A P \in {socket_unix_domain_stream_server, socket_inet_domain_stream_server,
               socket_inet_domain_stream_server_v2, socket_unix_domain_datagram_server,
               socket_inet_domain_datagram_server} : Sound(P, NumMsgs) /\ Server(P)
  /\ \A P \in {socket_unix_domain_stream_client, socket_inet_domain_stream_client,
               socket_inet_domain_stream_client_v2, socket_unix_domain_datagram_client,
               socket_inet_domain_datagram_client} : Sound(P, NumMsgs) /\ Client(P)
<1> USE DEF Sound, Closed, Limited, Server, Client, ChOps, Do, WriteUpTo, ReadElse, Again
<1>1. Sound(socket_unix_domain_stream_server, NumMsgs) /\ Server(socket_unix_domain_stream_server)
  BY DEF socket_unix_domain_stream_server
<1>2. Sound(socket_inet_domain_stream_server, NumMsgs) /\ Server(socket_inet_domain_stream_server)
  BY DEF socket_inet_domain_stream_server
<1>3. Sound(socket_inet_domain_stream_server_v2, NumMsgs) /\ Server(socket_inet_domain_stream_server_v2)
  BY DEF socket_inet_domain_stream_server_v2
<1>4. Sound(socket_unix_domain_datagram_server, NumMsgs) /\ Server(socket_unix_domain_datagram_server)
  BY DEF socket_unix_domain_datagram_server
<1>5. Sound(socket_inet_domain_datagram_server, NumMsgs) /\ Server(socket_inet_domain_datagram_server)
  BY DEF socket_inet_domain_datagram_server
<1>6. Sound(socket_unix_domain_stream_client, NumMsgs) /\ Client(socket_unix_domain_stream_client)
  BY DEF socket_unix_domain_stream_client
<1>7. Sound(socket_inet_domain_stream_client, NumMsgs) /\ Client(socket_inet_domain_stream_client)
  BY DEF socket_inet_domain_stream_client
<1>8. Sound(socket_inet_domain_stream_client_v2, NumMsgs) /\ Client(socket_inet_domain_stream_client_v2)
  BY DEF socket_inet_domain_stream_client_v2
<1>9. Sound(socket_unix_domain_datagram_client, NumMsgs) /\ Client(socket_unix_domain_datagram_client)
  BY DEF socket_unix_domain_datagram_client
<1>10. Sound(socket_inet_domain_datagram_client, NumMsgs) /\ Client(socket_inet_domain_datagram_client)
  BY DEF socket_inet_domain_datagram_client
<1> HIDE DEF Sound, Server, Client
<1> QED
  BY <1>1, <1>2, <1>3, <1>4, <1>5, <1>6, <1>7, <1>8, <1>9, <1>10

(* The program of every process of every sample.                           *)
LEMMA Programs ==
  ASSUME sample \in ChanSamples
  PROVE  /\ Sound(Prog("a"), Limit) /\ Parent(Prog("a"))
         /\ Sound(Prog("b"), Limit) /\ Client(Prog("b"))
         /\ sample \in PipeSamples => Prog("c") = <<>>
         /\ sample \notin PipeSamples => /\ Sound(Prog("c"), Limit) /\ Client(Prog("c"))
                                         /\ Server(Prog("a"))
<1> USE PipePrograms, SocketPrograms DEF Prog, ChProgs, WithClients, Limit, PipeSamples
<1>0. \A P : Server(P) => Parent(P)
  BY DEF Server, Parent
<1>1. CASE sample = "ipc_pipe"
  BY <1>1 DEF ipc_pipe
<1>2. CASE sample = "ipc_pipe_stdinout"
  BY <1>2
<1>3. CASE sample = "ipc_pipe_popen"
  BY <1>3
<1>4. CASE sample = "socket_pair_sample"
  BY <1>4 DEF socket_pair_sample
<1>5. CASE sample = "ipc_fifo"
  BY <1>0, <1>5 DEF ipc_fifo
<1>6. CASE sample = "unix_stream"
  BY <1>0, <1>6
<1>7. CASE sample = "inet_stream"
  BY <1>0, <1>7
<1>8. CASE sample = "inet_stream_v2"
  BY <1>0, <1>8
<1>9. CASE sample = "unix_datagram"
  BY <1>0, <1>9
<1>10. CASE sample = "inet_datagram"
  BY <1>0, <1>10
<1> QED
  BY <1>1, <1>2, <1>3, <1>4, <1>5, <1>6, <1>7, <1>8, <1>9, <1>10 DEF ChanSamples

Fds      == {"pfd", "stdout", "socket"}
Stats    == {"none", "run", "exit", "errExit", "killed"}
Kills    == 0..MaxKills
MsgPairs == Procs \X Nat
ProcRec  == [st : Stats, pc : Nat, n : Sizes, eof : BOOLEAN, got : MsgPairs]
ChanRec  == [buf : Seq(MsgPairs), rd : SUBSET (Procs \X Fds), wr : SUBSET (Procs \X Fds)]
NetRec   == [bound : SUBSET Procs, queue : Seq(Chans), conn : Chans,
             box : [Procs -> Seq(MsgPairs)], lost : BOOLEAN, kills : Kills]
ChanShape == /\ q \in [Procs -> ProcRec] /\ ch \in [Chans -> ChanRec] /\ net \in NetRec
             /\ got \in Seq(MsgPairs)
Absent(p) == p = "c" /\ sample \in PipeSamples
AtCall ==
  sample \in ChanSamples =>
    \A p \in Procs : IF Absent(p) THEN q[p].st = "none" ELSE q[p].pc \in DOMAIN Prog(p)
Within  == \A p \in Procs : q[p].n <= Limit
OwnEnds ==
  /\ \A p \in net.bound : q[p].st = "run"
  /\ \A c \in Chans : \A x \in ch[c].rd \cup ch[c].wr : q[x[1]].st = "run"
ChanInv == ChanShape /\ AtCall /\ Within /\ OwnEnds

(* What is sent is counted by a number of the right size.                  *)
LEMMA LimitType == Limit \in Sizes /\ Limit \in Nat /\ Sizes \subseteq Nat /\ 0 \in Sizes
  BY NumMsgsAssumption DEF Limit, Sizes

(* A process that runs is at a call of its program.                        *)
LEMMA AtOp ==
  ASSUME ChanInv, sample \in ChanSamples, NEW p \in Procs, q[p].st = "run"
  PROVE  /\ Cmd(p) = Prog(p)[q[p].pc] /\ q[p].pc \in DOMAIN Prog(p) /\ Sound(Prog(p), Limit)
         /\ p = "a" => Parent(Prog(p)) /\ (sample \notin PipeSamples => Server(Prog(p)))
         /\ p # "a" => Client(Prog(p))
<1>1. q[p].pc \in DOMAIN Prog(p) /\ ~Absent(p)
  BY DEF ChanInv, AtCall
<1> QED
  BY <1>1, Programs DEF Absent, Procs, Cmd, Prog

(* Nothing is open at first.                                               *)
LEMMA ChanInitHolds == ChanInit => ChanInv
<1> SUFFICES ASSUME ChanInit PROVE ChanInv
  OBVIOUS
<1>0. 0 \in Sizes /\ 0 \in Kills /\ <<"a", 0>> \in MsgPairs /\ <<>> \in Seq(MsgPairs) /\ <<>> \in Seq(Chans)
  BY LimitType, MaxKillsAssumption DEF Kills, MsgPairs, Procs
<1>1. /\ q \in [Procs -> ProcRec]
      /\ \A p \in Procs : /\ q[p].pc = 1 /\ q[p].n = 0
                          /\ q[p].st = IF p = "a" \/ sample \notin PipeSamples THEN "run" ELSE "none"
  BY <1>0 DEF ChanInit, FreshProc, ProcRec, Stats
<1>2. /\ ch \in [Chans -> ChanRec] /\ \A c \in Chans : ch[c].rd = {} /\ ch[c].wr = {}
  BY <1>0 DEF ChanInit, NoChan, ChanRec
<1>3. net \in NetRec /\ net.bound = {}
  BY <1>0 DEF ChanInit, NetRec, Chans
<1>4. AtCall
  BY <1>1, Programs DEF AtCall, Absent, Sound, Procs
<1>5. Within
  BY <1>1, LimitType DEF Within
<1>6. got \in Seq(MsgPairs)
  BY <1>0 DEF ChanInit
<1> QED
  BY <1>1, <1>2, <1>3, <1>4, <1>5, <1>6 DEF ChanInv, ChanShape, OwnEnds

(* A process leaves, and the kernel closes what it had open.               *)
LEMMA LeaveStep ==
  ASSUME ChanInv, sample \in ChanSamples, NEW p \in Procs, q[p].st = "run", NEW how \in {"exit", "errExit", "killed"}, Leave(p, how),
         how = "killed" => net.kills < MaxKills, UNCHANGED <<sample, got>>
  PROVE  ChanInv'
<1> USE DEF ChanInv
<1>1. /\ q' \in [Procs -> ProcRec] /\ \A r \in Procs : r # p => q'[r] = q[r]
      /\ q'[p].st = how /\ \A r \in Procs : q'[r].pc = q[r].pc /\ q'[r].n = q[r].n
  BY DEF Leave, ChanShape, ProcRec, Stats
<1>2. /\ ch' \in [Chans -> ChanRec]
      /\ \A c \in Chans : ch'[c].rd = Drop(ch[c].rd, p) /\ ch'[c].wr = Drop(ch[c].wr, p)
  <2>1. \A c \in Chans : ch[c] \in ChanRec
    BY DEF ChanShape
  <2>2. \A e \in SUBSET (Procs \X Fds) : Drop(e, p) \in SUBSET (Procs \X Fds)
    BY DEF Drop
  <2>3. \A c \in Chans : /\ [ch[c] EXCEPT !.rd = Drop(@, p), !.wr = Drop(@, p)] \in ChanRec
                         /\ [ch[c] EXCEPT !.rd = Drop(@, p), !.wr = Drop(@, p)].rd = Drop(ch[c].rd, p)
                         /\ [ch[c] EXCEPT !.rd = Drop(@, p), !.wr = Drop(@, p)].wr = Drop(ch[c].wr, p)
    BY <2>1, <2>2 DEF ChanRec
  <2> QED
    BY <2>3 DEF Leave, Without
<1>3. net' \in NetRec /\ net'.bound = net.bound \ {p}
  <2>1. PICK k \in Kills : k = IF how = "killed" THEN net.kills + 1 ELSE net.kills
    <3>1. net.kills \in Kills
      BY DEF ChanShape, NetRec
    <3> QED
      BY <3>1, MaxKillsAssumption DEF Kills
  <2>2. net' = [net EXCEPT !.bound = @ \ {p}, !.kills = k]
    BY <2>1 DEF Leave
  <2> QED
    BY <2>2 DEF ChanShape, NetRec
<1>4. ChanShape' /\ Within'
  BY <1>1, <1>2, <1>3 DEF ChanShape, Within, Limit
<1>5. AtCall'
  <2>1. \A r \in Procs : (Absent(r)' <=> Absent(r)) /\ Prog(r)' = Prog(r)
    BY DEF Absent, Prog
  <2> QED
    BY <1>1, <2>1 DEF AtCall
<1>6. OwnEnds'
  <2>1. \A c \in Chans : ch[c].rd \subseteq Procs \X Fds /\ ch[c].wr \subseteq Procs \X Fds
    BY DEF ChanShape, ChanRec
  <2> QED
    BY <1>1, <1>2, <1>3, <2>1 DEF OwnEnds, Drop, ChanShape, NetRec
<1> QED
  BY <1>4, <1>5, <1>6

(* A process goes on in its program and may open or close something.       *)
LEMMA GoesOnStep ==
  ASSUME ChanInv, sample \in ChanSamples, UNCHANGED sample, NEW p \in Procs, q[p].st = "run",
         NEW r \in ProcRec, q' = [q EXCEPT ![p] = r], r.st = "run", r.pc \in DOMAIN Prog(p), r.n <= Limit,
         ch' \in [Chans -> ChanRec], net' \in NetRec, got' \in Seq(MsgPairs),
         \A x \in net'.bound : q[x].st = "run",
         \A c \in Chans : \A x \in ch'[c].rd \cup ch'[c].wr : q[x[1]].st = "run"
  PROVE  ChanInv'
<1> USE DEF ChanInv
<1>1. q' \in [Procs -> ProcRec] /\ q'[p] = r /\ \A x \in Procs : q'[x].st = q[x].st /\ (x # p => q'[x] = q[x])
  BY DEF ChanShape
<1>2. ChanShape' /\ Within'
  BY <1>1 DEF ChanShape, Within, Limit
<1>3. AtCall'
  <2>1. \A x \in Procs : (Absent(x)' <=> Absent(x)) /\ Prog(x)' = Prog(x)
    BY DEF Absent, Prog
  <2> QED
    BY <1>1, <2>1 DEF AtCall
<1>4. OwnEnds'
  <2>1. \A c \in Chans : ch'[c].rd \subseteq Procs \X Fds /\ ch'[c].wr \subseteq Procs \X Fds
    BY DEF ChanRec
  <2>2. net'.bound \subseteq Procs
    BY DEF NetRec
  <2> QED
    BY <1>1, <2>1, <2>2 DEF OwnEnds
<1> QED
  BY <1>2, <1>3, <1>4

(* A process goes to the next call of its program.                         *)
LEMMA AdvanceStep ==
  ASSUME ChanInv, sample \in ChanSamples, UNCHANGED sample, NEW p \in Procs, NEW o, Calls(p, o),
         o \notin {"read", "goto", "exit"}, Advance(p),
         ch' \in [Chans -> ChanRec], net' \in NetRec, UNCHANGED got,
         \A x \in net'.bound : q[x].st = "run",
         \A c \in Chans : \A x \in ch'[c].rd \cup ch'[c].wr : q[x[1]].st = "run"
  PROVE  ChanInv'
<1>1. q[p] \in ProcRec /\ got \in Seq(MsgPairs) /\ q[p].st = "run" /\ q[p].n <= Limit
  BY DEF ChanInv, ChanShape, Calls, Within
<1>2. q[p].pc + 1 \in DOMAIN Prog(p) /\ q[p].pc + 1 \in Nat
  BY <1>1, AtOp DEF Calls, Sound, Closed
<1>3. PICK r : r = [q[p] EXCEPT !.pc = q[p].pc + 1]
  OBVIOUS
<1>4. r \in ProcRec /\ r.st = "run" /\ r.pc = q[p].pc + 1 /\ r.n = q[p].n
  BY <1>1, <1>2, <1>3 DEF ProcRec
<1>5. q' = [q EXCEPT ![p] = r]
  BY <1>3 DEF Advance
<1> QED
  BY <1>1, <1>2, <1>4, <1>5, GoesOnStep

(* What holds of the ends before a call.                                   *)
LEMMA EndsBefore ==
  ASSUME ChanInv
  PROVE  /\ ch \in [Chans -> ChanRec] /\ net \in NetRec /\ got \in Seq(MsgPairs)
         /\ \A x \in net.bound : q[x].st = "run"
         /\ \A c \in Chans : \A x \in ch[c].rd \cup ch[c].wr : q[x[1]].st = "run"
  BY DEF ChanInv, ChanShape, OwnEnds

(* Calls on the ends of a pipe or a FIFO.                                  *)
LEMMA EndCallStep ==
  ASSUME ChanInv, sample \in ChanSamples, NEW p \in Procs,
         PipeCall(p) \/ CloseCall(p) \/ Dup2Call(p) \/ OpenCall(p) \/ CloseConn(p)
  PROVE  ChanInv'
<1>1. PICK o \in {"pipe", "close", "dup2", "openRd", "openWr", "closeConn"} : Calls(p, o)
  BY DEF PipeCall, CloseCall, Dup2Call, OpenCall, CloseConn
<1>2. UNCHANGED <<sample, net, got>> /\ Advance(p) /\ q[p].st = "run"
  BY <1>1 DEF PipeCall, CloseCall, Dup2Call, OpenCall, CloseConn, Calls
<1>3. "b" \in Chans /\ net.conn \in Chans
  BY EndsBefore DEF Chans, NetRec
<1>4. PICK c \in Chans, k \in ChanRec :
        /\ ch' = [ch EXCEPT ![c] = k]
        /\ \A x \in k.rd \cup k.wr : x \in ch[c].rd \cup ch[c].wr \/ x[1] = p
  <2>1. ch["b"] \in ChanRec /\ ch[net.conn] \in ChanRec /\ <<>> \in Seq(MsgPairs)
    BY <1>3, EndsBefore
  <2>2. CASE PipeCall(p)
    <3>1. PICK k : k = [buf |-> <<>>, rd |-> {<<p, "pfd">>}, wr |-> {<<p, "pfd">>}]
      OBVIOUS
    <3>2. k \in ChanRec /\ ch' = [ch EXCEPT !["b"] = k]
      BY <2>1, <2>2, <3>1 DEF PipeCall, ChanRec, Fds
    <3>3. \A x \in k.rd \cup k.wr : x[1] = p
      BY <3>1
    <3> QED
      BY <1>3, <3>2, <3>3
  <2>3. CASE CloseCall(p)
    <3>1. PICK k : k = IF Cmd(p).side = "rd" THEN [ch["b"] EXCEPT !.rd = @ \ {<<p, Cmd(p).fd>>}]
                                             ELSE [ch["b"] EXCEPT !.wr = @ \ {<<p, Cmd(p).fd>>}]
      OBVIOUS
    <3>2. /\ k \in ChanRec /\ k.rd \subseteq ch["b"].rd /\ k.wr \subseteq ch["b"].wr
      <4>1. CASE Cmd(p).side = "rd"
        BY <2>1, <3>1, <4>1 DEF ChanRec
      <4>2. CASE Cmd(p).side # "rd"
        BY <2>1, <3>1, <4>2 DEF ChanRec
      <4> QED
        BY <4>1, <4>2
    <3>3. ch' = [ch EXCEPT !["b"] = k]
      <4>1. CASE Cmd(p).side = "rd"
        BY <2>3, <3>1, <4>1 DEF CloseCall
      <4>2. CASE Cmd(p).side # "rd"
        BY <2>3, <3>1, <4>2 DEF CloseCall
      <4> QED
        BY <4>1, <4>2
    <3> QED
      BY <1>3, <3>2, <3>3
  <2>4. CASE Dup2Call(p)
    <3>1. PICK k : k = [ch["b"] EXCEPT !.wr = @ \cup {<<p, "stdout">>}]
      OBVIOUS
    <3>2. k \in ChanRec /\ ch' = [ch EXCEPT !["b"] = k] /\ k.rd = ch["b"].rd /\ k.wr = ch["b"].wr \cup {<<p, "stdout">>}
      BY <2>1, <2>4, <3>1 DEF Dup2Call, ChanRec, Fds
    <3>3. \A x \in k.rd \cup k.wr : x \in ch["b"].rd \cup ch["b"].wr \/ x[1] = p
      BY <3>2
    <3> QED
      BY <1>3, <3>2, <3>3
  <2>5. CASE OpenCall(p)
    <3>1. PICK k, l : /\ k = [ch["b"] EXCEPT !.rd = @ \cup {<<p, "pfd">>}]
                      /\ l = [ch["b"] EXCEPT !.wr = @ \cup {<<p, "pfd">>}]
      OBVIOUS
    <3>2. ch' = [ch EXCEPT !["b"] = k] \/ ch' = [ch EXCEPT !["b"] = l]
      BY <2>5, <3>1 DEF OpenCall
    <3>3. /\ k \in ChanRec /\ k.rd = ch["b"].rd \cup {<<p, "pfd">>} /\ k.wr = ch["b"].wr
          /\ l \in ChanRec /\ l.wr = ch["b"].wr \cup {<<p, "pfd">>} /\ l.rd = ch["b"].rd
      BY <2>1, <3>1 DEF ChanRec, Fds
    <3> QED
      BY <1>3, <3>2, <3>3
  <2>6. CASE CloseConn(p)
    <3>1. PICK k : k = [ch[net.conn] EXCEPT !.rd = {}]
      OBVIOUS
    <3>2. k \in ChanRec /\ ch' = [ch EXCEPT ![net.conn] = k] /\ k.rd = {} /\ k.wr = ch[net.conn].wr
      BY <2>1, <2>6, <3>1 DEF CloseConn, ChanRec
    <3> QED
      BY <1>3, <3>2
  <2> QED
    BY <2>2, <2>3, <2>4, <2>5, <2>6
<1>5. /\ ch' \in [Chans -> ChanRec]
      /\ \A d \in Chans : \A x \in ch'[d].rd \cup ch'[d].wr : q[x[1]].st = "run"
  BY <1>2, <1>4, EndsBefore
<1> QED
  BY <1>1, <1>2, <1>5, EndsBefore, AdvanceStep

(* The child gets a copy of both ends.                                     *)
LEMMA ForkStep ==
  ASSUME ChanInv, sample \in ChanSamples, NEW p \in Procs, ForkCall(p)
  PROVE  ChanInv'
<1> USE DEF ChanInv
<1>1. q[p].st = "run" /\ UNCHANGED <<sample, got>> /\ Calls(p, "fork")
  BY DEF ForkCall, Calls
<1>2. CASE Leave(p, "errExit")
  BY <1>1, <1>2, LeaveStep
<1>3. CASE /\ q' = [q EXCEPT ![p].pc = @ + 1, !["b"].st = "run"]
           /\ ch' = [ch EXCEPT !["b"].rd = @ \cup {<<"b", "pfd">>},
                               !["b"].wr = @ \cup {<<"b", "pfd">>}]
           /\ UNCHANGED net
  <2>1. p # "b" /\ q[p].pc + 1 \in DOMAIN Prog(p) /\ q[p].pc + 1 \in Nat /\ "b" \in Procs
    BY <1>1, AtOp DEF Calls, Sound, Closed, Client, Procs
  <2>2. /\ q' \in [Procs -> ProcRec] /\ q'["b"].st = "run"
        /\ \A x \in Procs : /\ q'[x].n = q[x].n /\ (q'[x].st = q[x].st \/ x = "b")
                             /\ q'[x].pc = IF x = p THEN q[p].pc + 1 ELSE q[x].pc
    BY <1>3, <2>1 DEF ChanShape, ProcRec, Stats
  <2>3. /\ ch' \in [Chans -> ChanRec]
        /\ \A c \in Chans : \A x \in ch'[c].rd \cup ch'[c].wr : x \in ch[c].rd \cup ch[c].wr \/ x[1] = "b"
    <3>1. PICK k : k = [ch["b"] EXCEPT !.rd = @ \cup {<<"b", "pfd">>}, !.wr = @ \cup {<<"b", "pfd">>}]
      OBVIOUS
    <3>2. ch["b"] \in ChanRec /\ "b" \in Chans
      BY DEF ChanShape, Chans
    <3>3. k \in ChanRec /\ k.rd = ch["b"].rd \cup {<<"b", "pfd">>} /\ k.wr = ch["b"].wr \cup {<<"b", "pfd">>}
      <4>1. PICK rd, wr \in SUBSET (Procs \X Fds) : /\ rd = ch["b"].rd \cup {<<"b", "pfd">>}
                                                   /\ wr = ch["b"].wr \cup {<<"b", "pfd">>}
        <5>1. <<"b", "pfd">> \in Procs \X Fds
          BY DEF Procs, Fds
        <5>2. ch["b"].rd \in SUBSET (Procs \X Fds) /\ ch["b"].wr \in SUBSET (Procs \X Fds)
          BY <3>2 DEF ChanRec
        <5> QED
          BY <5>1, <5>2
      <4>2. k = [ch["b"] EXCEPT !.rd = rd, !.wr = wr]
        BY <3>1, <4>1
      <4> QED
        BY <3>2, <4>1, <4>2 DEF ChanRec
    <3>4. ch' = [ch EXCEPT !["b"] = k]
      BY <1>3, <3>1
    <3>5. \A x \in k.rd \cup k.wr : x \in ch["b"].rd \cup ch["b"].wr \/ x[1] = "b"
      BY <3>3
    <3> QED
      BY <3>2, <3>3, <3>4, <3>5 DEF ChanShape
  <2>4. ChanShape' /\ Within'
    <3>1. ChanShape'
      BY <1>1, <1>3, <2>2, <2>3 DEF ChanShape
    <3>2. Limit' = Limit
      BY <1>1 DEF Limit
    <3> QED
      BY <2>2, <3>1, <3>2 DEF Within
  <2>5. AtCall'
    <3>1. \A x \in Procs : (Absent(x)' <=> Absent(x)) /\ Prog(x)' = Prog(x)
      BY <1>1 DEF Absent, Prog
    <3>2. ~Absent("b") /\ \A x \in Procs : Absent(x) => x # "b"
      BY DEF Absent
    <3> QED
      BY <1>1, <2>1, <2>2, <3>1, <3>2 DEF AtCall
  <2>6. OwnEnds'
    <3>1. \A c \in Chans : ch'[c].rd \subseteq Procs \X Fds /\ ch'[c].wr \subseteq Procs \X Fds
      BY <2>3 DEF ChanRec
    <3>2. net.bound \subseteq Procs
      BY DEF ChanShape, NetRec
    <3> QED
      BY <1>3, <2>2, <2>3, <3>1, <3>2 DEF OwnEnds
  <2> QED
    BY <2>4, <2>5, <2>6
<1> QED
  BY <1>2, <1>3 DEF ForkCall

(* The channel a process uses is one of the channels.                      *)
LEMMA ChanType ==
  ASSUME ChanInv, NEW p \in Procs
  PROVE  Chan(p) \in Chans
<1>1. net.conn \in Chans
  BY DEF ChanInv, ChanShape, NetRec
<1> QED
  BY <1>1 DEF Chan, Chans, Procs

(* Writing, and reading to the end of file.                                *)
LEMMA WriteStep ==
  ASSUME ChanInv, sample \in ChanSamples, NEW p \in Procs, WriteCall(p)
  PROVE  ChanInv'
<1>1. UNCHANGED <<sample, got>> /\ Calls(p, "write") /\ q[p].st = "run"
  BY DEF WriteCall, Calls
<1>2. PICK c \in Chans : c = Chan(p)
  BY ChanType
<1>3. CASE q[p].n = Cmd(p).n
  BY <1>1, <1>3, EndsBefore, AdvanceStep DEF WriteCall
<1>4. CASE q[p].n # Cmd(p).n /\ (ch[c].rd = {} \/ \A e \in ch[c].wr : e[1] # p)
  BY <1>1, <1>2, <1>4, LeaveStep DEF WriteCall
<1>5. CASE q[p].n # Cmd(p).n /\ ~(ch[c].rd = {} \/ \A e \in ch[c].wr : e[1] # p)
  <2>1. PICK m : m = <<p, q[p].n + 1>>
    OBVIOUS
  <2>2. /\ q' = [q EXCEPT ![p].n = @ + 1] /\ UNCHANGED net
        /\ ch' = [ch EXCEPT ![c].buf = Append(@, m)]
    BY <1>2, <1>5, <2>1 DEF WriteCall
  <2>3. q[p] \in ProcRec /\ q[p].n <= Limit /\ q[p].n \in Sizes /\ ch \in [Chans -> ChanRec]
    BY DEF ChanInv, ChanShape, ProcRec, Within
  <2>4. Cmd(p).n = Limit /\ q[p].pc \in DOMAIN Prog(p)
    BY <1>1, AtOp DEF Calls, Sound, Limited
  <2>5. q[p].n + 1 <= Limit /\ q[p].n + 1 \in Sizes /\ q[p].n + 1 \in Nat
    <3>1. q[p].n \in Nat /\ Limit \in Nat /\ q[p].n # Limit /\ q[p].n <= Limit /\ Limit <= NumMsgs
      BY <1>5, <2>3, <2>4, LimitType DEF Sizes
    <3> QED
      BY <3>1, NumMsgsAssumption DEF Sizes
  <2>6. PICK r : r = [q[p] EXCEPT !.n = q[p].n + 1]
    OBVIOUS
  <2>7. r \in ProcRec /\ r.st = "run" /\ r.pc = q[p].pc /\ r.n <= Limit
    BY <1>1, <2>3, <2>5, <2>6 DEF ProcRec
  <2>8. ch[c].buf \in Seq(MsgPairs) /\ m \in MsgPairs
    BY <2>1, <2>3, <2>5 DEF ChanRec, MsgPairs
  <2>9. PICK b : b = Append(ch[c].buf, m)
    OBVIOUS
  <2>10. b \in Seq(MsgPairs)
    BY <2>8, <2>9, AppendProperties
  <2>11. /\ ch' \in [Chans -> ChanRec]
         /\ \A d \in Chans : ch'[d].rd = ch[d].rd /\ ch'[d].wr = ch[d].wr
    BY <2>2, <2>3, <2>9, <2>10 DEF ChanRec
  <2>12. q' = [q EXCEPT ![p] = r]
    BY <2>2, <2>6
  <2> QED
    BY <1>1, <2>2, <2>4, <2>7, <2>11, <2>12, EndsBefore, GoesOnStep
<1> QED
  BY <1>3, <1>4, <1>5

(* Reading takes the oldest message, or finds the end of file.             *)
LEMMA ReadStep ==
  ASSUME ChanInv, sample \in ChanSamples, NEW p \in Procs, ReadCall(p)
  PROVE  ChanInv'
<1>1. UNCHANGED <<sample, net>> /\ Calls(p, "read") /\ q[p].st = "run"
  BY DEF ReadCall, Calls
<1>2. PICK c \in Chans : c = Chan(p)
  BY ChanType
<1>3. /\ q \in [Procs -> ProcRec] /\ q[p].n <= Limit /\ ch \in [Chans -> ChanRec]
      /\ q[p].pc \in DOMAIN Prog(p) /\ Cmd(p) = Prog(p)[q[p].pc] /\ got \in Seq(MsgPairs)
  BY <1>1, AtOp DEF ChanInv, ChanShape, Within
<1>4. CASE ch[c].buf # <<>>
  <2>1. ch' = [ch EXCEPT ![c].buf = Tail(@)] /\ got' = Append(got, Head(ch[c].buf)) /\ UNCHANGED q
    BY <1>2, <1>4 DEF ReadCall
  <2>2. ch[c].buf \in Seq(MsgPairs)
    BY <1>3 DEF ChanRec
  <2>3. Head(ch[c].buf) \in MsgPairs /\ Tail(ch[c].buf) \in Seq(MsgPairs)
    BY <1>4, <2>2, TailElements
  <2>4. got' \in Seq(MsgPairs)
    BY <1>3, <2>1, <2>3, AppendProperties
  <2>5. /\ ch' \in [Chans -> ChanRec]
        /\ \A d \in Chans : ch'[d].rd = ch[d].rd /\ ch'[d].wr = ch[d].wr
    BY <1>3, <2>1, <2>3 DEF ChanRec
  <2>6. PICK r : r = q[p]
    OBVIOUS
  <2>7. r \in ProcRec /\ q' = [q EXCEPT ![p] = r]
    BY <1>3, <2>1, <2>6
  <2> QED
    BY <1>1, <1>3, <2>4, <2>5, <2>6, <2>7, EndsBefore, GoesOnStep
<1>5. CASE ch[c].buf = <<>>
  <2>1. q' = [q EXCEPT ![p].pc = Cmd(p).eof, ![p].eof = TRUE] /\ UNCHANGED <<ch, got>>
    BY <1>2, <1>5 DEF ReadCall
  <2>2. Cmd(p).eof \in DOMAIN Prog(p) /\ Cmd(p).eof \in Nat
    BY <1>1, <1>3, AtOp DEF Calls, Sound, Closed
  <2>3. PICK n \in Nat : n = Cmd(p).eof
    BY <2>2
  <2>4. PICK r : r = [q[p] EXCEPT !.pc = n, !.eof = TRUE]
    OBVIOUS
  <2>5. r \in ProcRec /\ r.st = "run" /\ r.pc = n /\ r.n = q[p].n
    BY <1>1, <1>3, <2>4 DEF ProcRec
  <2>6. q' = [q EXCEPT ![p] = r]
    BY <2>1, <2>3, <2>4
  <2> QED
    BY <1>1, <1>3, <2>1, <2>2, <2>3, <2>5, <2>6, EndsBefore, GoesOnStep
<1> QED
  BY <1>4, <1>5

(* bind, connect and accept.                                               *)
LEMMA BindStep ==
  ASSUME ChanInv, sample \in ChanSamples, NEW p \in Procs, BindCall(p)
  PROVE  ChanInv'
<1>1. UNCHANGED <<sample, got>> /\ q[p].st = "run"
      /\ \E o \in {"bind", "bindInet", "bindPath"} : Calls(p, o)
  BY DEF BindCall, Calls
<1>2. CASE Leave(p, "errExit")
  BY <1>1, <1>2, LeaveStep
<1>3. CASE Advance(p) /\ net' = [net EXCEPT !.bound = @ \cup {p}] /\ UNCHANGED ch
  <2>1. net' \in NetRec /\ net'.bound = net.bound \cup {p}
    BY <1>3, EndsBefore DEF NetRec
  <2> QED
    BY <1>1, <1>3, <2>1, EndsBefore, AdvanceStep
<1> QED
  BY <1>2, <1>3 DEF BindCall

(* A client connects, though nobody has accepted it yet.                   *)
LEMMA ConnectStep ==
  ASSUME ChanInv, sample \in ChanSamples, NEW p \in Procs, ConnectCall(p)
  PROVE  ChanInv'
<1>1. PICK o \in {"connect", "connectAny"} : Calls(p, o)
  BY DEF ConnectCall
<1>2. UNCHANGED <<sample, got>> /\ q[p].st = "run"
  BY <1>1 DEF ConnectCall, Calls
<1>3. p \in Chans
  BY <1>1, <1>2, AtOp DEF Calls, Parent, Procs, Chans
<1>4. CASE Leave(p, "errExit")
  BY <1>2, <1>4, LeaveStep
<1>5. CASE Advance(p) /\ UNCHANGED <<ch, net>>
  BY <1>1, <1>2, <1>5, EndsBefore, AdvanceStep
<1>6. CASE /\ "a" \in net.bound /\ Advance(p)
           /\ net' = [net EXCEPT !.queue = Append(@, p)]
           /\ ch' = [ch EXCEPT ![p].wr = {<<p, "socket">>}, ![p].rd = {<<"a", "socket">>}]
  <2>1. q["a"].st = "run"
    BY <1>6, EndsBefore
  <2>2. net' \in NetRec /\ net'.bound = net.bound
    <3>1. net.queue \in Seq(Chans)
      BY EndsBefore DEF NetRec
    <3>2. PICK l \in Seq(Chans) : l = Append(net.queue, p)
      BY <1>3, <3>1, AppendProperties
    <3> QED
      BY <1>6, <3>2, EndsBefore DEF NetRec
  <2>3. /\ ch' \in [Chans -> ChanRec]
        /\ \A d \in Chans : \A x \in ch'[d].rd \cup ch'[d].wr : q[x[1]].st = "run"
    <3>1. PICK w, s \in SUBSET (Procs \X Fds) : w = {<<p, "socket">>} /\ s = {<<"a", "socket">>}
      <4>1. <<p, "socket">> \in Procs \X Fds /\ <<"a", "socket">> \in Procs \X Fds
        BY DEF Procs, Fds
      <4> QED
        BY <4>1
    <3>2. PICK k : k = [ch[p] EXCEPT !.wr = w, !.rd = s]
      OBVIOUS
    <3>3. ch' = [ch EXCEPT ![p] = k]
      BY <1>6, <3>1, <3>2
    <3>4. k \in ChanRec /\ k.wr = w /\ k.rd = s
      BY <1>3, <3>2, EndsBefore DEF ChanRec
    <3>5. \A x \in k.rd \cup k.wr : q[x[1]].st = "run"
      BY <1>2, <2>1, <3>1, <3>4
    <3> QED
      BY <1>3, <3>3, <3>4, <3>5, EndsBefore
  <2> QED
    BY <1>1, <1>2, <1>6, <2>2, <2>3, EndsBefore, AdvanceStep
<1> QED
  BY <1>4, <1>5, <1>6 DEF ConnectCall

(* The server takes the next connection.                                   *)
LEMMA AcceptStep ==
  ASSUME ChanInv, sample \in ChanSamples, NEW p \in Procs, AcceptCall(p)
  PROVE  ChanInv'
<1>1. UNCHANGED <<sample, ch, got>> /\ Advance(p) /\ net.queue # <<>>
      /\ \E o \in {"accept", "acceptFrom"} : Calls(p, o)
  BY DEF AcceptCall
<1>2. net.queue \in Seq(Chans)
  BY EndsBefore DEF NetRec
<1>3. PICK t \in Seq(Chans), h \in Chans : t = Tail(net.queue) /\ h = Head(net.queue)
  BY <1>1, <1>2, TailElements
<1>4. net' = [net EXCEPT !.queue = t, !.conn = h]
  BY <1>3 DEF AcceptCall
<1>5. net' \in NetRec /\ net'.bound = net.bound
  BY <1>4, EndsBefore DEF NetRec
<1> QED
  BY <1>1, <1>5, EndsBefore, AdvanceStep

(* A datagram arrives, gets lost or cannot be sent.                        *)
LEMMA SendGramStep ==
  ASSUME ChanInv, sample \in ChanSamples, NEW p \in Procs, NEW d, NEW m \in MsgPairs, NEW o,
         o \in {"sendto", "answer"}, Calls(p, o), SendGram(p, d, m), p # "a" => q[p].n + 1 <= Limit
  PROVE  ChanInv'
<1>1. UNCHANGED <<sample, got>> /\ q[p].st = "run"
  BY DEF SendGram, Calls
<1>2. CASE Leave(p, "errExit")
  BY <1>1, <1>2, LeaveStep
<1>3. CASE ~Leave(p, "errExit")
  <2>1. /\ q' = [q EXCEPT ![p].pc = @ + 1, ![p].n = IF p = "a" THEN @ ELSE @ + 1] /\ UNCHANGED ch
        /\ \/ d \in net.bound \cup {"b", "c"} /\ net' = [net EXCEPT !.box[d] = Append(@, m)]
           \/ net' = [net EXCEPT !.lost = TRUE]
    BY <1>3 DEF SendGram
  <2>2. q[p] \in ProcRec /\ q[p].n <= Limit /\ q[p].n \in Sizes /\ q[p].n \in Nat
    BY LimitType DEF ChanInv, ChanShape, ProcRec, Within
  <2>3. q[p].pc + 1 \in DOMAIN Prog(p) /\ q[p].pc + 1 \in Nat
    BY <1>1, AtOp DEF Calls, Sound, Closed
  <2>4. PICK i \in Sizes : i = (IF p = "a" THEN q[p].n ELSE q[p].n + 1) /\ i <= Limit
    <3>1. CASE p = "a"
      BY <2>2, <3>1
    <3>2. CASE p # "a"
      <4>1. q[p].n + 1 \in Sizes
        BY <2>2, <3>2, LimitType, NumMsgsAssumption DEF Sizes
      <4> QED
        BY <3>2, <4>1
    <3> QED
      BY <3>1, <3>2
  <2>5. PICK r : r = [q[p] EXCEPT !.pc = q[p].pc + 1, !.n = i]
    OBVIOUS
  <2>6. r \in ProcRec /\ r.st = "run" /\ r.pc = q[p].pc + 1 /\ r.n = i
    BY <1>1, <2>2, <2>3, <2>5 DEF ProcRec
  <2>7. q' = [q EXCEPT ![p] = r]
    BY <2>1, <2>4, <2>5
  <2>8. net' \in NetRec /\ net'.bound = net.bound
    <3>1. CASE net' = [net EXCEPT !.lost = TRUE]
      BY <3>1, EndsBefore DEF NetRec
    <3>2. CASE d \in net.bound \cup {"b", "c"} /\ net' = [net EXCEPT !.box[d] = Append(@, m)]
      <4>1. net.box \in [Procs -> Seq(MsgPairs)] /\ d \in Procs
        BY <3>2, EndsBefore DEF NetRec, Procs
      <4>2. PICK l \in Seq(MsgPairs) : l = Append(net.box[d], m)
        BY <4>1, AppendProperties
      <4>3. PICK x : x = [net.box EXCEPT ![d] = l]
        OBVIOUS
      <4>4. x \in [Procs -> Seq(MsgPairs)]
        BY <4>1, <4>3
      <4>5. net' = [net EXCEPT !.box = x]
        BY <3>2, <4>2, <4>3
      <4> QED
        BY <4>4, <4>5, EndsBefore DEF NetRec
    <3> QED
      BY <2>1, <3>1, <3>2
  <2> QED
    <3>1. /\ ch' \in [Chans -> ChanRec] /\ got' \in Seq(MsgPairs)
          /\ \A x \in net'.bound : q[x].st = "run"
          /\ \A c \in Chans : \A x \in ch'[c].rd \cup ch'[c].wr : q[x[1]].st = "run"
      BY <1>1, <2>1, <2>8, EndsBefore
    <3>2. r.pc \in DOMAIN Prog(p) /\ r.n <= Limit
      BY <2>3, <2>4, <2>6
    <3> QED
      BY <1>1, <2>6, <2>7, <2>8, <3>1, <3>2, GoesOnStep
<1> QED
  BY <1>2, <1>3

(* Datagrams are sent and received.                                        *)
LEMMA GramStep ==
  ASSUME ChanInv, sample \in ChanSamples, NEW p \in Procs, Sendto(p) \/ Recvfrom(p) \/ Answer(p)
  PROVE  ChanInv'
<1>0. q[p] \in ProcRec /\ q[p].n \in Nat /\ q[p].n <= Limit
  BY LimitType DEF ChanInv, ChanShape, ProcRec, Within
<1>1. CASE Sendto(p)
  <2>1. PICK m \in MsgPairs : m = <<p, q[p].n + 1>>
    <3>1. q[p].n + 1 \in Nat
      BY <1>0
    <3> QED
      BY <3>1 DEF MsgPairs
  <2>2. Calls(p, "sendto") /\ SendGram(p, "a", m) /\ q[p].n < NumMsgs
    BY <1>1, <2>1 DEF Sendto
  <2>3. Limit = NumMsgs
    BY <2>2, AtOp DEF Calls, Sound, Limited
  <2>4. q[p].n + 1 <= Limit
    BY <1>0, <2>2, <2>3, NumMsgsAssumption
  <2> QED
    BY <2>2, <2>4, SendGramStep
<1>2. CASE Answer(p)
  <2>1. Calls(p, "answer") /\ SendGram(p, client_addr(q[p]), q[p].got) /\ q[p].got \in MsgPairs
    BY <1>0, <1>2 DEF Answer, ProcRec
  <2>2. p = "a"
    BY <2>1, AtOp DEF Calls, Client
  <2> QED
    BY <2>1, <2>2, SendGramStep
<1>3. CASE Recvfrom(p)
  <2>1. Calls(p, "recvfrom") /\ net.box[p] # <<>> /\ UNCHANGED <<sample, ch, got>> /\ q[p].st = "run"
    BY <1>3 DEF Recvfrom, Calls
  <2>2. net.box \in [Procs -> Seq(MsgPairs)]
    BY EndsBefore DEF NetRec
  <2>3. PICK t \in Seq(MsgPairs), h \in MsgPairs : t = Tail(net.box[p]) /\ h = Head(net.box[p])
    BY <2>1, <2>2, TailElements
  <2>4. q[p].pc + 1 \in DOMAIN Prog(p) /\ q[p].pc + 1 \in Nat
    BY <2>1, AtOp DEF Calls, Sound, Closed
  <2>5. PICK r : r = [q[p] EXCEPT !.pc = q[p].pc + 1, !.got = h]
    OBVIOUS
  <2>6. r \in ProcRec /\ r.st = "run" /\ r.pc = q[p].pc + 1 /\ r.n = q[p].n
    BY <1>0, <2>1, <2>4, <2>5 DEF ProcRec
  <2>7. q' = [q EXCEPT ![p] = r]
    BY <1>3, <2>3, <2>5 DEF Recvfrom
  <2>8. PICK x : x = [net.box EXCEPT ![p] = t]
    OBVIOUS
  <2>9. x \in [Procs -> Seq(MsgPairs)] /\ net' = [net EXCEPT !.box = x]
    BY <1>3, <2>2, <2>3, <2>8 DEF Recvfrom
  <2>10. net' \in NetRec /\ net'.bound = net.bound
    BY <2>9, EndsBefore DEF NetRec
  <2> QED
    BY <1>0, <2>1, <2>4, <2>6, <2>7, <2>10, EndsBefore, GoesOnStep
<1> QED
  BY <1>1, <1>2, <1>3

(* Every step of a process keeps the invariant.                            *)
LEMMA ChanKept ==
  ASSUME ChanInv, ChanNext
  PROVE  ChanInv'
<1>0. sample \in ChanSamples
  BY DEF ChanNext
<1>1. ASSUME NEW p \in Procs, Interrupt(p) \/ OpenFails(p) \/ AcceptInvalid(p) PROVE ChanInv'
  BY <1>0, <1>1, LeaveStep DEF Interrupt, OpenFails, AcceptInvalid, Calls
<1>2. ASSUME NEW p \in Procs, Ends(p) PROVE ChanInv'
  <2>1. UNCHANGED <<sample, got>> /\ q[p].st = "run"
    BY <1>2 DEF Ends, Calls
  <2>2. CASE Calls(p, "wait") /\ Advance(p) /\ UNCHANGED <<ch, net>>
    BY <1>0, <2>1, <2>2, EndsBefore, AdvanceStep
  <2>3. CASE Calls(p, "goto") /\ q' = [q EXCEPT ![p].pc = Cmd(p).to] /\ UNCHANGED <<ch, net>>
    <3>1. q[p] \in ProcRec /\ q[p].n <= Limit
      BY DEF ChanInv, ChanShape, Within
    <3>2. PICK k \in Nat : k = Cmd(p).to /\ k \in DOMAIN Prog(p)
      BY <1>0, <2>1, <2>3, AtOp DEF Calls, Sound, Closed
    <3>3. PICK r : r = [q[p] EXCEPT !.pc = k]
      OBVIOUS
    <3>4. r \in ProcRec /\ r.st = "run" /\ r.pc = k /\ r.n = q[p].n
      BY <2>1, <3>1, <3>3 DEF ProcRec
    <3>5. q' = [q EXCEPT ![p] = r]
      BY <2>3, <3>2, <3>3
    <3> QED
      BY <1>0, <2>1, <2>3, <3>1, <3>2, <3>4, <3>5, EndsBefore, GoesOnStep
  <2>4. CASE Leave(p, "exit")
    BY <1>0, <2>1, <2>4, LeaveStep
  <2> QED
    BY <1>2, <2>2, <2>3, <2>4 DEF Ends
<1>3. ASSUME NEW p \in Procs, Mkfifo(p) PROVE ChanInv'
  BY <1>0, <1>3, EndsBefore, AdvanceStep DEF Mkfifo
<1> QED
  BY <1>0, <1>1, <1>2, <1>3, EndCallStep, ForkStep, WriteStep, ReadStep, BindStep, ConnectStep, AcceptStep,
     GramStep DEF ChanNext, ProcStep

(* The inductive invariant gives the type invariant.                       *)
LEMMA ChanInvImplies == ChanInv => ChanTypeOK
<1> SUFFICES ASSUME ChanInv PROVE ChanTypeOK
  OBVIOUS
<1> USE DEF ChanInv
<1>1. ASSUME NEW p \in Procs
      PROVE  /\ q[p].st \in {"none", "run", "exit", "errExit", "killed"}
             /\ q[p].st = "run" /\ sample \in ChanSamples => q[p].pc \in DOMAIN ChProgs[sample][p]
             /\ q[p].n \in 0..NumMsgs
  <2>1. q[p].st \in Stats /\ q[p].n \in Sizes
    BY DEF ChanShape, ProcRec
  <2>2. q[p].st = "run" /\ sample \in ChanSamples => q[p].pc \in DOMAIN Prog(p)
    BY DEF AtCall
  <2> QED
    BY <2>1, <2>2 DEF Stats, Sizes, Prog
<1>2. ASSUME NEW c \in Chans
      PROVE  ch[c].rd \cup ch[c].wr \subseteq {p \in Procs : q[p].st = "run"} \X {"pfd", "stdout", "socket"}
  <2>1. ch[c].rd \subseteq Procs \X Fds /\ ch[c].wr \subseteq Procs \X Fds
    BY DEF ChanShape, ChanRec
  <2> QED
    BY <2>1 DEF OwnEnds, Fds
<1>3. net.kills \in Kills /\ net.lost \in BOOLEAN /\ net.bound \subseteq Procs
  BY DEF ChanShape, NetRec
<1> QED
  BY <1>1, <1>2, <1>3 DEF ChanTypeOK, Kills

-----------------------------------------------------------------------------
(* Who writes to the pipe and who reads from it, and at which call.  What  *)
(* was read and what is still in the pipe are together what was written.   *)
Popen  == sample = "ipc_pipe_popen"
Writer == IF Popen THEN "b" ELSE "a"
Reader == IF Popen THEN "a" ELSE "b"
WrAt   == IF Popen THEN 2 ELSE IF sample = "ipc_pipe_stdinout" THEN 6 ELSE 4
RdAt   == IF Popen THEN 4 ELSE 2
Sent(p) == [k \in 1..q[p].n |-> <<p, k>>]
Flow   == got \o ch["b"].buf = Sent(Writer)
Before ==
  /\ q["a"].st # "none" /\ (q["a"].pc = 1 => q["a"].st = "run")
  /\ q["b"].st = "none" => /\ q["b"].pc = 1 /\ q["b"].n = 0 /\ q["a"].pc <= 2 /\ q["a"].n = 0
                           /\ got = <<>> /\ ch["b"].buf = <<>>
  /\ q["b"].st # "none" => q["a"].pc > 2
Open ==
  /\ q["a"].st = "run" /\ q["a"].pc \in 2..5 => IF Popen THEN <<"a", "pfd">> \in ch["b"].rd
                                                         ELSE <<"a", "pfd">> \in ch["b"].wr
  /\ q["a"].st = "run" /\ q["a"].pc \in 5..7 /\ sample = "ipc_pipe_stdinout" => <<"a", "stdout">> \in ch["b"].wr
  /\ q["b"].st = "run" /\ q["b"].pc <= 3 => IF Popen THEN <<"b", "pfd">> \in ch["b"].wr
                                                     ELSE <<"b", "pfd">> \in ch["b"].rd
AllSent == q[Writer].pc > WrAt => q[Writer].n = Limit
AllRead == q[Reader].pc > RdAt => ch["b"].buf = <<>> /\ q[Writer].n = Limit
InTime  == q["b"].st # "none" => /\ Gone(Writer) => q[Writer].pc > WrAt
                                 /\ Gone(Reader) => q[Reader].pc > RdAt
PipeInv == sample \in PipeSamples => /\ Flow /\ Before /\ Open /\ AllSent
                                     /\ net.kills = 0 => AllRead /\ InTime
FifoInv == sample = "ipc_fifo" => /\ ~q["a"].eof
                                  /\ q["a"].st = "run" /\ q["a"].pc > 3 => <<"a", "pfd">> \in ch["b"].wr

(* Reading the oldest message only moves it from the pipe to the reader.   *)
LEMMA ReadFlow ==
  ASSUME NEW S, NEW s \in Seq(S), NEW t \in Seq(S), t # <<>>
  PROVE  Append(s, Head(t)) \o Tail(t) = s \o t
<1>1. /\ Head(t) \in S /\ Tail(t) \in Seq(S) /\ Len(Tail(t)) = Len(t) - 1 /\ Len(t) \in Nat \ {0}
      /\ Head(t) = t[1] /\ \A k \in 1..Len(t) - 1 : Tail(t)[k] = t[k + 1]
  BY TailElements
<1>2. PICK h, u : h = Head(t) /\ u = Tail(t)
  OBVIOUS
<1>3. /\ Append(s, h) \in Seq(S) /\ Len(Append(s, h)) = Len(s) + 1 /\ Len(s) \in Nat
      /\ Append(s, h)[Len(s) + 1] = h /\ \A k \in 1..Len(s) : Append(s, h)[k] = s[k]
  BY <1>1, <1>2, AppendProperties, LenProperties
<1>4. PICK v : v = Append(s, h)
  OBVIOUS
<1>5. /\ v \o u \in Seq(S) /\ Len(v \o u) = Len(v) + Len(u)
      /\ \A k \in 1..Len(v) + Len(u) : (v \o u)[k] = IF k <= Len(v) THEN v[k] ELSE u[k - Len(v)]
  <2>1. v \in Seq(S) /\ u \in Seq(S)
    BY <1>1, <1>2, <1>3, <1>4
  <2> QED
    BY <2>1, ConcatProperties, Zenon
<1>6. /\ s \o t \in Seq(S) /\ Len(s \o t) = Len(s) + Len(t)
      /\ \A k \in 1..Len(s) + Len(t) : (s \o t)[k] = IF k <= Len(s) THEN s[k] ELSE t[k - Len(s)]
  BY ConcatProperties, Zenon
<1>7. Len(v) = Len(s) + 1 /\ Len(u) = Len(t) - 1 /\ Len(v \o u) = Len(s \o t)
  BY <1>1, <1>2, <1>3, <1>4, <1>5, <1>6
<1>8. ASSUME NEW k \in 1..Len(s) + Len(t) PROVE (v \o u)[k] = (s \o t)[k]
  <2>1. CASE k <= Len(s)
    BY <1>1, <1>3, <1>4, <1>5, <1>6, <1>7, <2>1
  <2>2. CASE k = Len(s) + 1
    BY <1>1, <1>2, <1>3, <1>4, <1>5, <1>6, <1>7, <2>2
  <2>3. CASE k > Len(s) + 1
    <3>1. (v \o u)[k] = u[k - (Len(s) + 1)] /\ (s \o t)[k] = t[k - Len(s)]
      BY <1>1, <1>3, <1>5, <1>6, <1>7, <2>3
    <3>2. k - (Len(s) + 1) \in 1..Len(t) - 1 /\ (k - (Len(s) + 1)) + 1 = k - Len(s)
      BY <1>1, <1>3, <2>3
    <3> QED
      BY <1>1, <1>2, <3>1, <3>2
  <2>4. k <= Len(s) \/ k = Len(s) + 1 \/ k > Len(s) + 1
    BY <1>1, <1>3
  <2> QED
    BY <2>1, <2>2, <2>3, <2>4
<1>9. v \o u = s \o t
  BY <1>5, <1>6, <1>7, <1>8, SeqEqual
<1> QED
  BY <1>2, <1>4, <1>9

(* Writing the next message makes what was sent one longer.                *)
LEMMA WriteFlow ==
  ASSUME NEW p \in Procs, NEW n \in Nat, NEW s \in Seq(MsgPairs), NEW t \in Seq(MsgPairs),
         s \o t = [k \in 1..n |-> <<p, k>>]
  PROVE  s \o Append(t, <<p, n + 1>>) = [k \in 1..n + 1 |-> <<p, k>>]
<1>1. PICK x : x = <<p, n + 1>>
  OBVIOUS
<1>2. x \in MsgPairs
  BY <1>1 DEF MsgPairs
<1>3. /\ Append(t, x) \in Seq(MsgPairs) /\ Len(Append(t, x)) = Len(t) + 1 /\ Len(t) \in Nat /\ Len(s) \in Nat
      /\ Append(t, x)[Len(t) + 1] = x /\ \A k \in 1..Len(t) : Append(t, x)[k] = t[k]
  BY <1>2, AppendProperties, LenProperties
<1>4. PICK u : u = Append(t, x)
  OBVIOUS
<1>5. /\ s \o u \in Seq(MsgPairs) /\ Len(s \o u) = Len(s) + Len(u)
      /\ \A k \in 1..Len(s) + Len(u) : (s \o u)[k] = IF k <= Len(s) THEN s[k] ELSE u[k - Len(s)]
  BY <1>3, <1>4, ConcatProperties, Zenon
<1>6. /\ s \o t \in Seq(MsgPairs) /\ Len(s \o t) = Len(s) + Len(t)
      /\ \A k \in 1..Len(s) + Len(t) : (s \o t)[k] = IF k <= Len(s) THEN s[k] ELSE t[k - Len(s)]
  BY ConcatProperties, Zenon
<1>7. Len(s) + Len(t) = n /\ \A k \in 1..n : (s \o t)[k] = <<p, k>>
  <2>1. DOMAIN (s \o t) = 1..Len(s \o t) /\ Len(s \o t) \in Nat
    BY <1>6, LenProperties
  <2>2. DOMAIN (s \o t) = 1..n
    OBVIOUS
  <2>3. Len(s \o t) = n
    BY <2>1, <2>2
  <2> QED
    BY <1>6, <2>3
<1>8. DOMAIN (s \o u) = 1..n + 1 /\ Len(u) = Len(t) + 1
  <2>1. DOMAIN (s \o u) = 1..Len(s \o u)
    BY <1>5, LenProperties
  <2>2. Len(u) = Len(t) + 1
    BY <1>3, <1>4
  <2>3. Len(s \o u) = n + 1
    BY <1>3, <1>5, <1>7, <2>2
  <2> QED
    BY <2>1, <2>2, <2>3
<1>9. ASSUME NEW k \in 1..n + 1 PROVE (s \o u)[k] = <<p, k>>
  <2>1. CASE k <= Len(s)
    BY <1>3, <1>5, <1>6, <1>7, <1>8, <2>1
  <2>2. CASE k = n + 1
    <3>1. k - Len(s) = Len(t) + 1 /\ ~(k <= Len(s)) /\ k \in 1..Len(s) + Len(u)
      BY <1>3, <1>7, <1>8, <2>2
    <3> QED
      BY <1>1, <1>3, <1>4, <1>5, <2>2, <3>1
  <2>3. CASE k > Len(s) /\ k # n + 1
    <3>1. k - Len(s) \in 1..Len(t) /\ ~(k <= Len(s)) /\ k \in 1..n
      BY <1>3, <1>7, <2>3
    <3>2. (s \o t)[k] = t[k - Len(s)]
      BY <1>6, <1>7, <3>1
    <3>3. k \in 1..Len(s) + Len(u)
      BY <1>3, <1>7, <1>8
    <3>4. (s \o u)[k] = u[k - Len(s)]
      BY <1>5, <3>1, <3>3
    <3>5. u[k - Len(s)] = t[k - Len(s)]
      BY <1>3, <1>4, <3>1
    <3> QED
      BY <1>7, <3>1, <3>2, <3>4, <3>5
  <2>4. k <= Len(s) \/ k = n + 1 \/ (k > Len(s) /\ k # n + 1)
    BY <1>3
  <2> QED
    BY <2>1, <2>2, <2>3, <2>4
<1>10. PICK g : g = [k \in 1..n + 1 |-> <<p, k>>]
  OBVIOUS
<1>11. g \in [1..n + 1 -> MsgPairs] /\ n + 1 \in Nat
  BY <1>10 DEF MsgPairs
<1>12. g \in Seq(MsgPairs) /\ Len(g) = n + 1
  BY <1>11
<1>13. Len(s \o u) = n + 1
  BY <1>3, <1>5, <1>7, <1>8
<1>14. \A k \in 1..n + 1 : (s \o u)[k] = g[k]
  BY <1>9, <1>10
<1>15. s \o u = g
  BY <1>5, <1>12, <1>13, <1>14, SeqEqual
<1> QED
  BY <1>1, <1>4, <1>10, <1>15

(* The calls of the samples with a pipe, by what they do.                  *)
LEMMA PipeTable ==
  ASSUME ChanInv, sample \in PipeSamples, NEW p \in Procs, q[p].st = "run"
  PROVE  /\ p \in {"a", "b"} /\ Chan(p) = "b" /\ Writer \in {"a", "b"} /\ Reader \in {"a", "b"}
         /\ Cmd(p).op \in {"pipe", "fork", "close", "dup2", "write", "read", "wait", "exit"}
         /\ Cmd(p).op = "pipe" => p = "a" /\ q[p].pc = 1
         /\ Cmd(p).op = "fork" => p = "a" /\ q[p].pc = 2
         /\ Cmd(p).op = "close" =>
              \/ p = "a" /\ q[p].pc = 3 /\ Cmd(p).side = (IF Popen THEN "wr" ELSE "rd")
              \/ p = "a" /\ q[p].pc = 5 /\ Cmd(p).side = (IF Popen THEN "rd" ELSE "wr") /\ Cmd(p).fd = "pfd"
              \/ p = "a" /\ q[p].pc = 7 /\ sample = "ipc_pipe_stdinout"
              \/ p = "b" /\ q[p].pc = 1 /\ Cmd(p).side = (IF Popen THEN "rd" ELSE "wr")
              \/ p = "b" /\ q[p].pc = 3 /\ ~Popen
         /\ Cmd(p).op = "dup2" => p = "a" /\ q[p].pc = 4 /\ sample = "ipc_pipe_stdinout"
         /\ Cmd(p).op = "write" => p = Writer /\ q[p].pc = WrAt /\ Cmd(p).n = Limit
         /\ Cmd(p).op = "read" => p = Reader /\ q[p].pc = RdAt /\ Cmd(p).eof = RdAt + 1
         /\ Cmd(p).op = "wait" => p = "a" /\ q[p].pc > 5 /\ (sample = "ipc_pipe_stdinout" => q[p].pc > 7)
         /\ Cmd(p).op = "exit" => q[p].pc > (IF p = Writer THEN WrAt ELSE RdAt)
<1> DEFINE Fits(P, k) ==
         /\ P[k].op \in {"pipe", "fork", "close", "dup2", "write", "read", "wait", "exit"}
         /\ P[k].op = "pipe" => p = "a" /\ k = 1
         /\ P[k].op = "fork" => p = "a" /\ k = 2
         /\ P[k].op = "close" =>
              \/ p = "a" /\ k = 3 /\ P[k].side = (IF Popen THEN "wr" ELSE "rd")
              \/ p = "a" /\ k = 5 /\ P[k].side = (IF Popen THEN "rd" ELSE "wr") /\ P[k].fd = "pfd"
              \/ p = "a" /\ k = 7 /\ sample = "ipc_pipe_stdinout"
              \/ p = "b" /\ k = 1 /\ P[k].side = (IF Popen THEN "rd" ELSE "wr")
              \/ p = "b" /\ k = 3 /\ ~Popen
         /\ P[k].op = "dup2" => p = "a" /\ k = 4 /\ sample = "ipc_pipe_stdinout"
         /\ P[k].op = "write" => p = Writer /\ k = WrAt /\ P[k].n = Limit
         /\ P[k].op = "read" => p = Reader /\ k = RdAt /\ P[k].eof = RdAt + 1
         /\ P[k].op = "wait" => p = "a" /\ k > 5 /\ (sample = "ipc_pipe_stdinout" => k > 7)
         /\ P[k].op = "exit" => k > (IF p = Writer THEN WrAt ELSE RdAt)
<1>1. /\ sample \in ChanSamples /\ sample \notin StreamSamples
      /\ sample \in {"ipc_pipe", "ipc_pipe_stdinout", "ipc_pipe_popen", "socket_pair_sample"}
  BY DEF PipeSamples, ChanSamples, StreamSamples, ChProgs
<1>2. p \in {"a", "b"}
  BY <1>1 DEF ChanInv, AtCall, Absent, Procs
<1>3. Cmd(p) = Prog(p)[q[p].pc] /\ q[p].pc \in DOMAIN Prog(p)
  BY <1>1, AtOp
<1> USE DEF Do, CloseRd, CloseWr, WriteUpTo, ReadElse, Popen, Writer, Reader, WrAt, RdAt, Limit, PipeSamples
<1>4. CASE p = "b" /\ ~Popen
  <2>1. Prog(p) = pipe_child
    BY <1>1, <1>4 DEF Prog, ChProgs, ipc_pipe, ipc_pipe_stdinout, socket_pair_sample
  <2>2. \A k \in DOMAIN pipe_child : Fits(pipe_child, k)
    BY <1>1, <1>4 DEF pipe_child
  <2>3. Fits(Prog(p), q[p].pc)
    BY <1>3, <2>1, <2>2
  <2> QED
    BY <1>1, <1>2, <1>3, <2>3 DEF Chan
<1>5. CASE p = "a" /\ ~Popen /\ sample # "ipc_pipe_stdinout"
  <2>1. Prog(p) = pipe_parent
    BY <1>1, <1>5 DEF Prog, ChProgs, ipc_pipe, socket_pair_sample
  <2>2. \A k \in DOMAIN pipe_parent : Fits(pipe_parent, k)
    BY <1>1, <1>5 DEF pipe_parent
  <2>3. Fits(Prog(p), q[p].pc)
    BY <1>3, <2>1, <2>2
  <2> QED
    BY <1>1, <1>2, <1>3, <2>3 DEF Chan
<1>6. CASE p = "a" /\ sample = "ipc_pipe_stdinout"
  <2>1. PICK P : P = << Do("pipe"), Do("fork"), CloseRd, Do("dup2"), CloseWr("pfd"),
                       WriteUpTo(1), CloseWr("stdout"), Do("wait"), Do("exit") >>
    OBVIOUS
  <2>2. Prog(p) = P
    BY <1>6, <2>1 DEF Prog, ChProgs, ipc_pipe_stdinout
  <2>3. \A k \in DOMAIN P : Fits(P, k)
    BY <1>6, <2>1
  <2>4. Fits(Prog(p), q[p].pc)
    BY <1>3, <2>2, <2>3
  <2> QED
    BY <1>1, <1>2, <1>3, <2>4 DEF Chan
<1>7. CASE p = "a" /\ Popen
  <2>1. PICK P : P = << Do("pipe"), Do("fork"), CloseWr("pfd"), ReadElse(5), CloseRd, Do("wait"),
                       Do("exit") >>
    OBVIOUS
  <2>2. Prog(p) = P
    BY <1>7, <2>1 DEF Prog, ChProgs, ipc_pipe_popen
  <2>3. \A k \in DOMAIN P : Fits(P, k)
    BY <1>7, <2>1
  <2>4. Fits(Prog(p), q[p].pc)
    BY <1>3, <2>2, <2>3
  <2> QED
    BY <1>1, <1>2, <1>3, <2>4 DEF Chan
<1>8. CASE p = "b" /\ Popen
  <2>1. PICK P : P = << CloseRd, WriteUpTo(NumMsgs), Do("exit") >>
    OBVIOUS
  <2>2. Prog(p) = P
    BY <1>8, <2>1 DEF Prog, ChProgs, ipc_pipe_popen
  <2>3. \A k \in DOMAIN P : Fits(P, k)
    BY <1>8, <2>1
  <2>4. Fits(Prog(p), q[p].pc)
    BY <1>3, <2>2, <2>3
  <2> QED
    BY <1>1, <1>2, <1>3, <2>4 DEF Chan
<1> QED
  BY <1>2, <1>4, <1>5, <1>6, <1>7, <1>8

(* A fresh pipe sample has sent, read and opened nothing.                  *)
LEMMA PipeInitHolds == ChanInit => PipeInv /\ FifoInv
<1> SUFFICES ASSUME ChanInit PROVE PipeInv /\ FifoInv
  OBVIOUS
<1>1. /\ \A p \in Procs : q[p].pc = 1 /\ q[p].n = 0 /\ ~q[p].eof
                          /\ q[p].st = IF p = "a" \/ sample \notin PipeSamples THEN "run" ELSE "none"
      /\ ch["b"].buf = <<>> /\ got = <<>> /\ "a" \in Procs /\ "b" \in Procs
  BY DEF ChanInit, FreshProc, NoChan, Procs, Chans
<1>2. sample \in PipeSamples => Flow
  <2>1. got \o ch["b"].buf = <<>>
    BY <1>1
  <2>2. Sent(Writer) = <<>>
    <3>1. q[Writer].n = 0 /\ 1..0 = {}
      BY <1>1 DEF Writer
    <3> QED
      BY <3>1 DEF Sent
  <2> QED
    BY <2>1, <2>2 DEF Flow
<1>3. sample \in PipeSamples => Before /\ Open
  BY <1>1 DEF Before, Open
<1>4. AllSent /\ AllRead
  BY <1>1 DEF AllSent, AllRead, WrAt, RdAt, Writer, Reader
<1>5. sample \in PipeSamples => InTime
  BY <1>1 DEF InTime
<1> QED
  BY <1>1, <1>2, <1>3, <1>4, <1>5 DEF PipeInv, FifoInv

(* What the invariants are about, and what kind of number it is.           *)
LEMMA PipeFacts ==
  ASSUME ChanInv
  PROVE  /\ {"a", "b"} \subseteq Procs /\ Writer \in {"a", "b"} /\ Reader \in {"a", "b"}
         /\ Writer # Reader /\ WrAt \in Nat /\ RdAt \in Nat /\ Limit \in Nat \ {0}
         /\ \A r \in Procs : q[r].pc \in Nat /\ q[r].n \in Nat
         /\ net.kills \in Nat
<1>1. \A r \in Procs : q[r].pc \in Nat /\ q[r].n \in Sizes
  BY DEF ChanInv, ChanShape, ProcRec
<1>2. net.kills \in Kills
  BY DEF ChanInv, ChanShape, NetRec
<1>3. \A r \in Procs : q[r].pc \in Nat /\ q[r].n \in Nat
  BY <1>1, LimitType
<1>4. net.kills \in Nat /\ Limit \in Nat \ {0}
  BY <1>2, MaxKillsAssumption, NumMsgsAssumption DEF Kills, Limit
<1>5. {"a", "b"} \subseteq Procs /\ Writer \in {"a", "b"} /\ Reader \in {"a", "b"} /\ Writer # Reader
  BY DEF Procs, Writer, Reader
<1>6. WrAt \in Nat /\ RdAt \in Nat
  BY DEF WrAt, RdAt
<1> QED
  BY <1>3, <1>4, <1>5, <1>6

(* A process of a pipe sample leaves: not before it has done its part,     *)
(* unless the fork failed or it was killed.                                *)
LEMMA PipeLeaves ==
  ASSUME ChanInv, PipeInv, sample \in PipeSamples, NEW p \in {"a", "b"}, q[p].st = "run",
         NEW how \in {"exit", "errExit", "killed"}, Leave(p, how), UNCHANGED <<sample, got>>,
         p = "a" => q[p].pc # 1,
         how = "killed" \/ net.kills # 0 \/ q["b"].st = "none"
           \/ q[p].pc > (IF p = Writer THEN WrAt ELSE RdAt)
  PROVE  PipeInv'
<1> USE PipeFacts
<1>1. /\ \A r \in Procs : q'[r].pc = q[r].pc /\ q'[r].n = q[r].n /\ (r # p => q'[r].st = q[r].st)
      /\ q'[p].st = how
  BY DEF Leave, ChanInv, ChanShape, ProcRec
<1>2. /\ ch'["b"].buf = ch["b"].buf /\ ch'["b"].rd = Drop(ch["b"].rd, p) /\ ch'["b"].wr = Drop(ch["b"].wr, p)
  BY DEF Leave, Without, ChanInv, ChanShape, ChanRec, Chans
<1>3. net'.kills = IF how = "killed" THEN net.kills + 1 ELSE net.kills
  BY DEF Leave, ChanInv, ChanShape, NetRec
<1>4. /\ Writer' = Writer /\ Reader' = Reader /\ WrAt' = WrAt /\ RdAt' = RdAt /\ Limit' = Limit
      /\ (Popen' <=> Popen)
  BY DEF Writer, Reader, WrAt, RdAt, Limit, Popen
<1>5. Flow' /\ AllSent'
  BY <1>1, <1>2, <1>4 DEF PipeInv, Flow, AllSent, Sent
<1>6. Before'
  BY <1>1, <1>2 DEF PipeInv, Before
<1>7. Open'
  <2>1. \A e \in {<<"a", "pfd">>, <<"a", "stdout">>, <<"b", "pfd">>} : e[1] # p =>
          (e \in ch["b"].rd => e \in ch'["b"].rd) /\ (e \in ch["b"].wr => e \in ch'["b"].wr)
    BY <1>2 DEF Drop
  <2> QED
    BY <1>1, <1>4, <2>1 DEF PipeInv, Open
<1>8. net'.kills = 0 => AllRead' /\ InTime'
  <2> SUFFICES ASSUME net'.kills = 0 PROVE AllRead' /\ InTime'
    OBVIOUS
  <2>1. net.kills = 0 /\ how # "killed"
    BY <1>3
  <2>2. AllRead'
    BY <1>1, <1>2, <1>4, <2>1 DEF PipeInv, AllRead
  <2>3. InTime'
    BY <1>1, <1>4, <2>1 DEF PipeInv, InTime, Gone
  <2> QED
    BY <2>2, <2>3
<1> QED
  BY <1>5, <1>6, <1>7, <1>8 DEF PipeInv

(* A process of a pipe sample goes to its next call.                       *)
LEMMA PipeAdvances ==
  ASSUME ChanInv, PipeInv, sample \in PipeSamples, NEW p \in {"a", "b"}, q[p].st = "run", Advance(p),
         UNCHANGED <<sample, got>>, net'.kills = net.kills, ch'["b"].buf = ch["b"].buf, Open',
         p = Reader => q[p].pc # RdAt, p = Writer /\ q[p].pc = WrAt => q[p].n = Limit,
         p = "a" => q[p].pc # 2
  PROVE  PipeInv'
<1> USE PipeFacts
<1>1. /\ \A r \in Procs : q'[r].n = q[r].n /\ q'[r].st = q[r].st /\ (r # p => q'[r].pc = q[r].pc)
      /\ q'[p].pc = q[p].pc + 1
  BY DEF Advance, ChanInv, ChanShape, ProcRec
<1>2. /\ Writer' = Writer /\ Reader' = Reader /\ WrAt' = WrAt /\ RdAt' = RdAt /\ Limit' = Limit
  BY DEF Writer, Reader, WrAt, RdAt, Limit, Popen
<1>3. Flow' /\ AllSent'
  <2>1. Flow'
    BY <1>1, <1>2 DEF PipeInv, Flow, Sent
  <2>2. AllSent'
    BY <1>1, <1>2 DEF PipeInv, AllSent
  <2> QED
    BY <2>1, <2>2
<1>4. Before'
  <2>0. Before /\ q["a"].pc \in Nat /\ q["b"].pc \in Nat
    BY DEF PipeInv
  <2>1. CASE p = "a"
    BY <1>1, <2>0, <2>1 DEF Before
  <2>2. CASE p = "b"
    BY <1>1, <2>0, <2>2 DEF Before
  <2> QED
    BY <2>1, <2>2
<1>5. net'.kills = 0 => AllRead' /\ InTime'
  <2> SUFFICES ASSUME net'.kills = 0 PROVE AllRead' /\ InTime'
    OBVIOUS
  <2>1. AllRead'
    BY <1>1, <1>2 DEF PipeInv, AllRead
  <2>2. InTime'
    BY <1>1, <1>2 DEF PipeInv, InTime, Gone
  <2> QED
    BY <2>1, <2>2
<1> QED
  BY <1>3, <1>4, <1>5 DEF PipeInv

(* The parent makes the pipe, and forks.                                   *)
LEMMA PipeMade ==
  ASSUME ChanInv, PipeInv, sample \in PipeSamples, NEW p \in Procs, PipeCall(p)
  PROVE  PipeInv'
<1>1. Calls(p, "pipe") /\ Advance(p) /\ UNCHANGED <<sample, net, got>> /\ q[p].st = "run"
  BY DEF PipeCall, Calls
<1>2. p = "a" /\ q[p].pc = 1
  BY <1>1, PipeTable DEF Calls
<1>3. q["b"].st = "none" /\ ch["b"].buf = <<>>
  BY <1>1, <1>2, PipeFacts DEF PipeInv, Before
<1>4. /\ ch'["b"].buf = <<>> /\ <<"a", "pfd">> \in ch'["b"].rd /\ <<"a", "pfd">> \in ch'["b"].wr
      /\ q'["a"].pc = 2 /\ q'["b"].st = "none"
  BY <1>1, <1>2, <1>3 DEF PipeCall, Advance, ChanInv, ChanShape, Chans, Procs, ProcRec
<1>5. Open'
  BY <1>1, <1>4 DEF Open, Popen
<1>6. p = Reader => q[p].pc # RdAt
  BY <1>2 DEF RdAt
<1>7. ~(p = Writer /\ q[p].pc = WrAt)
  BY <1>2 DEF WrAt
<1> QED
  BY <1>1, <1>2, <1>3, <1>4, <1>5, <1>6, <1>7, PipeAdvances

(* The child begins with a copy of both ends.                              *)
LEMMA PipeForked ==
  ASSUME ChanInv, PipeInv, sample \in PipeSamples, NEW p \in Procs, ForkCall(p)
  PROVE  PipeInv'
<1>1. Calls(p, "fork") /\ UNCHANGED <<sample, got>> /\ q[p].st = "run"
  BY DEF ForkCall, Calls
<1>2. p = "a" /\ q[p].pc = 2
  BY <1>1, PipeTable DEF Calls
<1>3. q["b"].st = "none" /\ q["b"].pc = 1 /\ q["b"].n = 0 /\ q["a"].n = 0
  BY <1>1, <1>2, PipeFacts DEF PipeInv, Before
<1>4. CASE Leave(p, "errExit")
  BY <1>1, <1>2, <1>3, <1>4, PipeLeaves
<1>5. CASE /\ q' = [q EXCEPT ![p].pc = @ + 1, !["b"].st = "run"]
           /\ ch' = [ch EXCEPT !["b"].rd = @ \cup {<<"b", "pfd">>},
                               !["b"].wr = @ \cup {<<"b", "pfd">>}]
           /\ UNCHANGED net
  <2>1. /\ q'["a"].pc = 3 /\ q'["b"].pc = 1 /\ q'["a"].st = "run" /\ q'["b"].st = "run"
        /\ q'["a"].n = q["a"].n /\ q'["b"].n = q["b"].n
    BY <1>1, <1>2, <1>3, <1>5 DEF ChanInv, ChanShape, ProcRec, Procs
  <2>2. /\ ch'["b"].buf = ch["b"].buf /\ ch'["b"].rd = ch["b"].rd \cup {<<"b", "pfd">>}
        /\ ch'["b"].wr = ch["b"].wr \cup {<<"b", "pfd">>}
    BY <1>5 DEF ChanInv, ChanShape, ChanRec, Chans
  <2>3. /\ Writer' = Writer /\ Reader' = Reader /\ WrAt' = WrAt /\ RdAt' = RdAt /\ Limit' = Limit
        /\ (Popen' <=> Popen)
    BY <1>1 DEF Writer, Reader, WrAt, RdAt, Limit, Popen
  <2>4. Flow'
    BY <1>1, <2>1, <2>2, <2>3, PipeFacts DEF PipeInv, Flow, Sent
  <2>5. Before'
    BY <2>1 DEF Before
  <2>6. Open'
    BY <1>1, <1>2, <2>1, <2>2, <2>3 DEF PipeInv, Open
  <2>7. AllSent' /\ AllRead'
    BY <2>1, <2>3 DEF AllSent, AllRead, Writer, Reader, WrAt, RdAt
  <2>8. InTime'
    BY <2>1, <2>3, PipeFacts DEF InTime, Gone
  <2> QED
    BY <1>1, <2>4, <2>5, <2>6, <2>7, <2>8 DEF PipeInv
<1> QED
  BY <1>4, <1>5 DEF ForkCall

(* No process closes the end it still needs.                               *)
LEMMA PipeClosed ==
  ASSUME ChanInv, PipeInv, sample \in PipeSamples, NEW p \in Procs, CloseCall(p) \/ Dup2Call(p)
  PROVE  PipeInv'
<1>1. /\ Calls(p, "close") \/ Calls(p, "dup2")
      /\ Advance(p) /\ UNCHANGED <<sample, net, got>> /\ q[p].st = "run"
  BY DEF CloseCall, Dup2Call, Calls
<1>2. p \in {"a", "b"} /\ q[p].pc \in Nat /\ Cmd(p).op \in {"close", "dup2"}
  BY <1>1, PipeTable, PipeFacts DEF Calls
<1>3. /\ \A r \in {"a", "b"} : q'[r].st = q[r].st /\ (r # p => q'[r].pc = q[r].pc)
      /\ q'[p].pc = q[p].pc + 1
  BY <1>1, <1>2 DEF Advance, ChanInv, ChanShape, ProcRec, Procs
<1>4. ch \in [Chans -> ChanRec] /\ "b" \in Chans
  BY DEF ChanInv, ChanShape, Chans
<1>5. /\ (Popen' <=> Popen) /\ Open
  BY <1>1 DEF Popen, PipeInv
<1>6. CASE CloseCall(p)
  <2>1. /\ ch'["b"].buf = ch["b"].buf
        /\ Cmd(p).side = "rd" => ch'["b"].rd = ch["b"].rd \ {<<p, Cmd(p).fd>>} /\ ch'["b"].wr = ch["b"].wr
        /\ Cmd(p).side # "rd" => ch'["b"].wr = ch["b"].wr \ {<<p, Cmd(p).fd>>} /\ ch'["b"].rd = ch["b"].rd
    BY <1>4, <1>6 DEF CloseCall, ChanRec
  <2>2. Cmd(p).op = "close"
    BY <1>6 DEF CloseCall, Calls
  <2>3. \/ p = "a" /\ q[p].pc = 3 /\ Cmd(p).side = (IF Popen THEN "wr" ELSE "rd")
        \/ p = "a" /\ q[p].pc = 5 /\ Cmd(p).side = (IF Popen THEN "rd" ELSE "wr") /\ Cmd(p).fd = "pfd"
        \/ p = "a" /\ q[p].pc = 7 /\ sample = "ipc_pipe_stdinout"
        \/ p = "b" /\ q[p].pc = 1 /\ Cmd(p).side = (IF Popen THEN "rd" ELSE "wr")
        \/ p = "b" /\ q[p].pc = 3 /\ ~Popen
    BY <1>1, <2>2, PipeTable
  <2>4. Open'
    <3>1. CASE p = "a" /\ q[p].pc = 3 /\ Cmd(p).side = (IF Popen THEN "wr" ELSE "rd")
      BY <1>1, <1>3, <1>5, <2>1, <3>1 DEF Open
    <3>2. CASE p = "a" /\ q[p].pc = 5 /\ Cmd(p).side = (IF Popen THEN "rd" ELSE "wr") /\ Cmd(p).fd = "pfd"
      BY <1>1, <1>3, <1>5, <2>1, <3>2 DEF Open, Popen
    <3>3. CASE p = "a" /\ q[p].pc = 7 /\ sample = "ipc_pipe_stdinout"
      BY <1>1, <1>3, <1>5, <2>1, <3>3 DEF Open
    <3>4. CASE p = "b" /\ q[p].pc = 1 /\ Cmd(p).side = (IF Popen THEN "rd" ELSE "wr")
      BY <1>1, <1>3, <1>5, <2>1, <3>4 DEF Open
    <3>5. CASE p = "b" /\ q[p].pc = 3 /\ ~Popen
      BY <1>1, <1>3, <1>5, <2>1, <3>5 DEF Open
    <3> QED
      BY <2>3, <3>1, <3>2, <3>3, <3>4, <3>5
  <2>5. (p = Reader => q[p].pc # RdAt) /\ ~(p = Writer /\ q[p].pc = WrAt) /\ (p = "a" => q[p].pc # 2)
    BY <2>3 DEF Reader, RdAt, Writer, WrAt, Popen
  <2> QED
    BY <1>1, <1>2, <2>1, <2>4, <2>5, PipeAdvances
<1>7. CASE Dup2Call(p)
  <2>1. /\ ch'["b"].buf = ch["b"].buf /\ ch'["b"].rd = ch["b"].rd
        /\ ch'["b"].wr = ch["b"].wr \cup {<<p, "stdout">>}
    BY <1>4, <1>7 DEF Dup2Call, ChanRec
  <2>2. p = "a" /\ q[p].pc = 4 /\ sample = "ipc_pipe_stdinout"
    BY <1>1, <1>7, PipeTable DEF Dup2Call, Calls
  <2>3. Open'
    BY <1>1, <1>3, <1>5, <2>1, <2>2 DEF Open
  <2>4. (p = Reader => q[p].pc # RdAt) /\ ~(p = Writer /\ q[p].pc = WrAt)
    BY <2>2 DEF Reader, RdAt, Writer, WrAt, Popen
  <2> QED
    BY <1>1, <1>2, <2>1, <2>2, <2>3, <2>4, PipeAdvances
<1> QED
  BY <1>6, <1>7

(* The writer writes: somebody can still read it.                          *)
LEMMA PipeWrites ==
  ASSUME ChanInv, PipeInv, sample \in PipeSamples, NEW p \in Procs, WriteCall(p)
  PROVE  PipeInv'
<1> USE PipeFacts
<1>1. Calls(p, "write") /\ UNCHANGED <<sample, got>> /\ q[p].st = "run"
  BY DEF WriteCall, Calls
<1>2. p = Writer /\ p \in {"a", "b"} /\ q[p].pc = WrAt /\ Cmd(p).n = Limit /\ Chan(p) = "b"
  BY <1>1, PipeTable DEF Calls
<1>3. /\ Writer' = Writer /\ Reader' = Reader /\ WrAt' = WrAt /\ RdAt' = RdAt /\ Limit' = Limit
      /\ (Popen' <=> Popen)
  BY <1>1 DEF Writer, Reader, WrAt, RdAt, Limit, Popen
<1>4. q["b"].st # "none" /\ (p = "a" => q[p].pc > 2) /\ q[p].pc # 1
  <2>1. CASE Popen
    BY <1>1, <1>2, <2>1 DEF Writer, WrAt
  <2>2. CASE ~Popen
    <3>1. p = "a" /\ q["a"].pc > 2
      BY <1>2, <2>2 DEF Writer, WrAt
    <3> QED
      BY <3>1 DEF PipeInv, Before
  <2> QED
    BY <2>1, <2>2
<1>5. CASE q[p].n = Cmd(p).n
  <2>1. Advance(p) /\ UNCHANGED <<ch, net>>
    BY <1>5 DEF WriteCall
  <2>2. /\ \A r \in {"a", "b"} : q'[r].st = q[r].st /\ (r # p => q'[r].pc = q[r].pc)
        /\ q'[p].pc = q[p].pc + 1
    BY <1>2, <2>1 DEF Advance, ChanInv, ChanShape, ProcRec
  <2>3. Open'
    <3>1. CASE Popen
      <4>1. p = "b" /\ q["b"].pc = 2
        BY <1>2, <3>1 DEF Writer, WrAt
      <4> QED
        BY <1>1, <1>3, <2>1, <2>2, <3>1, <4>1 DEF PipeInv, Open
    <3>2. CASE ~Popen
      <4>1. p = "a" /\ q["a"].pc = IF sample = "ipc_pipe_stdinout" THEN 6 ELSE 4
        BY <1>2, <3>2 DEF Writer, WrAt
      <4> QED
        BY <1>1, <1>3, <2>1, <2>2, <3>2, <4>1 DEF PipeInv, Open
    <3> QED
      BY <3>1, <3>2
  <2>4. p # Reader /\ q[p].n = Limit /\ (p = "a" => q[p].pc # 2)
    BY <1>2, <1>4, <1>5
  <2> QED
    BY <1>1, <1>2, <2>1, <2>3, <2>4, PipeAdvances
<1>6. CASE q[p].n # Cmd(p).n
  <2>1. \E e \in ch["b"].wr : e[1] = p
    <3>1. CASE Popen
      <4>1. p = "b" /\ q["b"].pc = 2 /\ <<"b", "pfd">>[1] = "b"
        BY <1>2, <3>1 DEF Writer, WrAt
      <4> QED
        BY <1>1, <3>1, <4>1 DEF PipeInv, Open
    <3>2. CASE ~Popen
      <4>1. p = "a" /\ q["a"].pc = (IF sample = "ipc_pipe_stdinout" THEN 6 ELSE 4)
            /\ <<"a", "pfd">>[1] = "a" /\ <<"a", "stdout">>[1] = "a"
        BY <1>2, <3>2 DEF Writer, WrAt
      <4> QED
        BY <1>1, <3>2, <4>1 DEF PipeInv, Open
    <3> QED
      BY <3>1, <3>2
  <2>2. net.kills = 0 => ch["b"].rd # {}
    <3> SUFFICES ASSUME net.kills = 0 PROVE ch["b"].rd # {}
      OBVIOUS
    <3>1. ~(q[Reader].pc > RdAt)
      BY <1>2, <1>6 DEF PipeInv, AllRead
    <3>2. ~Gone(Reader)
      BY <1>4, <3>1 DEF PipeInv, InTime
    <3>3. q[Reader].st = "run"
      <4>1. q[Reader].st \in Stats /\ q[Reader].st # "none"
        BY <1>4 DEF PipeInv, Before, ChanInv, ChanShape, ProcRec
      <4> QED
        BY <3>2, <4>1 DEF Gone, Stats
    <3>4. CASE Popen
      <4>1. Reader = "a" /\ q["a"].pc <= 4
        BY <3>1, <3>4 DEF Reader, RdAt
      <4>2. q["a"].pc > 2
        BY <1>4, <3>3, <4>1 DEF PipeInv, Before
      <4> QED
        BY <3>3, <3>4, <4>1, <4>2 DEF PipeInv, Open
    <3>5. CASE ~Popen
      <4>1. Reader = "b" /\ q["b"].pc <= 3
        BY <3>1, <3>5 DEF Reader, RdAt
      <4> QED
        BY <3>3, <3>5, <4>1 DEF PipeInv, Open
    <3> QED
      BY <3>4, <3>5
  <2>3. CASE ch["b"].rd = {}
    <3>1. Leave(p, "errExit") /\ net.kills # 0
      BY <1>2, <1>6, <2>2, <2>3 DEF WriteCall
    <3> QED
      BY <1>1, <1>2, <1>4, <3>1, PipeLeaves
  <2>4. CASE ch["b"].rd # {}
    <3>1. PICK m : m = <<p, q[p].n + 1>>
      OBVIOUS
    <3>2. /\ q' = [q EXCEPT ![p].n = @ + 1] /\ UNCHANGED net
          /\ ch' = [ch EXCEPT !["b"].buf = Append(@, m)]
      BY <1>2, <1>6, <2>1, <2>4, <3>1 DEF WriteCall
    <3>3. /\ \A r \in {"a", "b"} : q'[r].st = q[r].st /\ q'[r].pc = q[r].pc /\ (r # p => q'[r].n = q[r].n)
          /\ q'[p].n = q[p].n + 1
      BY <1>2, <3>2 DEF ChanInv, ChanShape, ProcRec
    <3>4. /\ ch'["b"].rd = ch["b"].rd /\ ch'["b"].wr = ch["b"].wr
          /\ ch'["b"].buf = Append(ch["b"].buf, m)
      BY <3>2 DEF ChanInv, ChanShape, ChanRec, Chans
    <3>5. Flow'
      <4>1. got \in Seq(MsgPairs) /\ ch["b"].buf \in Seq(MsgPairs)
        BY DEF ChanInv, ChanShape, ChanRec, Chans
      <4>2. got \o ch["b"].buf = [k \in 1..q[p].n |-> <<p, k>>]
        BY <1>2 DEF PipeInv, Flow, Sent
      <4>3. PICK n \in Nat : n = q[p].n
        BY <1>2
      <4>4. got \o Append(ch["b"].buf, <<p, n + 1>>) = [k \in 1..n + 1 |-> <<p, k>>]
        <5>1. PICK s, t : s = got /\ t = ch["b"].buf
          OBVIOUS
        <5>2. s \in Seq(MsgPairs) /\ t \in Seq(MsgPairs) /\ s \o t = [k \in 1..n |-> <<p, k>>]
          BY <4>1, <4>2, <4>3, <5>1
        <5>3. s \o Append(t, <<p, n + 1>>) = [k \in 1..n + 1 |-> <<p, k>>]
          BY <5>2, WriteFlow, Zenon
        <5> QED
          BY <5>1, <5>3
      <4> QED
        BY <1>1, <1>2, <1>3, <3>1, <3>3, <3>4, <4>3, <4>4 DEF Flow, Sent
    <3>6. Before'
      <4>1. q["a"].pc > 2
        BY <1>2, <1>4 DEF PipeInv, Before, ChanInv, ChanShape, ProcRec
      <4> QED
        BY <1>4, <3>3, <4>1 DEF PipeInv, Before
    <3>7. Open'
      BY <1>1, <1>3, <3>3, <3>4 DEF PipeInv, Open
    <3>8. AllSent'
      BY <1>2, <1>3, <3>3 DEF AllSent
    <3>9. net'.kills = 0 => AllRead' /\ InTime'
      <4> SUFFICES ASSUME net'.kills = 0 PROVE AllRead' /\ InTime'
        OBVIOUS
      <4>1. net.kills = 0
        BY <3>2
      <4>2. ~(q[Reader].pc > RdAt)
        BY <1>2, <1>6, <4>1 DEF PipeInv, AllRead
      <4>3. AllRead'
        BY <1>3, <3>3, <4>2 DEF AllRead
      <4>4. InTime'
        BY <1>3, <3>3, <4>1 DEF PipeInv, InTime, Gone
      <4> QED
        BY <4>3, <4>4
    <3> QED
      BY <3>5, <3>6, <3>7, <3>8, <3>9 DEF PipeInv
  <2> QED
    BY <2>3, <2>4
<1> QED
  BY <1>5, <1>6

(* The reader reads, and meets the end of file when all was written.       *)
LEMMA PipeReads ==
  ASSUME ChanInv, PipeInv, sample \in PipeSamples, NEW p \in Procs, ReadCall(p)
  PROVE  PipeInv'
<1> USE PipeFacts
<1>1. Calls(p, "read") /\ UNCHANGED <<sample, net>> /\ q[p].st = "run"
  BY DEF ReadCall, Calls
<1>2. p = Reader /\ p \in {"a", "b"} /\ q[p].pc = RdAt /\ Cmd(p).eof = RdAt + 1 /\ Chan(p) = "b"
  BY <1>1, PipeTable DEF Calls
<1>3. /\ Writer' = Writer /\ Reader' = Reader /\ WrAt' = WrAt /\ RdAt' = RdAt /\ Limit' = Limit
      /\ (Popen' <=> Popen)
  BY <1>1 DEF Writer, Reader, WrAt, RdAt, Limit, Popen
<1>4. q["b"].st # "none" /\ q["a"].pc > 2
  <2>1. q["b"].st # "none"
    <3>1. CASE Popen
      <4>1. p = "a" /\ q["a"].pc = 4
        BY <1>2, <3>1 DEF Reader, RdAt
      <4> QED
        BY <4>1 DEF PipeInv, Before
    <3>2. CASE ~Popen
      BY <1>1, <1>2, <3>2 DEF Reader
    <3> QED
      BY <3>1, <3>2
  <2> QED
    BY <2>1 DEF PipeInv, Before
<1>5. /\ got \in Seq(MsgPairs) /\ ch["b"].buf \in Seq(MsgPairs) /\ ch \in [Chans -> ChanRec] /\ "b" \in Chans
      /\ q \in [Procs -> ProcRec]
  BY DEF ChanInv, ChanShape, ChanRec, Chans
<1>6. CASE ch["b"].buf # <<>>
  <2>1. PICK h, t : h = Head(ch["b"].buf) /\ t = Tail(ch["b"].buf)
    OBVIOUS
  <2>2. ch' = [ch EXCEPT !["b"].buf = t] /\ got' = Append(got, h) /\ UNCHANGED q
    BY <1>2, <1>6, <2>1 DEF ReadCall
  <2>3. ch'["b"].buf = t /\ ch'["b"].rd = ch["b"].rd /\ ch'["b"].wr = ch["b"].wr
    BY <1>5, <2>2 DEF ChanRec
  <2>4. Flow'
    <3>1. Append(got, h) \o t = got \o ch["b"].buf
      BY <1>5, <1>6, <2>1, ReadFlow
    <3> QED
      BY <1>3, <2>2, <2>3, <3>1 DEF PipeInv, Flow, Sent
  <2>5. Before' /\ Open'
    BY <1>1, <1>3, <1>4, <2>2, <2>3 DEF PipeInv, Before, Open
  <2>6. AllSent'
    BY <1>3, <2>2 DEF PipeInv, AllSent
  <2>7. AllRead'
    BY <1>2, <1>3, <2>2 DEF AllRead
  <2>8. net'.kills = 0 => InTime'
    BY <1>1, <1>3, <2>2 DEF PipeInv, InTime, Gone
  <2> QED
    BY <2>4, <2>5, <2>6, <2>7, <2>8 DEF PipeInv
<1>7. CASE ch["b"].buf = <<>>
  <2>1. /\ ch["b"].wr = {} /\ UNCHANGED <<ch, got>>
        /\ q' = [q EXCEPT ![p].pc = Cmd(p).eof, ![p].eof = TRUE]
    BY <1>2, <1>7 DEF ReadCall
  <2>2. /\ \A r \in {"a", "b"} : q'[r].st = q[r].st /\ q'[r].n = q[r].n /\ (r # p => q'[r].pc = q[r].pc)
        /\ q'[p].pc = RdAt + 1
    BY <1>2, <1>5, <2>1 DEF ProcRec
  <2>3. Flow'
    BY <1>3, <2>1, <2>2 DEF PipeInv, Flow, Sent
  <2>4. Before'
    <3>1. q'["a"].pc > 2
      <4>1. CASE p = "a"
        BY <1>2, <2>2, <4>1 DEF Reader, RdAt
      <4>2. CASE p = "b"
        BY <1>4, <2>2, <4>2
      <4> QED
        BY <1>2, <4>1, <4>2
    <3> QED
      BY <1>4, <2>2, <3>1 DEF PipeInv, Before
  <2>5. Open'
    <3>1. CASE Popen
      <4>1. p = "a" /\ q["a"].pc = 4 /\ q'["a"].pc = 5
        BY <1>2, <2>2, <3>1 DEF Reader, RdAt
      <4>2. sample # "ipc_pipe_stdinout"
        BY <3>1 DEF Popen
      <4> QED
        BY <1>1, <1>3, <2>1, <2>2, <3>1, <4>1, <4>2 DEF PipeInv, Open
    <3>2. CASE ~Popen
      <4>1. p = "b" /\ q["b"].pc = 2 /\ q'["b"].pc = 3
        BY <1>2, <2>2, <3>2 DEF Reader, RdAt
      <4> QED
        BY <1>1, <1>3, <2>1, <2>2, <3>2, <4>1 DEF PipeInv, Open
    <3> QED
      BY <3>1, <3>2
  <2>6. AllSent'
    BY <1>2, <1>3, <2>2 DEF PipeInv, AllSent
  <2>7. net'.kills = 0 => AllRead' /\ InTime'
    <3> SUFFICES ASSUME net'.kills = 0 PROVE AllRead' /\ InTime'
      OBVIOUS
    <3>1. net.kills = 0 /\ AllSent /\ InTime /\ Open
      BY <1>1 DEF PipeInv
    <3>2. q[Writer].pc > WrAt
      <4>1. CASE Gone(Writer)
        BY <1>4, <3>1, <4>1 DEF InTime
      <4>2. CASE ~Gone(Writer)
        <5>1. q[Writer].st = "run"
          <6>1. q[Writer].st \in Stats /\ q[Writer].st # "none"
            BY <1>4, <1>5 DEF PipeInv, Before, ProcRec
          <6> QED
            BY <4>2, <6>1 DEF Gone, Stats
        <5>2. CASE Popen
          <6>1. Writer = "b" /\ WrAt = 2
            BY <5>2 DEF Writer, WrAt
          <6>2. ~(q["b"].pc <= 3)
            BY <2>1, <3>1, <5>1, <5>2, <6>1 DEF Open
          <6> QED
            BY <6>1, <6>2
        <5>3. CASE ~Popen /\ sample = "ipc_pipe_stdinout"
          <6>1. Writer = "a" /\ WrAt = 6
            BY <5>3 DEF Writer, WrAt
          <6>2. q["a"].pc \notin 2..5 /\ q["a"].pc \notin 5..7
            BY <2>1, <3>1, <5>1, <5>3, <6>1 DEF Open
          <6> QED
            BY <1>4, <6>1, <6>2
        <5>4. CASE ~Popen /\ sample # "ipc_pipe_stdinout"
          <6>1. Writer = "a" /\ WrAt = 4
            BY <5>4 DEF Writer, WrAt
          <6>2. q["a"].pc \notin 2..5
            BY <2>1, <3>1, <5>1, <5>4, <6>1 DEF Open
          <6> QED
            BY <1>4, <6>1, <6>2
        <5> QED
          BY <5>2, <5>3, <5>4
      <4> QED
        BY <4>1, <4>2
    <3>3. AllRead'
      BY <1>2, <1>3, <1>7, <2>1, <2>2, <3>1, <3>2 DEF AllRead, AllSent
    <3>4. InTime'
      BY <1>1, <1>2, <1>3, <2>2, <3>1 DEF InTime, Gone
    <3> QED
      BY <3>3, <3>4
  <2> QED
    BY <2>3, <2>4, <2>5, <2>6, <2>7 DEF PipeInv
<1> QED
  BY <1>6, <1>7

(* Every step of a pipe sample keeps the invariant.                        *)
LEMMA PipeKept ==
  ASSUME ChanInv, PipeInv, ChanNext, sample \in PipeSamples
  PROVE  PipeInv'
<1> USE PipeFacts
<1>1. PICK p \in Procs : ProcStep(p) \/ Interrupt(p)
  BY DEF ChanNext
<1>2. q[p].st = "run"
  BY <1>1 DEF ProcStep, Interrupt, PipeCall, ForkCall, CloseCall, Dup2Call, Mkfifo, OpenCall, OpenFails, WriteCall,
              ReadCall, BindCall, ConnectCall, AcceptCall, AcceptInvalid, CloseConn, Sendto, Recvfrom, Answer, Ends, Calls
<1>3. p \in {"a", "b"} /\ Cmd(p).op \in {"pipe", "fork", "close", "dup2", "write", "read", "wait", "exit"}
  BY <1>2, PipeTable
<1>4. CASE Interrupt(p)
  BY <1>2, <1>3, <1>4, PipeLeaves DEF Interrupt
<1>5. CASE Ends(p)
  <2>1. UNCHANGED <<sample, got>>
    BY <1>5 DEF Ends
  <2>2. CASE Calls(p, "wait") /\ Advance(p) /\ UNCHANGED <<ch, net>>
    <3>1. p = "a" /\ q[p].pc > 5 /\ (sample = "ipc_pipe_stdinout" => q[p].pc > 7)
      BY <1>2, <2>2, PipeTable DEF Calls
    <3>2. /\ q'["b"].st = q["b"].st /\ q'["b"].pc = q["b"].pc /\ q'["a"].pc = q["a"].pc + 1
      BY <2>2, <3>1 DEF Advance, ChanInv, ChanShape, ProcRec
    <3>3. Open'
      <4>1. q'["a"].pc \notin 2..5 /\ (sample = "ipc_pipe_stdinout" => q'["a"].pc \notin 5..7)
        BY <3>1, <3>2
      <4> QED
        BY <2>1, <2>2, <3>2, <4>1 DEF Open, Popen, PipeInv
    <3>4. (p = Reader => q[p].pc # RdAt) /\ ~(p = Writer /\ q[p].pc = WrAt)
      BY <3>1 DEF Reader, RdAt, Writer, WrAt, Popen
    <3> QED
      BY <1>2, <1>3, <2>1, <2>2, <3>1, <3>3, <3>4, PipeAdvances
  <2>3. CASE Calls(p, "exit") /\ Leave(p, "exit")
    <3>1. q[p].pc > (IF p = Writer THEN WrAt ELSE RdAt)
      BY <1>2, <2>3, PipeTable DEF Calls
    <3>2. q[p].pc # 1
      BY <1>3, <3>1 DEF WrAt, RdAt
    <3> QED
      BY <1>2, <1>3, <2>1, <2>3, <3>1, <3>2, PipeLeaves
  <2>4. ~Calls(p, "goto")
    BY <1>3 DEF Calls
  <2> QED
    BY <1>5, <2>2, <2>3, <2>4 DEF Ends
<1>6. ~(\/ Mkfifo(p) \/ OpenCall(p) \/ OpenFails(p) \/ BindCall(p) \/ ConnectCall(p) \/ AcceptCall(p)
        \/ AcceptInvalid(p) \/ CloseConn(p) \/ Sendto(p) \/ Recvfrom(p) \/ Answer(p))
  BY <1>3 DEF Mkfifo, OpenCall, OpenFails, BindCall, ConnectCall, AcceptCall, AcceptInvalid, CloseConn,
              Sendto, Recvfrom, Answer, Calls
<1> QED
  BY <1>1, <1>4, <1>5, <1>6, PipeMade, PipeForked, PipeClosed, PipeWrites, PipeReads DEF ProcStep

(* The calls of the FIFO server and its clients.                           *)
LEMMA FifoTable ==
  ASSUME ChanInv, sample = "ipc_fifo", NEW p \in Procs, q[p].st = "run"
  PROVE  /\ Chan(p) = "b"
         /\ Cmd(p).op \in {"mkfifo", "openRd", "openWr", "read", "goto", "write", "exit"}
         /\ p = "a" => /\ Cmd(p).op = "mkfifo" => q[p].pc = 1
                       /\ Cmd(p).op = "openRd" => q[p].pc = 2
                       /\ Cmd(p).op = "openWr" => q[p].pc = 3
                       /\ Cmd(p).op \in {"read", "goto"} => q[p].pc > 3
                       /\ Cmd(p).op \notin {"write", "exit"}
         /\ p # "a" => Cmd(p).op \in {"openWr", "write", "exit"}
<1>1. sample \in ChanSamples /\ sample \notin StreamSamples
  BY DEF ChanSamples, StreamSamples, ChProgs
<1>2. Cmd(p) = Prog(p)[q[p].pc] /\ q[p].pc \in DOMAIN Prog(p)
  BY <1>1, AtOp
<1>3. p = "a" => Prog(p) = ipc_fifo_server
  BY DEF Prog, ChProgs, ipc_fifo
<1>4. p # "a" => Prog(p) = ipc_fifo_client
  BY DEF Prog, ChProgs, ipc_fifo, Procs
<1>5. \A k \in DOMAIN ipc_fifo_server :
        /\ ipc_fifo_server[k].op \in {"mkfifo", "openRd", "openWr", "read", "goto"}
        /\ ipc_fifo_server[k].op = "mkfifo" => k = 1
        /\ ipc_fifo_server[k].op = "openRd" => k = 2
        /\ ipc_fifo_server[k].op = "openWr" => k = 3
        /\ ipc_fifo_server[k].op \in {"read", "goto"} => k > 3
  BY DEF ipc_fifo_server, Do, ReadElse, Again
<1>6. \A k \in DOMAIN ipc_fifo_client : ipc_fifo_client[k].op \in {"openWr", "write", "exit"}
  BY DEF ipc_fifo_client, Do, WriteUpTo
<1> QED
  BY <1>1, <1>2, <1>3, <1>4, <1>5, <1>6 DEF Chan

(* A step of a client or of somebody who leaves does not touch the         *)
(* server's own writing end.                                               *)
LEMMA FifoOther ==
  ASSUME ChanInv, FifoInv, sample = "ipc_fifo", UNCHANGED sample, q'["a"] = q["a"],
         <<"a", "pfd">> \in ch["b"].wr => <<"a", "pfd">> \in ch'["b"].wr
  PROVE  FifoInv'
  BY DEF FifoInv

(* The FIFO server never meets an end of file, as it keeps a writing end.  *)
LEMMA FifoKept ==
  ASSUME ChanInv, FifoInv, ChanNext, sample = "ipc_fifo"
  PROVE  FifoInv'
<1>1. PICK p \in Procs : ProcStep(p) \/ Interrupt(p)
  BY DEF ChanNext
<1>2. q[p].st = "run" /\ UNCHANGED sample
  BY <1>1 DEF ProcStep, Interrupt, PipeCall, ForkCall, CloseCall, Dup2Call, Mkfifo, OpenCall, OpenFails, WriteCall,
              ReadCall, BindCall, ConnectCall, AcceptCall, AcceptInvalid, CloseConn, Sendto, SendGram, Recvfrom, Answer, Ends, Calls
<1>3. /\ Chan(p) = "b" /\ Cmd(p).op \in {"mkfifo", "openRd", "openWr", "read", "goto", "write", "exit"}
      /\ p = "a" => /\ Cmd(p).op = "mkfifo" => q[p].pc = 1
                    /\ Cmd(p).op = "openRd" => q[p].pc = 2
                    /\ Cmd(p).op = "openWr" => q[p].pc = 3
                    /\ Cmd(p).op \in {"read", "goto"} => q[p].pc > 3
                    /\ Cmd(p).op \notin {"write", "exit"}
      /\ p # "a" => Cmd(p).op \in {"openWr", "write", "exit"}
  BY <1>2, FifoTable
<1>4. /\ ch \in [Chans -> ChanRec] /\ "b" \in Chans /\ q \in [Procs -> ProcRec] /\ "a" \in Procs
      /\ \A r \in Procs : q[r].pc \in Nat
  BY DEF ChanInv, ChanShape, Chans, Procs, ProcRec
<1>5. ASSUME p # "a", NEW how, Leave(p, how) PROVE FifoInv'
  <2>1. q'["a"] = q["a"]
    BY <1>4, <1>5 DEF Leave
  <2>2. ch'["b"].wr = Drop(ch["b"].wr, p)
    BY <1>4, <1>5 DEF Leave, Without, ChanRec
  <2>3. <<"a", "pfd">> \in ch["b"].wr => <<"a", "pfd">> \in ch'["b"].wr
    BY <1>5, <2>2 DEF Drop
  <2> QED
    BY <1>2, <2>1, <2>3, FifoOther
<1>6. CASE Interrupt(p) \/ OpenFails(p)
  <2>1. p # "a"
    BY <1>6 DEF Interrupt, OpenFails, Calls
  <2> QED
    BY <1>5, <1>6, <2>1 DEF Interrupt, OpenFails
<1>7. CASE OpenCall(p)
  <2>1. Advance(p)
    BY <1>7 DEF OpenCall
  <2>2. \/ Cmd(p).op = "openRd" /\ ch'["b"].wr = ch["b"].wr
        \/ Cmd(p).op = "openWr" /\ ch'["b"].wr = ch["b"].wr \cup {<<p, "pfd">>}
    BY <1>4, <1>7 DEF OpenCall, Calls, ChanRec
  <2>3. CASE p = "a"
    <3>1. q'["a"].pc = q["a"].pc + 1 /\ (q'["a"].eof <=> q["a"].eof)
      BY <1>4, <2>1, <2>3 DEF Advance, ProcRec
    <3>2. CASE Cmd(p).op = "openRd"
      <4>1. q'["a"].pc = 3
        BY <1>3, <2>3, <3>1, <3>2
      <4> QED
        BY <3>1, <4>1 DEF FifoInv
    <3>3. CASE Cmd(p).op = "openWr"
      BY <2>2, <2>3, <3>1, <3>3 DEF FifoInv
    <3> QED
      BY <2>2, <3>2, <3>3
  <2>4. CASE p # "a"
    BY <1>2, <1>4, <2>1, <2>2, <2>4, FifoOther DEF Advance
  <2> QED
    BY <2>3, <2>4
<1>8. CASE WriteCall(p)
  <2>1. p # "a"
    BY <1>3, <1>8 DEF WriteCall, Calls
  <2>2. CASE Leave(p, "errExit")
    BY <1>5, <2>1, <2>2
  <2>3. CASE ~Leave(p, "errExit")
    <3>1. q'["a"] = q["a"]
      BY <1>4, <1>8, <2>1, <2>3 DEF WriteCall, Advance
    <3>2. ch'["b"].wr = ch["b"].wr
      BY <1>3, <1>4, <1>8, <2>3 DEF WriteCall, ChanRec
    <3> QED
      BY <1>2, <3>1, <3>2, FifoOther
  <2> QED
    BY <2>2, <2>3
<1>9. CASE ReadCall(p)
  <2>1. p = "a" /\ q["a"].pc > 3
    BY <1>3, <1>9 DEF ReadCall, Calls
  <2>2. ch["b"].wr # {}
    BY <1>2, <2>1 DEF FifoInv
  <2>3. UNCHANGED q /\ ch'["b"].wr = ch["b"].wr
    BY <1>3, <1>4, <1>9, <2>2 DEF ReadCall, ChanRec
  <2> QED
    BY <1>2, <2>3, FifoOther
<1>10. CASE Ends(p)
  <2>1. CASE Calls(p, "goto") /\ q' = [q EXCEPT ![p].pc = Cmd(p).to] /\ UNCHANGED <<ch, net>>
    <3>1. p = "a" /\ q["a"].pc > 3
      BY <1>3, <2>1 DEF Calls
    <3>2. q'["a"].st = q["a"].st /\ (q'["a"].eof <=> q["a"].eof)
      BY <1>4, <2>1, <3>1 DEF ProcRec
    <3> QED
      BY <1>2, <2>1, <3>1, <3>2 DEF FifoInv
  <2>2. CASE Calls(p, "exit") /\ Leave(p, "exit")
    BY <1>3, <1>5, <2>2 DEF Calls
  <2>3. ~Calls(p, "wait")
    BY <1>3 DEF Calls
  <2> QED
    BY <1>10, <2>1, <2>2, <2>3 DEF Ends
<1>11. ~(\/ PipeCall(p) \/ ForkCall(p) \/ CloseCall(p) \/ Dup2Call(p) \/ BindCall(p) \/ ConnectCall(p)
         \/ AcceptCall(p) \/ AcceptInvalid(p) \/ CloseConn(p) \/ Sendto(p) \/ Recvfrom(p) \/ Answer(p))
  BY <1>3 DEF PipeCall, ForkCall, CloseCall, Dup2Call, BindCall, ConnectCall, AcceptCall, AcceptInvalid,
              CloseConn, Sendto, Recvfrom, Answer, Calls
<1>12. CASE Mkfifo(p)
  <2>1. p = "a" /\ q["a"].pc = 1
    BY <1>3, <1>12 DEF Mkfifo, Calls
  <2>2. q'["a"].pc = 2 /\ (q'["a"].eof <=> q["a"].eof)
    BY <1>4, <1>12, <2>1 DEF Mkfifo, Advance, ProcRec
  <2> QED
    BY <2>2 DEF FifoInv
<1> QED
  BY <1>1, <1>6, <1>7, <1>8, <1>9, <1>10, <1>11, <1>12 DEF ProcStep

(* When both have ended and nobody was killed, all that was to be written  *)
(* has been read.                                                          *)
LEMMA PipeInvImplies == ChanInv /\ PipeInv /\ FifoInv => PipeDelivers
<1> SUFFICES ASSUME ChanInv, PipeInv, FifoInv PROVE PipeDelivers
  OBVIOUS
<1> USE PipeFacts
<1>1. ASSUME sample \in PipeSamples, Gone("a"), Gone("b"), net.kills = 0
      PROVE  got = IF sample = "ipc_pipe_popen" THEN [k \in 1..NumMsgs |-> <<"b", k>>]
                                                ELSE <<<<"a", 1>>>>
  <2>1. ch["b"].buf = <<>> /\ q[Writer].n = Limit
    <3>1. q["b"].st # "none" /\ AllRead /\ InTime
      BY <1>1 DEF Gone, PipeInv
    <3>2. Gone(Reader)
      BY <1>1 DEF Reader
    <3> QED
      BY <3>1, <3>2 DEF InTime, AllRead
  <2>2. got = [k \in 1..Limit |-> <<Writer, k>>]
    <3>1. got \in Seq(MsgPairs)
      BY DEF ChanInv, ChanShape
    <3>2. got \o <<>> = [k \in 1..Limit |-> <<Writer, k>>]
      BY <1>1, <2>1 DEF PipeInv, Flow, Sent
    <3>3. got \o <<>> = got
      BY <3>1
    <3> QED
      BY <3>2, <3>3
  <2>3. CASE sample = "ipc_pipe_popen"
    BY <1>1, <2>2, <2>3 DEF Limit, Writer, Popen
  <2>4. CASE sample # "ipc_pipe_popen"
    <3>1. Limit = 1 /\ Writer = "a"
      BY <1>1, <2>4 DEF Limit, Writer, Popen
    <3>2. [k \in 1..1 |-> <<"a", k>>] = <<<<"a", 1>>>>
      BY 1..1 = {1}
    <3> QED
      BY <2>2, <2>4, <3>1, <3>2
  <2> QED
    BY <2>3, <2>4
<1> QED
  BY <1>1 DEF PipeDelivers, FifoInv
-----------------------------------------------------------------------------
(* No step changes the sample that main() has called.                      *)
LEMMA SampleFixed ==
  ASSUME [Next]_allVars
  PROVE  sample' = sample
<1>1. ChanNext => sample' = sample
  BY DEF ChanNext, ProcStep, PipeCall, ForkCall, CloseCall, Dup2Call, Mkfifo, OpenCall, OpenFails, WriteCall,
         ReadCall, BindCall, ConnectCall, AcceptCall, AcceptInvalid, CloseConn, Sendto, Recvfrom, Answer, SendGram, Ends,
         Interrupt
<1>2. EventNext => sample' = sample
  BY DEF EventNext, OpenFifo, ReaderStep, EpollWait, HandleEvent, select_sample, pselect_sample,
         poll_sample, epoll_sample, WaitFor, ReadThen, alt_io_select, alt_io_poll, SetAsync,
         CheckFlag, ReadChunk, WriteInput, HangUp, WriterComesBack
<1>3. MsgNext => sample' = sample
  BY DEF MsgNext, ServerStep, ClientStep, Msgget, Lookup, Rmid, OpenIdFile, WriteIdFile, Msgrcv,
         IpcStat, KillServer, ReadIdFile, Msgsnd
<1>4. LockNext => sample' = sample
  BY DEF LockNext, LockStep, OpenSample, Flock, Funlock, lock_region_is_locked, lock_region_block,
         lock_region_nblock, KillLocker
<1>5. ShareNext => sample' = sample
  BY DEF ShareNext, mmap_anonymous_shared, ipc_posix_sem_create, OpenName, sem_wait, sem_post,
         Unlink, ipc_posix_shm_write, ipc_posix_shm_read, mmap_file_shared
<1> QED
  BY <1>1, <1>2, <1>3, <1>4, <1>5 DEF Next, allVars

(* The inductive invariant of file_lock.                                   *)
THEOREM LockInvariance == Spec => []LockInv
<1>1. Init => LockInv
  BY LockInitHolds DEF Init
<1>2. LockInv /\ [Next]_allVars => LockInv'
  <2> SUFFICES ASSUME LockInv, [Next]_allVars
               PROVE  LockInv'
    OBVIOUS
  <2>1. LockNext \/ UNCHANGED lockVars
    BY DEF Next, allVars
  <2>2. CASE UNCHANGED lockVars
    BY <2>2 DEF lockVars, LockInv, LockShape, LockTypeOK, Registered, Compatible
  <2> QED
    BY <2>1, <2>2, LockKept
<1> QED
  BY <1>1, <1>2, PTL DEF Spec, allVars

(* Runs that think they hold a lock are not in each other's way.           *)
THEOREM BeliefsAgreeHolds == Spec => []BeliefsAgree
  BY LockInvariance, LockInvImplies, PTL

(* The inductive invariant of the shared memory and semaphore samples.     *)
THEOREM ShareInvariance == Spec => []ShareInv
<1>1. Init => ShareInv
  BY ShareInitHolds DEF Init
<1>2. ShareInv /\ [Next]_allVars => ShareInv'
  <2> SUFFICES ASSUME ShareInv, [Next]_allVars
               PROVE  ShareInv'
    OBVIOUS
  <2>1. ShareNext \/ UNCHANGED shareVars
    BY DEF Next, allVars
  <2>2. CASE UNCHANGED shareVars
    <3>1. UNCHANGED <<sample, name, mem, us, fam>>
      BY <2>2, SampleFixed DEF shareVars
    <3> QED
      BY <3>1 DEF ShareInv, ShareShape, Allowed, Created, WrittenBy, ReadFrom, KnownTo, Family
  <2> QED
    BY <2>1, <2>2, ShareKept
<1> QED
  BY <1>1, <1>2, PTL DEF Spec, allVars

(* No reader has more mapped than there is.                                *)
THEOREM MappedInvariance == Spec => []Mapped
<1>1. Init => Mapped
  <2>1. ASSUME ShareInit, NEW u \in Users PROVE us[u].pc = 1
    BY <2>1 DEF ShareInit
  <2> QED
    BY <2>1 DEF Init, Mapped
<1>2. ShareInv /\ Mapped /\ [Next]_allVars => Mapped'
  <2> SUFFICES ASSUME ShareInv, Mapped, [Next]_allVars
               PROVE  Mapped'
    OBVIOUS
  <2>1. ShareNext \/ UNCHANGED shareVars
    BY DEF Next, allVars
  <2>2. CASE UNCHANGED shareVars
    BY <2>2 DEF shareVars, Mapped
  <2> QED
    BY <2>1, <2>2, MappedKept
<1> QED
  BY <1>1, <1>2, ShareInvariance, PTL DEF Spec, allVars

(* What was finished before is seen whole, and nobody reads beyond it.     *)
THEOREM SeenWholeHolds == Spec => []SeenWhole
  BY ShareInvariance, MappedInvariance, ShareInvImplies, PTL

(* The inductive invariant of the System V message queue sample.           *)
THEOREM MsgInvariance == Spec => []MsgInv
<1>1. Init => MsgInv
  BY MsgInitHolds DEF Init
<1>2. MsgInv /\ [Next]_allVars => MsgInv'
  <2> SUFFICES ASSUME MsgInv, [Next]_allVars
               PROVE  MsgInv'
    OBVIOUS
  <2>1. MsgNext \/ UNCHANGED msgVars
    BY DEF Next, allVars
  <2>2. CASE UNCHANGED msgVars
    BY <2>2 DEF msgVars, MsgInv, MsgShape, OneQueue, AllBacked, Backed, OwnIds, Served, Addressed,
                From
  <2> QED
    BY <2>1, <2>2, MsgKept
<1> QED
  BY <1>1, <1>2, PTL DEF Spec, allVars

(* Each message queue server serves a queue of its own, however servers    *)
(* remove and create queues, and prints nobody else's messages.            *)
THEOREM OwnQueueHolds == Spec => []OwnQueue
  BY MsgInvariance, MsgInvImplies, PTL

(* The inductive invariant of the samples that wait for input.             *)
THEOREM EventInvariance == Spec => []EventInv
<1>1. Init => EventInv
  BY EventInitHolds DEF Init
<1>2. EventInv /\ [Next]_allVars => EventInv'
  <2> SUFFICES ASSUME EventInv, [Next]_allVars
               PROVE  EventInv'
    OBVIOUS
  <2>1. EventNext \/ UNCHANGED eventVars
    BY DEF Next, allVars
  <2>2. CASE UNCHANGED eventVars
    <3>1. UNCHANGED <<sample, src, io>>
      BY <2>2, SampleFixed DEF eventVars
    <3>2. \A i : (NoFirst(i)' <=> NoFirst(i)) /\ (Opened(i)' <=> Opened(i))
      BY <3>1 DEF NoFirst, Opened
    <3>3. \A e : Reported(e)' <=> Reported(e)
      BY <3>1, <3>2 DEF Reported, closing
    <3> QED
      BY <3>1, <3>2, <3>3 DEF EventInv, EventShape, Places, EventsTrue, ClosedEmpty, Typed, OnlyOld
  <2> QED
    BY <2>1, <2>2, EventKept
<1> QED
  BY <1>1, <1>2, PTL DEF Spec, allVars

(* No input is forgotten: a FIFO that alt_io_epoll has closed holds at most *)
(* what a later writer put there, and alt_io_signal sleeps with its flag    *)
(* clear only after it has read everything or met a newline.                *)
THEOREM NothingForgottenHolds == Spec => []NothingForgotten
  BY EventInvariance, EventInvImplies, PTL

(* The inductive invariant of pipes, FIFOs and sockets.                    *)
THEOREM ChanInvariance == Spec => []ChanInv
<1>1. Init => ChanInv
  BY ChanInitHolds DEF Init
<1>2. ChanInv /\ [Next]_allVars => ChanInv'
  <2> SUFFICES ASSUME ChanInv, [Next]_allVars
               PROVE  ChanInv'
    OBVIOUS
  <2>1. ChanNext \/ UNCHANGED chanVars
    BY DEF Next, allVars
  <2>2. CASE UNCHANGED chanVars
    <3>1. UNCHANGED <<sample, q, ch, net, got>>
      BY <2>2, SampleFixed DEF chanVars
    <3> QED
      BY <3>1 DEF ChanInv, ChanShape, AtCall, Absent, Prog, Within, Limit, OwnEnds
  <2> QED
    BY <2>1, <2>2, ChanKept
<1> QED
  BY <1>1, <1>2, PTL DEF Spec, allVars

(* What parent and child of a pipe have done is in step with the pipe.     *)
THEOREM PipeInvariance == Spec => [](PipeInv /\ FifoInv)
<1>1. Init => PipeInv /\ FifoInv
  BY PipeInitHolds DEF Init
<1>2. ChanInv /\ PipeInv /\ FifoInv /\ [Next]_allVars => PipeInv' /\ FifoInv'
  <2> SUFFICES ASSUME ChanInv, PipeInv, FifoInv, [Next]_allVars
               PROVE  PipeInv' /\ FifoInv'
    OBVIOUS
  <2>1. ChanNext \/ UNCHANGED chanVars
    BY DEF Next, allVars
  <2>2. UNCHANGED sample
    BY SampleFixed
  <2>3. CASE UNCHANGED chanVars
    <3>1. UNCHANGED <<sample, q, ch, net, got>>
      BY <2>2, <2>3 DEF chanVars
    <3>2. /\ Writer' = Writer /\ Reader' = Reader /\ WrAt' = WrAt /\ RdAt' = RdAt /\ Limit' = Limit
          /\ (Popen' <=> Popen)
      BY <3>1 DEF Writer, Reader, WrAt, RdAt, Limit, Popen
    <3>3. /\ (Flow' <=> Flow) /\ (Before' <=> Before) /\ (Open' <=> Open) /\ (AllSent' <=> AllSent)
          /\ (AllRead' <=> AllRead) /\ (InTime' <=> InTime)
      BY <3>1, <3>2 DEF Flow, Sent, Before, Open, AllSent, AllRead, InTime, Gone
    <3> QED
      BY <3>1, <3>3 DEF PipeInv, FifoInv
  <2>4. CASE ChanNext
    <3>1. sample \notin PipeSamples => PipeInv'
      BY <2>2 DEF PipeInv
    <3>2. sample # "ipc_fifo" => FifoInv'
      BY <2>2 DEF FifoInv
    <3> QED
      BY <2>4, <3>1, <3>2, PipeKept, FifoKept
  <2> QED
    BY <2>1, <2>3, <2>4
<1> QED
  BY <1>1, <1>2, ChanInvariance, PTL DEF Spec, allVars

(* Everything written to a pipe is read, in order, and the FIFO server     *)
(* never sees an end of file.                                              *)
THEOREM PipeDeliversHolds == Spec => []PipeDelivers
  BY ChanInvariance, PipeInvariance, PipeInvImplies, PTL

(* The state of every sample is well formed.                               *)
THEOREM TypesOKHolds == Spec => []TypesOK
<1>1. LockInv => LockTypeOK
  BY DEF LockInv
<1>2. ChanInv /\ EventInv /\ MsgInv /\ LockInv /\ ShareInv /\ Mapped => TypesOK
  BY <1>1, ChanInvImplies, EventInvImplies, MsgInvImplies, ShareInvImplies DEF TypesOK
<1> QED
  BY <1>2, ChanInvariance, EventInvariance, MsgInvariance, LockInvariance, ShareInvariance,
     MappedInvariance, PTL
=============================================================================
