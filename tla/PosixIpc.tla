------------------------------ MODULE PosixIpc ------------------------------
(***************************************************************************)
(* Memory and semaphores shared under a name or through fork:              *)
(*   LinuxAPI2/ipc_posix_sem.c, ipc_posix_shm.c, mmap_func.c               *)
(* Every user runs one of the functions of the sample.  An object is named *)
(* by the user that created it and lives on while it is open, though its   *)
(* name may be gone or stand for another one.  Memory is two cells; what   *)
(* is stored in a cell is who stored it.                                   *)
(***************************************************************************)
EXTENDS Samples, Integers, FiniteSets

CONSTANT Users
NoUser == "nobody"
ASSUME UsersAssumption == Users # {} /\ NoUser \notin Users

Ops == [ipc_posix_sem |-> {"create", "acquire", "release", "destroy"},
        ipc_posix_shm |-> {"write", "read", "destroy"},
        mmap_file_shared |-> {"show", "set"}]
ShareSamples == DOMAIN Ops \cup {"mmap_anonymous_shared"}

VARIABLES name,  \* the object that the name stands for
          mem,   \* per object: value of a semaphore, size and cells of memory
          us,    \* per user: its function, where it is, its object, what it prints
          fam    \* parent and child of mmap_anonymous_shared

shareVars == <<name, mem, us, fam>>

(* A semaphore is never negative, and an object that is open was created   *)
(* by a user that ran create or write.                                     *)
ShareTypeOK ==
  /\ name \in Users \cup {NoUser}
  /\ \A o \in Users : mem[o].val >= 0 /\ mem[o].size \in {0, 2}
  /\ sample \in DOMAIN Ops \ {"mmap_file_shared"} =>
       \A u \in Users : us[u].obj # NoUser => us[us[u].obj].op \in {"create", "write"}
  /\ fam.parent \in {"start", "forked", "end", "exit"}
  /\ fam.child \in {"none", "start", "half", "gone"}

ShareInit ==
  /\ name = IF sample = "mmap_file_shared" THEN CHOOSE u \in Users : TRUE ELSE NoUser
  /\ mem = [o \in Users |-> [val |-> 0, cell |-> <<NoUser, NoUser>>,
                             size |-> IF sample = "mmap_file_shared" THEN 2 ELSE 0]]
  /\ us \in [Users -> [op : IF sample \in DOMAIN Ops THEN Ops[sample] ELSE {"none"},
                       pc : {1}, obj : {NoUser}, size : {0}, out : {<<NoUser, NoUser>>},
                       late : {FALSE}]]
  /\ fam = [parent |-> "start", child |-> "none", shared |-> 0, local |-> 0, out |-> <<0, 0>>]

Ended == 9
errExit == 10
At(u, o, l) == us[u].op = o /\ us[u].pc = l
To(u, l)    == us' = [us EXCEPT ![u].pc = l]
Obj(u)      == us[u].obj
-----------------------------------------------------------------------------
\* O_CREAT | O_EXCL; that it failed is not looked at.
ipc_posix_sem_create(u) ==
  /\ At(u, "create", 1) /\ To(u, Ended) /\ UNCHANGED <<sample, mem, fam>>
  /\ name' = IF name = NoUser THEN u ELSE name

\* O_CREAT given where an existing object is meant.
MutOpenCreates(u) ==
  /\ us[u].op \in {"acquire", "release", "read"} /\ us[u].pc = 1
  /\ UNCHANGED <<sample, mem, fam>>
  /\ name' = IF name = NoUser THEN u ELSE name
  /\ us' = [us EXCEPT ![u].pc = 2, ![u].obj = name',
                       ![u].late = name # NoUser /\ us[name'].pc = Ended]

\* sem_open or shm_open of a name; which of a writer's objects is complete
\* at that moment is remembered in late.
OpenName(u) ==
  /\ us[u].op \in {"acquire", "release", "read"} /\ us[u].pc = 1
  /\ UNCHANGED <<sample, name, mem, fam>>
  /\ IF name = NoUser THEN To(u, errExit)
     ELSE us' = [us EXCEPT ![u].pc = 2, ![u].obj = name, ![u].late = us[name].pc = Ended]

sem_wait(u) ==
  /\ At(u, "acquire", 2) /\ mem[Obj(u)].val > 0 /\ To(u, Ended) /\ UNCHANGED <<sample, name, fam>>
  /\ mem' = [mem EXCEPT ![Obj(u)].val = @ - 1]

sem_post(u) ==
  /\ At(u, "release", 2) /\ To(u, Ended) /\ UNCHANGED <<sample, name, fam>>
  /\ mem' = [mem EXCEPT ![Obj(u)].val = @ + 1]

\* sem_unlink, shm_unlink.
Unlink(u) ==
  /\ At(u, "destroy", 1) /\ UNCHANGED <<sample, mem, fam>>
  /\ name' = NoUser /\ To(u, IF name = NoUser THEN errExit ELSE Ended)
-----------------------------------------------------------------------------
\* shm_open(O_EXCL), ftruncate and mmap, memcpy.
ipc_posix_shm_write(u) ==
  /\ us[u].op = "write" /\ UNCHANGED <<sample, fam>>
  /\ \/ /\ us[u].pc = 1 /\ name # NoUser /\ To(u, errExit) /\ UNCHANGED <<name, mem>>
     \/ /\ us[u].pc = 1 /\ name = NoUser /\ name' = u
        /\ us' = [us EXCEPT ![u].pc = 2, ![u].obj = u] /\ UNCHANGED mem
     \/ /\ us[u].pc = 2 /\ To(u, 3) /\ mem' = [mem EXCEPT ![u].size = 2] /\ UNCHANGED name
     \/ /\ us[u].pc = 3 /\ To(u, 4) /\ mem' = [mem EXCEPT ![u].cell[1] = u] /\ UNCHANGED name
     \/ /\ us[u].pc = 4 /\ To(u, Ended) /\ mem' = [mem EXCEPT ![u].cell[2] = u] /\ UNCHANGED name

MutFixedSize(u) == 2
\* fstat: what is mapped is what there was when the size was asked for.
st_size(u) == mem[Obj(u)].size

\* A mapping of no bytes is refused.
ipc_posix_shm_read(u) ==
  /\ us[u].op = "read" /\ UNCHANGED <<sample, name, mem, fam>>
  /\ \/ us[u].pc = 2 /\ us' = [us EXCEPT ![u].pc = 3, ![u].size = st_size(u)]
     \/ us[u].pc = 3 /\ us[u].size = 0 /\ To(u, errExit)
     \/ /\ us[u].pc = 3 /\ us[u].size > 0
        /\ us' = [us EXCEPT ![u].pc = 4, ![u].out[1] = mem[Obj(u)].cell[1]]
     \/ us[u].pc = 4 /\ us' = [us EXCEPT ![u].pc = Ended, ![u].out[2] = mem[Obj(u)].cell[2]]
-----------------------------------------------------------------------------
\* Print what the file holds and, given an argument, clear it and store.
mmap_file_shared(u) ==
  /\ us[u].op \in {"show", "set"} /\ UNCHANGED <<sample, name, fam>>
  /\ LET f == mem[name].cell
         Store(l, c) == To(u, l) /\ mem' = [mem EXCEPT ![name].cell = c] IN
     \/ /\ us[u].pc = 1 /\ UNCHANGED mem
        /\ us' = [us EXCEPT ![u].pc = IF us[u].op = "show" THEN Ended ELSE 2, ![u].out = f]
     \/ us[u].pc = 2 /\ Store(3, <<NoUser, NoUser>>)
     \/ us[u].pc = 3 /\ Store(4, <<u, f[2]>>)
     \/ us[u].pc = 4 /\ Store(5, <<f[1], u>>)
     \/ us[u].pc = 5 /\ us' = [us EXCEPT ![u].pc = Ended, ![u].out = f] /\ UNCHANGED mem

\* wait(NULL) before the parent prints.
parent_may_print == fam.child = "gone"

\* *shared and *local are 1; the child adds one to each, local being a copy.
mmap_anonymous_shared ==
  /\ sample = "mmap_anonymous_shared" /\ UNCHANGED <<sample, name, mem, us>>
  /\ \/ /\ fam.parent = "start"
        /\ \/ fam' = [fam EXCEPT !.parent = "forked", !.child = "start", !.shared = 1, !.local = 1]
           \/ fam' = [fam EXCEPT !.parent = "exit"]          \* fork fails
     \/ fam.child = "start" /\ fam' = [fam EXCEPT !.child = "half", !.shared = @ + 1]
     \/ fam.child = "half" /\ fam' = [fam EXCEPT !.child = "gone"]
     \/ /\ fam.parent = "forked" /\ parent_may_print
        /\ fam' = [fam EXCEPT !.parent = "end", !.out = <<fam.shared, fam.local>>]
-----------------------------------------------------------------------------
ShareNext ==
  /\ sample \in ShareSamples
  /\ \/ mmap_anonymous_shared
     \/ \E u \in Users :
          \/ ipc_posix_sem_create(u) \/ OpenName(u) \/ sem_wait(u) \/ sem_post(u) \/ Unlink(u)
          \/ ipc_posix_shm_write(u) \/ ipc_posix_shm_read(u) \/ mmap_file_shared(u)
-----------------------------------------------------------------------------
(* What was finished before is seen whole, and who comes early does no     *)
(* harm.  A reader that opens the shared memory after its writer has       *)
(* returned prints the message; one that came before the object was given  *)
(* its size or its contents never has more mapped than there is, so that   *)
(* no access is fatal, and prints a part of the message and nothing of     *)
(* another writer's, though the name is unlinked and created again         *)
(* meanwhile.  The parent prints its child's increment of the shared cell  *)
(* and not of the private one.                                             *)
SeenWhole ==
  /\ \A u \in Users : us[u].op = "read" =>
       /\ us[u].pc \in {3, 4} => us[u].size <= mem[Obj(u)].size
       /\ us[u].pc = Ended =>
            /\ us[u].late => us[u].out = <<Obj(u), Obj(u)>>
            /\ {us[u].out[1], us[u].out[2]} \subseteq {Obj(u), NoUser}
  /\ fam.parent = "end" => fam.out = <<2, 1>>
=============================================================================
