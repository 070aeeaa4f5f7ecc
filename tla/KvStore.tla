------------------------------ MODULE KvStore ------------------------------
(***************************************************************************)
(* The key-value store of a process with the reference count that          *)
(* kv_store.patch gives it: copy_process either shares the store of the    *)
(* caller (CLONE_THREAD) or allocates a new one, do_exit drops a reference *)
(* and the last one frees every node and the store.                        *)
(***************************************************************************)
EXTENDS KvBuckets

CONSTANTS
  InitTask,   \* the first process, which never exits (the kernel would panic)
  InitStore,  \* its store
  MaxRef      \* bound on a reference count

ASSUME InitAssumption == InitTask \in Tasks /\ InitStore \in Stores
ASSUME MaxRefAssumption == MaxRef \in Nat

VARIABLES
  tgid,       \* thread group of a task: the task that leads it
  child,      \* the task a caller of copy_process is building
  live,       \* the stores that are allocated
  ref         \* kv->ref_cnt

taskVars == <<tgid, child>>
storeVars == <<live, ref>>
vars == <<bucketVars, callVars, kv, pc, taskVars, storeVars>>

\* Tasks that exist and have not dropped their reference.
Alive(t) == pc[t] \notin {"none", "freeing"}

Holders(s) == {t \in Tasks : Alive(t) /\ kv[t] = s}

Init ==
  /\ head = [s \in Stores |-> NoEntries]
  /\ lock = [s \in Stores |-> NoLocks]
  /\ node = [n \in Nodes |-> NULL]
  /\ heap = {}
  /\ kv = [t \in Tasks |-> IF t = InitTask THEN InitStore ELSE NULL]
  /\ pc = [t \in Tasks |-> IF t = InitTask THEN "user" ELSE "none"]
  /\ call = [t \in Tasks |-> NULL]
  /\ entry = [t \in Tasks |-> NULL]
  /\ ret = [t \in Tasks |-> NULL]
  /\ tgid = [t \in Tasks |-> t]
  /\ child = [t \in Tasks |-> NULL]
  /\ live = {InitStore}
  /\ ref = [s \in Stores |-> IF s = InitStore THEN 1 ELSE 0]

\* A task_struct and a pid for the child: neither is reused while a thread of
\* the group the pid names is left.
Unused(c) ==
  /\ pc[c] = "none"
  /\ \A t \in Tasks : Alive(t) => tgid[t] # c

\* Mutant: the thread's reference is not counted.
CloneThreadNoRef(t, c) ==
  /\ pc[t] = "user"
  /\ Unused(c)
  /\ kv[t] # NULL
  /\ kv' = [kv EXCEPT ![c] = kv[t]]
  /\ tgid' = [tgid EXCEPT ![c] = tgid[t]]
  /\ child' = [child EXCEPT ![t] = c]
  /\ pc' = [pc EXCEPT ![t] = "clone", ![c] = "embryo"]
  /\ UNCHANGED <<bucketVars, callVars, storeVars>>

\* copy_process with CLONE_THREAD, up to and including its kv hook.
CloneThread(t, c) ==
  /\ pc[t] = "user"
  /\ Unused(c)
  /\ kv[t] # NULL
  /\ ref[kv[t]] < MaxRef
  /\ kv' = [kv EXCEPT ![c] = kv[t]]
  /\ ref' = [ref EXCEPT ![kv[t]] = @ + 1]
  /\ tgid' = [tgid EXCEPT ![c] = tgid[t]]
  /\ child' = [child EXCEPT ![t] = c]
  /\ pc' = [pc EXCEPT ![t] = "clone", ![c] = "embryo"]
  /\ UNCHANGED <<bucketVars, callVars, live>>

\* refcount_inc(&p->kv->ref_cnt) with p->kv NULL: the access faults.
CloneThreadFault(t) ==
  /\ pc[t] = "user"
  /\ \E c \in Tasks : Unused(c)
  /\ kv[t] = NULL
  /\ Goto(t, "oops")
  /\ UNCHANGED <<bucketVars, callVars, kv, taskVars, storeVars>>

\* Mutant: the reference count starts at zero.
InitKvStoreZero(c, s) ==
  /\ s \notin live
  /\ kv' = [kv EXCEPT ![c] = s]
  /\ live' = live \cup {s}
  /\ ref' = [ref EXCEPT ![s] = 0]
  /\ head' = [head EXCEPT ![s] = NoEntries]
  /\ lock' = [lock EXCEPT ![s] = NoLocks]
  /\ UNCHANGED <<node, heap>>

\* init_kv_store: a new store with one reference.
InitKvStore(c, s) ==
  /\ s \notin live
  /\ kv' = [kv EXCEPT ![c] = s]
  /\ live' = live \cup {s}
  /\ ref' = [ref EXCEPT ![s] = 1]
  /\ head' = [head EXCEPT ![s] = NoEntries]
  /\ lock' = [lock EXCEPT ![s] = NoLocks]
  /\ UNCHANGED <<node, heap>>

\* init_kv_store when kmalloc fails: the task keeps a NULL store and
\* copy_process goes on.
InitKvStoreFails(c) ==
  /\ kv' = [kv EXCEPT ![c] = NULL]
  /\ UNCHANGED <<bucketVars, storeVars>>

\* Mutant: the child keeps the pointer that dup_task_struct copied.
CloneProcessShares(t, c) ==
  /\ pc[t] = "user"
  /\ Unused(c)
  /\ kv' = [kv EXCEPT ![c] = kv[t]]
  /\ tgid' = [tgid EXCEPT ![c] = c]
  /\ child' = [child EXCEPT ![t] = c]
  /\ pc' = [pc EXCEPT ![t] = "clone", ![c] = "embryo"]
  /\ UNCHANGED <<bucketVars, callVars, storeVars>>

\* copy_process without CLONE_THREAD, up to and including its kv hook.
CloneProcess(t, c) ==
  /\ pc[t] = "user"
  /\ Unused(c)
  /\ \/ \E s \in Stores : InitKvStore(c, s)
     \/ InitKvStoreFails(c)
  /\ tgid' = [tgid EXCEPT ![c] = c]
  /\ child' = [child EXCEPT ![t] = c]
  /\ pc' = [pc EXCEPT ![t] = "clone", ![c] = "embryo"]
  /\ UNCHANGED callVars

\* The rest of copy_process succeeds and the child runs.
CloneDone(t) ==
  /\ pc[t] = "clone"
  /\ pc' = [pc EXCEPT ![t] = "user", ![child[t]] = "user"]
  /\ child' = [child EXCEPT ![t] = NULL]
  /\ UNCHANGED <<bucketVars, callVars, kv, tgid, storeVars>>

\* copy_process fails after the kv hook (cgroup_can_fork, a dying pid
\* namespace, a fatal signal).  The unwinding frees the task_struct and does
\* nothing about p->kv.
CloneFails(t) ==
  /\ pc[t] = "clone"
  /\ pc' = [pc EXCEPT ![t] = "user", ![child[t]] = "none"]
  /\ child' = [child EXCEPT ![t] = NULL]
  /\ UNCHANGED <<bucketVars, callVars, kv, tgid, storeVars>>

\* Mutant: the store is freed when one other user is left.
ExitEarly(t) ==
  /\ pc[t] \in {"user", "oops"}
  /\ t # InitTask
  /\ kv[t] # NULL
  /\ call' = [call EXCEPT ![t] = NULL]
  /\ ref' = [ref EXCEPT ![kv[t]] = @ - 1]
  /\ Goto(t, IF ref[kv[t]] <= 2 THEN "freeing" ELSE "none")
  /\ UNCHANGED <<bucketVars, entry, ret, kv, taskVars, live>>

\* cleanup_kv_store in do_exit, up to refcount_dec_and_test.  A task that
\* faulted in the kernel is made to exit.
Exit(t) ==
  /\ pc[t] \in {"user", "oops"}
  /\ t # InitTask
  /\ call' = [call EXCEPT ![t] = NULL]
  /\ \/ /\ kv[t] = NULL
        /\ Goto(t, "none")
        /\ UNCHANGED ref
     \/ /\ kv[t] # NULL
        /\ ref' = [ref EXCEPT ![kv[t]] = @ - 1]
        /\ Goto(t, IF ref[kv[t]] = 1 THEN "freeing" ELSE "none")
  /\ UNCHANGED <<bucketVars, entry, ret, kv, taskVars, live>>

\* Mutant: hlist_del without kfree.
FreeBucketUnlinks(t, b) ==
  /\ pc[t] = "freeing"
  /\ head[kv[t]][b] # <<>>
  /\ head' = [head EXCEPT ![kv[t]][b] = <<>>]
  /\ UNCHANGED <<lock, node, heap, callVars, kv, pc, taskVars, storeVars>>

\* The loop of cleanup_kv_store for one bucket with entries left: under its
\* lock every node is unlinked and freed.
FreeBucket(t, b) ==
  LET gone == Range(head[kv[t]][b]) IN
  /\ pc[t] = "freeing"
  /\ head[kv[t]][b] # <<>>
  /\ \A c \in 0 .. (b - 1) : head[kv[t]][c] = <<>>
  /\ lock[kv[t]][b] = NULL
  /\ heap' = heap \ gone
  /\ node' = [n \in Nodes |-> IF n \in gone THEN NULL ELSE node[n]]
  /\ head' = [head EXCEPT ![kv[t]][b] = <<>>]
  /\ UNCHANGED <<lock, callVars, kv, pc, taskVars, storeVars>>

\* The end of cleanup_kv_store: kfree(task->kv), task->kv = NULL.
FreeStore(t) ==
  /\ pc[t] = "freeing"
  /\ \A b \in Buckets : head[kv[t]][b] = <<>> /\ lock[kv[t]][b] = NULL
  /\ live' = live \ {kv[t]}
  /\ kv' = [kv EXCEPT ![t] = NULL]
  /\ Goto(t, "none")
  /\ UNCHANGED <<bucketVars, callVars, taskVars, ref>>

ExitStep(t) ==
  \/ \E b \in Buckets : FreeBucket(t, b)
  \/ FreeStore(t)

CloneStep(t) == CloneDone(t) \/ CloneFails(t)

InCallStep(t) == CallStep(t) /\ UNCHANGED <<taskVars, storeVars>>

Next ==
  \E t \in Tasks :
    \/ \E c \in Calls : Syscall(t, c) /\ UNCHANGED <<taskVars, storeVars>>
    \/ InCallStep(t)
    \/ \E c \in Tasks : CloneThread(t, c) \/ CloneProcess(t, c)
    \/ CloneThreadFault(t)
    \/ CloneStep(t)
    \/ Exit(t)
    \/ ExitStep(t)

Spec == Init /\ [][Next]_vars

TypeOK ==
  /\ BucketTypeOK
  /\ pc \in [Tasks -> {"none", "embryo", "user", "clone", "lock", "scan",
                       "store", "unlock", "oops", "freeing"}]
  /\ tgid \in [Tasks -> Tasks]
  /\ child \in [Tasks -> Tasks \cup {NULL}]
  /\ live \subseteq Stores
  /\ ref \in [Stores -> Nat]
-----------------------------------------------------------------------------
(* The map that the store implements. *)

\* The value the chains of s hold for k.
Lookup(s, k) ==
  LET hits == {n \in Range(head[s][hash(k)]) : node[n].key = k}
  IN  IF hits = {} THEN NULL ELSE node[CHOOSE n \in hits : TRUE].value

AbstractMap ==
  [s \in Stores |-> [k \in Keys |-> IF Holders(s) = {} THEN NULL ELSE Lookup(s, k)]]

AbstractProc == [t \in Tasks |-> IF Alive(t) THEN kv[t] ELSE NULL]

\* A call without a store is none: it faults before it does anything.
AbstractPhase ==
  [t \in Tasks |->
     CASE pc[t] \in {"lock", "scan", "store"} /\ kv[t] # NULL -> "pending"
       [] pc[t] = "unlock" -> "done"
       [] OTHER -> "idle"]

AbstractReq == [t \in Tasks |-> IF kv[t] = NULL THEN NULL ELSE call[t]]

Map == INSTANCE KvMap WITH
  map <- AbstractMap,
  proc <- AbstractProc,
  phase <- AbstractPhase,
  req <- AbstractReq,
  res <- ret

\* Every call of every interleaving of calls, forks (failed ones included) and
\* exits acts on its process's map in one step, and a process never sees the
\* entries of another or of one that is gone.
Linearizable == Map!MapSpec

-----------------------------------------------------------------------------

\* A reference count is never below the number of tasks that use the store:
\* refcount_inc in copy_process and refcount_dec_and_test in do_exit race, and
\* forks fail half way.
RefCountCovers ==
  \A s \in Stores : Cardinality(Holders(s)) <= ref[s]

\* No task, whatever it is doing, has a pointer to a freed store or a freed
\* node that it is still going to follow.
NoUseAfterFree ==
  \A t \in Tasks :
    /\ pc[t] # "none" /\ kv[t] # NULL => kv[t] \in live
    /\ entry[t] # NULL => entry[t] \in heap

\* While the last thread frees a store nobody else is in it or waits for it,
\* so the frees cannot meet a walk of a chain.
FreeingAlone ==
  \A t, u \in Tasks :
    /\ pc[t] = "freeing"
    /\ pc[u] # "none"
    /\ kv[u] = kv[t]
    => u = t

\* Every node that was allocated is on exactly one chain of a store that is
\* still allocated: no path of write_kv or of the cleanup loses or relinks one.
NodesAccounted ==
  /\ heap = UNION {Range(head[s][b]) : s \in live, b \in Buckets}
  /\ \A s1, s2 \in Stores, b1, b2 \in Buckets :
       \A i \in DOMAIN head[s1][b1], j \in DOMAIN head[s2][b2] :
         head[s1][b1][i] = head[s2][b2][j] => s1 = s2 /\ b1 = b2 /\ i = j

\* Tasks use the same store exactly if they are threads of the same process.
Isolation ==
  \A t, u \in Tasks :
    Alive(t) /\ Alive(u) /\ kv[t] # NULL =>
      (kv[t] = kv[u] <=> tgid[t] = tgid[u])

\* "release the kv_store when the task is released": a store is allocated only
\* as long as some task has it.  A fork that fails after the kv hook breaks it.
StoreReleased ==
  \A s \in live : \E t \in Tasks : pc[t] # "none" /\ kv[t] = s

\* "success return the number of bytes written, fail return -1": a call always
\* returns.  It does not in a process whose init_kv_store failed.
CallsNeverFault ==
  \A t \in Tasks : pc[t] # "oops"

-----------------------------------------------------------------------------
(* The inductive invariant that the proofs of the properties above rest on. *)

\* A task in a call has arguments, a store and its bucket's lock.
CallInv ==
  \A t \in Tasks :
    /\ pc[t] \in InCall \cup {"lock"} => call[t] \in Calls
    /\ pc[t] = "store" => call[t].op = "write"
    /\ pc[t] \in InCall => kv[t] # NULL /\ lock[kv[t]][hash(call[t].k)] = t

\* The child a fork is building is nobody else's.
CloneInv ==
  \A t \in Tasks :
    pc[t] = "clone" =>
      /\ child[t] \in Tasks
      /\ pc[child[t]] = "embryo"
      /\ \A u \in Tasks : pc[u] = "clone" /\ child[u] = child[t] => u = t

\* Counts, and who may reach a store.
LifeInv ==
  /\ RefCountCovers
  /\ FreeingAlone
  /\ \A t \in Tasks : pc[t] = "freeing" => kv[t] # NULL
  /\ \A t \in Tasks : pc[t] # "none" /\ kv[t] # NULL => kv[t] \in live

\* Chains hold allocated nodes, each at one place.
ChainInv ==
  /\ \A n \in heap : node[n] \in KvNode
  /\ \A s \in Stores, b \in Buckets : Range(head[s][b]) \subseteq heap
  /\ \A s1, s2 \in Stores, b1, b2 \in Buckets :
       \A i \in DOMAIN head[s1][b1], j \in DOMAIN head[s2][b2] :
         head[s1][b1][i] = head[s2][b2][j] => s1 = s2 /\ b1 = b2 /\ i = j

\* What a walk found stays true until its task unlocks.
EntryInv ==
  \A t \in Tasks :
    LET chain == Range(head[kv[t]][hash(call[t].k)]) IN
    /\ entry[t] # NULL => /\ pc[t] \in {"store", "unlock"}
                          /\ entry[t] \in chain
                          /\ node[entry[t]].key = call[t].k
    /\ pc[t] = "store" /\ entry[t] = NULL => \A n \in chain : node[n].key # call[t].k

\* All of it together.
IInv ==
  /\ TypeOK
  /\ CallInv
  /\ CloneInv
  /\ LifeInv
  /\ ChainInv
  /\ EntryInv
  /\ UniqueKeys

=============================================================================
