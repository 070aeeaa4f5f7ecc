----------------------------- MODULE KvBuckets -----------------------------
(***************************************************************************)
(* The write_kv (449) and read_kv (450) system calls: a hash table of      *)
(* spinlocked buckets reached through current->kv.  The two calls are the  *)
(* same code in kernel/kv_store.c of the tree and in kv_store.patch; what  *)
(* differs between the two is the lifetime of a store; KvStore adds that   *)
(* of the patch on top of this module.                                     *)
(*                                                                         *)
(* A call is a sequence of steps of its task: spin on the bucket's lock,   *)
(* walk the chain, update or insert, unlock and return.                    *)
(***************************************************************************)
EXTENDS Integers, Sequences, FiniteSets, Functions

CONSTANTS
  Tasks,      \* task_structs
  Stores,     \* memory for kv stores
  Nodes,      \* memory for struct kv_node
  Keys,       \* int keys that programs use
  Values,     \* int values that programs store
  NBuckets,   \* 1024 in the code
  NULL

ASSUME TasksAssumption == IsFiniteSet(Tasks)
ASSUME NBucketsAssumption == NBuckets \in Nat \ {0}
ASSUME KeysAssumption == Keys \subseteq Int
ASSUME ValuesAssumption == Values \subseteq Int
ASSUME NULLAssumption == NULL \notin Tasks \cup Stores \cup Nodes \cup Int

VARIABLES
  head,       \* kv->head: the chain of nodes of each bucket, first node first
  lock,       \* kv->locks: the task that holds each bucket's spinlock, or NULL
  node,       \* key and value of each kv_node, NULL while it is free memory
  heap,       \* the kv_nodes that are allocated
  kv,         \* task->kv
  pc,         \* where each task is
  call,       \* arguments of the system call a task is in
  entry,      \* the node its walk of the chain found, or NULL
  ret         \* the value the call is about to return

bucketVars == <<head, lock, node, heap>>
callVars == <<call, entry, ret>>

Buckets == 0 .. NBuckets - 1

\* k & 1023: the low bits of a two's complement int, so never negative.
hash(k) == k % NBuckets

SizeofInt == 4

KvNode == [key: Keys, value: Values]

Calls == [op: {"write"}, k: Keys, v: Values] \cup [op: {"read"}, k: Keys]

\* Points of a task inside a call, with the bucket's lock held.
InCall == {"scan", "store", "unlock"}

\* An empty store: spin_lock_init and INIT_HLIST_HEAD of every bucket.
NoLocks == [b \in Buckets |-> NULL]
NoEntries == [b \in Buckets |-> <<>>]

Goto(t, to) == pc' = [pc EXCEPT ![t] = to]

\* The system call's entry: everything before spin_lock.
Syscall(t, c) ==
  /\ pc[t] = "user"
  /\ Goto(t, "lock")
  /\ call' = [call EXCEPT ![t] = c]
  /\ UNCHANGED <<bucketVars, kv, entry, ret>>

\* Mutant: the bucket's lock is not waited for.
SpinLockNoWait(t) ==
  /\ pc[t] = "lock"
  /\ kv[t] # NULL
  /\ lock' = [lock EXCEPT ![kv[t]][hash(call[t].k)] = t]
  /\ Goto(t, "scan")
  /\ UNCHANGED <<head, node, heap, kv, callVars>>

\* spin_lock(&task->kv->locks[hash])
SpinLock(t) ==
  LET b == hash(call[t].k) IN
  /\ pc[t] = "lock"
  /\ kv[t] # NULL
  /\ lock[kv[t]][b] = NULL
  /\ lock' = [lock EXCEPT ![kv[t]][b] = t]
  /\ Goto(t, "scan")
  /\ UNCHANGED <<head, node, heap, kv, callVars>>

\* The same line when task->kv is NULL: the access faults.
NullFault(t) ==
  /\ pc[t] = "lock"
  /\ kv[t] = NULL
  /\ Goto(t, "oops")
  /\ UNCHANGED <<bucketVars, kv, callVars>>

\* hlist_for_each_entry stops at the first node with the key, n, or finds none.
FirstMatch(t, n) ==
  LET chain == head[kv[t]][hash(call[t].k)]
      Hit(i) == node[chain[i]].key = call[t].k
  IN  \/ /\ n = NULL
         /\ \A i \in 1 .. Len(chain) : ~Hit(i)
      \/ \E i \in 1 .. Len(chain) :
           /\ n = chain[i]
           /\ Hit(i)
           /\ \A j \in 1 .. (i - 1) : ~Hit(j)

\* Mutant: the walk stops before the last node.
WriteScanNotLast(t) ==
  LET chain == head[kv[t]][hash(call[t].k)]
      hits == {i \in 1 .. (Len(chain) - 1) : node[chain[i]].key = call[t].k} IN
  /\ pc[t] = "scan"
  /\ call[t].op = "write"
  /\ \E n \in Nodes \cup {NULL} :
       /\ n = NULL <=> hits = {}
       /\ n # NULL => \E i \in hits : n = chain[i]
       /\ entry' = [entry EXCEPT ![t] = n]
  /\ Goto(t, "store")
  /\ UNCHANGED <<bucketVars, kv, call, ret>>

\* write_kv's walk, up to old_entry.
WriteScan(t) ==
  /\ pc[t] = "scan"
  /\ call[t].op = "write"
  /\ \E n \in Nodes \cup {NULL} :
       /\ FirstMatch(t, n)
       /\ entry' = [entry EXCEPT ![t] = n]
  /\ Goto(t, "store")
  /\ UNCHANGED <<bucketVars, kv, call, ret>>

\* read_kv's walk: ret is the value found, -1 if there is none.
ReadScan(t) ==
  /\ pc[t] = "scan"
  /\ call[t].op = "read"
  /\ \E n \in Nodes \cup {NULL} :
       /\ FirstMatch(t, n)
       /\ ret' = [ret EXCEPT ![t] = IF n = NULL THEN -1 ELSE node[n].value]
  /\ Goto(t, "unlock")
  /\ UNCHANGED <<bucketVars, kv, call, entry>>

\* old_entry->value = v
Update(t) ==
  /\ pc[t] = "store"
  /\ entry[t] # NULL
  /\ node' = [node EXCEPT ![entry[t]].value = call[t].v]
  /\ ret' = [ret EXCEPT ![t] = SizeofInt]
  /\ Goto(t, "unlock")
  /\ UNCHANGED <<head, lock, heap, kv, call, entry>>

\* Mutant: the new node replaces the chain instead of going in front of it.
InsertAlone(t, n) ==
  /\ pc[t] = "store"
  /\ entry[t] = NULL
  /\ n \notin heap
  /\ heap' = heap \cup {n}
  /\ node' = [node EXCEPT ![n] = [key |-> call[t].k, value |-> call[t].v]]
  /\ head' = [head EXCEPT ![kv[t]][hash(call[t].k)] = <<n>>]
  /\ ret' = [ret EXCEPT ![t] = SizeofInt]
  /\ Goto(t, "unlock")
  /\ UNCHANGED <<lock, kv, call, entry>>

\* kmalloc gives n, which goes to the front of the chain.  It is GFP_KERNEL and
\* may sleep first, with the bucket locked: KvCpus has that wait.
Insert(t, n) ==
  LET b == hash(call[t].k) IN
  /\ pc[t] = "store"
  /\ entry[t] = NULL
  /\ n \notin heap
  /\ heap' = heap \cup {n}
  /\ node' = [node EXCEPT ![n] = [key |-> call[t].k, value |-> call[t].v]]
  /\ head' = [head EXCEPT ![kv[t]][b] = <<n>> \o @]
  /\ ret' = [ret EXCEPT ![t] = SizeofInt]
  /\ Goto(t, "unlock")
  /\ UNCHANGED <<lock, kv, call, entry>>

\* Mutant: a failed allocation is reported as a write.
InsertFailsSilently(t) ==
  /\ pc[t] = "store"
  /\ entry[t] = NULL
  /\ ret' = [ret EXCEPT ![t] = SizeofInt]
  /\ Goto(t, "unlock")
  /\ UNCHANGED <<bucketVars, kv, call, entry>>

\* Mutant: the error path returns without spin_unlock.
InsertFailsLocked(t) ==
  /\ pc[t] = "store"
  /\ entry[t] = NULL
  /\ call' = [call EXCEPT ![t] = NULL]
  /\ Goto(t, "user")
  /\ UNCHANGED <<bucketVars, kv, entry, ret>>

\* kmalloc returns NULL: the call unlocks and returns -1.
InsertFails(t) ==
  /\ pc[t] = "store"
  /\ entry[t] = NULL
  /\ ret' = [ret EXCEPT ![t] = -1]
  /\ Goto(t, "unlock")
  /\ UNCHANGED <<bucketVars, kv, call, entry>>

\* spin_unlock and return.
SpinUnlock(t) ==
  /\ pc[t] = "unlock"
  /\ lock' = [lock EXCEPT ![kv[t]][hash(call[t].k)] = NULL]
  /\ call' = [call EXCEPT ![t] = NULL]
  /\ entry' = [entry EXCEPT ![t] = NULL]
  /\ ret' = [ret EXCEPT ![t] = NULL]
  /\ Goto(t, "user")
  /\ UNCHANGED <<head, node, heap, kv>>

\* What a task does by itself once it is inside a call.
CallStep(t) ==
  \/ SpinLock(t)
  \/ NullFault(t)
  \/ WriteScan(t)
  \/ ReadScan(t)
  \/ Update(t)
  \/ \E n \in Nodes : Insert(t, n)
  \/ InsertFails(t)
  \/ SpinUnlock(t)

BucketTypeOK ==
  /\ head \in [Stores -> [Buckets -> Seq(Nodes)]]
  /\ lock \in [Stores -> [Buckets -> Tasks \cup {NULL}]]
  /\ node \in [Nodes -> KvNode \cup {NULL}]
  /\ heap \subseteq Nodes
  /\ kv \in [Tasks -> Stores \cup {NULL}]
  /\ call \in [Tasks -> Calls \cup {NULL}]
  /\ entry \in [Tasks -> Nodes \cup {NULL}]
  /\ ret \in [Tasks -> Int \cup {NULL}]

-----------------------------------------------------------------------------

\* Two tasks are never at once between spin_lock and spin_unlock of the same
\* bucket of the same store.
MutualExclusion ==
  \A t, u \in Tasks :
    /\ pc[t] \in InCall
    /\ pc[u] \in InCall
    /\ kv[t] = kv[u]
    /\ hash(call[t].k) = hash(call[u].k)
    => t = u

\* A chain never has two nodes for one key, however the writers that found no
\* node for it interleave, and a node is only ever in the bucket of its key.
UniqueKeys ==
  \A s \in Stores, b \in Buckets :
    LET chain == head[s][b] IN
    /\ \A i, j \in DOMAIN chain : node[chain[i]].key = node[chain[j]].key => i = j
    /\ \A i \in DOMAIN chain : hash(node[chain[i]].key) = b

=============================================================================
