---------------------------- MODULE KvCallProofs ----------------------------
(***************************************************************************)
(* Safety of the reference-counted key-value store for any number of       *)
(* tasks, stores, nodes, keys and buckets, part one: the initial state and *)
(* the steps of write_kv and read_kv keep IInv.                            *)
(***************************************************************************)
EXTENDS KvStore, FiniteSetTheorems, SequenceTheorems, TLAPS

\* k & 1023 is always a bucket, for negative keys as well.
LEMMA HashInBuckets ==
  ASSUME NEW k \in Int
  PROVE  hash(k) \in Buckets
BY NBucketsAssumption DEF hash, Buckets

\* What hlist_add_head does to a chain.
LEMMA AddHead ==
  ASSUME NEW S, NEW s \in Seq(S), NEW n \in S
  PROVE  /\ <<n>> \o s \in Seq(S)
         /\ DOMAIN (<<n>> \o s) = 1 .. (Len(s) + 1)
         /\ (<<n>> \o s)[1] = n
         /\ \A i \in 1 .. Len(s) : (<<n>> \o s)[i + 1] = s[i]
         /\ Range(<<n>> \o s) = {n} \cup Range(s)
<1>1. <<n>> \in Seq(S) /\ Len(<<n>>) = 1 /\ <<n>>[1] = n
  OBVIOUS
<1>2. /\ <<n>> \o s \in Seq(S)
      /\ Len(<<n>> \o s) = Len(s) + 1
      /\ \A i \in 1 .. (Len(s) + 1) :
           (<<n>> \o s)[i] = IF i <= 1 THEN n ELSE s[i - 1]
  BY <1>1, ConcatProperties
<1>3. DOMAIN (<<n>> \o s) = 1 .. (Len(s) + 1) /\ DOMAIN s = 1 .. Len(s) /\ Len(s) \in Nat
  BY <1>2
<1>4. (<<n>> \o s)[1] = n /\ \A i \in 1 .. Len(s) : (<<n>> \o s)[i + 1] = s[i]
  BY <1>2, <1>3
<1>5. Range(<<n>> \o s) = {n} \cup Range(s)
  <2>1. Range(<<n>>) = {n}
    <3>1. DOMAIN <<n>> = {1}
      BY <1>1
    <3> QED BY <1>1, <3>1 DEF Range
  <2>2. Range(<<n>> \o s) = Range(<<n>>) \cup Range(s)
    BY <1>1, RangeConcatenation, Zenon
  <2> QED BY <2>1, <2>2
<1> QED BY <1>2, <1>3, <1>4, <1>5

-----------------------------------------------------------------------------
(* Types. *)

LEMMA InitType == Init => TypeOK
BY InitAssumption, NULLAssumption
   DEF Init, TypeOK, BucketTypeOK, NoEntries, NoLocks

\* TypeOK is not inductive by itself: that a count has a reference left to
\* drop and that a walk ends at an allocated node are part of IInv.

USE DEF Goto

-----------------------------------------------------------------------------
(* Facts about steps that leave a part of the state alone. *)

\* LifeInv is about the tasks that exist, their stores and the counts.
LEMMA LifeStable ==
  ASSUME LifeInv, UNCHANGED <<kv, live, ref>>,
         \A u \in Tasks : /\ pc'[u] = "none" <=> pc[u] = "none"
                          /\ pc'[u] = "freeing" <=> pc[u] = "freeing"
  PROVE  LifeInv'
<1>1. \A s \in Stores : Holders(s)' = Holders(s)
  BY DEF Holders, Alive
<1>2. RefCountCovers'
  BY <1>1 DEF LifeInv, RefCountCovers
<1> QED BY <1>2 DEF LifeInv, FreeingAlone

\* CloneInv is about forks in progress.
LEMMA CloneStable ==
  ASSUME CloneInv, UNCHANGED child,
         \A u \in Tasks : /\ pc'[u] = "clone" <=> pc[u] = "clone"
                          /\ pc'[u] = "embryo" <=> pc[u] = "embryo"
  PROVE  CloneInv'
BY DEF CloneInv

\* The chains stay as they are.
LEMMA ChainStable ==
  ASSUME ChainInv, UniqueKeys, UNCHANGED <<head, node, heap>>
  PROVE  ChainInv' /\ UniqueKeys'
BY DEF ChainInv, UniqueKeys

\* A task in a call uses a bucket.
LEMMA CallBucket ==
  ASSUME TypeOK, CallInv, NEW t \in Tasks, pc[t] \in InCall \cup {"lock"}
  PROVE  /\ call[t].k \in Keys
         /\ call[t].k \in Int
         /\ hash(call[t].k) \in Buckets
         /\ call[t].op = "write" => call[t].v \in Values
<1>1. call[t] \in Calls
  BY DEF CallInv
<1>2. call[t].k \in Keys /\ (call[t].op = "write" => call[t].v \in Values)
  BY <1>1 DEF Calls
<1> QED BY <1>2, HashInBuckets, KeysAssumption

-----------------------------------------------------------------------------
(* The invariant holds initially. *)

LEMMA InitInv == Init => IInv
<1> SUFFICES ASSUME Init PROVE IInv
  OBVIOUS
<1>1. TypeOK
  BY InitType
<1>2. CallInv /\ CloneInv
  BY DEF Init, CallInv, CloneInv, InCall
<1>3. LifeInv
  <2>1. \A s \in Stores : s # InitStore => Holders(s) = {}
    BY NULLAssumption DEF Init, Holders, Alive
  <2>2. Holders(InitStore) = {InitTask}
    BY InitAssumption, NULLAssumption DEF Init, Holders, Alive
  <2>3. Cardinality({}) = 0 /\ Cardinality({InitTask}) = 1
    BY FS_EmptySet, FS_Singleton, Zenon
  <2>4. RefCountCovers
    BY <2>1, <2>2, <2>3 DEF Init, RefCountCovers
  <2> QED BY <2>4, InitAssumption DEF Init, LifeInv, FreeingAlone
<1>4. \A s \in Stores, b \in Buckets : head[s][b] = <<>>
  BY DEF Init, NoEntries
<1>5. ChainInv
  BY <1>4 DEF Init, ChainInv, Range
<1>6. EntryInv
  BY DEF Init, EntryInv
<1>7. UniqueKeys
  BY <1>4 DEF UniqueKeys
<1> QED BY <1>1, <1>2, <1>3, <1>5, <1>6, <1>7 DEF IInv

-----------------------------------------------------------------------------
(* The invariant is preserved by the steps of the system calls. *)

LEMMA SyscallInv ==
  ASSUME IInv, NEW t \in Tasks, NEW c \in Calls, Syscall(t, c),
         UNCHANGED <<taskVars, storeVars>>
  PROVE  IInv'
<1> USE DEF IInv, taskVars, storeVars
<1>1. TypeOK'
  BY DEF Syscall, TypeOK, BucketTypeOK, bucketVars
<1>2. CallInv'
  BY DEF Syscall, CallInv, TypeOK, BucketTypeOK, bucketVars, InCall
<1>3. CloneInv' /\ LifeInv'
  BY CloneStable, LifeStable DEF Syscall, TypeOK
<1>4. ChainInv' /\ UniqueKeys'
  BY ChainStable DEF Syscall, bucketVars
<1>5. EntryInv'
  BY DEF Syscall, EntryInv, TypeOK, BucketTypeOK, bucketVars
<1> QED BY <1>1, <1>2, <1>3, <1>4, <1>5

LEMMA SpinLockInv ==
  ASSUME IInv, NEW t \in Tasks, SpinLock(t), UNCHANGED <<taskVars, storeVars>>
  PROVE  IInv'
<1> USE DEF IInv, taskVars, storeVars
<1>0. hash(call[t].k) \in Buckets /\ kv[t] \in Stores
  BY CallBucket DEF SpinLock, TypeOK, BucketTypeOK
<1>1. TypeOK'
  BY <1>0 DEF SpinLock, TypeOK, BucketTypeOK, callVars
<1>2. CallInv'
  <2> SUFFICES ASSUME NEW u \in Tasks
               PROVE  /\ pc'[u] \in InCall \cup {"lock"} => call'[u] \in Calls
                      /\ pc'[u] = "store" => call'[u].op = "write"
                      /\ pc'[u] \in InCall => /\ kv'[u] # NULL
                                              /\ lock'[kv'[u]][hash(call'[u].k)] = u
    BY DEF CallInv
  <2>1. CASE u = t
    BY <2>1, <1>0 DEF SpinLock, CallInv, TypeOK, BucketTypeOK, callVars, InCall
  <2>2. CASE u # t
    <3>1. pc'[u] = pc[u] /\ call' = call /\ kv' = kv
      BY <2>2 DEF SpinLock, TypeOK, callVars
    <3>2. pc[u] \in InCall => u # NULL /\ kv[u] \in Stores /\ hash(call[u].k) \in Buckets
      BY CallBucket, NULLAssumption DEF CallInv, TypeOK, BucketTypeOK
    <3> QED BY <2>2, <3>1, <3>2, <1>0 DEF SpinLock, CallInv, TypeOK, BucketTypeOK
  <2> QED BY <2>1, <2>2
<1>3. CloneInv' /\ LifeInv'
  BY CloneStable, LifeStable DEF SpinLock, TypeOK
<1>4. ChainInv' /\ UniqueKeys'
  BY ChainStable DEF SpinLock
<1>5. EntryInv'
  BY DEF SpinLock, EntryInv, TypeOK, BucketTypeOK, callVars
<1> QED BY <1>1, <1>2, <1>3, <1>4, <1>5

LEMMA NullFaultInv ==
  ASSUME IInv, NEW t \in Tasks, NullFault(t), UNCHANGED <<taskVars, storeVars>>
  PROVE  IInv'
<1> USE DEF IInv, taskVars, storeVars
<1>1. TypeOK'
  BY DEF NullFault, TypeOK, BucketTypeOK, bucketVars, callVars
<1>2. CallInv'
  BY DEF NullFault, CallInv, TypeOK, BucketTypeOK, bucketVars, callVars, InCall
<1>3. CloneInv' /\ LifeInv'
  BY CloneStable, LifeStable DEF NullFault, TypeOK
<1>4. ChainInv' /\ UniqueKeys'
  BY ChainStable DEF NullFault, bucketVars
<1>5. EntryInv'
  BY DEF NullFault, EntryInv, TypeOK, BucketTypeOK, bucketVars, callVars
<1> QED BY <1>1, <1>2, <1>3, <1>4, <1>5

\* Where a walk ends: at a node of the chain with the key, or nowhere because
\* no node of the chain has it.
LEMMA WalkResult ==
  ASSUME IInv, NEW t \in Tasks, pc[t] \in InCall, NEW n, FirstMatch(t, n)
  PROVE  LET chain == Range(head[kv[t]][hash(call[t].k)]) IN
         \/ n \in chain /\ node[n].key = call[t].k /\ node[n] \in KvNode /\ n \in Nodes
         \/ n = NULL /\ \A m \in chain : node[m].key # call[t].k
<1> DEFINE chain == head[kv[t]][hash(call[t].k)]
<1>1. kv[t] \in Stores /\ hash(call[t].k) \in Buckets
  BY CallBucket DEF IInv, CallInv, TypeOK, BucketTypeOK
<1>2. chain \in Seq(Nodes) /\ DOMAIN chain = 1 .. Len(chain)
  BY <1>1 DEF IInv, TypeOK, BucketTypeOK
<1>3. Range(chain) \subseteq heap /\ heap \subseteq Nodes
  BY <1>1 DEF IInv, ChainInv, TypeOK, BucketTypeOK
<1>4. CASE n = NULL /\ \A i \in 1 .. Len(chain) : node[chain[i]].key # call[t].k
  BY <1>2, <1>4 DEF Range
<1>5. ASSUME NEW i \in 1 .. Len(chain), n = chain[i], node[chain[i]].key = call[t].k
      PROVE  n \in Range(chain) /\ node[n].key = call[t].k /\ node[n] \in KvNode /\ n \in Nodes
  <2>1. n \in Range(chain)
    BY <1>2, <1>5 DEF Range
  <2> QED BY <1>3, <1>5, <2>1 DEF IInv, ChainInv
<1> QED BY <1>4, <1>5 DEF FirstMatch

LEMMA WriteScanInv ==
  ASSUME IInv, NEW t \in Tasks, WriteScan(t), UNCHANGED <<taskVars, storeVars>>
  PROVE  IInv'
<1> USE DEF IInv, taskVars, storeVars
<1>0. PICK n \in Nodes \cup {NULL} :
        FirstMatch(t, n) /\ entry' = [entry EXCEPT ![t] = n]
  BY DEF WriteScan
<1>1. TypeOK'
  BY <1>0 DEF WriteScan, TypeOK, BucketTypeOK, bucketVars
<1>2. CallInv'
  BY DEF WriteScan, CallInv, TypeOK, BucketTypeOK, bucketVars, InCall
<1>3. CloneInv' /\ LifeInv'
  BY CloneStable, LifeStable DEF WriteScan, TypeOK
<1>4. ChainInv' /\ UniqueKeys'
  BY ChainStable DEF WriteScan, bucketVars
<1>5. EntryInv'
  <2>1. UNCHANGED <<head, node, kv, call>> /\ pc' = [pc EXCEPT ![t] = "store"] /\ pc[t] \in InCall
    BY DEF WriteScan, bucketVars, InCall
  <2>3. \/ n # NULL /\ n \in Range(head[kv[t]][hash(call[t].k)]) /\ node[n].key = call[t].k
        \/ n = NULL /\ \A m \in Range(head[kv[t]][hash(call[t].k)]) : node[m].key # call[t].k
    BY <1>0, <2>1, WalkResult, NULLAssumption
  <2> QED BY <1>0, <2>1, <2>3 DEF EntryInv, TypeOK, BucketTypeOK
<1> QED BY <1>1, <1>2, <1>3, <1>4, <1>5

LEMMA ReadScanInv ==
  ASSUME IInv, NEW t \in Tasks, ReadScan(t), UNCHANGED <<taskVars, storeVars>>
  PROVE  IInv'
<1> USE DEF IInv, taskVars, storeVars
<1>0. PICK n \in Nodes \cup {NULL} :
        /\ FirstMatch(t, n)
        /\ ret' = [ret EXCEPT ![t] = IF n = NULL THEN -1 ELSE node[n].value]
  BY DEF ReadScan
<1>1. TypeOK'
  <2>1. n = NULL \/ node[n] \in KvNode
    BY <1>0, WalkResult DEF ReadScan, InCall
  <2>2. n # NULL => node[n].value \in Int
    BY <2>1, ValuesAssumption DEF KvNode
  <2> QED BY <1>0, <2>2 DEF ReadScan, TypeOK, BucketTypeOK, bucketVars
<1>2. CallInv'
  BY DEF ReadScan, CallInv, TypeOK, BucketTypeOK, bucketVars, InCall
<1>3. CloneInv' /\ LifeInv'
  BY CloneStable, LifeStable DEF ReadScan, TypeOK
<1>4. ChainInv' /\ UniqueKeys'
  BY ChainStable DEF ReadScan, bucketVars
<1>5. EntryInv'
  BY DEF ReadScan, EntryInv, TypeOK, BucketTypeOK, bucketVars
<1> QED BY <1>1, <1>2, <1>3, <1>4, <1>5

LEMMA UpdateInv ==
  ASSUME IInv, NEW t \in Tasks, Update(t), UNCHANGED <<taskVars, storeVars>>
  PROVE  IInv'
<1> USE DEF IInv, taskVars, storeVars
<1>0. /\ entry[t] \in heap /\ entry[t] \in Nodes
      /\ node[entry[t]] \in KvNode
      /\ call[t].v \in Values
  <2>1. kv[t] \in Stores /\ hash(call[t].k) \in Buckets /\ call[t].v \in Values
    BY CallBucket DEF Update, CallInv, TypeOK, BucketTypeOK, InCall
  <2>2. entry[t] \in Range(head[kv[t]][hash(call[t].k)])
    BY DEF Update, EntryInv
  <2> QED BY <2>1, <2>2 DEF ChainInv, TypeOK, BucketTypeOK
<1>a. /\ node' \in [Nodes -> KvNode \cup {NULL}]
      /\ \A n \in Nodes : node'[n].key = node[n].key
      /\ \A n \in Nodes : node[n] \in KvNode => node'[n] \in KvNode
  BY <1>0 DEF Update, TypeOK, BucketTypeOK, KvNode
<1>b. UNCHANGED <<head, lock, heap, kv, call, entry>> /\ pc' = [pc EXCEPT ![t] = "unlock"]
  BY DEF Update
<1>1. TypeOK'
  BY <1>a DEF Update, TypeOK, BucketTypeOK, SizeofInt
<1>2. CallInv'
  BY DEF Update, CallInv, TypeOK, BucketTypeOK, InCall
<1>3. CloneInv' /\ LifeInv'
  BY CloneStable, LifeStable DEF Update, TypeOK
<1>c. \A s \in Stores, b \in Buckets : Range(head[s][b]) \subseteq Nodes
  BY DEF ChainInv, TypeOK, BucketTypeOK
<1>4. ChainInv'
  BY <1>a, <1>b DEF ChainInv, TypeOK, BucketTypeOK
<1>5. UniqueKeys'
  <2>1. \A s \in Stores, b \in Buckets : \A i \in DOMAIN head[s][b] : head[s][b][i] \in Nodes
    BY <1>c DEF Range
  <2> QED BY <2>1, <1>a, <1>b DEF UniqueKeys
<1>6. EntryInv'
  <2> SUFFICES ASSUME NEW u \in Tasks
               PROVE  LET chain == Range(head'[kv'[u]][hash(call'[u].k)]) IN
                      /\ entry'[u] # NULL => /\ pc'[u] \in {"store", "unlock"}
                                             /\ entry'[u] \in chain
                                             /\ node'[entry'[u]].key = call'[u].k
                      /\ pc'[u] = "store" /\ entry'[u] = NULL =>
                           \A n \in chain : node'[n].key # call'[u].k
    BY DEF EntryInv
  <2>1. entry[u] # NULL => entry[u] \in Nodes
    BY DEF TypeOK, BucketTypeOK
  <2>2. pc[u] = "store" => kv[u] \in Stores /\ hash(call[u].k) \in Buckets
    BY CallBucket DEF CallInv, TypeOK, BucketTypeOK, InCall
  <2>3. pc[u] = "store" => Range(head[kv[u]][hash(call[u].k)]) \subseteq Nodes
    BY <2>2, <1>c
  <2>4. \/ pc'[u] = pc[u]
        \/ u = t /\ pc'[u] = "unlock" /\ pc[u] = "store"
    BY <1>b DEF Update, TypeOK
  <2> QED BY <2>1, <2>3, <2>4, <1>a, <1>b DEF EntryInv
<1> QED BY <1>1, <1>2, <1>3, <1>4, <1>5, <1>6

LEMMA InsertFailsInv ==
  ASSUME IInv, NEW t \in Tasks, InsertFails(t), UNCHANGED <<taskVars, storeVars>>
  PROVE  IInv'
<1> USE DEF IInv, taskVars, storeVars
<1>1. TypeOK'
  BY DEF InsertFails, TypeOK, BucketTypeOK, bucketVars
<1>2. CallInv'
  BY DEF InsertFails, CallInv, TypeOK, BucketTypeOK, bucketVars, InCall
<1>3. CloneInv' /\ LifeInv'
  BY CloneStable, LifeStable DEF InsertFails, TypeOK
<1>4. ChainInv' /\ UniqueKeys'
  BY ChainStable DEF InsertFails, bucketVars
<1>5. EntryInv'
  BY DEF InsertFails, EntryInv, TypeOK, BucketTypeOK, bucketVars
<1> QED BY <1>1, <1>2, <1>3, <1>4, <1>5

LEMMA SpinUnlockInv ==
  ASSUME IInv, NEW t \in Tasks, SpinUnlock(t), UNCHANGED <<taskVars, storeVars>>
  PROVE  IInv'
<1> USE DEF IInv, taskVars, storeVars
<1>0. hash(call[t].k) \in Buckets /\ kv[t] \in Stores /\ lock[kv[t]][hash(call[t].k)] = t
  BY CallBucket DEF SpinUnlock, CallInv, TypeOK, BucketTypeOK, InCall
<1>1. TypeOK'
  BY <1>0 DEF SpinUnlock, TypeOK, BucketTypeOK
<1>2. CallInv'
  <2> SUFFICES ASSUME NEW u \in Tasks
               PROVE  /\ pc'[u] \in InCall \cup {"lock"} => call'[u] \in Calls
                      /\ pc'[u] = "store" => call'[u].op = "write"
                      /\ pc'[u] \in InCall => /\ kv'[u] # NULL
                                              /\ lock'[kv'[u]][hash(call'[u].k)] = u
    BY DEF CallInv
  <2>1. CASE u = t
    BY <2>1 DEF SpinUnlock, TypeOK, InCall
  <2>2. CASE u # t
    <3>1. pc'[u] = pc[u] /\ call'[u] = call[u] /\ kv' = kv
      BY <2>2 DEF SpinUnlock, TypeOK, BucketTypeOK
    <3>2. pc[u] \in InCall => kv[u] \in Stores /\ hash(call[u].k) \in Buckets
      BY CallBucket DEF CallInv, TypeOK, BucketTypeOK
    <3> QED BY <2>2, <3>1, <3>2, <1>0 DEF SpinUnlock, CallInv, TypeOK, BucketTypeOK
  <2> QED BY <2>1, <2>2
<1>3. CloneInv' /\ LifeInv'
  BY CloneStable, LifeStable DEF SpinUnlock, TypeOK
<1>4. ChainInv' /\ UniqueKeys'
  BY ChainStable DEF SpinUnlock
<1>5. EntryInv'
  BY DEF SpinUnlock, EntryInv, TypeOK, BucketTypeOK
<1> QED BY <1>1, <1>2, <1>3, <1>4, <1>5

=============================================================================
