---------------------------- MODULE KvStoreProofs ---------------------------
(***************************************************************************)
(* Part five: IInv is an invariant, and the safety properties follow.      *)
(***************************************************************************)
EXTENDS KvExitProofs

USE DEF Goto

LEMMA NextInv ==
  ASSUME IInv, [Next]_vars
  PROVE  IInv'
<1>1. CASE UNCHANGED vars
  <2>1. UNCHANGED <<head, lock, node, heap, call, entry, ret, kv, pc, tgid, child, live, ref>>
    BY <1>1 DEF vars, bucketVars, callVars, taskVars, storeVars
  <2>2. TypeOK'
    BY <2>1 DEF IInv, TypeOK, BucketTypeOK
  <2>3. CallInv' /\ EntryInv'
    BY <2>1 DEF IInv, CallInv, EntryInv
  <2>4. CloneInv' /\ LifeInv'
    BY <2>1, CloneStable, LifeStable DEF IInv
  <2>5. ChainInv' /\ UniqueKeys'
    BY <2>1, ChainStable DEF IInv
  <2> QED BY <2>2, <2>3, <2>4, <2>5 DEF IInv
<1>2. ASSUME NEW t \in Tasks, NEW c \in Calls, Syscall(t, c), UNCHANGED <<taskVars, storeVars>>
      PROVE  IInv'
  BY <1>2, SyscallInv
<1>3. ASSUME NEW t \in Tasks, CallStep(t), UNCHANGED <<taskVars, storeVars>>
      PROVE  IInv'
  BY <1>3, SpinLockInv, NullFaultInv, WriteScanInv, ReadScanInv, UpdateInv, InsertInv,
     InsertFailsInv, SpinUnlockInv DEF CallStep
<1>4. ASSUME NEW t \in Tasks, NEW c \in Tasks, CloneThread(t, c) \/ CloneProcess(t, c)
      PROVE  IInv'
  BY <1>4, CloneThreadInv, CloneProcessInv
<1>5. ASSUME NEW t \in Tasks, CloneThreadFault(t) \/ CloneStep(t)
      PROVE  IInv'
  BY <1>5, CloneThreadFaultInv, CloneDoneInv DEF CloneStep
<1>6. ASSUME NEW t \in Tasks, Exit(t) \/ ExitStep(t)
      PROVE  IInv'
  BY <1>6, ExitInv, FreeBucketInv, FreeStoreInv DEF ExitStep
<1> QED BY <1>1, <1>2, <1>3, <1>4, <1>5, <1>6 DEF Next, InCallStep

\* The invariant holds in every reachable state, whatever the numbers of tasks,
\* stores, nodes and buckets.
THEOREM Invariance == Spec => []IInv
<1>1. IInv /\ [Next]_vars => IInv'
  BY NextInv
<1> QED BY <1>1, InitInv, PTL DEF Spec

\* The variables keep their types: a reference count never goes below zero.
THEOREM TypeCorrect == Spec => []TypeOK
<1>1. IInv => TypeOK
  BY DEF IInv
<1> QED BY <1>1, Invariance, PTL

\* The spinlock of a bucket keeps two calls of write_kv and read_kv apart.
THEOREM MutualExclusionHolds == Spec => []MutualExclusion
<1>1. IInv => MutualExclusion
  BY DEF IInv, CallInv, MutualExclusion
<1> QED BY <1>1, Invariance, PTL

\* write_kv never links a second node for a key.
THEOREM UniqueKeysHolds == Spec => []UniqueKeys
<1>1. IInv => UniqueKeys
  BY DEF IInv
<1> QED BY <1>1, Invariance, PTL

\* The references that copy_process takes and do_exit drops cover every user.
THEOREM RefCountCoversHolds == Spec => []RefCountCovers
<1>1. IInv => RefCountCovers
  BY DEF IInv, LifeInv
<1> QED BY <1>1, Invariance, PTL

\* cleanup_kv_store frees a store only when it is alone with it.
THEOREM FreeingAloneHolds == Spec => []FreeingAlone
<1>1. IInv => FreeingAlone
  BY DEF IInv, LifeInv
<1> QED BY <1>1, Invariance, PTL

\* Neither a store nor a node is used after cleanup_kv_store has freed it.
THEOREM NoUseAfterFreeHolds == Spec => []NoUseAfterFree
<1>1. ASSUME IInv
      PROVE  NoUseAfterFree
  <2>1. ASSUME NEW t \in Tasks, entry[t] # NULL
        PROVE  entry[t] \in heap
    <3>1. pc[t] \in InCall /\ entry[t] \in Range(head[kv[t]][hash(call[t].k)])
      BY <1>1, <2>1 DEF IInv, EntryInv, InCall
    <3>2. kv[t] \in Stores /\ hash(call[t].k) \in Buckets
      BY <1>1, <3>1, CallBucket DEF IInv, CallInv, InCall, TypeOK, BucketTypeOK
    <3> QED BY <1>1, <3>1, <3>2 DEF IInv, ChainInv
  <2> QED BY <1>1, <2>1 DEF NoUseAfterFree, IInv, LifeInv
<1> QED BY <1>1, Invariance, PTL

=============================================================================
