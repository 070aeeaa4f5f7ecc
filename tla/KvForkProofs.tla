---------------------------- MODULE KvForkProofs ----------------------------
(***************************************************************************)
(* Part three: copy_process keeps IInv.                                    *)
(***************************************************************************)
EXTENDS KvInsertProofs

USE DEF Goto

LEMMA HoldersFinite ==
  ASSUME NEW s
  PROVE  IsFiniteSet(Holders(s)) /\ Cardinality(Holders(s)) \in Nat
<1>1. Holders(s) \subseteq Tasks
  BY DEF Holders
<1> QED BY <1>1, TasksAssumption, FS_Subset, FS_CardinalityType

\* A step that only touches tasks outside calls and leaves the chains alone
\* leaves what the calls rely on as it is.
LEMMA CallsStable ==
  ASSUME TypeOK, CallInv, EntryInv, UNCHANGED <<lock, head, node, entry>>,
         \A u \in Tasks :
           \/ pc'[u] = pc[u] /\ kv'[u] = kv[u] /\ call'[u] = call[u]
           \/ pc[u] \notin InCall /\ pc'[u] \notin InCall \cup {"lock"}
  PROVE  CallInv' /\ EntryInv'
<1>1. CallInv'
  BY DEF CallInv, InCall
<1>2. \A u \in Tasks : pc[u] \notin InCall => entry[u] = NULL
  BY DEF EntryInv, InCall
<1>3. EntryInv'
  BY <1>2 DEF EntryInv, InCall
<1> QED BY <1>1, <1>3

LEMMA CloneThreadInv ==
  ASSUME IInv, NEW t \in Tasks, NEW c \in Tasks, CloneThread(t, c)
  PROVE  IInv'
<1> USE DEF IInv
<1>0. /\ pc[t] = "user" /\ pc[c] = "none" /\ t # c
      /\ kv[t] \in Stores /\ kv[t] \in live
      /\ pc' = [pc EXCEPT ![t] = "clone", ![c] = "embryo"]
      /\ kv' = [kv EXCEPT ![c] = kv[t]]
      /\ ref' = [ref EXCEPT ![kv[t]] = @ + 1]
      /\ child' = [child EXCEPT ![t] = c]
      /\ UNCHANGED <<head, lock, node, heap, call, entry, ret, live>>
  <2>1. pc[t] = "user" /\ pc[c] = "none" /\ kv[t] # NULL
    BY DEF CloneThread, Unused
  <2>2. kv[t] \in Stores /\ kv[t] \in live
    BY <2>1 DEF TypeOK, BucketTypeOK, LifeInv
  <2> QED BY <2>1, <2>2 DEF CloneThread, bucketVars, callVars
<1>s. PICK s0 \in Stores : s0 = kv[t] /\ s0 = kv'[t]
  BY <1>0 DEF TypeOK, BucketTypeOK
<1>1. TypeOK'
  <2>1. ref' \in [Stores -> Nat]
    BY <1>0 DEF TypeOK
  <2>2. kv' \in [Tasks -> Stores \cup {NULL}]
    BY <1>0 DEF TypeOK, BucketTypeOK
  <2>3. tgid' \in [Tasks -> Tasks] /\ child' \in [Tasks -> Tasks \cup {NULL}]
    BY <1>0 DEF CloneThread, TypeOK
  <2> QED BY <1>0, <2>1, <2>2, <2>3 DEF TypeOK, BucketTypeOK
<1>2. CallInv' /\ EntryInv'
  <2>1. \A u \in Tasks :
          \/ pc'[u] = pc[u] /\ kv'[u] = kv[u] /\ call'[u] = call[u]
          \/ pc[u] \notin InCall /\ pc'[u] \notin InCall \cup {"lock"}
    BY <1>0 DEF TypeOK, BucketTypeOK, InCall
  <2> QED BY <2>1, <1>0, CallsStable
<1>3. CloneInv'
  BY <1>0 DEF CloneInv, TypeOK
<1>4. ChainInv' /\ UniqueKeys'
  BY <1>0, ChainStable
<1>5. LifeInv'
  <2>1. Holders(s0)' = Holders(s0) \cup {c} /\ c \notin Holders(s0)
    BY <1>0, <1>s DEF Holders, Alive, TypeOK, BucketTypeOK
  <2>2. \A s \in Stores : s # s0 => Holders(s)' = Holders(s)
    BY <1>0, <1>s DEF Holders, Alive, TypeOK, BucketTypeOK
  <2>3. Cardinality(Holders(s0) \cup {c}) = Cardinality(Holders(s0)) + 1
    BY <2>1, HoldersFinite, FS_AddElement, Zenon
  <2>4. RefCountCovers'
    <3> SUFFICES ASSUME NEW s \in Stores
                 PROVE  Cardinality(Holders(s)') <= ref'[s]
      BY DEF RefCountCovers
    <3>1. CASE s = s0
      <4>1. Cardinality(Holders(s)) <= ref[s] /\ ref[s] \in Nat /\ ref'[s] = ref[s] + 1
        BY <3>1, <1>0, <1>s DEF LifeInv, RefCountCovers, TypeOK
      <4>2. Cardinality(Holders(s)') = Cardinality(Holders(s)) + 1
        BY <3>1, <2>1, <2>3
      <4> QED BY <4>1, <4>2, HoldersFinite
    <3>2. CASE s # s0
      BY <3>2, <2>2, <1>0, <1>s DEF LifeInv, RefCountCovers, TypeOK
    <3> QED BY <3>1, <3>2
  <2>5. FreeingAlone'
    BY <1>0, <1>s DEF LifeInv, FreeingAlone, TypeOK, BucketTypeOK
  <2> QED BY <2>4, <2>5, <1>0, <1>s DEF LifeInv, TypeOK, BucketTypeOK
<1> QED BY <1>1, <1>2, <1>3, <1>4, <1>5

LEMMA CloneThreadFaultInv ==
  ASSUME IInv, NEW t \in Tasks, CloneThreadFault(t)
  PROVE  IInv'
<1> USE DEF IInv
<1>0. /\ pc[t] = "user" /\ pc' = [pc EXCEPT ![t] = "oops"]
      /\ UNCHANGED <<head, lock, node, heap, call, entry, ret, kv, tgid, child, live, ref>>
  BY DEF CloneThreadFault, bucketVars, callVars, taskVars, storeVars
<1>1. TypeOK'
  BY <1>0 DEF TypeOK, BucketTypeOK
<1>2. CallInv' /\ EntryInv'
  <2>1. \A u \in Tasks :
          \/ pc'[u] = pc[u] /\ kv'[u] = kv[u] /\ call'[u] = call[u]
          \/ pc[u] \notin InCall /\ pc'[u] \notin InCall \cup {"lock"}
    BY <1>0 DEF TypeOK, InCall
  <2> QED BY <2>1, <1>0, CallsStable
<1>3. CloneInv' /\ LifeInv'
  BY <1>0, CloneStable, LifeStable DEF TypeOK
<1>4. ChainInv' /\ UniqueKeys'
  BY <1>0, ChainStable
<1> QED BY <1>1, <1>2, <1>3, <1>4

LEMMA CloneDoneInv ==
  ASSUME IInv, NEW t \in Tasks, CloneDone(t) \/ CloneFails(t)
  PROVE  IInv'
<1> USE DEF IInv
<1> DEFINE c == child[t]
<1>0. /\ pc[t] = "clone" /\ c \in Tasks /\ pc[c] = "embryo" /\ t # c
      /\ \E x \in {"user", "none"} : pc' = [pc EXCEPT ![t] = "user", ![c] = x]
      /\ child' = [child EXCEPT ![t] = NULL]
      /\ UNCHANGED <<head, lock, node, heap, call, entry, ret, kv, tgid, live, ref>>
  <2>1. pc[t] = "clone"
    BY DEF CloneDone, CloneFails
  <2>2. c \in Tasks /\ pc[c] = "embryo" /\ t # c
    BY <2>1 DEF CloneInv
  <2> QED BY <2>1, <2>2 DEF CloneDone, CloneFails, bucketVars, callVars, storeVars
<1>a. PICK x \in {"user", "none"} : pc' = [pc EXCEPT ![t] = "user", ![c] = x]
  BY <1>0
<1>1. TypeOK'
  BY <1>0, <1>a DEF TypeOK, BucketTypeOK
<1>2. CallInv' /\ EntryInv'
  <2>1. \A u \in Tasks :
          \/ pc'[u] = pc[u] /\ kv'[u] = kv[u] /\ call'[u] = call[u]
          \/ pc[u] \notin InCall /\ pc'[u] \notin InCall \cup {"lock"}
    BY <1>0, <1>a DEF TypeOK, InCall
  <2> QED BY <2>1, <1>0, CallsStable
<1>3. CloneInv'
  BY <1>0, <1>a DEF CloneInv, TypeOK
<1>4. ChainInv' /\ UniqueKeys'
  BY <1>0, ChainStable
<1>5. LifeInv'
  <2>1. \A s \in Stores : Holders(s)' \subseteq Holders(s)
    BY <1>0, <1>a DEF Holders, Alive, TypeOK, BucketTypeOK
  <2>2. ASSUME NEW s \in Stores
        PROVE  Cardinality(Holders(s)') <= Cardinality(Holders(s)) /\ Cardinality(Holders(s)') \in Nat
    <3>1. IsFiniteSet(Holders(s)) /\ Holders(s)' \subseteq Holders(s)
      BY <2>1, HoldersFinite
    <3> QED BY <3>1, FS_Subset, FS_CardinalityType
  <2>3. RefCountCovers'
    BY <2>2, <1>0, HoldersFinite DEF LifeInv, RefCountCovers, TypeOK
  <2>4. \A u \in Tasks : /\ pc'[u] # "none" => pc[u] # "none"
                         /\ pc'[u] = "freeing" => pc[u] = "freeing"
    BY <1>0, <1>a DEF TypeOK
  <2> QED BY <2>3, <2>4, <1>0 DEF LifeInv, FreeingAlone
<1> QED BY <1>1, <1>2, <1>3, <1>4, <1>5

LEMMA CloneProcessInv ==
  ASSUME IInv, NEW t \in Tasks, NEW c \in Tasks, CloneProcess(t, c)
  PROVE  IInv'
<1> USE DEF IInv
<1>0. /\ pc[t] = "user" /\ pc[c] = "none" /\ t # c
      /\ pc' = [pc EXCEPT ![t] = "clone", ![c] = "embryo"]
      /\ tgid' = [tgid EXCEPT ![c] = c]
      /\ child' = [child EXCEPT ![t] = c]
      /\ UNCHANGED <<node, heap, call, entry, ret>>
  BY DEF CloneProcess, Unused, callVars, InitKvStore, InitKvStoreFails, bucketVars
<1>3. CloneInv'
  BY <1>0 DEF CloneInv, TypeOK
<1>4. CASE InitKvStoreFails(c)
  <2>0. /\ kv' = [kv EXCEPT ![c] = NULL]
        /\ UNCHANGED <<head, lock, node, heap, live, ref>>
    BY <1>4 DEF InitKvStoreFails, bucketVars, storeVars
  <2>1. TypeOK'
    BY <1>0, <2>0 DEF TypeOK, BucketTypeOK
  <2>2. CallInv' /\ EntryInv'
    <3>1. \A u \in Tasks :
            \/ pc'[u] = pc[u] /\ kv'[u] = kv[u] /\ call'[u] = call[u]
            \/ pc[u] \notin InCall /\ pc'[u] \notin InCall \cup {"lock"}
      BY <1>0, <2>0 DEF TypeOK, BucketTypeOK, InCall
    <3> QED BY <3>1, <1>0, <2>0, CallsStable
  <2>3. ChainInv' /\ UniqueKeys'
    BY <1>0, <2>0, ChainStable
  <2>4. LifeInv'
    <3>1. \A s \in Stores : Holders(s)' = Holders(s)
      BY <1>0, <2>0, NULLAssumption DEF Holders, Alive, TypeOK, BucketTypeOK
    <3>2. RefCountCovers'
      BY <3>1, <2>0 DEF LifeInv, RefCountCovers
    <3>3. FreeingAlone'
      <4>1. \A u \in Tasks : u # c => kv'[u] = kv[u] /\ (pc'[u] = "none" <=> pc[u] = "none")
                                      /\ (pc'[u] = "freeing" <=> pc[u] = "freeing")
        BY <1>0, <2>0 DEF TypeOK, BucketTypeOK
      <4>2. kv'[c] = NULL /\ pc'[c] = "embryo"
        BY <1>0, <2>0 DEF TypeOK, BucketTypeOK
      <4> QED BY <4>1, <4>2 DEF LifeInv, FreeingAlone
    <3> QED BY <3>2, <3>3, <1>0, <2>0 DEF LifeInv, TypeOK, BucketTypeOK
  <2> QED BY <2>1, <2>2, <2>3, <2>4, <1>3
<1>5. ASSUME NEW s \in Stores, InitKvStore(c, s)
      PROVE  IInv'
  <2>0. /\ s \notin live
        /\ kv' = [kv EXCEPT ![c] = s]
        /\ live' = live \cup {s}
        /\ ref' = [ref EXCEPT ![s] = 1]
        /\ head' = [head EXCEPT ![s] = NoEntries]
        /\ lock' = [lock EXCEPT ![s] = NoLocks]
    BY <1>5 DEF InitKvStore
  <2>a. NoEntries \in [Buckets -> Seq(Nodes)] /\ NoLocks \in [Buckets -> Tasks \cup {NULL}]
    BY DEF NoEntries, NoLocks
  <2>b. \A u \in Tasks : pc[u] # "none" => kv[u] # s
    BY <2>0, NULLAssumption DEF LifeInv, TypeOK, BucketTypeOK
  <2>1. TypeOK'
    <3>1. head' \in [Stores -> [Buckets -> Seq(Nodes)]]
      BY <2>0, <2>a DEF TypeOK, BucketTypeOK
    <3>2. lock' \in [Stores -> [Buckets -> Tasks \cup {NULL}]]
      BY <2>0, <2>a DEF TypeOK, BucketTypeOK
    <3>3. ref' \in [Stores -> Nat] /\ live' \subseteq Stores
          /\ kv' \in [Tasks -> Stores \cup {NULL}]
      BY <2>0 DEF TypeOK, BucketTypeOK
    <3> QED BY <1>0, <3>1, <3>2, <3>3 DEF TypeOK, BucketTypeOK
  <2>c. \A u \in Tasks : u \notin {t, c} => pc'[u] = pc[u] /\ kv'[u] = kv[u]
    BY <1>0, <2>0 DEF TypeOK, BucketTypeOK
  <2>d. pc'[t] = "clone" /\ pc'[c] = "embryo" /\ kv'[t] = kv[t] /\ kv'[c] = s
    BY <1>0, <2>0 DEF TypeOK, BucketTypeOK
  <2>e. \A r \in Stores : r # s => head'[r] = head[r] /\ lock'[r] = lock[r]
    BY <2>0 DEF TypeOK, BucketTypeOK
  <2>2. CallInv'
    <3> SUFFICES ASSUME NEW u \in Tasks
                 PROVE  /\ pc'[u] \in InCall \cup {"lock"} => call'[u] \in Calls
                        /\ pc'[u] = "store" => call'[u].op = "write"
                        /\ pc'[u] \in InCall => /\ kv'[u] # NULL
                                                /\ lock'[kv'[u]][hash(call'[u].k)] = u
      BY DEF CallInv
    <3>1. CASE u \in {t, c}
      BY <3>1, <2>d DEF InCall
    <3>2. CASE u \notin {t, c}
      <4>1. pc[u] \in InCall => kv[u] \in Stores /\ kv[u] # s
        BY <2>b DEF CallInv, TypeOK, BucketTypeOK, InCall
      <4>2. pc[u] \in InCall => lock'[kv[u]] = lock[kv[u]]
        BY <4>1, <2>e
      <4>3. pc'[u] = pc[u] /\ kv'[u] = kv[u] /\ call' = call
        BY <3>2, <2>c, <1>0
      <4>4. /\ pc[u] \in InCall \cup {"lock"} => call[u] \in Calls
            /\ pc[u] = "store" => call[u].op = "write"
            /\ pc[u] \in InCall => kv[u] # NULL /\ lock[kv[u]][hash(call[u].k)] = u
        BY DEF CallInv
      <4> HIDE DEF IInv
      <4> QED BY <4>2, <4>3, <4>4
    <3> QED BY <3>1, <3>2
  <2>3. EntryInv'
    <3> SUFFICES ASSUME NEW u \in Tasks
                 PROVE  LET chain == Range(head'[kv'[u]][hash(call'[u].k)]) IN
                        /\ entry'[u] # NULL => /\ pc'[u] \in {"store", "unlock"}
                                               /\ entry'[u] \in chain
                                               /\ node'[entry'[u]].key = call'[u].k
                        /\ pc'[u] = "store" /\ entry'[u] = NULL =>
                             \A m \in chain : node'[m].key # call'[u].k
      BY DEF EntryInv
    <3>1. CASE u \in {t, c}
      BY <3>1, <2>d, <1>0 DEF EntryInv
    <3>2. CASE u \notin {t, c}
      <4>1. entry[u] # NULL \/ pc[u] = "store" => pc[u] \in InCall
        BY DEF EntryInv, InCall
      <4>2. pc[u] \in InCall => kv[u] \in Stores /\ kv[u] # s
        BY <2>b DEF CallInv, TypeOK, BucketTypeOK, InCall
      <4>3. entry[u] # NULL \/ pc[u] = "store" => head'[kv[u]] = head[kv[u]]
        BY <4>1, <4>2, <2>e
      <4>4. /\ pc'[u] = pc[u] /\ kv'[u] = kv[u]
            /\ call' = call /\ entry' = entry /\ node' = node
        BY <3>2, <2>c, <1>0
      <4>5. /\ entry[u] # NULL => /\ pc[u] \in {"store", "unlock"}
                                 /\ entry[u] \in Range(head[kv[u]][hash(call[u].k)])
                                 /\ node[entry[u]].key = call[u].k
            /\ pc[u] = "store" /\ entry[u] = NULL =>
                 \A m \in Range(head[kv[u]][hash(call[u].k)]) : node[m].key # call[u].k
        BY DEF EntryInv
      <4> HIDE DEF IInv
      <4> QED BY <4>3, <4>4, <4>5
    <3> QED BY <3>1, <3>2
  <2>4. ChainInv' /\ UniqueKeys'
    <3>1. \A b \in Buckets : head'[s][b] = <<>>
      BY <2>0 DEF NoEntries, TypeOK, BucketTypeOK
    <3>2. \A b \in Buckets : DOMAIN head'[s][b] = {} /\ Range(head'[s][b]) = {}
      BY <3>1 DEF Range
    <3>3. ChainInv'
      BY <3>2, <2>e, <1>0 DEF ChainInv
    <3>4. UniqueKeys'
      BY <3>2, <2>e, <1>0 DEF UniqueKeys
    <3> QED BY <3>3, <3>4
  <2>5. LifeInv'
    <3>1. Holders(s)' = {c}
      <4>1. \A u \in Tasks : u # c /\ pc'[u] # "none" => kv'[u] # s
        BY <2>b, <2>c, <2>d, <1>0
      <4> HIDE DEF IInv
      <4> QED BY <4>1, <2>d DEF Holders, Alive
    <3>2. \A r \in Stores : r # s => Holders(r)' = Holders(r)
      BY <2>c, <2>d, <1>0 DEF Holders, Alive
    <3>3. Cardinality({c}) = 1
      BY FS_Singleton, Zenon
    <3>4. RefCountCovers'
      BY SMTT(30), <3>1, <3>2, <3>3, <2>0 DEF LifeInv, RefCountCovers, TypeOK
    <3>5. FreeingAlone'
      BY <2>b, <2>c, <2>d, <1>0 DEF LifeInv, FreeingAlone
    <3>6. \A u \in Tasks : /\ pc'[u] = "freeing" => kv'[u] # NULL
                           /\ pc'[u] # "none" /\ kv'[u] # NULL => kv'[u] \in live'
      BY <2>c, <2>d, <2>0, <1>0 DEF LifeInv
    <3> QED BY <3>4, <3>5, <3>6 DEF LifeInv
  <2> QED BY <2>1, <2>2, <2>3, <2>4, <2>5, <1>3
<1> QED BY <1>4, <1>5 DEF CloneProcess

=============================================================================
