---------------------------- MODULE KvExitProofs ----------------------------
(***************************************************************************)
(* Part four: the exit of a task keeps IInv.                               *)
(***************************************************************************)
EXTENDS KvForkProofs

USE DEF Goto

LEMMA ExitInv ==
  ASSUME IInv, NEW t \in Tasks, Exit(t)
  PROVE  IInv'
<1> USE DEF IInv
<1>0. /\ pc[t] \in {"user", "oops"}
      /\ call' = [call EXCEPT ![t] = NULL]
      /\ UNCHANGED <<head, lock, node, heap, entry, ret, kv, tgid, child, live>>
  BY DEF Exit, bucketVars, taskVars
<1>a. PICK x \in {"none", "freeing"} : pc' = [pc EXCEPT ![t] = x]
  BY DEF Exit
<1>2. CallInv' /\ EntryInv'
  <2>1. \A u \in Tasks :
          \/ pc'[u] = pc[u] /\ kv'[u] = kv[u] /\ call'[u] = call[u]
          \/ pc[u] \notin InCall /\ pc'[u] \notin InCall \cup {"lock"}
    BY <1>0, <1>a DEF TypeOK, BucketTypeOK, InCall
  <2> QED BY <2>1, <1>0, CallsStable
<1>3. CloneInv'
  BY <1>0, <1>a, CloneStable DEF TypeOK
<1>4. ChainInv' /\ UniqueKeys'
  BY <1>0, ChainStable
<1>5. CASE kv[t] = NULL
  <2>0. pc' = [pc EXCEPT ![t] = "none"] /\ ref' = ref
    BY <1>5 DEF Exit
  <2>1. TypeOK'
    BY <1>0, <2>0 DEF TypeOK, BucketTypeOK
  <2>2. \A s \in Stores : Holders(s)' = Holders(s)
    BY <1>5, <1>0, <2>0, NULLAssumption DEF Holders, Alive, TypeOK
  <2>3. RefCountCovers'
    BY <2>2, <2>0 DEF LifeInv, RefCountCovers
  <2>4. LifeInv'
    BY <2>3, <1>0, <2>0 DEF LifeInv, FreeingAlone, TypeOK
  <2> QED BY <2>1, <2>4, <1>2, <1>3, <1>4
<1>6. CASE kv[t] # NULL
  <2> PICK s0 \in Stores : s0 = kv[t] /\ s0 = kv'[t]
    BY <1>6, <1>0 DEF TypeOK, BucketTypeOK
  <2>0. /\ ref' = [ref EXCEPT ![s0] = @ - 1]
        /\ pc' = [pc EXCEPT ![t] = IF ref[s0] = 1 THEN "freeing" ELSE "none"]
    BY <1>6 DEF Exit
  <2>1. /\ Holders(s0)' = Holders(s0) \ {t}
        /\ t \in Holders(s0)
        /\ \A s \in Stores : s # s0 => Holders(s)' = Holders(s)
    BY <1>0, <1>a DEF Holders, Alive, TypeOK, BucketTypeOK
  <2>2. Cardinality(Holders(s0) \ {t}) = Cardinality(Holders(s0)) - 1
    BY <2>1, HoldersFinite, FS_RemoveElement, Zenon
  <2>3. /\ Cardinality(Holders(s0)) \in Nat
        /\ Cardinality(Holders(s0) \ {t}) \in Nat
        /\ IsFiniteSet(Holders(s0) \ {t})
    BY HoldersFinite, FS_RemoveElement, FS_CardinalityType
  <2>4. /\ ref[s0] \in Nat
        /\ Cardinality(Holders(s0)) <= ref[s0]
        /\ ref[s0] >= 1
    BY <2>2, <2>3 DEF LifeInv, RefCountCovers, TypeOK
  <2>5. TypeOK'
    <3>1. ref' \in [Stores -> Nat]
      BY <2>0, <2>4 DEF TypeOK
    <3> QED BY <3>1, <1>0, <1>a DEF TypeOK, BucketTypeOK
  <2>6. RefCountCovers'
    <3> SUFFICES ASSUME NEW s \in Stores
                 PROVE  Cardinality(Holders(s)') <= ref'[s]
      BY DEF RefCountCovers
    <3>1. CASE s = s0
      <4>1. ref'[s0] = ref[s0] - 1
        BY <2>0 DEF TypeOK
      <4>2. Cardinality(Holders(s0)') = Cardinality(Holders(s0)) - 1
        BY <2>1, <2>2
      <4> QED BY <3>1, <4>1, <4>2, <2>3, <2>4
    <3>2. CASE s # s0
      BY <3>2, <2>0, <2>1 DEF LifeInv, RefCountCovers, TypeOK
    <3> QED BY <3>1, <3>2
  <2>7. ref[s0] = 1 => Holders(s0) \ {t} = {}
    <3>1. ref[s0] = 1 => Cardinality(Holders(s0) \ {t}) = 0
      BY <2>2, <2>3, <2>4
    <3> QED BY <3>1, <2>3, FS_EmptySet
  <2>8. FreeingAlone'
    <3> SUFFICES ASSUME NEW v \in Tasks, NEW u \in Tasks,
                        pc'[v] = "freeing", pc'[u] # "none", kv'[u] = kv'[v]
                 PROVE  u = v
      BY DEF FreeingAlone
    <3>1. \A w \in Tasks : w # t => pc'[w] = pc[w]
      BY <1>a DEF TypeOK
    <3>2. pc[t] # "none" /\ pc[t] # "freeing"
      BY <1>0
    <3>3. CASE v # t
      <4>1. pc[v] = "freeing" /\ pc[u] # "none" /\ kv[u] = kv[v]
        BY <3>1, <3>2, <3>3, <1>0
      <4> QED BY <4>1 DEF LifeInv, FreeingAlone
    <3>4. CASE v = t /\ u # t
      <4>1. pc[u] # "none" /\ kv[u] = s0 /\ ref[s0] = 1
        BY <3>1, <3>4, <2>0, <1>0 DEF TypeOK
      <4>2. pc[u] # "freeing"
        BY <4>1, <3>2, <3>4 DEF LifeInv, FreeingAlone
      <4>3. u \in Holders(s0)
        BY <4>1, <4>2 DEF Holders, Alive
      <4> QED BY <4>1, <4>3, <3>4, <2>7
    <3> QED BY <3>3, <3>4
  <2>9. LifeInv'
    <3>1. \A u \in Tasks : u # t => pc'[u] = pc[u]
      BY <1>a DEF TypeOK
    <3>2. kv' = kv /\ live' = live /\ kv[t] # NULL /\ pc[t] # "none"
      BY <1>0, <1>6
    <3>3. \A u \in Tasks : /\ pc'[u] = "freeing" => kv'[u] # NULL
                           /\ pc'[u] # "none" /\ kv'[u] # NULL => kv'[u] \in live'
      BY <3>1, <3>2 DEF LifeInv
    <3> QED BY <2>6, <2>8, <3>3 DEF LifeInv
  <2> QED BY <2>5, <2>9, <1>2, <1>3, <1>4
<1> QED BY <1>5, <1>6

LEMMA FreeBucketInv ==
  ASSUME IInv, NEW t \in Tasks, NEW b \in Buckets, FreeBucket(t, b)
  PROVE  IInv'
<1> USE DEF IInv
<1> PICK s \in Stores : s = kv[t]
  BY DEF LifeInv, FreeBucket, TypeOK, BucketTypeOK
<1> DEFINE gone == Range(head[s][b])
<1>0. /\ pc[t] = "freeing"
      /\ heap' = heap \ gone
      /\ node' = [n \in Nodes |-> IF n \in gone THEN NULL ELSE node[n]]
      /\ head' = [head EXCEPT ![s][b] = <<>>]
      /\ UNCHANGED <<lock, call, entry, ret, kv, pc, tgid, child, live, ref>>
  BY DEF FreeBucket, callVars, taskVars, storeVars
<1>a. /\ head'[s][b] = <<>>
      /\ \A r \in Stores, d \in Buckets : <<r, d>> # <<s, b>> => head'[r][d] = head[r][d]
  BY <1>0 DEF TypeOK, BucketTypeOK
<1>b. DOMAIN head'[s][b] = {} /\ Range(head'[s][b]) = {}
  BY <1>a DEF Range
<1>c. \A r \in Stores, d \in Buckets :
        <<r, d>> # <<s, b>> => \A n \in Range(head[r][d]) : n \notin gone
  BY DEF ChainInv, Range
<1>d. \A n \in Nodes : n \notin gone => node'[n] = node[n]
  BY <1>0
<1>e. \A r \in Stores, d \in Buckets : Range(head[r][d]) \subseteq Nodes
  BY DEF ChainInv, TypeOK, BucketTypeOK
<1>1. TypeOK'
  <2>1. head' \in [Stores -> [Buckets -> Seq(Nodes)]]
    BY <1>0 DEF TypeOK, BucketTypeOK
  <2>2. node' \in [Nodes -> KvNode \cup {NULL}] /\ heap' \subseteq Nodes
    BY <1>0 DEF TypeOK, BucketTypeOK
  <2> QED BY <1>0, <2>1, <2>2 DEF TypeOK, BucketTypeOK
<1>2. CallInv'
  BY <1>0 DEF CallInv
<1>3. CloneInv'
  BY <1>0, CloneStable
<1>4. LifeInv'
  BY <1>0, LifeStable
<1>5. ChainInv'
  <2>1. \A n \in heap' : node'[n] \in KvNode
    BY <1>0, <1>d DEF ChainInv, TypeOK, BucketTypeOK
  <2>2. \A r \in Stores, d \in Buckets : Range(head'[r][d]) \subseteq heap'
    BY <1>0, <1>a, <1>b, <1>c DEF ChainInv
  <2>3. \A s1, s2 \in Stores, b1, b2 \in Buckets :
          \A i \in DOMAIN head'[s1][b1], j \in DOMAIN head'[s2][b2] :
            head'[s1][b1][i] = head'[s2][b2][j] => s1 = s2 /\ b1 = b2 /\ i = j
    <3> SUFFICES ASSUME NEW s1 \in Stores, NEW s2 \in Stores,
                        NEW b1 \in Buckets, NEW b2 \in Buckets,
                        NEW i \in DOMAIN head'[s1][b1], NEW j \in DOMAIN head'[s2][b2],
                        head'[s1][b1][i] = head'[s2][b2][j]
                 PROVE  s1 = s2 /\ b1 = b2 /\ i = j
      OBVIOUS
    <3>1. head'[s1][b1] = head[s1][b1] /\ head'[s2][b2] = head[s2][b2]
      BY <1>a, <1>b
    <3> QED BY <3>1 DEF ChainInv
  <2> QED BY <2>1, <2>2, <2>3 DEF ChainInv
<1>6. UniqueKeys'
  <2> SUFFICES ASSUME NEW r \in Stores, NEW d \in Buckets
               PROVE  /\ \A i, j \in DOMAIN head'[r][d] :
                           node'[head'[r][d][i]].key = node'[head'[r][d][j]].key => i = j
                      /\ \A i \in DOMAIN head'[r][d] : hash(node'[head'[r][d][i]].key) = d
    BY DEF UniqueKeys
  <2>1. CASE <<r, d>> = <<s, b>>
    BY <2>1, <1>b
  <2>2. CASE <<r, d>> # <<s, b>>
    <3>1. head'[r][d] = head[r][d]
      BY <2>2, <1>a
    <3>2. \A i \in DOMAIN head[r][d] : node'[head[r][d][i]] = node[head[r][d][i]]
      BY <2>2, <1>c, <1>d, <1>e DEF Range
    <3> QED BY <3>1, <3>2 DEF UniqueKeys
  <2> QED BY <2>1, <2>2
<1>7. EntryInv'
  <2> SUFFICES ASSUME NEW u \in Tasks
               PROVE  LET chain == Range(head'[kv'[u]][hash(call'[u].k)]) IN
                      /\ entry'[u] # NULL => /\ pc'[u] \in {"store", "unlock"}
                                             /\ entry'[u] \in chain
                                             /\ node'[entry'[u]].key = call'[u].k
                      /\ pc'[u] = "store" /\ entry'[u] = NULL =>
                           \A m \in chain : node'[m].key # call'[u].k
    BY DEF EntryInv
  <2>1. kv'[u] = kv[u] /\ pc'[u] = pc[u] /\ call'[u] = call[u] /\ entry'[u] = entry[u]
    BY <1>0
  <2>2. CASE pc[u] \in {"store", "unlock"}
    <3>1. kv[u] \in Stores /\ kv[u] # s
      BY <2>2, <1>0 DEF CallInv, InCall, LifeInv, FreeingAlone, TypeOK, BucketTypeOK
    <3>2. hash(call[u].k) \in Buckets
      BY <2>2, CallBucket DEF CallInv, InCall
    <3>3. head'[kv[u]][hash(call[u].k)] = head[kv[u]][hash(call[u].k)]
      BY <3>1, <3>2, <1>a
    <3>4. \A m \in Range(head[kv[u]][hash(call[u].k)]) : node'[m] = node[m]
      BY <3>1, <3>2, <1>c, <1>d, <1>e
    <3>5. LET chain == Range(head[kv[u]][hash(call[u].k)]) IN
          /\ entry[u] # NULL => entry[u] \in chain /\ node[entry[u]].key = call[u].k
          /\ pc[u] = "store" /\ entry[u] = NULL =>
               \A m \in chain : node[m].key # call[u].k
      BY DEF EntryInv
    <3> HIDE DEF IInv
    <3> QED BY <2>1, <2>2, <3>3, <3>4, <3>5
  <2>3. CASE pc[u] \notin {"store", "unlock"}
    BY <2>1, <2>3 DEF EntryInv
  <2> QED BY <2>2, <2>3
<1> QED BY <1>1, <1>2, <1>3, <1>4, <1>5, <1>6, <1>7

LEMMA FreeStoreInv ==
  ASSUME IInv, NEW t \in Tasks, FreeStore(t)
  PROVE  IInv'
<1> USE DEF IInv
<1> PICK s \in Stores : s = kv[t]
  BY DEF LifeInv, FreeStore, TypeOK, BucketTypeOK
<1>0. /\ pc[t] = "freeing"
      /\ live' = live \ {s}
      /\ kv' = [kv EXCEPT ![t] = NULL]
      /\ pc' = [pc EXCEPT ![t] = "none"]
      /\ UNCHANGED <<head, lock, node, heap, call, entry, ret, tgid, child, ref>>
  BY DEF FreeStore, bucketVars, callVars, taskVars
<1>1. TypeOK'
  BY <1>0 DEF TypeOK, BucketTypeOK
<1>2. CallInv' /\ EntryInv'
  <2>1. \A u \in Tasks :
          \/ pc'[u] = pc[u] /\ kv'[u] = kv[u] /\ call'[u] = call[u]
          \/ pc[u] \notin InCall /\ pc'[u] \notin InCall \cup {"lock"}
    BY <1>0 DEF TypeOK, BucketTypeOK, InCall
  <2> QED BY <2>1, <1>0, CallsStable
<1>3. CloneInv'
  BY <1>0, CloneStable DEF TypeOK
<1>4. ChainInv' /\ UniqueKeys'
  BY <1>0, ChainStable
<1>5. LifeInv'
  <2>1. \A r \in Stores : Holders(r)' = Holders(r)
    BY <1>0 DEF Holders, Alive, TypeOK, BucketTypeOK
  <2>2. RefCountCovers'
    BY <2>1, <1>0 DEF LifeInv, RefCountCovers
  <2>3. \A u \in Tasks : u # t => pc'[u] = pc[u] /\ kv'[u] = kv[u]
    BY <1>0 DEF TypeOK, BucketTypeOK
  <2>4. pc'[t] = "none"
    BY <1>0 DEF TypeOK
  <2>5. FreeingAlone'
    BY <2>3, <2>4 DEF LifeInv, FreeingAlone
  <2>6. \A u \in Tasks : u # t /\ pc[u] # "none" => kv[u] # s
    BY <1>0 DEF LifeInv, FreeingAlone
  <2>7. \A u \in Tasks : /\ pc'[u] = "freeing" => kv'[u] # NULL
                         /\ pc'[u] # "none" /\ kv'[u] # NULL => kv'[u] \in live'
    BY <2>3, <2>4, <2>6, <1>0 DEF LifeInv
  <2> QED BY <2>2, <2>5, <2>7 DEF LifeInv
<1> QED BY <1>1, <1>2, <1>3, <1>4, <1>5

=============================================================================
