--------------------------- MODULE KvInsertProofs ---------------------------
(***************************************************************************)
(* Part two: linking a new node keeps IInv.                                *)
(***************************************************************************)
EXTENDS KvCallProofs

USE DEF Goto

\* The nodes of a chain are those at its indices.
LEMMA NodeOfChain ==
  ASSUME NEW S, NEW s \in Seq(S), NEW i \in 1 .. Len(s)
  PROVE  s[i] \in S /\ s[i] \in Range(s)
BY DEF Range

LEMMA InsertInv ==
  ASSUME IInv, NEW t \in Tasks, NEW n \in Nodes, Insert(t, n),
         UNCHANGED <<taskVars, storeVars>>
  PROVE  IInv'
<1> USE DEF IInv, taskVars, storeVars
<1> DEFINE s0 == kv[t]
           b0 == hash(call[t].k)
           old == head[s0][b0]
           new == <<n>> \o old
<1>0. /\ s0 \in Stores
      /\ b0 \in Buckets
      /\ call[t].k \in Keys
      /\ call[t].v \in Values
      /\ old \in Seq(Nodes)
      /\ DOMAIN old = 1 .. Len(old)
      /\ Len(old) \in Nat
  <2>1. s0 \in Stores /\ b0 \in Buckets /\ call[t].k \in Keys /\ call[t].v \in Values
    BY CallBucket DEF Insert, CallInv, TypeOK, BucketTypeOK, InCall
  <2> QED BY <2>1 DEF TypeOK, BucketTypeOK
<1>a. /\ new \in Seq(Nodes)
      /\ DOMAIN new = 1 .. (Len(old) + 1)
      /\ new[1] = n
      /\ \A i \in 1 .. Len(old) : new[i + 1] = old[i]
      /\ Range(new) = {n} \cup Range(old)
  <2> HIDE DEF IInv, old
  <2> QED BY <1>0, AddHead
<1> HIDE DEF new
<1>b. /\ head' = [head EXCEPT ![s0][b0] = new]
      /\ node' = [node EXCEPT ![n] = [key |-> call[t].k, value |-> call[t].v]]
      /\ heap' = heap \cup {n}
      /\ n \notin heap
      /\ pc' = [pc EXCEPT ![t] = "unlock"]
      /\ UNCHANGED <<lock, kv, call, entry>>
      /\ pc[t] = "store" /\ entry[t] = NULL
  BY DEF Insert, new
<1>c. /\ head'[s0][b0] = new
      /\ \A s \in Stores, b \in Buckets : (s # s0 \/ b # b0) => head'[s][b] = head[s][b]
  BY <1>0, <1>b DEF TypeOK, BucketTypeOK
<1>d. /\ \A m \in Nodes : m # n => node'[m] = node[m]
      /\ node'[n] = [key |-> call[t].k, value |-> call[t].v]
      /\ node'[n] \in KvNode
      /\ node'[n].key = call[t].k
  BY <1>0, <1>b DEF TypeOK, BucketTypeOK, KvNode
<1>e. \A s \in Stores, b \in Buckets :
        Range(head[s][b]) \subseteq heap /\ n \notin Range(head[s][b])
  BY <1>b DEF ChainInv
<1>1. TypeOK'
  <2>1. head' \in [Stores -> [Buckets -> Seq(Nodes)]]
    BY <1>0, <1>a, <1>b DEF TypeOK, BucketTypeOK
  <2>2. node' \in [Nodes -> KvNode \cup {NULL}]
    BY <1>b, <1>d DEF TypeOK, BucketTypeOK
  <2> QED BY <2>1, <2>2, <1>b DEF Insert, TypeOK, BucketTypeOK, SizeofInt
<1>2. CallInv'
  BY DEF Insert, CallInv, TypeOK, BucketTypeOK, InCall
<1>3. CloneInv' /\ LifeInv'
  BY CloneStable, LifeStable DEF Insert, TypeOK
<1>4. ChainInv'
  <2>1. \A m \in heap' : node'[m] \in KvNode
    BY <1>b, <1>d DEF ChainInv, TypeOK, BucketTypeOK
  <2>2. \A s \in Stores, b \in Buckets : Range(head'[s][b]) \subseteq heap'
    <3> HIDE DEF IInv, old, s0, b0
    <3>1. Range(head'[s0][b0]) \subseteq heap'
      BY <1>0, <1>a, <1>b, <1>c, <1>e DEF old
    <3>2. \A s \in Stores, b \in Buckets :
            (s # s0 \/ b # b0) => Range(head'[s][b]) \subseteq heap'
      BY <1>b, <1>c, <1>e
    <3> QED BY <3>1, <3>2
  <2>3. ASSUME NEW s1 \in Stores, NEW s2 \in Stores, NEW b1 \in Buckets, NEW b2 \in Buckets,
               NEW i \in DOMAIN head'[s1][b1], NEW j \in DOMAIN head'[s2][b2],
               head'[s1][b1][i] = head'[s2][b2][j]
        PROVE  s1 = s2 /\ b1 = b2 /\ i = j
    <3> DEFINE At(s, b) == s = s0 /\ b = b0
    <3>1. \A s \in Stores, b \in Buckets : \A x \in DOMAIN head[s][b] :
             head[s][b][x] # n
      BY <1>e DEF Range
    <3>2. CASE At(s1, b1) /\ At(s2, b2)
      <4>1. /\ i \in 1 .. (Len(old) + 1) /\ j \in 1 .. (Len(old) + 1)
            /\ new[i] = new[j]
        BY <3>2, <2>3, <1>a, <1>c
      <4>2. \A x \in 2 .. (Len(old) + 1) : new[x] = old[x - 1] /\ x - 1 \in DOMAIN old
        <5> TAKE x \in 2 .. (Len(old) + 1)
        <5>1. x - 1 \in 1 .. Len(old) /\ (x - 1) + 1 = x
          BY <1>0
        <5> QED BY <5>1, <1>a, <1>0
      <4>3. \A x \in 1 .. Len(old) : old[x] # n
        BY <3>1, <1>0
      <4>4. \A x, y \in 1 .. Len(old) : old[x] = old[y] => x = y
        BY <1>0 DEF ChainInv
      <4>5. i = j
        <5>1. CASE i = 1 /\ j # 1
          <6>1. j \in 2 .. (Len(old) + 1)
            BY <5>1, <4>1, <1>0
          <6>2. new[j] = old[j - 1] /\ j - 1 \in 1 .. Len(old)
            BY <6>1, <4>2, <1>0
          <6> QED BY <5>1, <6>2, <4>1, <4>3, <1>a
        <5>2. CASE i # 1 /\ j = 1
          <6>1. i \in 2 .. (Len(old) + 1)
            BY <5>2, <4>1, <1>0
          <6>2. new[i] = old[i - 1] /\ i - 1 \in 1 .. Len(old)
            BY <6>1, <4>2, <1>0
          <6> QED BY <5>2, <6>2, <4>1, <4>3, <1>a
        <5>3. CASE i # 1 /\ j # 1
          <6>1. i \in 2 .. (Len(old) + 1) /\ j \in 2 .. (Len(old) + 1)
            BY <5>3, <4>1, <1>0
          <6>2. /\ i - 1 \in 1 .. Len(old) /\ j - 1 \in 1 .. Len(old)
                /\ old[i - 1] = old[j - 1]
            BY <6>1, <4>1, <4>2, <1>0
          <6>3. i - 1 = j - 1
            BY <6>2, <4>4
          <6> QED BY <6>1, <6>3
        <5> QED BY <5>1, <5>2, <5>3
      <4> QED BY <3>2, <4>5
    <3>3. ASSUME NEW s \in Stores, NEW b \in Buckets, ~At(s, b),
                 NEW x \in DOMAIN head[s][b], NEW y \in DOMAIN new
          PROVE  head[s][b][x] # new[y]
      <4>1. CASE y = 1
        BY <4>1, <3>1, <1>a
      <4>2. CASE y # 1
        <5>1. y - 1 \in 1 .. Len(old) /\ new[y] = old[y - 1]
          <6> HIDE DEF IInv, old
          <6>0. y \in 1 .. (Len(old) + 1)
            BY <3>3, <1>a
          <6>1. y - 1 \in 1 .. Len(old) /\ (y - 1) + 1 = y
            BY <4>2, <1>0, <6>0
          <6> QED BY <6>1, <1>a
        <5> QED BY <5>1, <3>3, <1>0 DEF ChainInv
      <4> QED BY <4>1, <4>2
    <3>4. CASE At(s1, b1) /\ ~At(s2, b2)
      BY <3>4, <3>3, <2>3, <1>c
    <3>5. CASE ~At(s1, b1) /\ At(s2, b2)
      BY <3>5, <3>3, <2>3, <1>c
    <3>6. CASE ~At(s1, b1) /\ ~At(s2, b2)
      BY <3>6, <2>3, <1>c DEF ChainInv
    <3> QED BY <3>2, <3>4, <3>5, <3>6
  <2> QED BY <2>1, <2>2, <2>3 DEF ChainInv
<1>5. UniqueKeys'
  <2> SUFFICES ASSUME NEW s \in Stores, NEW b \in Buckets
               PROVE  /\ \A i, j \in DOMAIN head'[s][b] :
                           node'[head'[s][b][i]].key = node'[head'[s][b][j]].key => i = j
                      /\ \A i \in DOMAIN head'[s][b] : hash(node'[head'[s][b][i]].key) = b
    BY DEF UniqueKeys
  <2>1. CASE ~(s = s0 /\ b = b0)
    <3>1. \A i \in DOMAIN head[s][b] :
             /\ head[s][b][i] # n
             /\ node'[head[s][b][i]] = node[head[s][b][i]]
      BY <1>d, <1>e DEF Range, TypeOK, BucketTypeOK
    <3> QED BY <2>1, <3>1, <1>c DEF UniqueKeys
  <2>2. CASE s = s0 /\ b = b0
    <3>1. \A x \in 1 .. Len(old) :
             /\ old[x] # n
             /\ node'[old[x]] = node[old[x]]
             /\ node[old[x]].key # call[t].k
             /\ hash(node[old[x]].key) = b0
      <4>1. \A x \in 1 .. Len(old) : old[x] \in Range(old) /\ old[x] \in Nodes
        <5> HIDE DEF IInv, old
        <5> QED BY <1>0, NodeOfChain
      <4>2. \A m \in Range(old) : node[m].key # call[t].k
        BY <1>b DEF EntryInv
      <4>3. \A x \in 1 .. Len(old) : hash(node[old[x]].key) = b0
        BY <1>0 DEF UniqueKeys
      <4> QED BY <4>1, <4>2, <4>3, <1>d, <1>e, <1>0
    <3>2. \A x \in 1 .. (Len(old) + 1) :
             \/ x = 1 /\ new[x] = n
             \/ /\ x # 1
                /\ x - 1 \in 1 .. Len(old)
                /\ new[x] = old[x - 1]
      <4> TAKE x \in 1 .. (Len(old) + 1)
      <4>1. CASE x = 1
        BY <4>1, <1>a
      <4>2. CASE x # 1
        <5>1. x - 1 \in 1 .. Len(old) /\ (x - 1) + 1 = x
          BY <4>2, <1>0
        <5> QED BY <5>1, <4>2, <1>a
      <4> QED BY <4>1, <4>2
    <3>3. \A x, y \in 1 .. Len(old) : node[old[x]].key = node[old[y]].key => x = y
      BY <1>0 DEF UniqueKeys
    <3>4. ASSUME NEW i \in 1 .. (Len(old) + 1), NEW j \in 1 .. (Len(old) + 1),
                 node'[new[i]].key = node'[new[j]].key
          PROVE  i = j
      <4>1. \A x \in 1 .. (Len(old) + 1) :
               x # 1 => /\ x - 1 \in 1 .. Len(old)
                        /\ node'[new[x]] = node[old[x - 1]]
                        /\ node'[new[x]].key # call[t].k
        <5> SUFFICES ASSUME NEW x \in 1 .. (Len(old) + 1), x # 1
                     PROVE  /\ x - 1 \in 1 .. Len(old)
                            /\ node'[new[x]] = node[old[x - 1]]
                            /\ node'[new[x]].key # call[t].k
          OBVIOUS
        <5>1. x - 1 \in 1 .. Len(old) /\ new[x] = old[x - 1]
          BY <3>2
        <5>2. node'[old[x - 1]] = node[old[x - 1]] /\ node[old[x - 1]].key # call[t].k
          BY <5>1, <3>1
        <5> QED BY <5>1, <5>2
      <4>2. node'[new[1]].key = call[t].k
        BY <1>a, <1>d
      <4>3. i = 1 <=> j = 1
        BY <4>1, <4>2, <3>4
      <4>4. CASE i # 1 /\ j # 1
        <5>1. i - 1 \in 1 .. Len(old) /\ j - 1 \in 1 .. Len(old)
              /\ node[old[i - 1]].key = node[old[j - 1]].key
          BY <4>4, <4>1, <3>4
        <5>2. i - 1 = j - 1
          BY <5>1, <3>3
        <5> QED BY <5>2, <1>0
      <4> QED BY <4>3, <4>4
    <3>5. ASSUME NEW i \in 1 .. (Len(old) + 1)
          PROVE  hash(node'[new[i]].key) = b0
      <4>1. CASE i = 1
        BY <4>1, <1>a, <1>d
      <4>2. CASE i # 1
        <5>1. i - 1 \in 1 .. Len(old) /\ new[i] = old[i - 1]
          BY <4>2, <3>2
        <5>2. node'[old[i - 1]] = node[old[i - 1]] /\ hash(node[old[i - 1]].key) = b0
          BY <5>1, <3>1
        <5>3. node'[new[i]] = node[old[i - 1]]
          BY <5>1, <5>2
        <5> QED BY <5>2, <5>3
      <4> QED BY <4>1, <4>2
    <3> HIDE DEF IInv, old
    <3> QED BY <2>2, <3>4, <3>5, <1>a, <1>c
  <2> QED BY <2>1, <2>2
<1>6. EntryInv'
  <2> SUFFICES ASSUME NEW u \in Tasks
               PROVE  LET chain == Range(head'[kv'[u]][hash(call'[u].k)]) IN
                      /\ entry'[u] # NULL => /\ pc'[u] \in {"store", "unlock"}
                                             /\ entry'[u] \in chain
                                             /\ node'[entry'[u]].key = call'[u].k
                      /\ pc'[u] = "store" /\ entry'[u] = NULL =>
                           \A m \in chain : node'[m].key # call'[u].k
    BY DEF EntryInv
  <2>1. CASE u = t
    BY <2>1, <1>b DEF TypeOK
  <2>2. CASE u # t
    <3>1. pc'[u] = pc[u] /\ UNCHANGED <<kv, call, entry>>
      BY <2>2, <1>b DEF TypeOK
    <3>2. CASE entry[u] # NULL \/ pc[u] = "store"
      <4>1. pc[u] \in InCall
        BY <3>2 DEF EntryInv, InCall
      <4>2. kv[u] \in Stores /\ hash(call[u].k) \in Buckets
        BY <4>1, CallBucket DEF CallInv, TypeOK, BucketTypeOK
      <4>3. ~(kv[u] = s0 /\ hash(call[u].k) = b0)
        BY <4>1, <2>2, <1>b DEF CallInv, InCall
      <4>4. head'[kv[u]][hash(call[u].k)] = head[kv[u]][hash(call[u].k)]
        BY <4>2, <4>3, <1>c
      <4>5. \A m \in Range(head[kv[u]][hash(call[u].k)]) : node'[m] = node[m]
        BY <4>2, <1>d, <1>e DEF TypeOK, BucketTypeOK
      <4> QED BY <3>1, <4>4, <4>5 DEF EntryInv
    <3> QED BY <3>1, <3>2
  <2> QED BY <2>1, <2>2
<1> QED BY <1>1, <1>2, <1>3, <1>4, <1>5, <1>6

-----------------------------------------------------------------------------
(* The invariant is preserved by fork and exit. *)

=============================================================================
