-------------------------- MODULE BacktestRunnerProofs --------------------------
(* Theorems about BacktestRunner, for every set of pools and families, every       *)
(* transaction made of well-formed logs, every range and every horizon: a failed   *)
(* block is rolled back whole, the narrowed scan misses nothing, and the runner    *)
(* implements BlockApply. The manager's operators come first, then one             *)
(* transaction, then the runner's steps.                                           *)
EXTENDS BacktestRunner, SequenceTheorems, WellFoundedInduction, TLAPS

(* A nonempty set of numbers has a least element.                          *)
LEMMA LeastExists ==
  ASSUME NEW S, S \subseteq Nat, S # {}
  PROVE  \E x \in S : \A y \in S : x <= y
<1>1. PICK x \in S : \A y \in S : ~ (<<y, x>> \in OpToRel(<, Nat))
  BY NatLessThanWellFounded, WFMin
<1>2. \A y \in S : ~ (y < x)
  BY <1>1 DEF OpToRel
<1> QED
  BY <1>2

-----------------------------------------------------------------------------------
(* The recursive functions of the model have the values they are given.    *)

(* The managers after each of the logs of a transaction.                     *)
LEMMA AfterLogsIs ==
  ASSUME NEW m, NEW logs, Len(logs) \in Nat
  PROVE  /\ DOMAIN AfterLogs(m, logs) = 0 .. Len(logs)
         /\ AfterLogs(m, logs)[0] = m
         /\ \A i \in 1 .. Len(logs) :
               AfterLogs(m, logs)[i] = ApplyLog(AfterLogs(m, logs)[i - 1], logs[i])
<1> DEFINE Is(f, n) == f = [i \in 0 .. n |-> IF i = 0 THEN m ELSE ApplyLog(f[i - 1], logs[i])]
           Bad == {n \in Nat : \A f : ~Is(f, n)}
<1>1. Bad = {}
  <2>1. SUFFICES ASSUME Bad # {} PROVE FALSE
    OBVIOUS
  <2>2. PICK n \in Bad : \A k \in Bad : n <= k
    <3>1. Bad \subseteq Nat
      OBVIOUS
    <3> HIDE DEF Bad
    <3> QED
      BY <2>1, <3>1, LeastExists
  <2>3. n \in Nat /\ \A f : ~Is(f, n)
    OBVIOUS
  <2>4. CASE n = 0
    <3> DEFINE f == [i \in 0 .. 0 |-> m]
    <3>1. Is(f, 0)
      OBVIOUS
    <3> QED
      BY <2>3, <2>4, <3>1
  <2>5. CASE n # 0
    <3>1. n - 1 \in Nat /\ ~(n <= n - 1)
      BY <2>3, <2>5
    <3>2. n - 1 \notin Bad
      <4> HIDE DEF Bad
      <4> QED
        BY <2>2, <3>1
    <3>3. PICK g : Is(g, n - 1)
      BY <3>1, <3>2
    <3> DEFINE f == [i \in 0 .. n |-> IF i = n THEN ApplyLog(g[n - 1], logs[n]) ELSE g[i]]
    <3>4. \A i \in 0 .. n - 1 : f[i] = g[i] /\ g[i] = IF i = 0 THEN m ELSE ApplyLog(g[i - 1], logs[i])
      BY <2>3, <3>1, <3>3
    <3>5. \A i \in 0 .. n : f[i] = IF i = 0 THEN m ELSE ApplyLog(f[i - 1], logs[i])
      <4>1. \A i \in 1 .. n : f[i - 1] = g[i - 1]
        BY <2>3, <3>4
      <4>2. f[n] = ApplyLog(g[n - 1], logs[n])
        BY <2>3
      <4> HIDE DEF f
      <4> QED
        BY <2>3, <2>5, <3>4, <4>1, <4>2
    <3>6. Is(f, n)
      <4>1. f = [i \in 0 .. n |-> f[i]]
        OBVIOUS
      <4> HIDE DEF f
      <4> QED
        BY <3>5, <4>1
    <3> QED
      BY <2>3, <3>6
  <2> QED
    BY <2>4, <2>5
<1>2. \E f : Is(f, Len(logs))
  BY <1>1
<1>3. AfterLogs(m, logs) = CHOOSE f : Is(f, Len(logs))
  BY DEF AfterLogs
<1>4. Is(AfterLogs(m, logs), Len(logs))
  BY <1>2, <1>3
<1>5. \A i \in 0 .. Len(logs) : AfterLogs(m, logs)[i] = IF i = 0 THEN m ELSE ApplyLog(AfterLogs(m, logs)[i - 1], logs[i])
  BY <1>4
<1>6. DOMAIN AfterLogs(m, logs) = 0 .. Len(logs)
  BY <1>4
<1> HIDE DEF Bad, Is
<1> QED
  BY <1>5, <1>6

(* The bucket so far, as retain goes through it.                             *)
LEMMA RetainedIs ==
  ASSUME NEW bucket, NEW gone, Len(bucket) \in Nat
  PROVE  /\ DOMAIN Retained(bucket, gone) = 0 .. Len(bucket)
         /\ Retained(bucket, gone)[0] = <<>>
         /\ \A i \in 1 .. Len(bucket) :
               Retained(bucket, gone)[i] = AppendUnless(gone, Retained(bucket, gone)[i - 1], bucket[i])
<1> DEFINE Is(f, n) == f = [i \in 0 .. n |-> IF i = 0 THEN <<>> ELSE AppendUnless(gone, f[i - 1], bucket[i])]
           Bad == {n \in Nat : \A f : ~Is(f, n)}
<1>1. Bad = {}
  <2>1. SUFFICES ASSUME Bad # {} PROVE FALSE
    OBVIOUS
  <2>2. PICK n \in Bad : \A k \in Bad : n <= k
    <3>1. Bad \subseteq Nat
      OBVIOUS
    <3> HIDE DEF Bad
    <3> QED
      BY <2>1, <3>1, LeastExists
  <2>3. n \in Nat /\ \A f : ~Is(f, n)
    OBVIOUS
  <2>4. CASE n = 0
    <3> DEFINE f == [i \in 0 .. 0 |-> <<>>]
    <3>1. Is(f, 0)
      OBVIOUS
    <3> QED
      BY <2>3, <2>4, <3>1
  <2>5. CASE n # 0
    <3>1. n - 1 \in Nat /\ ~(n <= n - 1)
      BY <2>3, <2>5
    <3>2. n - 1 \notin Bad
      <4> HIDE DEF Bad
      <4> QED
        BY <2>2, <3>1
    <3>3. PICK g : Is(g, n - 1)
      BY <3>1, <3>2
    <3> DEFINE f == [i \in 0 .. n |-> IF i = n THEN AppendUnless(gone, g[n - 1], bucket[n]) ELSE g[i]]
    <3>4. \A i \in 0 .. n - 1 : f[i] = g[i] /\ g[i] = IF i = 0 THEN <<>> ELSE AppendUnless(gone, g[i - 1], bucket[i])
      BY <2>3, <3>1, <3>3
    <3>5. \A i \in 0 .. n : f[i] = IF i = 0 THEN <<>> ELSE AppendUnless(gone, f[i - 1], bucket[i])
      <4>1. \A i \in 1 .. n : f[i - 1] = g[i - 1]
        BY <2>3, <3>4
      <4>2. f[n] = AppendUnless(gone, g[n - 1], bucket[n])
        BY <2>3
      <4> HIDE DEF f
      <4> QED
        BY <2>3, <2>5, <3>4, <4>1, <4>2
    <3>6. Is(f, n)
      <4>1. f = [i \in 0 .. n |-> f[i]]
        OBVIOUS
      <4> HIDE DEF f
      <4> QED
        BY <3>5, <4>1
    <3> QED
      BY <2>3, <3>6
  <2> QED
    BY <2>4, <2>5
<1>2. \E f : Is(f, Len(bucket))
  BY <1>1
<1>3. Retained(bucket, gone) = CHOOSE f : Is(f, Len(bucket))
  BY DEF Retained
<1>4. Is(Retained(bucket, gone), Len(bucket))
  BY <1>2, <1>3
<1>5. \A i \in 0 .. Len(bucket) : Retained(bucket, gone)[i] = IF i = 0 THEN <<>> ELSE AppendUnless(gone, Retained(bucket, gone)[i - 1], bucket[i])
  BY <1>4
<1>6. DOMAIN Retained(bucket, gone) = 0 .. Len(bucket)
  BY <1>4
<1> HIDE DEF Bad, Is
<1> QED
  BY <1>5, <1>6

(* The managers as init_pools adds one pool after another.                   *)
LEMMA FilledIs ==
  ASSUME Len(InitOrder) \in Nat
  PROVE  /\ DOMAIN Filled = 0 .. Len(InitOrder)
         /\ Filled[0] = EmptyManager
         /\ \A i \in 1 .. Len(InitOrder) :
               Filled[i] = AddPool(Filled[i - 1], InitOrder[i], Start[InitOrder[i]])
<1> DEFINE Is(f, n) == f = [i \in 0 .. n |-> IF i = 0 THEN EmptyManager ELSE AddPool(f[i - 1], InitOrder[i], Start[InitOrder[i]])]
           Bad == {n \in Nat : \A f : ~Is(f, n)}
<1>1. Bad = {}
  <2>1. SUFFICES ASSUME Bad # {} PROVE FALSE
    OBVIOUS
  <2>2. PICK n \in Bad : \A k \in Bad : n <= k
    <3>1. Bad \subseteq Nat
      OBVIOUS
    <3> HIDE DEF Bad
    <3> QED
      BY <2>1, <3>1, LeastExists
  <2>3. n \in Nat /\ \A f : ~Is(f, n)
    OBVIOUS
  <2>4. CASE n = 0
    <3> DEFINE f == [i \in 0 .. 0 |-> EmptyManager]
    <3>1. Is(f, 0)
      OBVIOUS
    <3> QED
      BY <2>3, <2>4, <3>1
  <2>5. CASE n # 0
    <3>1. n - 1 \in Nat /\ ~(n <= n - 1)
      BY <2>3, <2>5
    <3>2. n - 1 \notin Bad
      <4> HIDE DEF Bad
      <4> QED
        BY <2>2, <3>1
    <3>3. PICK g : Is(g, n - 1)
      BY <3>1, <3>2
    <3> DEFINE f == [i \in 0 .. n |-> IF i = n THEN AddPool(g[n - 1], InitOrder[n], Start[InitOrder[n]]) ELSE g[i]]
    <3>4. \A i \in 0 .. n - 1 : f[i] = g[i] /\ g[i] = IF i = 0 THEN EmptyManager ELSE AddPool(g[i - 1], InitOrder[i], Start[InitOrder[i]])
      BY <2>3, <3>1, <3>3
    <3>5. \A i \in 0 .. n : f[i] = IF i = 0 THEN EmptyManager ELSE AddPool(f[i - 1], InitOrder[i], Start[InitOrder[i]])
      <4>1. \A i \in 1 .. n : f[i - 1] = g[i - 1]
        BY <2>3, <3>4
      <4>2. f[n] = AddPool(g[n - 1], InitOrder[n], Start[InitOrder[n]])
        BY <2>3
      <4> HIDE DEF f
      <4> QED
        BY <2>3, <2>5, <3>4, <4>1, <4>2
    <3>6. Is(f, n)
      <4>1. f = [i \in 0 .. n |-> f[i]]
        OBVIOUS
      <4> HIDE DEF f
      <4> QED
        BY <3>5, <4>1
    <3> QED
      BY <2>3, <3>6
  <2> QED
    BY <2>4, <2>5
<1>2. \E f : Is(f, Len(InitOrder))
  BY <1>1
<1>3. Filled = CHOOSE f : Is(f, Len(InitOrder))
  BY DEF Filled
<1>4. Is(Filled, Len(InitOrder))
  BY <1>2, <1>3
<1>5. \A i \in 0 .. Len(InitOrder) : Filled[i] = IF i = 0 THEN EmptyManager ELSE AddPool(Filled[i - 1], InitOrder[i], Start[InitOrder[i]])
  BY <1>4
<1>6. DOMAIN Filled = 0 .. Len(InitOrder)
  BY <1>4
<1> HIDE DEF Bad, Is
<1> QED
  BY <1>5, <1>6

(* The managers after each of the transactions of a block.                   *)
LEMMA AfterTxsIs ==
  ASSUME NEW ps, NEW c, Len(c) \in Nat
  PROVE  /\ DOMAIN AfterTxs(ps, c) = 0 .. Len(c)
         /\ AfterTxs(ps, c)[0] = Holding(ps)
         /\ \A i \in 1 .. Len(c) :
               AfterTxs(ps, c)[i] = UpdateFromLogs(AfterTxs(ps, c)[i - 1], c[i])
<1> DEFINE Is(f, n) == f = [i \in 0 .. n |-> IF i = 0 THEN Holding(ps) ELSE UpdateFromLogs(f[i - 1], c[i])]
           Bad == {n \in Nat : \A f : ~Is(f, n)}
<1>1. Bad = {}
  <2>1. SUFFICES ASSUME Bad # {} PROVE FALSE
    OBVIOUS
  <2>2. PICK n \in Bad : \A k \in Bad : n <= k
    <3>1. Bad \subseteq Nat
      OBVIOUS
    <3> HIDE DEF Bad
    <3> QED
      BY <2>1, <3>1, LeastExists
  <2>3. n \in Nat /\ \A f : ~Is(f, n)
    OBVIOUS
  <2>4. CASE n = 0
    <3> DEFINE f == [i \in 0 .. 0 |-> Holding(ps)]
    <3>1. Is(f, 0)
      OBVIOUS
    <3> QED
      BY <2>3, <2>4, <3>1
  <2>5. CASE n # 0
    <3>1. n - 1 \in Nat /\ ~(n <= n - 1)
      BY <2>3, <2>5
    <3>2. n - 1 \notin Bad
      <4> HIDE DEF Bad
      <4> QED
        BY <2>2, <3>1
    <3>3. PICK g : Is(g, n - 1)
      BY <3>1, <3>2
    <3> DEFINE f == [i \in 0 .. n |-> IF i = n THEN UpdateFromLogs(g[n - 1], c[n]) ELSE g[i]]
    <3>4. \A i \in 0 .. n - 1 : f[i] = g[i] /\ g[i] = IF i = 0 THEN Holding(ps) ELSE UpdateFromLogs(g[i - 1], c[i])
      BY <2>3, <3>1, <3>3
    <3>5. \A i \in 0 .. n : f[i] = IF i = 0 THEN Holding(ps) ELSE UpdateFromLogs(f[i - 1], c[i])
      <4>1. \A i \in 1 .. n : f[i - 1] = g[i - 1]
        BY <2>3, <3>4
      <4>2. f[n] = UpdateFromLogs(g[n - 1], c[n])
        BY <2>3
      <4> HIDE DEF f
      <4> QED
        BY <2>3, <2>5, <3>4, <4>1, <4>2
    <3>6. Is(f, n)
      <4>1. f = [i \in 0 .. n |-> f[i]]
        OBVIOUS
      <4> HIDE DEF f
      <4> QED
        BY <3>5, <4>1
    <3> QED
      BY <2>3, <3>6
  <2> QED
    BY <2>4, <2>5
<1>2. \E f : Is(f, Len(c))
  BY <1>1
<1>3. AfterTxs(ps, c) = CHOOSE f : Is(f, Len(c))
  BY DEF AfterTxs
<1>4. Is(AfterTxs(ps, c), Len(c))
  BY <1>2, <1>3
<1>5. \A i \in 0 .. Len(c) : AfterTxs(ps, c)[i] = IF i = 0 THEN Holding(ps) ELSE UpdateFromLogs(AfterTxs(ps, c)[i - 1], c[i])
  BY <1>4
<1>6. DOMAIN AfterTxs(ps, c) = 0 .. Len(c)
  BY <1>4
<1> HIDE DEF Bad, Is
<1> QED
  BY <1>5, <1>6

(* A bucket from which nothing is taken is the bucket.                     *)
LEMMA RetainNothing ==
  ASSUME NEW S, NEW bucket \in Seq(S)
  PROVE  Retain(bucket, {}) = bucket
<1> DEFINE kept == Retained(bucket, {})
           Bad == {i \in 0 .. Len(bucket) : kept[i] # SubSeq(bucket, 1, i)}
<1>1. Len(bucket) \in Nat
  OBVIOUS
<1>2. /\ kept[0] = <<>>
      /\ \A i \in 1 .. Len(bucket) : kept[i] = Append(kept[i - 1], bucket[i])
  <2>1. /\ kept[0] = <<>>
        /\ \A i \in 1 .. Len(bucket) : kept[i] = AppendUnless({}, kept[i - 1], bucket[i])
    BY <1>1, RetainedIs
  <2>2. \A b, p : AppendUnless({}, b, p) = Append(b, p)
    BY DEF AppendUnless
  <2> HIDE DEF kept
  <2> QED
    BY <2>1, <2>2
<1> HIDE DEF kept
<1>3. Bad = {}
  <2>1. SUFFICES ASSUME Bad # {} PROVE FALSE
    OBVIOUS
  <2>2. PICK n \in Bad : \A k \in Bad : n <= k
    <3>1. Bad \subseteq Nat
      BY <1>1
    <3> HIDE DEF Bad
    <3> QED
      BY <2>1, <3>1, LeastExists
  <2>3. n \in 0 .. Len(bucket) /\ kept[n] # SubSeq(bucket, 1, n)
    OBVIOUS
  <2>4. n # 0
    <3>1. SubSeq(bucket, 1, 0) = <<>>
      OBVIOUS
    <3> QED
      BY <1>2, <2>3, <3>1
  <2>5. n - 1 \in 0 .. Len(bucket) /\ ~(n <= n - 1)
    BY <1>1, <2>3, <2>4
  <2>6. n - 1 \notin Bad
    <3> HIDE DEF Bad
    <3> QED
      BY <2>2, <2>5
  <2>7. kept[n - 1] = SubSeq(bucket, 1, n - 1)
    BY <2>5, <2>6
  <2>8. Append(SubSeq(bucket, 1, n - 1), bucket[n]) = SubSeq(bucket, 1, n)
    BY <1>1, <2>3, <2>4
  <2>9. kept[n] = Append(kept[n - 1], bucket[n])
    BY <1>1, <1>2, <2>3, <2>4
  <2> QED
    BY <2>3, <2>7, <2>8, <2>9
<1>4. kept[Len(bucket)] = SubSeq(bucket, 1, Len(bucket))
  BY <1>1, <1>3
<1>5. SubSeq(bucket, 1, Len(bucket)) = bucket
  OBVIOUS
<1> QED
  BY <1>4, <1>5 DEF Retain, kept

-----------------------------------------------------------------------------------
(* The manager.                                                            *)

Fields == {"pools", "known", "index", "pairs", "dirty", "fot", "undo"}
UndoFields == {"open", "previous", "added", "dirty", "fot", "index"}

(* A manager of the session's pools: all of them are tracked, and nothing  *)
(* else is.                                                                *)
Manager(m) ==
    /\ m = [f \in Fields |-> m[f]]
    /\ m.known = Pools
    /\ m.pools = [p \in Pools |-> m.pools[p]]
    /\ m.index = [t \in Tokens |-> m.index[t]]
    /\ \A t \in Tokens : m.index[t] \in Seq(Pools)
    /\ m.dirty \subseteq Pools
    /\ \A p \in Pools : PoolOk(p, m.pools[p])

(* What m has recorded since it was b: the state in b of every pool that   *)
(* has another one in m, and the sets of b.                                *)
Records(m, b) ==
    /\ m.undo = [f \in UndoFields |-> m.undo[f]]
    /\ m.undo.open = TRUE /\ m.undo.added = {} /\ m.undo.index = NoIndex
    /\ m.undo.dirty = b.dirty /\ m.undo.fot = b.fot
    /\ m.index = b.index
    /\ DOMAIN m.undo.previous \subseteq Pools
    /\ \A p \in DOMAIN m.undo.previous : m.undo.previous[p] = b.pools[p]
    /\ \A p \in Pools \ DOMAIN m.undo.previous : m.pools[p] = b.pools[p]

(* What the logs of a transaction may change: pools that they mark.        *)
Since(m, n) ==
    /\ n.known = m.known /\ n.pairs = m.pairs /\ n.fot = m.fot
    /\ m.dirty \subseteq n.dirty
    /\ \A p \in Pools \ n.dirty : n.pools[p] = m.pools[p]

(* An event leaves the state of a pool readable.                             *)
LEMMA AfterLogOk ==
  ASSUME NEW p \in Pools, NEW s, PoolOk(p, s), NEW l, Carries(l)
  PROVE  PoolOk(p, AfterLog(p, s, l))
<1>0. W \in Nat \ {0}
  BY RunnerAssumption
<1>1. \A a, b \in Int : /\ WrapAdd(a, b) \in Int /\ WrapSub(a, b) \in Int
                        /\ SatAdd(a, b) \in Int /\ SatSub(a, b) \in Int
  BY <1>0 DEF WrapAdd, WrapSub, SatAdd, SatSub
<1>2. CASE l.topic = "Swap" /\ Family[p] \in {"v2", "curve"} /\ s.res # <<>>
  <2>1. s.res[1] \in Int /\ s.res[2] \in Int
    BY <1>2 DEF PoolOk
  <2>2. l.args[1] \in Int /\ l.args[2] \in Int /\ l.args[3] \in Int /\ l.args[4] \in Int
    BY <1>2 DEF Carries
  <2>3. AfterLog(p, s, l) = V2Swap(s, l.args)
    BY <1>2 DEF AfterLog
  <2>4. V2Swap(s, l.args).res[1] = WrapSub(WrapAdd(s.res[1], l.args[1]), l.args[3])
    BY DEF V2Swap
  <2>5. V2Swap(s, l.args).res[2] = WrapSub(WrapAdd(s.res[2], l.args[2]), l.args[4])
    BY DEF V2Swap
  <2>6. WrapAdd(s.res[1], l.args[1]) \in Int /\ WrapAdd(s.res[2], l.args[2]) \in Int
    BY <1>1, <2>1, <2>2
  <2>7. /\ WrapSub(WrapAdd(s.res[1], l.args[1]), l.args[3]) \in Int
        /\ WrapSub(WrapAdd(s.res[2], l.args[2]), l.args[4]) \in Int
    <3> DEFINE a == WrapAdd(s.res[1], l.args[1])
               c == WrapAdd(s.res[2], l.args[2])
    <3>1. a \in Int /\ c \in Int
      BY <2>6
    <3> HIDE DEF a, c
    <3>2. WrapSub(a, l.args[3]) \in Int
      BY <1>1, <2>2, <3>1
    <3>3. WrapSub(c, l.args[4]) \in Int
      BY <1>1, <2>2, <3>1
    <3> QED
      BY <3>2, <3>3 DEF a, c
  <2>8. V2Swap(s, l.args).res[1] \in Int /\ V2Swap(s, l.args).res[2] \in Int
    BY <2>4, <2>5, <2>7
  <2> QED
    BY <1>2, <2>3, <2>8 DEF PoolOk
<1>3. CASE l.topic = "Sync" /\ Family[p] \in {"v2", "curve"} /\ s.res # <<>>
  <2>1. AfterLog(p, s, l) = [res |-> l.args]
    BY <1>3 DEF AfterLog
  <2> QED
    BY <1>3, <2>1 DEF PoolOk, Carries
<1>4. CASE l.topic = "ClSwap" /\ Family[p] = "cl"
  <2>1. AfterLog(p, s, l) = ClSwap(s, l.args)
    BY <1>4 DEF AfterLog
  <2> QED
    BY <1>4, <2>1 DEF PoolOk, Carries, ClSwap
<1>5. CASE l.topic = "MintBurn" /\ Family[p] = "cl"
  <2>1. AfterLog(p, s, l) = MintBurn(s, l.args)
    BY <1>5 DEF AfterLog
  <2>2. s.liq \in Int /\ "liq" \in DOMAIN s /\ l.args[3] \in Int
    BY <1>5 DEF PoolOk, Carries
  <2>3. "liq" \in DOMAIN MintBurn(s, l.args)
    BY <2>2 DEF MintBurn
  <2>4. MintBurn(s, l.args).liq = IF l.args[3] > 0 THEN SatAdd(s.liq, l.args[3]) ELSE SatSub(s.liq, -l.args[3])
    BY <2>2 DEF MintBurn
  <2>5. MintBurn(s, l.args).liq \in Int
    <3>1. -l.args[3] \in Int
      BY <2>2
    <3>2. SatAdd(s.liq, l.args[3]) \in Int /\ SatSub(s.liq, -l.args[3]) \in Int
      BY <1>1, <2>2, <3>1
    <3> QED
      BY <2>4, <3>2
  <2> QED
    BY <1>5, <2>1, <2>3, <2>5 DEF PoolOk
<1>6. CASE l.topic = "Exchange" /\ Family[p] \in {"curve", "weighted"} /\ s.res # <<>>
  <2>1. s.res[1] \in Int /\ s.res[2] \in Int
    BY <1>6 DEF PoolOk
  <2>2. l.args[3] \in Int /\ l.args[4] \in Int
    BY <1>6 DEF Carries
  <2>3. AfterLog(p, s, l) = Exchange(s, l.args)
    BY <1>6 DEF AfterLog
  <2>4. \A i \in {1, 2} : Exchange(s, l.args).res[i] \in {SatAdd(s.res[i], l.args[3]), SatSub(s.res[i], l.args[4]), s.res[i]}
    BY DEF Exchange
  <2>5. \A i \in {1, 2} : Exchange(s, l.args).res[i] \in Int
    BY <1>1, <2>1, <2>2, <2>4
  <2> QED
    BY <1>6, <2>3, <2>5 DEF PoolOk
<1>7. CASE l.topic = "Flow" /\ Family[p] = "flow"
  BY <1>7 DEF PoolOk
<1>8. CASE /\ ~(l.topic = "Swap" /\ Family[p] \in {"v2", "curve"} /\ s.res # <<>>)
           /\ ~(l.topic = "Sync" /\ Family[p] \in {"v2", "curve"} /\ s.res # <<>>)
           /\ ~(l.topic = "ClSwap" /\ Family[p] = "cl")
           /\ ~(l.topic = "MintBurn" /\ Family[p] = "cl")
           /\ ~(l.topic = "Exchange" /\ Family[p] \in {"curve", "weighted"} /\ s.res # <<>>)
           /\ ~(l.topic = "Flow" /\ Family[p] = "flow")
  <2>1. AfterLog(p, s, l) = s
    BY <1>8 DEF AfterLog
  <2> QED
    BY <2>1
<1> QED
  BY <1>2, <1>3, <1>4, <1>5, <1>6, <1>7, <1>8

(* One log: the pool it changes is recorded before it is changed, and        *)
(* marked.                                                                   *)
LEMMA OneLog ==
  ASSUME NEW m, Manager(m), NEW l, l.decodes \in BOOLEAN, l.decodes => Carries(l)
  PROVE  /\ Manager(ApplyLog(m, l)) /\ Since(m, ApplyLog(m, l))
         /\ ApplyLog(m, l).index = m.index
         /\ \A b : Records(m, b) => Records(ApplyLog(m, l), b)
<1> DEFINE p == l.pool
           d == MarkDirty(m, p)
           r == Recorded(d, p)
           n == [r EXCEPT !.pools[p] = AfterLog(p, @, l)]
<1>0. /\ m = [f \in Fields |-> m[f]] /\ m.known = Pools /\ m.pools = [q \in Pools |-> m.pools[q]]
      /\ m.dirty \subseteq Pools
  BY DEF Manager
<1>1. CASE p \notin Pools
  <2>1. ApplyLog(m, l) = m
    BY <1>0, <1>1 DEF ApplyLog
  <2> QED
    BY <2>1 DEF Since
<1>2. ASSUME p \in Pools PROVE
        /\ Manager(d) /\ Since(m, d) /\ d.index = m.index /\ d.pools = m.pools /\ d.undo = m.undo
        /\ p \in d.dirty
        /\ \A b : Records(m, b) => Records(d, b)
  <2>1. d = [m EXCEPT !.dirty = @ \union {p}]
    BY DEF MarkDirty
  <2>2. /\ d = [f \in Fields |-> d[f]]
        /\ d.dirty = m.dirty \union {p}
        /\ d.known = m.known /\ d.index = m.index /\ d.pools = m.pools /\ d.undo = m.undo
        /\ d.pairs = m.pairs /\ d.fot = m.fot
    BY <1>0, <2>1 DEF Fields
  <2> HIDE DEF d
  <2>3. Manager(d)
    BY <1>0, <1>2, <2>2 DEF Manager
  <2>4. Since(m, d)
    BY <2>2 DEF Since
  <2>5. \A b : Records(m, b) => Records(d, b)
    BY <2>2 DEF Records
  <2> QED
    BY <2>2, <2>3, <2>4, <2>5
<1>3. CASE p \in Pools /\ ~l.decodes
  <2>1. ApplyLog(m, l) = d
    BY <1>0, <1>3 DEF ApplyLog
  <2> HIDE DEF d
  <2> QED
    BY <1>2, <1>3, <2>1
<1>4. CASE p \in Pools /\ l.decodes
  <2>1. ApplyLog(m, l) = n
    BY <1>0, <1>4 DEF ApplyLog, Tracked
  <2> HIDE DEF d
  <2>2. DOMAIN d = Fields /\ d.pools = [q \in Pools |-> d.pools[q]] /\ DOMAIN d.pools = Pools
    BY <1>2, <1>4 DEF Manager
  <2>3. /\ r = [f \in Fields |-> r[f]]
        /\ r.known = d.known /\ r.index = d.index /\ r.pools = d.pools /\ r.dirty = d.dirty
        /\ r.pairs = d.pairs /\ r.fot = d.fot
    <3>1. d = [f \in Fields |-> d[f]]
      BY <1>2, <1>4 DEF Manager
    <3> QED
      BY <3>1 DEF Recorded, Fields
  <2>4. \A b : Records(d, b) => /\ Records(r, b) /\ p \in DOMAIN r.undo.previous
    <3>1. SUFFICES ASSUME NEW b, Records(d, b)
                   PROVE  Records(r, b) /\ p \in DOMAIN r.undo.previous
      OBVIOUS
    <3>2. CASE p \in DOMAIN d.undo.previous
      <4>1. r = d
        BY <3>1, <3>2 DEF Recorded, Records
      <4> QED
        BY <3>1, <3>2, <4>1
    <3>3. CASE p \notin DOMAIN d.undo.previous
      <4>1. r = [d EXCEPT !.undo.previous = Put(@, p, d.pools[p])]
        BY <3>1, <3>3 DEF Recorded, Records
      <4>2. d.undo = [f \in UndoFields |-> d.undo[f]]
        BY <3>1 DEF Records
      <4>3. /\ r.undo = [f \in UndoFields |-> r.undo[f]]
            /\ r.undo.previous = Put(d.undo.previous, p, d.pools[p])
            /\ r.undo.open = d.undo.open /\ r.undo.added = d.undo.added
            /\ r.undo.index = d.undo.index /\ r.undo.dirty = d.undo.dirty
            /\ r.undo.fot = d.undo.fot
        BY <2>2, <4>1, <4>2 DEF Fields, UndoFields
      <4>4. /\ DOMAIN r.undo.previous = DOMAIN d.undo.previous \union {p}
            /\ r.undo.previous[p] = d.pools[p]
            /\ \A q \in DOMAIN d.undo.previous : r.undo.previous[q] = d.undo.previous[q]
        BY <3>3, <4>3 DEF Put
      <4>5. d.pools[p] = b.pools[p]
        BY <1>4, <3>1, <3>3 DEF Records
      <4>6. \A q \in DOMAIN d.undo.previous : d.undo.previous[q] = b.pools[q]
        BY <3>1 DEF Records
      <4>7. \A q \in Pools \ DOMAIN d.undo.previous : d.pools[q] = b.pools[q]
        BY <3>1 DEF Records
      <4>8. /\ DOMAIN d.undo.previous \subseteq Pools /\ d.index = b.index
            /\ d.undo.open = TRUE /\ d.undo.added = {} /\ d.undo.index = NoIndex
            /\ d.undo.dirty = b.dirty /\ d.undo.fot = b.fot
        BY <3>1 DEF Records
      <4> HIDE DEF r, p
      <4>9. \A q \in DOMAIN r.undo.previous : r.undo.previous[q] = b.pools[q]
        BY <4>4, <4>5, <4>6
      <4>10. \A q \in Pools \ DOMAIN r.undo.previous : r.pools[q] = b.pools[q]
        BY <2>3, <4>4, <4>7
      <4>11. DOMAIN r.undo.previous \subseteq Pools /\ p \in DOMAIN r.undo.previous
        BY <1>4, <4>4, <4>8
      <4> QED
        BY <2>3, <4>3, <4>8, <4>9, <4>10, <4>11 DEF Records
    <3> QED
      BY <3>2, <3>3
  <2> HIDE DEF r
  <2>5. /\ n = [f \in Fields |-> n[f]]
        /\ n.known = r.known /\ n.index = r.index /\ n.dirty = r.dirty
        /\ n.pairs = r.pairs /\ n.fot = r.fot /\ n.undo = r.undo
        /\ n.pools = [r.pools EXCEPT ![p] = AfterLog(p, @, l)]
    BY <2>3 DEF Fields
  <2> HIDE DEF n
  <2>6. /\ n.pools = [q \in Pools |-> n.pools[q]]
        /\ n.pools[p] = AfterLog(p, d.pools[p], l)
        /\ \A q \in Pools \ {p} : n.pools[q] = d.pools[q]
    BY <1>4, <2>2, <2>3, <2>5
  <2>7. PoolOk(p, d.pools[p])
    BY <1>2, <1>4 DEF Manager
  <2>8. PoolOk(p, n.pools[p])
    BY <1>4, <2>6, <2>7, AfterLogOk
  <2>9. Manager(n)
    <3>1. \A q \in Pools : PoolOk(q, n.pools[q])
      BY <1>2, <1>4, <2>6, <2>8 DEF Manager
    <3>2. /\ d.known = Pools /\ d.index = [t \in Tokens |-> d.index[t]]
          /\ \A t \in Tokens : d.index[t] \in Seq(Pools)
          /\ d.dirty \subseteq Pools
      BY <1>2, <1>4 DEF Manager
    <3>3. n.known = d.known /\ n.index = d.index /\ n.dirty = d.dirty
      BY <2>3, <2>5
    <3>4. n = [f \in Fields |-> n[f]] /\ n.pools = [q \in Pools |-> n.pools[q]]
      BY <2>5, <2>6
    <3> HIDE DEF p
    <3> QED
      BY <3>1, <3>2, <3>3, <3>4 DEF Manager
  <2>10. Since(m, n)
    BY <1>2, <1>4, <2>3, <2>5, <2>6 DEF Since
  <2>11. \A b : Records(r, b) /\ p \in DOMAIN r.undo.previous => Records(n, b)
    BY <2>3, <2>5, <2>6 DEF Records
  <2>12. n.index = m.index
    BY <1>2, <1>4, <2>3, <2>5
  <2>13. \A b : Records(m, b) => Records(n, b)
    BY <1>2, <1>4, <2>4, <2>11
  <2> QED
    BY <2>1, <2>9, <2>10, <2>12, <2>13
<1> QED
  BY <1>1, <1>3, <1>4

(* What a log does to the pools depends on nothing else of the manager.    *)
LEMMA PoolsAfterLog ==
  ASSUME NEW m, Manager(m), NEW l, l.decodes \in BOOLEAN
  PROVE  ApplyLog(m, l).pools =
            IF l.pool \in Pools /\ l.decodes
            THEN [m.pools EXCEPT ![l.pool] = AfterLog(l.pool, @, l)] ELSE m.pools
<1> DEFINE d == MarkDirty(m, l.pool)
           r == Recorded(d, l.pool)
<1>1. m = [f \in Fields |-> m[f]] /\ m.known = Pools /\ DOMAIN m.pools = Pools
  BY DEF Manager
<1>2. DOMAIN d = Fields /\ d.pools = m.pools
  BY <1>1 DEF MarkDirty, Fields
<1>3. DOMAIN r = Fields /\ r.pools = d.pools
  BY <1>2 DEF Recorded, Fields
<1>4. CASE l.pool \in Pools /\ l.decodes
  <2>1. ApplyLog(m, l) = [r EXCEPT !.pools[l.pool] = AfterLog(l.pool, @, l)]
    BY <1>1, <1>2, <1>4 DEF ApplyLog, Tracked
  <2> HIDE DEF r, d
  <2> QED
    BY <1>2, <1>3, <1>4, <2>1 DEF Fields
<1>5. CASE ~(l.pool \in Pools /\ l.decodes)
  <2>1. ApplyLog(m, l) \in {m, d}
    BY <1>1, <1>5 DEF ApplyLog
  <2> QED
    BY <1>2, <1>5, <2>1
<1> QED
  BY <1>4, <1>5

(* The logs of a transaction, one after the other.                         *)
LEMMA AllLogs ==
  ASSUME NEW m, Manager(m), NEW tx \in Txs
  PROVE  LET n == UpdateFromLogs(m, tx)
         IN  /\ Manager(n) /\ Since(m, n) /\ n.index = m.index
             /\ \A b : Records(m, b) => Records(n, b)
             /\ \A k : Manager(k) /\ k.pools = m.pools => UpdateFromLogs(k, tx).pools = n.pools
<1> DEFINE After(k) == AfterLogs(k, tx)
           Good(i) == /\ Manager(After(m)[i]) /\ Since(m, After(m)[i]) /\ After(m)[i].index = m.index
                      /\ \A b : Records(m, b) => Records(After(m)[i], b)
                      /\ \A k : Manager(k) /\ k.pools = m.pools =>
                            Manager(After(k)[i]) /\ After(k)[i].pools = After(m)[i].pools
           Bad == {i \in 0 .. Len(tx) : ~Good(i)}
<1>1. /\ Len(tx) \in Nat
      /\ \A i \in 1 .. Len(tx) : tx[i].decodes \in BOOLEAN /\ (tx[i].decodes => Carries(tx[i]))
  BY RunnerAssumption
<1>2. \A k : /\ After(k)[0] = k
             /\ \A i \in 1 .. Len(tx) : After(k)[i] = ApplyLog(After(k)[i - 1], tx[i])
  BY <1>1, AfterLogsIs
<1> HIDE DEF After
<1>3. Bad = {}
  <2>1. SUFFICES ASSUME Bad # {} PROVE FALSE
    OBVIOUS
  <2>2. PICK n \in Bad : \A k \in Bad : n <= k
    <3>1. Bad \subseteq Nat
      BY <1>1
    <3> HIDE DEF Bad
    <3> QED
      BY <2>1, <3>1, LeastExists
  <2>3. n \in 0 .. Len(tx) /\ ~Good(n)
    OBVIOUS
  <2>4. n # 0
    <3>1. Good(0)
      BY <1>2 DEF Since
    <3> HIDE DEF Good
    <3> QED
      BY <2>3, <3>1
  <2>5. n - 1 \in 0 .. Len(tx) /\ ~(n <= n - 1) /\ n \in 1 .. Len(tx)
    BY <1>1, <2>3, <2>4
  <2>6. Good(n - 1)
    <3>1. n - 1 \notin Bad
      <4> HIDE DEF Bad
      <4> QED
        BY <2>2, <2>5
    <3> HIDE DEF Good
    <3> QED
      BY <2>5, <3>1
  <2>7. tx[n].decodes \in BOOLEAN /\ (tx[n].decodes => Carries(tx[n]))
    BY <1>1, <2>5
  <2>8. \A k : After(k)[n] = ApplyLog(After(k)[n - 1], tx[n])
    BY <1>2, <2>5
  <2> DEFINE x == After(m)[n - 1]
             y == After(m)[n]
  <2>9. Manager(y) /\ Since(x, y) /\ y.index = x.index /\ \A b : Records(x, b) => Records(y, b)
    BY <2>6, <2>7, <2>8, OneLog
  <2>10. Since(m, y)
    <3>1. Since(m, x) /\ Since(x, y)
      BY <2>6, <2>9
    <3> HIDE DEF x, y
    <3> QED
      BY <3>1 DEF Since
  <2>11. ASSUME NEW k, Manager(k), k.pools = m.pools
         PROVE  Manager(After(k)[n]) /\ After(k)[n].pools = y.pools
    <3> DEFINE z == After(k)[n - 1]
    <3>1. Manager(z) /\ z.pools = x.pools /\ Manager(x)
      BY <2>6, <2>11
    <3>2. Manager(ApplyLog(z, tx[n]))
      BY <2>7, <3>1, OneLog
    <3>3. ApplyLog(z, tx[n]).pools = ApplyLog(x, tx[n]).pools
      <4> DEFINE Then(w) == IF tx[n].pool \in Pools /\ tx[n].decodes
                            THEN [w EXCEPT ![tx[n].pool] = AfterLog(tx[n].pool, @, tx[n])] ELSE w
      <4> HIDE DEF x, z
      <4>1. ApplyLog(z, tx[n]).pools = Then(z.pools)
        BY <2>7, <3>1, PoolsAfterLog
      <4>2. ApplyLog(x, tx[n]).pools = Then(x.pools)
        BY <2>7, <3>1, PoolsAfterLog
      <4> HIDE DEF Then
      <4> QED
        BY <3>1, <4>1, <4>2
    <3> QED
      BY <2>8, <3>2, <3>3
  <2>12. Good(n)
    BY <2>6, <2>9, <2>10, <2>11
  <2> HIDE DEF Good
  <2> QED
    BY <2>3, <2>12
<1>4. Good(Len(tx))
  <2>1. Len(tx) \in 0 .. Len(tx)
    BY <1>1
  <2> HIDE DEF Good
  <2> QED
    BY <1>3, <2>1
<1> QED
  BY <1>4 DEF UpdateFromLogs, After

(* The manager that a session begins with.                                 *)
Begun(m, S) ==
    /\ m = [f \in Fields |-> m[f]] /\ m.undo = NoUndo /\ m.dirty = {}
    /\ m.index = [t \in Tokens |-> m.index[t]]
    /\ \A t \in Tokens : m.index[t] \in Seq(Pools)
    /\ m.known = S /\ m.pools = [q \in S |-> Start[q]]

(* One pool of init_pools.                                                   *)
LEMMA AddPoolOk ==
  ASSUME NEW m, NEW S, S \subseteq Pools, Begun(m, S), NEW p \in Pools
  PROVE  Begun(AddPool(m, p, Start[p]), S \union {p})
<1> DEFINE n == AddPool(m, p, Start[p])
           Entries(t) == IF Token0[p] = t /\ Token1[p] = t THEN <<p, p>>
                         ELSE IF t \in {Token0[p], Token1[p]} THEN <<p>> ELSE <<>>
<1>0. /\ m = [f \in Fields |-> m[f]] /\ m.undo = NoUndo /\ m.dirty = {}
      /\ \A t \in Tokens : m.index[t] \in Seq(Pools)
      /\ m.known = S /\ m.pools = [q \in S |-> Start[q]]
  BY DEF Begun
<1>1. ~m.undo.open
  BY <1>0 DEF NoUndo
<1>2. n = [m EXCEPT !.undo = m.undo, !.known = @ \union {p}, !.pools = Put(@, p, Start[p]),
                    !.index = [t \in Tokens |-> @[t] \o Entries(t)], !.pairs = NoPairs]
  BY <1>1 DEF AddPool
<1> HIDE DEF Entries
<1>3. /\ n = [f \in Fields |-> n[f]] /\ n.undo = m.undo /\ n.dirty = m.dirty
      /\ n.known = m.known \union {p} /\ n.pools = Put(m.pools, p, Start[p])
      /\ n.index = [t \in Tokens |-> m.index[t] \o Entries(t)]
  BY <1>0, <1>2 DEF Fields
<1> HIDE DEF n
<1>4. n.pools = [q \in S \union {p} |-> Start[q]]
  BY <1>0, <1>3 DEF Put
<1>5. \A t \in Tokens : n.index[t] \in Seq(Pools)
  <2>1. SUFFICES ASSUME NEW t \in Tokens PROVE m.index[t] \o Entries(t) \in Seq(Pools)
    BY <1>3
  <2>2. Entries(t) \in Seq(Pools)
    BY DEF Entries
  <2>3. m.index[t] \in Seq(Pools)
    BY <1>0
  <2> QED
    BY <2>2, <2>3
<1>6. n.index = [t \in Tokens |-> n.index[t]]
  BY <1>3
<1> QED
  BY <1>0, <1>3, <1>4, <1>5, <1>6 DEF n, Begun

(* init_pools ends with the pools of the cache, each in the state it was     *)
(* read in.                                                                  *)
LEMMA FilledOk ==
  LET m == Filled[Len(InitOrder)]
  IN  Manager(m) /\ m.dirty = {} /\ m.pools = [p \in Pools |-> Start[p]]
<1> DEFINE Listed(i) == {InitOrder[j] : j \in 1 .. i}
           Good(i) == Begun(Filled[i], Listed(i))
           Bad == {i \in 0 .. Len(InitOrder) : ~Good(i)}
<1>1. /\ Len(InitOrder) \in Nat /\ DOMAIN InitOrder = 1 .. Len(InitOrder)
      /\ \A i \in 1 .. Len(InitOrder) : InitOrder[i] \in Pools
  BY RunnerAssumption
<1>2. /\ Filled[0] = EmptyManager
      /\ \A i \in 1 .. Len(InitOrder) :
            Filled[i] = AddPool(Filled[i - 1], InitOrder[i], Start[InitOrder[i]])
  BY <1>1, FilledIs
<1>3. Bad = {}
  <2>1. SUFFICES ASSUME Bad # {} PROVE FALSE
    OBVIOUS
  <2>2. PICK n \in Bad : \A k \in Bad : n <= k
    <3>1. Bad \subseteq Nat
      BY <1>1
    <3> HIDE DEF Bad
    <3> QED
      BY <2>1, <3>1, LeastExists
  <2>3. n \in 0 .. Len(InitOrder) /\ ~Good(n)
    OBVIOUS
  <2>4. n # 0
    <3>1. Good(0)
      <4>1. Listed(0) = {}
        OBVIOUS
      <4>2. EmptyManager = [f \in Fields |-> EmptyManager[f]]
        BY DEF EmptyManager, Fields
      <4>3. [q \in {} |-> Start[q]] = <<>>
        OBVIOUS
      <4>4. \A t \in Tokens : EmptyManager.index[t] \in Seq(Pools)
        BY DEF EmptyManager
      <4> QED
        BY <1>2, <4>1, <4>2, <4>3, <4>4 DEF EmptyManager, Begun
    <3> HIDE DEF Good
    <3> QED
      BY <2>3, <3>1
  <2>5. n - 1 \in 0 .. Len(InitOrder) /\ ~(n <= n - 1) /\ n \in 1 .. Len(InitOrder)
    BY <1>1, <2>3, <2>4
  <2>6. Good(n - 1)
    <3>1. n - 1 \notin Bad
      <4> HIDE DEF Bad
      <4> QED
        BY <2>2, <2>5
    <3> HIDE DEF Good
    <3> QED
      BY <2>5, <3>1
  <2>7. /\ Filled[n] = AddPool(Filled[n - 1], InitOrder[n], Start[InitOrder[n]])
        /\ InitOrder[n] \in Pools
    BY <1>1, <1>2, <2>5
  <2>8. Listed(n) = Listed(n - 1) \union {InitOrder[n]} /\ Listed(n - 1) \subseteq Pools
    BY <1>1, <2>5
  <2>9. Good(n)
    <3> DEFINE m == Filled[n - 1]
               p == InitOrder[n]
               S == Listed(n - 1)
    <3>1. Begun(m, S) /\ S \subseteq Pools /\ p \in Pools
      BY <2>6, <2>7, <2>8
    <3>2. Filled[n] = AddPool(m, p, Start[p]) /\ Listed(n) = S \union {p}
      BY <2>7, <2>8
    <3> HIDE DEF m, p, S, Listed
    <3>3. Begun(AddPool(m, p, Start[p]), S \union {p})
      BY <3>1, AddPoolOk
    <3> QED
      BY <3>2, <3>3
  <2> HIDE DEF Good
  <2> QED
    BY <2>3, <2>9
<1>4. Good(Len(InitOrder))
  <2>1. Len(InitOrder) \in 0 .. Len(InitOrder)
    BY <1>1
  <2> HIDE DEF Good
  <2> QED
    BY <1>3, <2>1
<1>5. Listed(Len(InitOrder)) = Pools
  BY <1>1, RunnerAssumption
<1>6. \A p \in Pools : PoolOk(p, Start[p])
  BY RunnerAssumption
<1> HIDE DEF Listed
<1> QED
  BY <1>4, <1>5, <1>6 DEF Manager, Begun

-----------------------------------------------------------------------------------
(* The undo log.                                                           *)

(* What a rollback promises to restore.                                      *)
Restored == {"pools", "known", "index", "dirty", "fot"}

(* The undo log puts back what the manager was when it was opened.           *)
LEMMA UndoRestores ==
  ASSUME NEW m, NEW b, Manager(m), Manager(b), Records(m, b)
  PROVE  Manager(Undo(m)) /\ \A f \in Restored : Undo(m)[f] = b[f]
<1> DEFINE n == Undo(m)
           u == m.undo
<1>1. /\ u.open = TRUE /\ u.added = {} /\ u.index = NoIndex /\ u.dirty = b.dirty /\ u.fot = b.fot
      /\ m.index = b.index /\ DOMAIN u.previous \subseteq Pools
      /\ \A p \in DOMAIN u.previous : u.previous[p] = b.pools[p]
      /\ \A p \in Pools \ DOMAIN u.previous : m.pools[p] = b.pools[p]
  BY DEF Records
<1>2. /\ m.known = Pools /\ DOMAIN m.pools = Pools
      /\ \A t \in Tokens : m.index[t] \in Seq(Pools)
      /\ b.known = Pools /\ b.pools = [p \in Pools |-> b.pools[p]]
      /\ b.index = [t \in Tokens |-> b.index[t]] /\ b.dirty \subseteq Pools
      /\ \A p \in Pools : PoolOk(p, b.pools[p])
  BY DEF Manager
<1>3. (Tracked(m) \union DOMAIN u.previous) \ u.added = Pools
  BY <1>1, <1>2 DEF Tracked
<1>4. [p \in Pools |-> IF p \in DOMAIN u.previous THEN u.previous[p] ELSE m.pools[p]] = b.pools
  BY <1>1, <1>2
<1>5. [t \in Tokens |-> Retain(m.index[t], u.added)] = b.index
  <2>1. \A t \in Tokens : Retain(m.index[t], u.added) = b.index[t]
    BY <1>1, <1>2, RetainNothing
  <2> QED
    BY <1>2, <2>1
<1>6. n = [pools |-> b.pools, known |-> Pools, index |-> b.index, pairs |-> NoPairs,
           dirty |-> b.dirty, fot |-> b.fot, undo |-> NoUndo]
  <2>1. n = [pools |-> [p \in Pools |-> IF p \in DOMAIN u.previous THEN u.previous[p] ELSE m.pools[p]],
             known |-> m.known \ u.added,
             index |-> IF u.index # NoIndex THEN u.index
                       ELSE [t \in Tokens |-> Retain(m.index[t], u.added)],
             pairs |-> NoPairs, dirty |-> u.dirty, fot |-> u.fot, undo |-> NoUndo]
    BY <1>1, <1>3 DEF Undo
  <2>2. m.known \ u.added = Pools
    BY <1>1, <1>2
  <2> HIDE DEF u, n
  <2> QED
    BY <1>1, <1>4, <1>5, <2>1, <2>2
<1> HIDE DEF n
<1>7. \A f \in Restored : n[f] = b[f]
  BY <1>2, <1>6 DEF Restored
<1>8. n = [f \in Fields |-> n[f]]
  BY <1>6 DEF Fields
<1>9. Manager(n)
  <2>1. \A t \in Tokens : n.index[t] \in Seq(Pools)
    BY <1>1, <1>2, <1>6
  <2> QED
    BY <1>2, <1>6, <1>8, <2>1 DEF Manager
<1> QED
  BY <1>7, <1>9 DEF n

(* An undo log that has just been opened records the manager as it is.       *)
LEMMA BeginUndoRecords ==
  ASSUME NEW m, Manager(m)
  PROVE  LET n == BeginUndo(m)
         IN  Manager(n) /\ Records(n, m) /\ n.pools = m.pools /\ n.dirty = m.dirty
<1> DEFINE n == BeginUndo(m)
           u == [open |-> TRUE, previous |-> <<>>, added |-> {}, dirty |-> m.dirty,
                 fot |-> m.fot, index |-> NoIndex]
<1>1. n = [m EXCEPT !.undo = u] /\ m = [f \in Fields |-> m[f]]
  BY DEF BeginUndo, Manager
<1>2. /\ u = [f \in UndoFields |-> u[f]] /\ DOMAIN u.previous = {}
      /\ u.open = TRUE /\ u.added = {} /\ u.index = NoIndex /\ u.dirty = m.dirty /\ u.fot = m.fot
  <2>1. DOMAIN u.previous = {}
    OBVIOUS
  <2>2. u = [f \in UndoFields |-> u[f]]
    BY DEF UndoFields
  <2> QED
    BY <2>1, <2>2
<1> HIDE DEF u
<1>3. /\ n = [f \in Fields |-> n[f]] /\ n.undo = u
      /\ n.pools = m.pools /\ n.known = m.known /\ n.index = m.index /\ n.dirty = m.dirty
  BY <1>1 DEF Fields
<1> HIDE DEF n
<1>4. Manager(n)
  BY <1>3 DEF Manager
<1>5. Records(n, m)
  BY <1>2, <1>3 DEF Records
<1> QED
  BY <1>3, <1>4, <1>5 DEF n

(* Closing the undo log changes nothing else.                                *)
LEMMA EndUndoOk ==
  ASSUME NEW m, Manager(m)
  PROVE  Manager(EndUndo(m)) /\ EndUndo(m).pools = m.pools /\ EndUndo(m).dirty = m.dirty
<1> DEFINE n == EndUndo(m)
<1>1. n = [m EXCEPT !.undo = NoUndo] /\ m = [f \in Fields |-> m[f]]
  BY DEF EndUndo, Manager
<1>2. /\ n = [f \in Fields |-> n[f]]
      /\ n.pools = m.pools /\ n.known = m.known /\ n.index = m.index /\ n.dirty = m.dirty
  BY <1>1 DEF Fields
<1> HIDE DEF n
<1>3. Manager(n)
  BY <1>2 DEF Manager
<1> QED
  BY <1>2, <1>3 DEF n

(* The operations that leave the pools and the index alone.                *)
Alike(m, n) ==
    /\ Manager(n) /\ n.pools = m.pools /\ n.index = m.index
    /\ \A b : Records(m, b) => Records(n, b)

(* The cached pairs, the taxed tokens and the dirty set bear on no pool.     *)
LEMMA SideFields ==
  ASSUME NEW m, Manager(m)
  PROVE  /\ \A P : LET n == [m EXCEPT !.pairs = P]
                   IN  Alike(m, n) /\ n.pairs = P /\ n.fot = m.fot /\ n.dirty = m.dirty
         /\ \A F : LET n == [m EXCEPT !.fot = F]
                   IN  Alike(m, n) /\ n.pairs = m.pairs /\ n.fot = F /\ n.dirty = m.dirty
         /\ \A D \in SUBSET Pools : LET n == [m EXCEPT !.dirty = D]
                   IN  Alike(m, n) /\ n.pairs = m.pairs /\ n.fot = m.fot /\ n.dirty = D
<1>0. m = [f \in Fields |-> m[f]]
  BY DEF Manager
<1>1. ASSUME NEW P
      PROVE  LET n == [m EXCEPT !.pairs = P]
             IN  Alike(m, n) /\ n.pairs = P /\ n.fot = m.fot /\ n.dirty = m.dirty
  <2> DEFINE n == [m EXCEPT !.pairs = P]
  <2>1. /\ n = [f \in Fields |-> n[f]] /\ n.pairs = P /\ n.fot = m.fot /\ n.dirty = m.dirty
        /\ n.pools = m.pools /\ n.known = m.known /\ n.index = m.index /\ n.undo = m.undo
    BY <1>0 DEF Fields
  <2> HIDE DEF n
  <2>2. Manager(n)
    BY <2>1 DEF Manager
  <2>3. \A b : Records(m, b) => Records(n, b)
    BY <2>1 DEF Records
  <2> QED
    BY <2>1, <2>2, <2>3 DEF Alike, n
<1>2. ASSUME NEW F
      PROVE  LET n == [m EXCEPT !.fot = F]
             IN  Alike(m, n) /\ n.pairs = m.pairs /\ n.fot = F /\ n.dirty = m.dirty
  <2> DEFINE n == [m EXCEPT !.fot = F]
  <2>1. /\ n = [f \in Fields |-> n[f]] /\ n.pairs = m.pairs /\ n.fot = F /\ n.dirty = m.dirty
        /\ n.pools = m.pools /\ n.known = m.known /\ n.index = m.index /\ n.undo = m.undo
    BY <1>0 DEF Fields
  <2> HIDE DEF n
  <2>2. Manager(n)
    BY <2>1 DEF Manager
  <2>3. \A b : Records(m, b) => Records(n, b)
    BY <2>1 DEF Records
  <2> QED
    BY <2>1, <2>2, <2>3 DEF Alike, n
<1>3. ASSUME NEW D \in SUBSET Pools
      PROVE  LET n == [m EXCEPT !.dirty = D]
             IN  Alike(m, n) /\ n.pairs = m.pairs /\ n.fot = m.fot /\ n.dirty = D
  <2> DEFINE n == [m EXCEPT !.dirty = D]
  <2>1. /\ n = [f \in Fields |-> n[f]] /\ n.pairs = m.pairs /\ n.fot = m.fot /\ n.dirty = D
        /\ n.pools = m.pools /\ n.known = m.known /\ n.index = m.index /\ n.undo = m.undo
    BY <1>0 DEF Fields
  <2> HIDE DEF n
  <2>2. Manager(n)
    BY <2>1 DEF Manager
  <2>3. \A b : Records(m, b) => Records(n, b)
    BY <2>1 DEF Records
  <2> QED
    BY <2>1, <2>2, <2>3 DEF Alike, n
<1> QED
  BY <1>1, <1>2, <1>3

-----------------------------------------------------------------------------------
(* The scan.                                                               *)

Ints(sn) == \A k \in DOMAIN sn : sn[k][1] \in Int /\ sn[k][2] \in Int

(* Direction d was emitted at about the liquidity that it has in m.        *)
Near(m, sn, d) ==
    /\ <<d[1], d[2]>> \in DOMAIN sn
    /\ \A i \in {1, 2} : Steady(Liquidities(m, d[1], d[2])[i], sn[<<d[1], d[2]>>][i])

(* Both directions of each pair of P.                                        *)
Ways(P) == {<<q[1], q[2], q[3]>> : q \in P} \union {<<q[2], q[1], q[3]>> : q \in P}

(* The estimate that ranks pools is a number.                                *)
LEMMA LiquidityIsInt ==
  ASSUME NEW m, Manager(m), NEW p
  PROVE  LiquidityEstimate(m, p) \in Int
<1>1. DOMAIN m.pools = Pools /\ (p \in Pools => PoolOk(p, m.pools[p]))
  BY DEF Manager
<1> QED
  BY <1>1 DEF LiquidityEstimate, Tracked, PoolOk

(* The estimate of a pool depends on the state of that pool only.            *)
LEMMA LiquidityFollowsPools ==
  ASSUME NEW m, NEW n, Manager(m), Manager(n), NEW p, p \in Pools => n.pools[p] = m.pools[p]
  PROVE  LiquidityEstimate(n, p) = LiquidityEstimate(m, p)
<1>1. DOMAIN m.pools = Pools /\ DOMAIN n.pools = Pools
  BY DEF Manager
<1> QED
  BY <1>1 DEF LiquidityEstimate, Tracked

(* The cached pairs answer until they are cleared, and are then computed     *)
(* anew.                                                                     *)
LEMMA PairsAreKept ==
  ASSUME NEW m
  PROVE  /\ ArbitragePairs(m) = m \/ \E P : ArbitragePairs(m) = [m EXCEPT !.pairs = P] /\ P # NoPairs
         /\ m.pairs # NoPairs => ArbitragePairs(m) = m
<1>1. ComputedPairs(m) # NoPairs
  <2>1. \A q \in ComputedPairs(m) : q \in m.known \X m.known \X Tokens
    BY DEF ComputedPairs
  <2>2. <<>> \notin m.known \X m.known \X Tokens
    OBVIOUS
  <2> QED
    BY <2>1, <2>2 DEF NoPairs
<1>2. CASE m.pairs # NoPairs
  BY <1>2 DEF ArbitragePairs
<1>3. CASE m.pairs = NoPairs
  BY <1>1, <1>3 DEF ArbitragePairs
<1> QED
  BY <1>2, <1>3

(* The directions in scope, from cached pairs.                               *)
LEMMA DirectionsAre ==
  ASSUME NEW m, m.pairs # NoPairs, NEW within, NEW d
  PROVE  d \in Directions(m, within) <=>
            /\ d \in Ways(m.pairs)
            /\ within = Full \/ InScope(within, <<d[1], d[2]>>)
            /\ {OtherToken(d[1], d[3]), OtherToken(d[2], d[3])} \cap m.fot = {}
            /\ Profit(m, d[1], d[2]) > 0
<1>1. ArbitragePairs(m) = m
  BY PairsAreKept
<1> QED
  BY <1>1 DEF Directions, Ways

(* What is emitted has its liquidity noted, and what was emitted keeps its   *)
(* own.                                                                      *)
LEMMA OntoKeeps ==
  ASSUME NEW m, Manager(m), NEW sn, Ints(sn), NEW K,
         NEW d, Near(m, sn, d) \/ <<d[1], d[2]>> \in K
  PROVE  Near(m, Onto(sn, [k \in K |-> Liquidities(m, k[1], k[2])]), d)
<1> DEFINE key == <<d[1], d[2]>>
           new == [k \in K |-> Liquidities(m, k[1], k[2])]
           sn2 == Onto(sn, new)
<1>1. key[1] = d[1] /\ key[2] = d[2]
  OBVIOUS
<1>2. \A i \in {1, 2} : Liquidities(m, d[1], d[2])[i] \in Int
  BY LiquidityIsInt DEF Liquidities
<1>3. \A x \in Int : Steady(x, x)
  BY DEF Distance, Steady
<1>4. CASE key \in K
  <2>1. key \in DOMAIN sn2 /\ sn2[key] = Liquidities(m, d[1], d[2])
    BY <1>1, <1>4 DEF Onto
  <2> QED
    BY <1>2, <1>3, <2>1 DEF Near
<1>5. CASE key \notin K
  <2>1. key \in DOMAIN sn /\ key \in DOMAIN sn2 /\ sn2[key] = sn[key]
    BY <1>5 DEF Onto, Near
  <2>2. \A i \in {1, 2} : Steady(Liquidities(m, d[1], d[2])[i], sn[key][i])
    BY <1>5 DEF Near
  <2> HIDE DEF sn2
  <2>3. \A i \in {1, 2} : Steady(Liquidities(m, d[1], d[2])[i], sn2[key][i])
    BY <2>1, <2>2
  <2>4. Near(m, sn2, d)
    BY <2>1, <2>3 DEF Near
  <2> QED
    BY <2>4 DEF sn2
<1> QED
  BY <1>4, <1>5

(* What is noted is a pair of numbers.                                       *)
LEMMA OntoInts ==
  ASSUME NEW m, Manager(m), NEW sn, Ints(sn), NEW K
  PROVE  Ints(Onto(sn, [k \in K |-> Liquidities(m, k[1], k[2])]))
<1>1. \A a, b : Liquidities(m, a, b)[1] \in Int /\ Liquidities(m, a, b)[2] \in Int
  BY LiquidityIsInt DEF Liquidities
<1> QED
  BY <1>1 DEF Ints, Onto

(* What the scan looks at is emitted, now or at about the same liquidity.  *)
LEMMA ScannedIsSeen ==
  ASSUME NEW m, Manager(m), NEW within, NEW sn, Ints(sn), NEW t, NEW d \in Directions(m, within)
  PROVE  Near(m, SeenAfter(m, sn, Arbs(m, within, sn, t)), d)
<1> DEFINE key == <<d[1], d[2]>>
           opps == Arbs(m, within, sn, t)
           K == {<<o.a, o.b>> : o \in opps}
<1>1. CASE Fresher(m, sn, key, d[1], d[2])
  <2>1. Opportunity("arb", m, d, t) \in opps
    BY <1>1 DEF Arbs
  <2>2. Opportunity("arb", m, d, t).a = d[1] /\ Opportunity("arb", m, d, t).b = d[2]
    BY DEF Opportunity
  <2> HIDE DEF opps
  <2>3. key \in K
    BY <2>1, <2>2
  <2> QED
    BY <2>3, OntoKeeps DEF SeenAfter, opps
<1>2. CASE ~Fresher(m, sn, key, d[1], d[2])
  <2>1. key \in DOMAIN sn /\ \A i \in {1, 2} : Steady(Liquidities(m, d[1], d[2])[i], sn[key][i])
    BY <1>2 DEF Fresher
  <2>2. Near(m, sn, d)
    BY <2>1 DEF Near
  <2> QED
    BY <2>2, OntoKeeps DEF SeenAfter
<1> QED
  BY <1>1, <1>2

(* The keys of backruns are others.                                        *)
LEMMA BackrunsAreApart ==
  ASSUME NEW m, NEW n, NEW sn, NEW opps, NEW d, Near(m, sn, d)
  PROVE  Near(m, BackrunSeen(n, sn, opps), d)
<1> DEFINE key == <<d[1], d[2]>>
           K == {PairKey(o.a, o.b) : o \in opps}
           new == [k \in K |-> Liquidities(n, k[1], k[2])]
<1>1. \A a, b : PairKey(a, b) # key
  BY DEF PairKey
<1>2. key \notin K
  BY <1>1
<1>3. BackrunSeen(n, sn, opps) = Onto(sn, new)
  BY DEF BackrunSeen
<1> HIDE DEF K
<1>4. key \in DOMAIN sn
  BY DEF Near
<1>5. key \in DOMAIN Onto(sn, new) /\ Onto(sn, new)[key] = sn[key]
  BY <1>2, <1>4 DEF Onto
<1> HIDE DEF new
<1> QED
  BY <1>3, <1>5 DEF Near

(* What a narrowed scan may pass over: directions of pools that the block  *)
(* has not touched, if they were emitted before it was narrowed.           *)
Unscanned(m, within, sn) ==
    within # Full =>
        \A d \in Directions(m, Full) : InScope(within, <<d[1], d[2]>>) \/ Near(m, sn, d)

(* One transaction: its scan, its logs and the scan after them.            *)
LEMMA OneTx ==
  ASSUME NEW m, Manager(m), m.dirty = {}, NEW tx \in Txs, NEW sn, Ints(sn), NEW t, NEW runs,
         NEW within, Unscanned(m, within, sn)
  PROVE  LET scanned == ArbitragePairs(m)
             updated == UpdateFromLogs(LearnTaxes(scanned, tx), tx)
             n == TakeDirty(updated)
             sn2 == BackrunSeen(updated, SeenAfter(scanned, sn, Arbs(scanned, within, sn, t)), runs)
         IN  /\ Manager(n) /\ n.dirty = {} /\ updated.dirty \subseteq Pools
             /\ Ints(sn2)
             /\ \A b : Records(m, b) => Records(n, b)
             /\ \A k : Manager(k) /\ k.pools = m.pools => UpdateFromLogs(k, tx).pools = n.pools
             /\ \A d \in Directions(m, Full) : Near(m, sn2, d)
             /\ \A wider : (/\ updated.dirty \subseteq wider
                            /\ within = Full \/ within \subseteq wider) => Unscanned(n, wider, sn2)
<1> DEFINE scanned == ArbitragePairs(m)
           learned == LearnTaxes(scanned, tx)
           updated == UpdateFromLogs(learned, tx)
           n == TakeDirty(updated)
           arbs == Arbs(scanned, within, sn, t)
           sn1 == SeenAfter(scanned, sn, arbs)
           sn2 == BackrunSeen(updated, sn1, runs)
<1>1. /\ Alike(m, scanned) /\ scanned.pairs # NoPairs /\ scanned.fot = m.fot /\ scanned.dirty = m.dirty
      /\ ArbitragePairs(scanned) = scanned
  <2>1. \A b : Records(m, b) => Records(m, b)
    OBVIOUS
  <2>2. Alike(m, m)
    BY <2>1 DEF Alike
  <2>3. CASE m.pairs # NoPairs
    <3>1. scanned = m
      BY <2>3, PairsAreKept
    <3> QED
      BY <2>2, <2>3, <3>1
  <2>4. CASE m.pairs = NoPairs
    <3>1. scanned = [m EXCEPT !.pairs = ComputedPairs(m)]
      BY <2>4 DEF ArbitragePairs
    <3>2. Alike(m, scanned) /\ scanned.pairs = ComputedPairs(m) /\ scanned.fot = m.fot /\ scanned.dirty = m.dirty
      BY <3>1, SideFields
    <3>3. ComputedPairs(m) # NoPairs
      <4>1. \A q \in ComputedPairs(m) : q \in m.known \X m.known \X Tokens
        BY DEF ComputedPairs
      <4>2. <<>> \notin m.known \X m.known \X Tokens
        OBVIOUS
      <4> QED
        BY <4>1, <4>2 DEF NoPairs
    <3> HIDE DEF scanned
    <3>4. ArbitragePairs(scanned) = scanned
      BY <3>2, <3>3, PairsAreKept
    <3> QED
      BY <3>2, <3>3, <3>4
  <2> QED
    BY <2>3, <2>4
<1>2. \A d, w : d \in Directions(m, w) <=> d \in Directions(scanned, w)
  <2>1. Manager(scanned) /\ scanned.pools = m.pools
    BY <1>1 DEF Alike
  <2>2. \A p : LiquidityEstimate(scanned, p) = LiquidityEstimate(m, p)
    <3> HIDE DEF scanned
    <3> QED
      BY <2>1, LiquidityFollowsPools
  <2>3. \A a, b : Profit(scanned, a, b) = Profit(m, a, b)
    BY <2>2 DEF Profit
  <2>4. ArbitragePairs(scanned) = ArbitragePairs(m) /\ scanned.fot = m.fot
    BY <1>1
  <2> HIDE DEF scanned
  <2> QED
    BY <2>3, <2>4 DEF Directions
<1>3. \A d, s : Near(m, s, d) <=> Near(scanned, s, d)
  <2>1. Manager(scanned) /\ scanned.pools = m.pools
    BY <1>1 DEF Alike
  <2>2. \A p : LiquidityEstimate(scanned, p) = LiquidityEstimate(m, p)
    <3> HIDE DEF scanned
    <3> QED
      BY <2>1, LiquidityFollowsPools
  <2>3. \A a, b : Liquidities(scanned, a, b) = Liquidities(m, a, b)
    BY <2>2 DEF Liquidities
  <2> HIDE DEF scanned
  <2> QED
    BY <2>3 DEF Near
<1>4. /\ Alike(scanned, learned) /\ learned.pairs = scanned.pairs /\ learned.dirty = scanned.dirty
      /\ scanned.fot \subseteq learned.fot
  <2>1. Manager(scanned)
    BY <1>1 DEF Alike
  <2> HIDE DEF scanned
  <2>2. \E X : learned = [scanned EXCEPT !.fot = @ \union X]
    BY DEF LearnTaxes
  <2>3. PICK X : learned = [scanned EXCEPT !.fot = @ \union X]
    BY <2>2
  <2>4. learned = [scanned EXCEPT !.fot = scanned.fot \union X]
    BY <2>3
  <2> HIDE DEF learned
  <2> QED
    BY <2>1, <2>4, SideFields
<1> HIDE DEF learned
<1>5. /\ Manager(updated) /\ Since(learned, updated) /\ updated.index = learned.index
      /\ \A b : Records(learned, b) => Records(updated, b)
      /\ \A k : Manager(k) /\ k.pools = learned.pools => UpdateFromLogs(k, tx).pools = updated.pools
  <2>1. Manager(learned)
    BY <1>4 DEF Alike
  <2> QED
    BY <2>1, AllLogs
<1>6. /\ Alike(updated, n) /\ n.dirty = {} /\ n.pairs = updated.pairs /\ n.fot = updated.fot
  <2>1. {} \in SUBSET Pools
    OBVIOUS
  <2> HIDE DEF updated
  <2> QED
    BY <1>5, <2>1, SideFields DEF TakeDirty
<1> HIDE DEF scanned, updated, n
<1>7. /\ Manager(scanned) /\ Manager(learned) /\ Manager(updated) /\ Manager(n)
      /\ scanned.pools = m.pools /\ learned.pools = m.pools /\ n.pools = updated.pools
      /\ n.pairs = scanned.pairs /\ scanned.fot \subseteq n.fot
  BY <1>1, <1>4, <1>5, <1>6 DEF Alike, Since
<1>8. \A b : Records(m, b) => Records(n, b)
  BY <1>1, <1>4, <1>5, <1>6 DEF Alike
<1>9. updated.dirty \subseteq Pools
  BY <1>7 DEF Manager
<1>10. Ints(sn2)
  <2>1. Ints(sn1)
    BY <1>7, OntoInts DEF SeenAfter
  <2> HIDE DEF sn1
  <2> QED
    BY <1>7, <2>1, OntoInts DEF BackrunSeen
<1>11. \A k : Manager(k) /\ k.pools = m.pools => UpdateFromLogs(k, tx).pools = n.pools
  BY <1>5, <1>7
<1>12. \A d : Near(scanned, sn, d) => Near(scanned, sn2, d)
  <2>1. \A d : Near(scanned, sn, d) => Near(scanned, sn1, d)
    BY <1>7, OntoKeeps DEF SeenAfter
  <2> HIDE DEF sn1
  <2> QED
    BY <2>1, BackrunsAreApart
<1>13. \A d \in Directions(scanned, within) : Near(scanned, sn2, d)
  <2>1. \A d \in Directions(scanned, within) : Near(scanned, sn1, d)
    BY <1>7, ScannedIsSeen
  <2> HIDE DEF sn1
  <2> QED
    BY <2>1, BackrunsAreApart
<1> HIDE DEF sn2
<1>14. ASSUME NEW d \in Directions(scanned, Full)
       PROVE  d \in Directions(scanned, within) \/ Near(scanned, sn, d)
  <2>1. CASE within = Full
    BY <2>1
  <2>2. CASE within # Full
    <3>1. InScope(within, <<d[1], d[2]>>) \/ Near(m, sn, d)
      BY <1>2, <1>14, <2>2 DEF Unscanned
    <3>2. CASE InScope(within, <<d[1], d[2]>>)
      BY <1>1, <1>14, <3>2, DirectionsAre
    <3> QED
      BY <1>3, <3>1, <3>2
  <2> QED
    BY <2>1, <2>2
<1>15. \A d \in Directions(scanned, Full) : Near(scanned, sn2, d)
  BY <1>12, <1>13, <1>14
<1>16. \A d \in Directions(m, Full) : Near(m, sn2, d)
  BY <1>2, <1>3, <1>15
<1>17. ASSUME NEW wider, updated.dirty \subseteq wider, NEW d \in Directions(n, Full)
       PROVE  InScope(wider, <<d[1], d[2]>>) \/ Near(n, sn2, d)
  <2>1. SUFFICES ASSUME ~InScope(wider, <<d[1], d[2]>>) PROVE Near(n, sn2, d)
    OBVIOUS
  <2>2. d[1] \notin updated.dirty /\ d[2] \notin updated.dirty
    BY <1>17, <2>1 DEF InScope
  <2>3. \A p \in Pools \ updated.dirty : n.pools[p] = scanned.pools[p]
    BY <1>5, <1>7 DEF Since
  <2>4. \A i \in {1, 2} : LiquidityEstimate(n, d[i]) = LiquidityEstimate(scanned, d[i])
    BY <1>7, <2>2, <2>3, LiquidityFollowsPools
  <2>5. Profit(n, d[1], d[2]) = Profit(scanned, d[1], d[2])
    BY <2>4 DEF Profit
  <2>6. Liquidities(n, d[1], d[2]) = Liquidities(scanned, d[1], d[2])
    BY <2>4 DEF Liquidities
  <2>7. d \in Directions(scanned, Full)
    <3>1. /\ d \in Ways(n.pairs)
          /\ {OtherToken(d[1], d[3]), OtherToken(d[2], d[3])} \cap n.fot = {}
          /\ Profit(n, d[1], d[2]) > 0
      BY <1>1, <1>7, <1>17, DirectionsAre
    <3>2. {OtherToken(d[1], d[3]), OtherToken(d[2], d[3])} \cap scanned.fot = {}
      BY <1>7, <3>1
    <3> QED
      BY <1>1, <1>7, <2>5, <3>1, <3>2, DirectionsAre
  <2>8. Near(scanned, sn2, d)
    BY <1>15, <2>7
  <2> QED
    BY <2>6, <2>8 DEF Near
<1>18. \A wider : updated.dirty \subseteq wider => Unscanned(n, wider, sn2)
  BY <1>17 DEF Unscanned
<1> QED
  BY <1>6, <1>7, <1>8, <1>9, <1>10, <1>11, <1>16, <1>18 DEF scanned, learned, updated, n, sn2

-----------------------------------------------------------------------------------
(* The runner.                                                             *)

(* The contents of a block are transactions.                                 *)
LEMMA ContentsAreTxs ==
  ASSUME NEW c \in Contents
  PROVE  Len(c) \in Nat /\ \A i \in 1 .. Len(c) : c[i] \in Txs
<1>1. \A b \in Blocks : MaxTxs[b] \in Nat
  BY RunnerAssumption DEF Blocks
<1>2. PICK b \in Blocks : \E n \in 1 .. MaxTxs[b] : c \in [1 .. n -> Txs]
  <2>1. PICK K : K \in {[1 .. n -> Txs] : n \in UNION {1 .. MaxTxs[b] : b \in Blocks}} /\ c \in K
    BY DEF Contents
  <2>2. PICK n : n \in UNION {1 .. MaxTxs[b] : b \in Blocks} /\ c \in [1 .. n -> Txs]
    BY <2>1
  <2> QED
    BY <2>2
<1>3. PICK n \in 1 .. MaxTxs[b] : c \in [1 .. n -> Txs]
  BY <1>2
<1>4. n \in Nat
  BY <1>1, <1>3
<1>5. Len(c) = n
  BY <1>3, <1>4
<1> QED
  BY <1>3, <1>4, <1>5

(* What the log-only pass of a block starts from is a manager.              *)
LEMMA HoldingOk ==
  ASSUME NEW m, Manager(m)
  PROVE  Manager(Holding(m.pools)) /\ Holding(m.pools).pools = m.pools
<1> DEFINE h == Holding(m.pools)
<1>1. DOMAIN m.pools = Pools /\ \A p \in Pools : PoolOk(p, m.pools[p])
  BY DEF Manager
<1>2. /\ h = [f \in Fields |-> h[f]]
      /\ h.pools = m.pools /\ h.known = Pools /\ h.index = [t \in Tokens |-> <<>>]
      /\ h.dirty = {} /\ h.undo = NoUndo
  BY <1>1 DEF Holding, EmptyManager, Fields
<1> HIDE DEF h
<1>3. \A t \in Tokens : h.index[t] \in Seq(Pools)
  <2>1. <<>> \in Seq(Pools)
    OBVIOUS
  <2> QED
    BY <1>2, <2>1
<1> QED
  BY <1>1, <1>2, <1>3 DEF Manager, h

(* The manager is whole between any two steps, and clean: its dirty set is  *)
(* taken with every transaction.                                            *)
Whole == Manager(pm) /\ Manager(base) /\ pm.dirty = {} /\ base.dirty = {}

(* The transactions done so far are those of the block, applied in order to *)
(* what the block began with.                                               *)
InStep ==
    /\ Manager(AfterTxs(base.pools, txs)[next - 1])
    /\ AfterTxs(base.pools, txs)[next - 1].pools = pm.pools

UnderWay ==
    /\ block \in Blocks /\ txs \in Contents /\ next \in 1 .. Len(txs) + 1
    /\ Records(pm, base)
    /\ InStep
    /\ Ints(seen)
    /\ scope = Full \/ scope \subseteq Pools
    /\ Unscanned(pm, scope, seen)

RunnerInv ==
    /\ Whole
    /\ block \in Nat
    /\ step \in {"idle", "replay", "logs", "fallback", "over"}
    /\ step \in {"replay", "logs"} => UnderWay
    /\ step \in {"idle", "fallback"} => next = 1 /\ scope = Full /\ seen = <<>>
    /\ step = "fallback" => block \in Blocks /\ txs \in Contents

(* The range begins with the pools of init_pools.                            *)
LEMMA RunnerInit == Init => RunnerInv /\ PoolsShown = [p \in Pools |-> Start[p]]
<1>1. SUFFICES ASSUME Init PROVE RunnerInv /\ PoolsShown = [p \in Pools |-> Start[p]]
  OBVIOUS
<1>2. Manager(pm) /\ pm.dirty = {} /\ pm.pools = [p \in Pools |-> Start[p]] /\ base = pm
  BY <1>1, FilledOk DEF Init
<1>3. block = 1 /\ step = "idle" /\ next = 1 /\ scope = Full /\ seen = <<>>
  BY <1>1 DEF Init
<1> QED
  BY <1>2, <1>3 DEF RunnerInv, Whole, PoolsShown

(* The number of a block of the range.                                       *)
LEMMA BlockIsNext == ASSUME block \in Blocks PROVE block \in Nat /\ block + 1 \in Nat
  BY RunnerAssumption DEF Blocks

(* The undo log is opened: everything is still to be done.                  *)
LEMMA Opened ==
  ASSUME Manager(pm), pm.dirty = {}, pm' = BeginUndo(pm), base' = pm, block' = block,
         block \in Blocks, txs' \in Contents,
         next' = 1, scope' = Full, seen' = <<>>
  PROVE  Whole' /\ UnderWay' /\ base'.pools = pm.pools
<1>1. Manager(pm)' /\ Records(pm, base)' /\ (pm.dirty = {})' /\ pm'.pools = pm.pools
  BY BeginUndoRecords
<1>2. Manager(base)'
  OBVIOUS
<1>3. (next \in 1 .. Len(txs) + 1)'
  BY ContentsAreTxs
<1>4. InStep'
  <2> DEFINE A == AfterTxs(pm.pools, txs')
  <2>1. Len(txs') \in Nat
    BY ContentsAreTxs
  <2>2. A[0] = Holding(pm.pools)
    BY <2>1, AfterTxsIs
  <2>3. next' - 1 = 0 /\ base'.pools = pm.pools
    OBVIOUS
  <2>4. Manager(A[0]) /\ A[0].pools = pm.pools
    BY <2>2, HoldingOk
  <2> HIDE DEF A
  <2>5. Manager(A[next' - 1]) /\ A[next' - 1].pools = pm'.pools
    BY <1>1, <2>3, <2>4
  <2> QED
    BY <2>3, <2>5 DEF InStep, A
<1>5. Ints(seen)' /\ Unscanned(pm, scope, seen)'
  <2>1. \A k : k \notin DOMAIN seen'
    <3>1. DOMAIN <<>> = {}
      OBVIOUS
    <3> QED
      BY <3>1
  <2> QED
    BY <2>1 DEF Ints, Unscanned
<1> QED
  BY <1>1, <1>2, <1>3, <1>4, <1>5 DEF Whole, UnderWay

(* One transaction of the block under way.                                  *)
LEMMA Stepped ==
  ASSUME RunnerInv, Step
  PROVE  /\ Whole' /\ UnderWay'
         /\ \A d \in Directions(pm, Full) : Near(pm, seen', d)
<1> DEFINE scanned == ArbitragePairs(pm)
           updated == UpdateFromLogs(LearnTaxes(scanned, txs[next]), txs[next])
           arbs == Arbs(scanned, scope, seen, next)
<1>1. /\ UnderWay /\ Whole
      /\ next <= Len(txs) /\ next' = next + 1
      /\ block' = block /\ txs' = txs /\ base' = base
  BY DEF RunnerInv, Step
<1>2. /\ block \in Blocks /\ txs \in Contents /\ next \in 1 .. Len(txs) + 1 /\ Len(txs) \in Nat
      /\ next \in 1 .. Len(txs) /\ txs[next] \in Txs
  <2>1. Len(txs) \in Nat /\ \A i \in 1 .. Len(txs) : txs[i] \in Txs
    BY <1>1, ContentsAreTxs DEF UnderWay
  <2>2. next \in 1 .. Len(txs)
    BY <1>1, <2>1 DEF UnderWay
  <2> QED
    BY <1>1, <2>1, <2>2 DEF UnderWay
<1>3. PICK runs : /\ pm' = TakeDirty(updated) /\ scope' = Widened(updated.dirty)
                  /\ seen' = BackrunSeen(updated, SeenAfter(scanned, seen, arbs), runs)
  BY DEF Step, DetectTx
<1>4. /\ Manager(pm) /\ Manager(base) /\ pm.dirty = {} /\ base.dirty = {} /\ Ints(seen) /\ Records(pm, base) /\ InStep
      /\ scope = Full \/ scope \subseteq Pools
      /\ Unscanned(pm, scope, seen)
  BY <1>1 DEF Whole, UnderWay
<1>5. /\ Manager(pm') /\ pm'.dirty = {} /\ updated.dirty \subseteq Pools
      /\ Ints(seen')
      /\ Records(pm', base)
      /\ \A k : Manager(k) /\ k.pools = pm.pools => UpdateFromLogs(k, txs[next]).pools = pm'.pools
      /\ \A d \in Directions(pm, Full) : Near(pm, seen', d)
      /\ \A wider : (/\ updated.dirty \subseteq wider
                     /\ scope = Full \/ scope \subseteq wider) => Unscanned(pm', wider, seen')
  BY <1>2, <1>3, <1>4, OneTx
<1> HIDE DEF updated
<1>6. /\ scope' = Full \/ scope' \subseteq Pools
      /\ Unscanned(pm', scope', seen')
  <2>1. CASE updated.dirty = {}
    <3>1. scope' = scope
      BY <1>3, <2>1 DEF Widened
    <3> QED
      BY <1>4, <1>5, <2>1, <3>1
  <2>2. CASE updated.dirty # {} /\ scope = Full
    <3>1. scope' = updated.dirty
      BY <1>3, <2>2 DEF Widened
    <3> QED
      BY <1>5, <2>2, <3>1
  <2>3. CASE updated.dirty # {} /\ scope # Full
    <3>1. scope' = scope \union updated.dirty
      BY <1>3, <2>3 DEF Widened
    <3> QED
      BY <1>4, <1>5, <2>3, <3>1
  <2> QED
    BY <2>1, <2>2, <2>3
<1>7. InStep'
  <2> DEFINE A == AfterTxs(base.pools, txs)
  <2>1. Manager(A[next - 1]) /\ A[next - 1].pools = pm.pools
    BY <1>4 DEF InStep
  <2>2. A[next] = UpdateFromLogs(A[next - 1], txs[next])
    BY <1>2, AfterTxsIs
  <2> HIDE DEF A
  <2>3. A[next].pools = pm'.pools
    BY <1>5, <2>1, <2>2
  <2>4. Manager(A[next])
    BY <1>2, <2>1, <2>2, AllLogs
  <2>5. next' - 1 = next
    BY <1>1, <1>2
  <2> QED
    BY <1>1, <2>3, <2>4, <2>5 DEF InStep, A
<1>8. next' \in 1 .. Len(txs) + 1
  BY <1>1, <1>2
<1> QED
  BY <1>1, <1>2, <1>4, <1>5, <1>6, <1>7, <1>8 DEF Whole, UnderWay

(* A failed replay is rolled back to what the block began with.             *)
LEMMA RolledBack ==
  ASSUME RunnerInv, ReplayFails
  PROVE  Whole' /\ \A f \in Restored : pm'[f] = base[f]
<1>1. /\ Manager(pm) /\ Manager(base) /\ base.dirty = {} /\ Records(pm, base)
      /\ pm' = Undo(pm) /\ base' = base
  BY DEF RunnerInv, Whole, UnderWay, ReplayFails
<1>2. Manager(pm') /\ \A f \in Restored : pm'[f] = base[f]
  BY <1>1, UndoRestores
<1>3. pm'.dirty = {}
  BY <1>1, <1>2 DEF Restored
<1> QED
  BY <1>1, <1>2, <1>3 DEF Whole

(* A block that is committed has had its transactions applied, all of them,  *)
(* once.                                                                     *)
LEMMA Committed ==
  ASSUME RunnerInv, FinishBlock
  PROVE  Whole' /\ pm'.pools = ApplyTxs(base.pools, txs)
<1>1. /\ Manager(pm) /\ Manager(base) /\ pm.dirty = {} /\ base.dirty = {} /\ InStep
      /\ txs \in Contents /\ next \in 1 .. Len(txs) + 1 /\ next > Len(txs)
      /\ pm' = EndUndo(pm) /\ base' = base
  BY DEF RunnerInv, Whole, UnderWay, FinishBlock, FinalizeBlock
<1>2. Manager(pm') /\ pm'.pools = pm.pools /\ pm'.dirty = {}
  BY <1>1, EndUndoOk
<1>3. next - 1 = Len(txs)
  BY <1>1, ContentsAreTxs
<1>4. ApplyTxs(base.pools, txs) = pm.pools
  BY <1>1, <1>3 DEF InStep, ApplyTxs
<1> QED
  BY <1>1, <1>2, <1>4 DEF Whole

(* Every step preserves RunnerInv.                                           *)
LEMMA RunnerNext == RunnerInv /\ [Next]_vars => RunnerInv'
<1>1. SUFFICES ASSUME RunnerInv, [Next]_vars PROVE RunnerInv'
  OBVIOUS
<1>2. CASE SkipUncached
  BY <1>1, <1>2, BlockIsNext DEF RunnerInv, Whole, SkipUncached, NextBlock
<1>3. CASE EmptyBlock
  BY <1>1, <1>3, BlockIsNext DEF RunnerInv, Whole, EmptyBlock, NextBlock
<1>4. CASE BeginBlock
  <2>1. /\ Manager(pm) /\ pm.dirty = {} /\ pm' = BeginUndo(pm) /\ base' = pm /\ block' = block
        /\ block \in Blocks /\ next' = 1 /\ scope' = Full /\ seen' = <<>>
    BY <1>1, <1>4 DEF RunnerInv, Whole, BeginBlock
  <2>2. txs' \in Contents
    BY <1>4, <2>1 DEF BeginBlock, Contents
  <2>3. Whole' /\ UnderWay'
    BY <2>1, <2>2, Opened
  <2>4. step' \in {"replay", "logs"}
    BY <1>4 DEF BeginBlock
  <2> QED
    BY <2>1, <2>3, <2>4, BlockIsNext DEF RunnerInv
<1>5. CASE Unloadable
  BY <1>1, <1>5, BlockIsNext DEF RunnerInv, Whole, Unloadable, NextBlock
<1>6. CASE Step
  <2>1. Whole' /\ UnderWay'
    BY <1>1, <1>6, Stepped
  <2>2. step \in {"replay", "logs"} /\ step' = step /\ block' = block
    BY <1>6 DEF Step
  <2> QED
    BY <1>1, <2>1, <2>2 DEF RunnerInv
<1>7. CASE ReplayFails
  <2>1. Whole'
    BY <1>1, <1>7, RolledBack
  <2> QED
    BY <1>1, <1>7, <2>1 DEF RunnerInv, UnderWay, ReplayFails
<1>8. CASE SyncFromLogs
  <2>1. /\ Manager(pm) /\ pm.dirty = {} /\ pm' = BeginUndo(pm) /\ base' = pm /\ block' = block
        /\ block \in Blocks /\ txs' \in Contents /\ next' = 1 /\ scope' = Full /\ seen' = <<>>
    BY <1>1, <1>8 DEF RunnerInv, Whole, SyncFromLogs, blockVars
  <2>2. Whole' /\ UnderWay'
    BY <2>1, Opened
  <2> QED
    BY <1>8, <2>1, <2>2, BlockIsNext DEF RunnerInv, SyncFromLogs
<1>9. CASE FinishBlock
  <2>1. Whole'
    BY <1>1, <1>9, Committed
  <2>2. block \in Blocks
    BY <1>1, <1>9 DEF RunnerInv, UnderWay, FinishBlock
  <2> QED
    BY <1>9, <2>1, <2>2, BlockIsNext DEF RunnerInv, FinishBlock, NextBlock
<1>10. CASE Finish
  BY <1>1, <1>10 DEF RunnerInv, Whole, Finish, blockVars
<1>11. CASE UNCHANGED vars
  BY <1>1, <1>11 DEF RunnerInv, Whole, UnderWay, InStep, vars
<1> QED
  BY <1>1, <1>2, <1>3, <1>4, <1>5, <1>6, <1>7, <1>8, <1>9, <1>10, <1>11 DEF Next

(* Between any two steps of the runner the manager is whole: it tracks the  *)
(* pools of the cache and no other, its index lists known pools only, its   *)
(* dirty set has been taken; and while a block is under way its undo log    *)
(* holds what the manager was when the block began, and the block's emitted *)
(* directions cover every pair outside the scope of the next scan.          *)
THEOREM RunnerSound == Spec => []RunnerInv
  BY RunnerInit, RunnerNext, PTL DEF Spec

(* A block that fails part-way leaves the manager as it was before the      *)
(* block, its pools, its index, its dirty set and its learned taxes alike:  *)
(* for every order of logs, every length of block and every place at which  *)
(* the replay may give up.                                                  *)
THEOREM FailureIsUndone == Spec => FailureUndone
<1>1. RunnerInv /\ ReplayFails => \A f \in {"pools", "known", "index", "dirty", "fot"} : pm'[f] = base[f]
  BY RolledBack DEF Restored
<1> QED
  BY <1>1, RunnerSound, PTL DEF FailureUndone

(* The scan that looks only at the pairs of pools touched in the block      *)
(* misses nothing that the scan of every pair would emit.                   *)
THEOREM NarrowScanMissesNothing == Spec => NothingUnscanned
<1>1. RunnerInv /\ Step =>
        \A d \in Directions(pm, Full) :
            /\ <<d[1], d[2]>> \in DOMAIN seen'
            /\ \A i \in {1, 2} :
                 Steady(Liquidities(pm, d[1], d[2])[i], seen'[<<d[1], d[2]>>][i])
  BY Stepped DEF Near
<1> QED
  BY <1>1, RunnerSound, PTL DEF NothingUnscanned

(* Every step of the runner is one of BlockApply, or none.                   *)
LEMMA ReplayStep == RunnerInv /\ [Next]_vars => [Replay!Next]_<<PoolsShown, block>>
<1>1. SUFFICES ASSUME RunnerInv, [Next]_vars PROVE [Replay!Next]_<<PoolsShown, block>>
  OBVIOUS
<1>2. block \in Blocks => block <= LastBlock
  BY RunnerAssumption DEF Blocks
<1>3. CASE SkipUncached \/ EmptyBlock \/ Unloadable
  <2>1. PoolsShown' = PoolsShown /\ block' = block + 1 /\ block \in Blocks
    BY <1>3 DEF SkipUncached, EmptyBlock, Unloadable, NextBlock, PoolsShown
  <2> QED
    BY <1>2, <2>1 DEF Replay!Next, Replay!Pass
<1>4. CASE BeginBlock
  <2>1. base'.pools = pm.pools /\ step' \in {"replay", "logs"} /\ step = "idle" /\ block' = block
    BY <1>4 DEF BeginBlock
  <2> QED
    BY <2>1 DEF PoolsShown
<1>5. CASE Step
  BY <1>5 DEF Step, PoolsShown
<1>6. CASE ReplayFails
  <2>1. pm'.pools = base.pools
    BY <1>1, <1>6, RolledBack DEF Restored
  <2>2. step = "replay" /\ step' = "fallback" /\ block' = block
    BY <1>6 DEF ReplayFails
  <2> QED
    BY <2>1, <2>2 DEF PoolsShown
<1>7. CASE SyncFromLogs
  BY <1>7 DEF SyncFromLogs, PoolsShown
<1>8. CASE FinishBlock
  <2>1. /\ step \in {"replay", "logs"} /\ step' = "idle" /\ block' = block + 1
        /\ block \in Blocks /\ txs \in Contents
    BY <1>1, <1>8 DEF RunnerInv, UnderWay, FinishBlock, NextBlock
  <2>2. PoolsShown = base.pools /\ PoolsShown' = pm'.pools
    BY <2>1 DEF PoolsShown
  <2>3. PoolsShown' = ApplyTxs(PoolsShown, txs)
    BY <1>1, <1>8, <2>2, Committed
  <2>4. Replay!ApplyBlock(txs)
    BY <1>2, <2>1, <2>3 DEF Replay!ApplyBlock
  <2> QED
    BY <2>1, <2>4 DEF Replay!Next
<1>9. CASE Finish
  BY <1>9 DEF Finish, PoolsShown
<1>10. CASE UNCHANGED vars
  BY <1>10 DEF vars, PoolsShown
<1> QED
  BY <1>1, <1>3, <1>4, <1>5, <1>6, <1>7, <1>8, <1>9, <1>10 DEF Next

(* The runner implements BlockApply: between blocks the pools are what the  *)
(* committed blocks made of them, each applied once and whole, whether it   *)
(* was replayed, synchronised from its logs or both in turn.                *)
THEOREM ReplayIsBlockwise == Spec => ReplayImplements
<1>1. Init => Replay!Init
  BY RunnerInit DEF Replay!Init, Init
<1> QED
  BY <1>1, RunnerSound, ReplayStep, PTL DEF Spec, ReplayImplements, Replay!Spec

=============================================================================
