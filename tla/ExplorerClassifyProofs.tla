------------------------- MODULE ExplorerClassifyProofs -------------------------
(***************************************************************************)
(* ClaimsSettle for any blocks of any transactions. A claim can only go    *)
(* wrong between the two kinds that touch a second transaction, so the     *)
(* invariant keeps those apart: what a sandwich touches is consumed, and a *)
(* frontrun takes neither its front nor its close from there. Every other  *)
(* event touches the one transaction that it is of, and a pass that drops  *)
(* an event puts another one in its place.                                 *)
(***************************************************************************)
EXTENDS ExplorerClassify, FiniteSetTheorems, WellFoundedInduction, TLAPS

(* A nonempty set of numbers has a least element.                          *)
LEMMA LeastExists ==
  ASSUME NEW S, S \subseteq Nat, S # {}
  PROVE  \E x \in S : \A y \in S : x <= y
<1>1. PICK x \in S : \A y \in S : ~ (<<y, x>> \in OpToRel(<, Nat))
  BY NatLessThanWellFounded, WFMin
<1>2. \A y \in S : ~ (y < x)
  BY <1>1 DEF OpToRel
<1> QED
  BY <1>2

LEMMA LeastIsIn ==
  ASSUME NEW S, S \subseteq Nat, S # {}
  PROVE  Min(S) \in S
  BY LeastExists DEF Min

(* Numbers can be put in order.                                            *)
Ordered(s, S) ==
    s \in [1 .. Cardinality(S) -> S] /\ \A i, j \in DOMAIN s : i < j => s[i] < s[j]

LEMMA OrderExists ==
  ASSUME NEW n \in Nat, NEW S \in SUBSET (1 .. n)
  PROVE  \E s : Ordered(s, S)
<1> DEFINE Bad == {m \in Nat : \E T \in SUBSET (1 .. m) : \A s : ~Ordered(s, T)}
<1>1. SUFFICES ASSUME Bad # {} PROVE FALSE
  OBVIOUS
<1>2. PICK m \in Bad : \A k \in Bad : m <= k
  <2>1. Bad \subseteq Nat
    OBVIOUS
  <2> HIDE DEF Bad
  <2> QED
    BY <1>1, <2>1, LeastExists
<1>3. PICK T \in SUBSET (1 .. m) : \A s : ~Ordered(s, T)
  BY <1>2
<1>4. m \in Nat
  BY <1>2
<1>5. T # {}
  <2>1. ASSUME T = {} PROVE FALSE
    <3>1. Cardinality(T) = 0
      BY <2>1, FS_EmptySet
    <3>2. [i \in 1 .. 0 |-> 0] \in [1 .. 0 -> T]
      OBVIOUS
    <3>3. Ordered([i \in 1 .. 0 |-> 0], T)
      BY <3>1, <3>2 DEF Ordered
    <3> QED
      BY <1>3, <3>3
  <2> QED
    BY <2>1
<1>6. m > 0
  <2>1. PICK x \in T : TRUE
    BY <1>5
  <2>2. x \in 1 .. m
    BY <2>1
  <2> QED
    BY <1>4, <2>2
<1>7. m - 1 \notin Bad /\ m - 1 \in Nat
  <2>1. m - 1 \in Nat /\ ~(m <= m - 1)
    BY <1>4, <1>6
  <2> HIDE DEF Bad
  <2> QED
    BY <1>2, <2>1
<1> DEFINE U == T \ {m}
<1>8. U \in SUBSET (1 .. m - 1)
  BY <1>4
<1>9. PICK s : Ordered(s, U)
  BY <1>7, <1>8
<1>10. IsFiniteSet(U) /\ Cardinality(U) \in Nat
  <2>1. IsFiniteSet(1 .. m - 1)
    BY <1>7, FS_Interval
  <2> QED
    BY <1>8, <2>1, FS_Subset, FS_CardinalityType
<1>11. CASE m \notin T
  <2>1. U = T
    BY <1>11
  <2> QED
    BY <1>3, <1>9, <2>1
<1>12. CASE m \in T
  <2> DEFINE c == Cardinality(U)
             t == [i \in 1 .. c + 1 |-> IF i = c + 1 THEN m ELSE s[i]]
  <2>1. T = U \cup {m} /\ m \notin U
    BY <1>12
  <2> HIDE DEF U
  <2>2. Cardinality(T) = c + 1
    BY <1>10, <2>1, FS_AddElement
  <2>3. s \in [1 .. c -> U] /\ \A i, j \in 1 .. c : i < j => s[i] < s[j]
    BY <1>9 DEF Ordered
  <2>4. c \in Nat
    BY <1>10
  <2> HIDE DEF c
  <2>5. t \in [1 .. c + 1 -> T]
    BY <2>1, <2>3, <2>4
  <2>6. ASSUME NEW i \in 1 .. c + 1, NEW j \in 1 .. c + 1, i < j PROVE t[i] < t[j]
    <3>1. i \in 1 .. c /\ t[i] = s[i] /\ s[i] \in U
      BY <2>3, <2>4, <2>6
    <3>2. CASE j = c + 1
      <4>1. s[i] \in 1 .. m - 1
        BY <1>8, <3>1
      <4>2. t[j] = m
        BY <2>4, <3>2
      <4> HIDE DEF t
      <4> QED
        BY <1>4, <3>1, <4>1, <4>2
    <3>3. CASE j # c + 1
      BY <2>3, <2>4, <2>6, <3>1, <3>3
    <3> QED
      BY <3>2, <3>3
  <2> HIDE DEF t
  <2>7. Ordered(t, T)
    BY <2>2, <2>5, <2>6 DEF Ordered
  <2> QED
    BY <1>3, <2>7
<1> QED
  BY <1>11, <1>12

(* What succeeded of a block is in its places.                             *)
LEMMA PlacesAreNumbers ==
  ASSUME NEW block \in Blocks
  PROVE  LET at == Ascending(Succeeded(block)) IN
         \A k \in DOMAIN at : at[k] \in Nat
<1>1. DOMAIN block = 1 .. Len(block) /\ Len(block) \in Nat
  BY ClassifyAssumption DEF ClassifyAssumption
<1>2. Succeeded(block) \in SUBSET (1 .. Len(block))
  BY <1>1 DEF Succeeded
<1>3. \E s : Ordered(s, Succeeded(block))
  BY <1>1, <1>2, OrderExists
<1>4. Ordered(Ascending(Succeeded(block)), Succeeded(block))
  BY <1>3 DEF Ordered, Ascending
<1> QED
  BY <1>1, <1>2, <1>4 DEF Ordered

-----------------------------------------------------------------------------------
(* The invariant.                                                          *)

Passes == {"next", "liquidations", "skims", "arbs", "jit", "sandwiches", "frontruns", "backruns",
           "claims", "persist"}
SingleKinds == {"backrun", "jit arb", "liquidation", "jit", "skim", "arb", "utility"}
Kinds == {"sandwich", "frontrun"} \cup SingleKinds

Shaped(e) == {"kind", "tx", "also", "exact"} \subseteq DOMAIN e
Single(e) == Shaped(e) /\ e.kind \in SingleKinds /\ e.also = {}

ShapeInv ==
    /\ pc \in Passes /\ Txs \subseteq Nat
    /\ \A e \in events : Shaped(e) /\ e.kind \in Kinds /\ (e.kind \in SingleKinds => e.also = {})

(* Before the bundles there are none; a sandwich consumes what it touches;  *)
(* and a frontrun touches nothing that a sandwich does.                    *)
NoBundles == \A e \in events : e.kind \in SingleKinds
NoFrontruns == \A e \in events : e.kind # "frontrun" /\ (e.kind = "sandwich" => Touched(e) \subseteq consumed)
Apart ==
    \A s \in events, f \in events :
        s.kind = "sandwich" /\ f.kind = "frontrun" => Touched(s) \cap Touched(f) = {}

(* Every event that was emitted has one of its transaction beside it.      *)
Kept == \A e \in emitted : \E f \in events : f.tx = e.tx

ClaimInv ==
    /\ ShapeInv
    /\ pc \in {"liquidations", "skims", "arbs", "jit", "sandwiches"} => NoBundles
    /\ pc = "frontruns" => NoFrontruns
    /\ pc \in {"backruns", "claims"} => Apart
    /\ pc \notin {"persist", "next"} => Kept
    /\ ClaimsSettle

-----------------------------------------------------------------------------------
(* The passes that emit events of one transaction.                         *)

IsOf(kind, tx, e) ==
    \E at, searcher, token, amt, basis, key :
        e = Event(kind, tx, at, searcher, token, amt, basis, key)
IsRevisionOf(kind, tx, e) ==
    \E at, searcher, token, amt, basis, key, x :
        e = [Event(kind, tx, at, searcher, token, amt, basis, key) EXCEPT !.exact = x]

LEMMA EventIsShaped ==
  ASSUME NEW kind, NEW tx, NEW e, IsOf(kind, tx, e) \/ IsRevisionOf(kind, tx, e)
  PROVE  Shaped(e) /\ e.kind = kind /\ e.tx = tx /\ e.also = {}
<1>1. CASE IsOf(kind, tx, e)
  BY <1>1 DEF IsOf, Event, Shaped
<1>2. CASE IsRevisionOf(kind, tx, e)
  <2>1. PICK at, searcher, token, amt, basis, key, x :
           e = [Event(kind, tx, at, searcher, token, amt, basis, key) EXCEPT !.exact = x]
    BY <1>2 DEF IsRevisionOf
  <2> QED
    BY <2>1 DEF Event, Shaped
<1> QED
  BY <1>1, <1>2

LEMMA IsSingle ==
  ASSUME NEW kind \in SingleKinds, NEW tx, NEW e, IsOf(kind, tx, e) \/ IsRevisionOf(kind, tx, e)
  PROVE  Single(e)
  BY EventIsShaped DEF Single

LEMMA LiquidationsAreSingle ==
  ASSUME NEW i, NEW e \in LiquidationsOf(i) \cup BuysOf(i)
  PROVE  Single(e)
<1>1. CASE e \in LiquidationsOf(i)
  <2>1. IsOf("liquidation", i, e)
    BY <1>1, Zenon DEF LiquidationsOf, IsOf
  <2> QED
    BY <2>1, IsSingle DEF SingleKinds
<1>2. CASE e \in BuysOf(i)
  <2>1. PICK k \in DOMAIN TxAt(i).buys :
           LET b  == TxAt(i).buys[k]
               by == IF b.buyer = Zero THEN TxAt(i).from ELSE b.buyer
           IN  e = [Event("liquidation", i, 100 + k, by, b.coll, b.amt, "O", <<Zero, by>>)
                      EXCEPT !.exact = Paired(i)]
    BY <1>2, Zenon DEF BuysOf
  <2>2. IsRevisionOf("liquidation", i, e)
    BY <2>1, Zenon DEF IsRevisionOf
  <2> QED
    BY <2>2, IsSingle DEF SingleKinds
<1> QED
  BY <1>1, <1>2

LEMMA SkimIsSingle ==
  ASSUME NEW i, NEW pool
  PROVE  Single(Skim(i, pool))
<1>1. IsOf("skim", i, Skim(i, pool))
  BY Zenon DEF Skim, IsOf
<1> QED
  BY <1>1, IsSingle DEF SingleKinds
(* What an arbitrage pass finds is an arbitrage.                           *)
IsArb(i, r) == r[1] = "event" => IsRevisionOf("arb", i, r[2])

LEMMA RejectIsArb ==
  ASSUME NEW i, NEW reason
  PROVE  IsArb(i, <<"reject", reason>>)
<1> DEFINE r == <<"reject", reason>>
<1>1. r[1] = "reject"
  OBVIOUS
<1> HIDE DEF r
<1>2. IsArb(i, r)
  BY <1>1 DEF IsArb
<1> QED
  BY <1>2 DEF r

LEMMA RevisionIsArb ==
  ASSUME NEW i, NEW e, IsRevisionOf("arb", i, e)
  PROVE  IsArb(i, <<"event", e>>)
<1> DEFINE r == <<"event", e>>
<1>1. r[2] = e
  OBVIOUS
<1> HIDE DEF r
<1>2. IsArb(i, r)
  BY <1>1 DEF IsArb
<1> QED
  BY <1>2 DEF r

LEMMA ArbByIsArb ==
  ASSUME NEW i, NEW tx, NEW ledger, NEW anchor, NEW walked, NEW forwarded, NEW searcher
  PROVE  IsArb(i, ArbBy(i, tx, ledger, anchor, walked, forwarded, searcher))
<1> DEFINE r == ArbBy(i, tx, ledger, anchor, walked, forwarded, searcher)
           e(amt, key, x) == [Event("arb", i, 0, searcher.a, anchor, amt, "R", key)
                                EXCEPT !.exact = x]
<1>1. \/ \E reason : r = <<"reject", reason>>
      \/ \E amt, key, x : r = <<"event", e(amt, key, x)>>
  BY Zenon DEF ArbBy
<1>2. \A amt, key, x : IsRevisionOf("arb", i, e(amt, key, x))
  BY Zenon DEF IsRevisionOf
<1> HIDE DEF r, e
<1>3. ASSUME \E reason : r = <<"reject", reason>> PROVE IsArb(i, r)
  BY <1>3, RejectIsArb, Zenon
<1>4. ASSUME \E amt, key, x : r = <<"event", e(amt, key, x)>> PROVE IsArb(i, r)
  BY <1>2, <1>4, RevisionIsArb, Zenon
<1>5. IsArb(i, r)
  BY <1>1, <1>3, <1>4
<1> QED
  BY <1>5 DEF r

LEMMA ArbIsArb ==
  ASSUME NEW i
  PROVE  ArbOf(i) # <<>> => IsArb(i, ArbOf(i))
<1>1. \A reason : IsArb(i, <<"reject", reason>>)
  BY RejectIsArb
<1>2. \A tx, ledger, anchor, walked, holders :
         IsArb(i, ArbOfWalk(i, tx, ledger, anchor, walked, holders))
  BY ArbByIsArb, Zenon DEF ArbOfWalk, ArbOfHolders
<1>3. ASSUME NEW tx, NEW edges, NEW walk, NEW candidates
      PROVE  LET r == ArbOn(i, tx, edges, walk, candidates) IN r # <<>> => IsArb(i, r)
  BY <1>1, <1>2, Zenon DEF ArbOn
<1> QED
  BY <1>3, Zenon DEF ArbOf, ArbOfTx

LEMMA UtilitiesAreSingle ==
  ASSUME NEW i, NEW e \in KeepersOf(i) \cup BundlesOf(i) \cup ClaimAndSellOf(i)
  PROVE  Single(e)
<1>1. IsOf("utility", i, e)
  <2>1. CASE e \in KeepersOf(i)
    BY <2>1, Zenon DEF KeepersOf, IsOf
  <2>2. CASE e \in BundlesOf(i)
    BY <2>2, Zenon DEF BundlesOf, IsOf
  <2>3. CASE e \in ClaimAndSellOf(i)
    <3> DEFINE t == ProfitToken(TxLedger(TxAt(i)), TxAt(i).from)
               u == Event("utility", i, 200, TxAt(i).from, t,
                          Net(TxLedger(TxAt(i)), TxAt(i).from, t), "R", PoolsOf(TxAt(i).swaps))
    <3>1. ClaimAndSellOf(i) = {u} \/ ClaimAndSellOf(i) = {}
      BY Zenon DEF ClaimAndSellOf
    <3>2. IsOf("utility", i, u)
      BY Zenon DEF IsOf
    <3> HIDE DEF u
    <3> QED
      BY <2>3, <3>1, <3>2
  <2> QED
    BY <2>1, <2>2, <2>3
<1> QED
  BY <1>1, IsSingle DEF SingleKinds

LEMMA BackrunsAreSingle ==
  ASSUME NEW pool, NEW e \in BackrunsOf(pool).new
  PROVE  Single(e)
<1>1. ASSUME NEW legs, NEW cycles, NEW f \in BackrunsIn(pool, legs, cycles).new
      PROVE  \E b : f = BackrunOf(pool, legs, b, cycles[b])
  <2> DEFINE closed == {b \in DOMAIN cycles : cycles[b].miss = "none"}
             found  == {BackrunOf(pool, legs, b, cycles[b]) :
                            b \in {c \in closed : Better(legs, c) # {}}}
  <2>1. BackrunsIn(pool, legs, cycles).new = found
    BY DEF BackrunsIn
  <2>2. f \in found
    BY <1>1, <2>1
  <2> QED
    BY <2>2
<1>2. \E legs, cycles : e \in BackrunsIn(pool, legs, cycles).new
  BY Zenon DEF BackrunsOf, BackrunsOn
<1>3. PICK legs, b, cycle : e = BackrunOf(pool, legs, b, cycle)
  <2>1. PICK legs, cycles : e \in BackrunsIn(pool, legs, cycles).new
    BY <1>2
  <2>2. \E b : e = BackrunOf(pool, legs, b, cycles[b])
    BY <1>1, <2>1
  <2> QED
    BY <2>2
<1>4. IsRevisionOf("backrun", legs[b].tx, e)
  BY <1>3, Zenon DEF BackrunOf, IsRevisionOf
<1> QED
  BY <1>4, IsSingle DEF SingleKinds

(* A JIT event takes the place of an arbitrage of its transaction.         *)
LEMMA JitIsSingle ==
  ASSUME NEW S, NEW arbTxs, NEW e \in Upgraded({JitEvent(p) : p \in S}, arbTxs)
  PROVE  Single(e)
<1>1. PICK p \in S :
         LET j == JitEvent(p) IN e = [j EXCEPT !.kind = IF j.tx \in arbTxs THEN "jit arb" ELSE @]
  BY DEF Upgraded
<1> DEFINE j == JitEvent(p)
<1>2. Shaped(j) /\ j.kind = "jit" /\ j.also = {}
  BY DEF JitEvent, Shaped
<1>3. e = [j EXCEPT !.kind = "jit arb"] \/ e = [j EXCEPT !.kind = "jit"]
  <2>1. CASE j.tx \in arbTxs
    BY <1>1, <2>1
  <2>2. CASE j.tx \notin arbTxs
    BY <1>1, <1>2, <2>2
  <2> QED
    BY <2>1, <2>2
<1> HIDE DEF j
<1> QED
  BY <1>2, <1>3 DEF Single, SingleKinds, Shaped

LEMMA JitKeeps ==
  ASSUME NEW txs, NEW new, NEW e \in events,
         \A i \in txs : \E g \in new : g.tx = i
  PROVE  \E f \in DropArbs(txs) \cup new : f.tx = e.tx
<1>1. CASE e \in DropArbs(txs)
  BY <1>1
<1>2. CASE e \notin DropArbs(txs)
  <2>1. e.tx \in txs
    BY <1>2 DEF DropArbs
  <2> QED
    BY <2>1
<1> QED
  BY <1>1, <1>2

-----------------------------------------------------------------------------------
(* The bundles.                                                            *)

LEMMA SandwichIsShaped ==
  ASSUME NEW pool, NEW attacker, NEW legs, NEW w
  PROVE  LET e == SandwichOf(pool, attacker, legs, w) IN Shaped(e) /\ e.kind = "sandwich"
  BY DEF SandwichOf, Event, Shaped

(* A frontrun leaves alone what is consumed.                               *)
LEMMA FrontrunIsFree ==
  ASSUME NEW pool, NEW legs, NEW f \in Fronts(legs), Txs \subseteq Nat,
         ClosesOf(legs, f, Min(Degraded(legs, f))) # {}
  PROVE  LET e == FrontrunOf(pool, legs, f) IN
         Shaped(e) /\ e.kind = "frontrun" /\ Touched(e) \cap consumed = {}
<1> DEFINE v == Min(Degraded(legs, f))
           c == Min(ClosesOf(legs, f, v))
           e == FrontrunOf(pool, legs, f)
<1>1. ClosesOf(legs, f, v) \subseteq Txs \ consumed
  BY DEF ClosesOf
<1>2. c \in ClosesOf(legs, f, v)
  <2> DEFINE S == ClosesOf(legs, f, v)
  <2>1. S \subseteq Nat /\ S # {}
    BY <1>1
  <2> HIDE DEF S
  <2>2. Min(S) \in S
    BY <2>1, LeastIsIn
  <2> QED
    BY <2>2 DEF S
<1>3. Shaped(e) /\ e.kind = "frontrun" /\ e.tx = legs[f].tx /\ e.also = {c}
  <2> HIDE DEF c
  <2> QED
    BY DEF FrontrunOf, Event, Shaped, c, v
<1>4. legs[f].tx \notin consumed
  BY DEF Fronts
<1> HIDE DEF c, e
<1>5. Touched(e) \cap consumed = {}
  BY <1>1, <1>2, <1>3, <1>4 DEF Touched
<1> QED
  BY <1>3, <1>5 DEF e

LEMMA FrontrunsAreFree ==
  ASSUME NEW pool, Txs \subseteq Nat, NEW e \in FrontrunsOf(pool).new
  PROVE  Shaped(e) /\ e.kind = "frontrun" /\ Touched(e) \cap consumed = {}
<1> DEFINE legs == LegsOf(pool)
<1>1. ASSUME NEW g, NEW h \in FrontrunsIn(pool, g).new
      PROVE  \E f \in Fronts(g) : /\ h = FrontrunOf(pool, g, f)
                                  /\ ClosesOf(g, f, Min(Degraded(g, f))) # {}
  BY DEF FrontrunsIn
<1>2. e \in FrontrunsIn(pool, legs).new
  BY Zenon DEF FrontrunsOf
<1> HIDE DEF legs
<1>3. PICK f \in Fronts(legs) : /\ e = FrontrunOf(pool, legs, f)
                                /\ ClosesOf(legs, f, Min(Degraded(legs, f))) # {}
  BY <1>1, <1>2
<1> QED
  BY <1>3, FrontrunIsFree

-----------------------------------------------------------------------------------
(* The claims.                                                             *)

(* The place in a list that CHOOSE finds is one of what is sought.          *)
LEMMA PlaceIsFound ==
  ASSUME NEW order, NEW kind, NEW n \in 1 .. 9, order[n] = kind
  PROVE  LET k == CHOOSE j \in 0 .. 8 : order[j + 1] = kind
         IN  k \in 0 .. 8 /\ order[k + 1] = kind
<1>1. n - 1 \in 0 .. 8 /\ (n - 1) + 1 = n
  OBVIOUS
<1> QED
  BY <1>1

Ranked(order) ==
    /\ order[1] = "sandwich" /\ order[2] = "frontrun" /\ order[3] = "backrun"
    /\ order[4] = "jit arb" /\ order[5] = "liquidation" /\ order[6] = "jit"
    /\ order[7] = "skim" /\ order[8] = "arb" /\ order[9] = "utility"

LEMMA RankedPlaces ==
  ASSUME NEW order, Ranked(order), NEW n \in 1 .. 9
  PROVE  /\ order[n] = "sandwich" <=> n = 1
         /\ order[n] = "frontrun" <=> n = 2
<1>1. n \in {1, 2, 3, 4, 5, 6, 7, 8, 9}
  OBVIOUS
<1> QED
  BY <1>1 DEF Ranked

LEMMA Precedences ==
  /\ Precedence("sandwich") = 0 /\ Precedence("frontrun") = 1
  /\ \A kind \in SingleKinds : Precedence(kind) \in 2 .. 8
<1>1. \E order :
         /\ Ranked(order)
         /\ \A kind : Precedence(kind) = CHOOSE k \in 0 .. 8 : order[k + 1] = kind
  <2> DEFINE order == <<"sandwich", "frontrun", "backrun", "jit arb", "liquidation", "jit", "skim",
                        "arb", "utility">>
  <2>1. Ranked(order)
    BY DEF Ranked
  <2>2. \A kind : Precedence(kind) = CHOOSE k \in 0 .. 8 : order[k + 1] = kind
    BY Zenon DEF Precedence
  <2> HIDE DEF order
  <2> QED
    BY <2>1, <2>2
<1>2. PICK order :
         /\ Ranked(order)
         /\ \A kind : Precedence(kind) = CHOOSE k \in 0 .. 8 : order[k + 1] = kind
  BY <1>1
<1>3. ASSUME NEW n \in 1 .. 9
      PROVE  LET k == Precedence(order[n]) IN k \in 0 .. 8 /\ order[k + 1] = order[n]
  BY <1>2, PlaceIsFound
<1>4. order[1] = "sandwich" /\ order[2] = "frontrun"
  BY <1>2 DEF Ranked
<1>5. Precedence("sandwich") = 0
  <2> DEFINE k == Precedence(order[1])
  <2>1. k \in 0 .. 8 /\ order[k + 1] = "sandwich"
    BY <1>3, <1>4
  <2> HIDE DEF k
  <2>2. k + 1 = 1
    BY <1>2, <2>1, RankedPlaces
  <2> QED
    BY <1>4, <2>1, <2>2 DEF k
<1>6. Precedence("frontrun") = 1
  <2> DEFINE k == Precedence(order[2])
  <2>1. k \in 0 .. 8 /\ order[k + 1] = "frontrun"
    BY <1>3, <1>4
  <2> HIDE DEF k
  <2>2. k + 1 = 2
    BY <1>2, <2>1, RankedPlaces
  <2> QED
    BY <1>4, <2>1, <2>2 DEF k
<1>7. ASSUME NEW kind \in SingleKinds PROVE Precedence(kind) \in 2 .. 8
  <2>1. kind \in {order[3], order[4], order[5], order[6], order[7], order[8], order[9]}
    BY <1>2, Zenon DEF SingleKinds, Ranked
  <2>2. PICK n \in 1 .. 9 : kind = order[n]
    BY <2>1
  <2>3. kind # "sandwich" /\ kind # "frontrun"
    BY DEF SingleKinds
  <2> DEFINE k == Precedence(kind)
  <2>4. k \in 0 .. 8 /\ order[k + 1] = kind
    BY <1>3, <2>2
  <2> HIDE DEF k
  <2>5. k + 1 # 1 /\ k + 1 # 2
    BY <1>2, <2>3, <2>4, RankedPlaces
  <2>6. k \in 2 .. 8
    BY <2>4, <2>5
  <2> QED
    BY <2>6 DEF k
<1> QED
  BY <1>5, <1>6, <1>7

LEMMA KindsAreRanked ==
  ASSUME NEW kind \in Kinds
  PROVE  /\ Precedence(kind) \in Nat
         /\ Precedence(kind) <= 0 => kind = "sandwich"
         /\ Precedence(kind) <= 1 => kind \in {"sandwich", "frontrun"}
  BY Precedences DEF Kinds

(* Of a transaction that an event touches one kind wins.                   *)
LEMMA WinnerWins ==
  ASSUME NEW i, NEW f \in events, i \in Touched(f), \A e \in events : e.kind \in Kinds
  PROVE  /\ \E g \in events : i \in Touched(g) /\ g.kind = Winner(i)
         /\ Precedence(Winner(i)) <= Precedence(f.kind)
<1> DEFINE S == {Precedence(k) : k \in ClaimedBy(i)}
<1>1. f.kind \in ClaimedBy(i)
  BY DEF ClaimedBy
<1>2. ClaimedBy(i) \subseteq Kinds
  BY DEF ClaimedBy
<1>3. S \subseteq Nat /\ S # {}
  BY <1>1, <1>2, KindsAreRanked
<1>4. PICK n \in S : \A m \in S : n <= m
  <2> HIDE DEF S
  <2> QED
    BY <1>3, LeastExists
<1>5. \E k \in ClaimedBy(i) : \A l \in ClaimedBy(i) : Precedence(k) <= Precedence(l)
  BY <1>4
<1>6. /\ Winner(i) \in ClaimedBy(i)
      /\ \A l \in ClaimedBy(i) : Precedence(Winner(i)) <= Precedence(l)
  <2> HIDE DEF S
  <2> QED
    BY <1>5 DEF Winner
<1> QED
  BY <1>1, <1>6 DEF ClaimedBy

(* What the claims leave: of each transaction that is touched, an event of the *)
(* kind that won; and those that touch one transaction are of one kind.    *)
Stands(f) == f \in events /\ Winner(f.tx) = f.kind

LEMMA OneStands ==
  ASSUME ShapeInv, Apart, NEW f \in events
  PROVE  \E g : Stands(g) /\ f.tx \in Touched(g)
<1>1. \A e \in events : e.kind \in Kinds /\ e.tx \in Touched(e)
  BY DEF ShapeInv, Touched
<1>2. PICK g \in events : f.tx \in Touched(g) /\ g.kind = Winner(f.tx)
  BY <1>1, WinnerWins
<1>3. CASE g.tx = f.tx
  BY <1>2, <1>3 DEF Stands, Touched
<1>4. CASE g.tx # f.tx
  <2>1. g.kind \in {"sandwich", "frontrun"}
    BY <1>2, <1>4 DEF ShapeInv, Touched, Kinds
  <2>2. PICK h \in events : g.tx \in Touched(h) /\ h.kind = Winner(g.tx)
    BY <1>1, WinnerWins
  <2>3. Precedence(h.kind) <= Precedence(g.kind)
    BY <1>1, <2>2, WinnerWins
  <2>4. h.kind = g.kind
    <3>1. CASE g.kind = "sandwich"
      BY <1>1, <2>3, <3>1, KindsAreRanked, Precedences
    <3>2. CASE g.kind = "frontrun"
      <4>1. h.kind \in {"sandwich", "frontrun"}
        BY <1>1, <2>3, <3>2, KindsAreRanked, Precedences
      <4>2. h.kind # "sandwich"
        BY <1>1, <2>2, <3>2 DEF Apart
      <4> QED
        BY <3>2, <4>1, <4>2
    <3> QED
      BY <2>1, <3>1, <3>2
  <2> QED
    BY <1>2, <2>2, <2>4 DEF Stands
<1> QED
  BY <1>3, <1>4

LEMMA OneKindStands ==
  ASSUME ShapeInv, Apart, NEW e, NEW f, Stands(e), Stands(f), Touched(e) \cap Touched(f) # {}
  PROVE  e.kind = f.kind
<1>1. \A g \in events : g.kind \in Kinds /\ g.tx \in Touched(g)
  BY DEF ShapeInv, Touched
<1>2. e \in events /\ f \in events /\ Winner(e.tx) = e.kind /\ Winner(f.tx) = f.kind
  BY DEF Stands
<1>3. ASSUME NEW g \in events, NEW h \in events, Touched(g) \cap Touched(h) # {},
             g.kind = "frontrun", h.kind \in {"sandwich", "frontrun"}
      PROVE  h.kind = "frontrun"
  BY <1>3 DEF Apart
<1>4. ASSUME NEW g \in events, NEW h \in events, Winner(g.tx) = g.kind, g.tx \in h.also
      PROVE  g.kind = h.kind
  <2>1. g.tx \in Touched(h) /\ Touched(g) \cap Touched(h) # {}
    BY <1>4 DEF Touched
  <2>2. Precedence(g.kind) <= Precedence(h.kind)
    BY <1>1, <1>4, <2>1, WinnerWins
  <2>3. h.kind \in {"sandwich", "frontrun"}
    BY <1>4 DEF ShapeInv, Kinds
  <2>4. CASE h.kind = "sandwich"
    BY <1>1, <2>2, <2>4, KindsAreRanked, Precedences
  <2>5. CASE h.kind = "frontrun"
    <3>1. g.kind \in {"sandwich", "frontrun"}
      BY <1>1, <2>2, <2>5, KindsAreRanked, Precedences
    <3> QED
      BY <1>3, <2>1, <2>5, <3>1
  <2> QED
    BY <2>3, <2>4, <2>5
<1>5. CASE e.tx = f.tx
  BY <1>2, <1>5
<1>6. CASE e.tx \in f.also
  BY <1>2, <1>4, <1>6
<1>7. CASE f.tx \in e.also
  BY <1>2, <1>4, <1>7
<1>8. CASE e.also \cap f.also # {}
  <2>1. e.kind \in {"sandwich", "frontrun"} /\ f.kind \in {"sandwich", "frontrun"}
    BY <1>2, <1>8 DEF ShapeInv, Kinds
  <2> QED
    BY <1>2, <1>3, <2>1
<1> QED
  BY <1>5, <1>6, <1>7, <1>8 DEF Touched

-----------------------------------------------------------------------------------
(* The steps.                                                              *)

(* A pass that adds events of one transaction each.                        *)
LEMMA SinglePass ==
  ASSUME NEW new, \A e \in new : Single(e), Emit(new), ShapeInv, Kept,
         facts' = facts, pc' \in Passes
  PROVE  /\ ShapeInv' /\ Kept'
         /\ NoBundles => NoBundles'
         /\ Apart => Apart'
<1>1. events' = events \cup new /\ emitted' = emitted \cup new
  BY DEF Emit
<1>2. \A e \in new : Shaped(e) /\ e.kind \in SingleKinds /\ e.also = {}
  BY DEF Single
<1>3. Txs' = Txs
  BY DEF Txs
<1>4. ShapeInv'
  BY <1>1, <1>2, <1>3 DEF ShapeInv, Kinds
<1>5. Kept'
  BY <1>1 DEF Kept
<1>6. ASSUME NoBundles PROVE NoBundles'
  BY <1>1, <1>2, <1>6 DEF NoBundles
<1>7. ASSUME Apart PROVE Apart'
  <2>1. \A e \in new : e.kind # "sandwich" /\ e.kind # "frontrun"
    BY <1>2 DEF SingleKinds
  <2>2. ASSUME NEW s \in events', NEW f \in events', s.kind = "sandwich", f.kind = "frontrun"
        PROVE  Touched(s) \cap Touched(f) = {}
    BY <1>1, <1>7, <2>1, <2>2 DEF Apart
  <2> QED
    BY <2>2 DEF Apart, Touched
<1> QED
  BY <1>4, <1>5, <1>6, <1>7

LEMMA LiquidationsStep ==
  ASSUME ClaimInv, Liquidations
  PROVE  ClaimInv'
<1> DEFINE new == UNION {LiquidationsOf(i) \cup BuysOf(i) : i \in Txs}
<1>1. \A e \in new : Single(e)
  BY LiquidationsAreSingle
<1>2. Emit(new) /\ facts' = facts /\ pc = "liquidations" /\ pc' = "skims"
  BY DEF Liquidations
<1> HIDE DEF new
<1>3. ShapeInv' /\ Kept' /\ NoBundles'
  BY <1>1, <1>2, SinglePass DEF ClaimInv, Passes
<1> QED
  BY <1>2, <1>3 DEF ClaimInv, ClaimsSettle, Classified

LEMMA SkimsStep ==
  ASSUME ClaimInv, Skims
  PROVE  ClaimInv'
<1> DEFINE new == UNION {{Skim(i, p) : p \in SkimPools(TxAt(i)) \ TakesIn(TxAt(i))} : i \in Txs}
<1>1. \A e \in new : Single(e)
  BY SkimIsSingle
<1>2. Emit(new) /\ facts' = facts /\ pc = "skims" /\ pc' = "arbs"
  BY DEF Skims
<1> HIDE DEF new
<1>3. ShapeInv' /\ Kept' /\ NoBundles'
  BY <1>1, <1>2, SinglePass DEF ClaimInv, Passes
<1> QED
  BY <1>2, <1>3 DEF ClaimInv, ClaimsSettle, Classified

LEMMA ArbsStep ==
  ASSUME ClaimInv, Arbs
  PROVE  ClaimInv'
<1> DEFINE result    == [i \in Txs |-> ArbOf(i)]
           arbs      == {result[i][2] : i \in Found(result)}
           utilities == UNION {KeepersOf(i) \cup BundlesOf(i) : i \in Txs}
           sales     == UNION {ClaimAndSellOf(i) : i \in Txs \ Found(result)}
           new       == arbs \cup utilities \cup sales
<1>1. \A i \in Txs : result[i] = ArbOf(i)
  OBVIOUS
<1>2. Emit(new) /\ facts' = facts /\ pc = "arbs" /\ pc' = "jit"
  <2>1. EmitArbs(result) /\ facts' = facts /\ pc = "arbs" /\ pc' = "jit"
    BY DEF Arbs
  <2> HIDE DEF result
  <2>2. Emit(new)
    BY <2>1, Zenon DEF EmitArbs, Emit
  <2> QED
    BY <2>1, <2>2
<1> HIDE DEF result
<1>3. \A e \in arbs : Single(e)
  <2>1. ASSUME NEW i \in Found(result) PROVE Single(result[i][2])
    <3>1. i \in Txs /\ result[i] # <<>> /\ result[i][1] = "event"
      BY DEF Found
    <3>2. IsArb(i, result[i])
      BY <1>1, <3>1, ArbIsArb, Zenon
    <3>3. IsRevisionOf("arb", i, result[i][2])
      BY <3>1, <3>2 DEF IsArb
    <3> QED
      BY <3>3, IsSingle DEF SingleKinds
  <2> QED
    BY <2>1
<1>4. \A e \in utilities : Single(e)
  BY UtilitiesAreSingle
<1>5. \A e \in sales : Single(e)
  BY UtilitiesAreSingle
<1> HIDE DEF arbs, utilities, sales
<1>6. \A e \in new : Single(e)
  BY <1>3, <1>4, <1>5
<1> HIDE DEF new
<1>7. ShapeInv' /\ Kept' /\ NoBundles'
  BY <1>2, <1>6, SinglePass DEF ClaimInv, Passes
<1> QED
  BY <1>2, <1>7 DEF ClaimInv, ClaimsSettle, Classified

LEMMA BackrunsStep ==
  ASSUME ClaimInv, Backruns
  PROVE  ClaimInv'
<1> DEFINE found == [p \in LegPools |-> BackrunsOf(p)]
           new   == UNION {found[p].new : p \in DOMAIN found}
<1>1. \A e \in new : Single(e)
  BY BackrunsAreSingle
<1>2. Emit(new) /\ facts' = facts /\ pc = "backruns" /\ pc' = "claims"
  BY DEF Backruns, EmitBackruns
<1> HIDE DEF new
<1>3. ShapeInv' /\ Kept' /\ Apart'
  BY <1>1, <1>2, SinglePass DEF ClaimInv, Passes
<1> QED
  BY <1>2, <1>3 DEF ClaimInv, ClaimsSettle, Classified

LEMMA JitStep ==
  ASSUME ClaimInv, Jit
  PROVE  ClaimInv'
<1>1. PICK valid, arbTxs :
         LET new == Upgraded({JitEvent(p) : p \in valid}, arbTxs)
         IN  /\ events' = DropArbs({e.tx : e \in {f \in new : f.kind = "jit arb"}}) \cup new
             /\ emitted' = emitted \cup new
  BY Zenon DEF Jit
<1> DEFINE new == Upgraded({JitEvent(p) : p \in valid}, arbTxs)
           txs == {e.tx : e \in {f \in new : f.kind = "jit arb"}}
<1>2. \A e \in new : Single(e)
  BY JitIsSingle
<1>3. events' = DropArbs(txs) \cup new /\ emitted' = emitted \cup new
  BY <1>1, Zenon
<1>4. \A i \in txs : \E g \in new : g.tx = i
  OBVIOUS
<1>5. facts' = facts /\ pc = "jit" /\ pc' = "sandwiches" /\ Txs' = Txs
  BY DEF Jit, Txs
<1> HIDE DEF new, txs
<1>6. \A e \in new : Shaped(e) /\ e.kind \in SingleKinds /\ e.also = {}
  BY <1>2 DEF Single
<1>7. DropArbs(txs) \subseteq events
  BY DEF DropArbs
<1>8. ShapeInv'
  BY <1>3, <1>5, <1>6, <1>7 DEF ClaimInv, ShapeInv, Kinds, Passes
<1>9. NoBundles'
  BY <1>3, <1>5, <1>6, <1>7 DEF ClaimInv, NoBundles
<1>10. Kept'
  <2>1. ASSUME NEW e \in emitted PROVE \E f \in events' : f.tx = e.tx
    <3>1. PICK f \in events : f.tx = e.tx
      BY <1>5 DEF ClaimInv, Kept
    <3>2. \E g \in DropArbs(txs) \cup new : g.tx = f.tx
      BY <1>4, JitKeeps
    <3> QED
      BY <1>3, <3>1, <3>2
  <2> QED
    BY <1>3, <2>1 DEF Kept
<1> QED
  BY <1>5, <1>8, <1>9, <1>10 DEF ClaimInv, ClaimsSettle, Classified

LEMMA SandwichesStep ==
  ASSUME ClaimInv, Sandwiches
  PROVE  ClaimInv'
<1> DEFINE walks == [pa \in Attacks |-> Walk(LegsOf(pa[1]), pa[2])]
           done  == {pa \in DOMAIN walks : walks[pa].closing # {}}
           new   == {SandwichOf(pa[1], pa[2], LegsOf(pa[1]), walks[pa]) : pa \in done}
<1>1. \A e \in new : Shaped(e) /\ e.kind = "sandwich"
  BY SandwichIsShaped
<1>2. /\ events' = events \cup new /\ emitted' = emitted \cup new
      /\ consumed' = UNION {{e.tx} \cup e.also : e \in new}
  BY Zenon DEF Sandwiches, EmitSandwiches, Emit
<1>3. facts' = facts /\ pc = "sandwiches" /\ pc' = "frontruns" /\ Txs' = Txs
  BY DEF Sandwiches, Txs
<1> HIDE DEF new
<1>4. ShapeInv'
  BY <1>1, <1>2, <1>3 DEF ClaimInv, ShapeInv, Kinds, SingleKinds, Passes
<1>5. NoFrontruns'
  <2>1. ASSUME NEW e \in new PROVE Touched(e) \subseteq consumed'
    BY <1>2 DEF Touched
  <2>2. \A e \in events : e.kind # "frontrun" /\ e.kind # "sandwich"
    BY <1>3 DEF ClaimInv, NoBundles, SingleKinds
  <2> QED
    BY <1>1, <1>2, <2>1, <2>2 DEF NoFrontruns, Touched
<1>6. Kept'
  BY <1>2, <1>3 DEF ClaimInv, Kept
<1> QED
  BY <1>3, <1>4, <1>5, <1>6 DEF ClaimInv, ClaimsSettle, Classified

LEMMA FrontrunsStep ==
  ASSUME ClaimInv, Frontruns
  PROVE  ClaimInv'
<1> DEFINE found == [p \in LegPools |-> FrontrunsOf(p)]
           new   == UNION {found[p].new : p \in DOMAIN found}
<1>1. ASSUME NEW e \in new
      PROVE  Shaped(e) /\ e.kind = "frontrun" /\ Touched(e) \cap consumed = {}
  <2>1. PICK p : e \in FrontrunsOf(p).new
    OBVIOUS
  <2>2. Txs \subseteq Nat
    BY DEF ClaimInv, ShapeInv
  <2> HIDE DEF new
  <2> QED
    BY <2>1, <2>2, FrontrunsAreFree
<1>2. events' = events \cup new /\ emitted' = emitted \cup new
  BY Zenon DEF Frontruns, EmitFrontruns, Emit
<1>3. facts' = facts /\ pc = "frontruns" /\ pc' = "backruns" /\ Txs' = Txs
  BY DEF Frontruns, Txs
<1> HIDE DEF new
<1>4. ShapeInv'
  BY <1>1, <1>2, <1>3 DEF ClaimInv, ShapeInv, Kinds, SingleKinds, Passes
<1>5. Apart'
  <2>1. ASSUME NEW s \in events', NEW f \in events', s.kind = "sandwich", f.kind = "frontrun"
        PROVE  Touched(s) \cap Touched(f) = {}
    <3>1. s \in events /\ Touched(s) \subseteq consumed
      BY <1>1, <1>2, <1>3, <2>1 DEF ClaimInv, NoFrontruns
    <3>2. f \in new
      BY <1>2, <1>3, <2>1 DEF ClaimInv, NoFrontruns
    <3> QED
      BY <1>1, <3>1, <3>2
  <2> QED
    BY <2>1 DEF Apart, Touched
<1>6. Kept'
  BY <1>2, <1>3 DEF ClaimInv, Kept
<1> QED
  BY <1>3, <1>4, <1>5, <1>6 DEF ClaimInv, ClaimsSettle, Classified

LEMMA ClaimsStep ==
  ASSUME ClaimInv, Claims
  PROVE  ClaimInv'
<1> DEFINE Settled(e) == [e EXCEPT !.exact = @ /\ e.basis = "R" /\ e.amt > 0]
<1>1. events' = {Settled(e) : e \in {f \in events : Stands(f)}}
  <2>1. {f \in events : Winner(f.tx) = f.kind} = {f \in events : Stands(f)}
    BY DEF Stands
  <2> QED
    BY <2>1, Zenon DEF Claims
<1>2. /\ emitted' = emitted /\ facts' = facts /\ pc = "claims" /\ pc' = "persist"
      /\ Txs' = Txs
  BY DEF Claims, Txs
<1>3. ASSUME NEW e \in events
      PROVE  /\ Shaped(Settled(e)) /\ Settled(e).kind = e.kind
             /\ Settled(e).tx = e.tx /\ Settled(e).also = e.also
  BY DEF ClaimInv, ShapeInv, Shaped
<1> HIDE DEF Settled
<1>4. \A e \in events : Touched(Settled(e)) = Touched(e)
  BY <1>3 DEF Touched
<1>5. \A e : Stands(e) => e \in events
  BY DEF Stands
<1>6. ShapeInv'
  BY <1>1, <1>2, <1>3, <1>5 DEF ClaimInv, ShapeInv, Passes
<1>7. ShapeInv /\ Apart /\ Kept
  BY <1>2 DEF ClaimInv
<1>8. ASSUME NEW e \in emitted PROVE \E f \in events' : e.tx \in Touched(f)
  <2>1. PICK f \in events : f.tx = e.tx
    BY <1>7 DEF Kept
  <2>2. PICK g : Stands(g) /\ f.tx \in Touched(g)
    BY <1>7, OneStands
  <2>3. Settled(g) \in events' /\ e.tx \in Touched(Settled(g))
    BY <1>1, <1>4, <1>5, <2>1, <2>2
  <2> QED
    BY <2>3
<1>9. ASSUME NEW e \in events', NEW f \in events', Touched(e) \cap Touched(f) # {}
      PROVE  e.kind = f.kind
  <2>1. PICK g : Stands(g) /\ e = Settled(g)
    BY <1>1
  <2>2. PICK h : Stands(h) /\ f = Settled(h)
    BY <1>1
  <2>3. Touched(g) \cap Touched(h) # {}
    BY <1>4, <1>5, <1>9, <2>1, <2>2
  <2>4. g.kind = h.kind
    BY <1>7, <2>1, <2>2, <2>3, OneKindStands
  <2> QED
    BY <1>3, <1>5, <2>1, <2>2, <2>4
<1>10. ClaimsSettle'
  BY <1>2, <1>8, <1>9 DEF ClaimsSettle, Touched
<1> QED
  BY <1>2, <1>6, <1>10 DEF ClaimInv

LEMMA NextBlockStep ==
  ASSUME ClaimInv, NextBlock
  PROVE  ClaimInv'
<1>1. PICK block \in Blocks :
         LET at == Ascending(Succeeded(block))
         IN  facts' = [k \in DOMAIN at |-> [tx |-> at[k], f |-> Decoded[block[at[k]]]]]
  BY DEF NextBlock
<1> DEFINE at == Ascending(Succeeded(block))
<1>2. \A k \in DOMAIN at : at[k] \in Nat
  BY PlacesAreNumbers
<1>3. facts' = [k \in DOMAIN at |-> [tx |-> at[k], f |-> Decoded[block[at[k]]]]]
  BY <1>1, Zenon
<1> HIDE DEF at
<1>4. Txs' \subseteq Nat
  <2>1. \A k \in DOMAIN facts' : facts'[k].tx \in Nat
    BY <1>2, <1>3
  <2> QED
    BY <2>1 DEF Txs
<1>5. events' = {} /\ emitted' = {} /\ pc' = "liquidations"
  BY DEF NextBlock
<1> QED
  BY <1>4, <1>5 DEF ClaimInv, ShapeInv, Passes, NoBundles, Kept, ClaimsSettle, Classified

LEMMA PersistStep ==
  ASSUME ClaimInv, Persist
  PROVE  ClaimInv'
<1>1. /\ events' = events /\ emitted' = emitted /\ pc' = "next" /\ Txs' = Txs
  BY DEF Persist, Txs
<1> QED
  BY <1>1 DEF ClaimInv, ShapeInv, Passes, ClaimsSettle, Classified

LEMMA InitClaims == Init => ClaimInv
<1> SUFFICES ASSUME Init PROVE ClaimInv
  OBVIOUS
<1>1. Txs = {}
  <2>1. DOMAIN facts = {}
    BY DEF Init
  <2> QED
    BY <2>1 DEF Txs
<1> QED
  BY <1>1 DEF Init, ClaimInv, ShapeInv, Passes, ClaimsSettle, Classified

LEMMA NextClaims == ClaimInv /\ [Next]_vars => ClaimInv'
<1> SUFFICES ASSUME ClaimInv, [Next]_vars PROVE ClaimInv'
  OBVIOUS
<1>1. CASE UNCHANGED vars
  <2>1. /\ pc' = pc /\ events' = events /\ emitted' = emitted /\ consumed' = consumed
        /\ Txs' = Txs
    BY <1>1 DEF vars, Txs
  <2>2. ShapeInv' = ShapeInv
    BY <2>1, Zenon DEF ShapeInv
  <2>3. NoBundles' = NoBundles /\ NoFrontruns' = NoFrontruns /\ Apart' = Apart
    BY <2>1, Zenon DEF NoBundles, NoFrontruns, Apart, Touched
  <2>4. Kept' = Kept
    BY <2>1, Zenon DEF Kept
  <2>5. ClaimsSettle' = ClaimsSettle
    BY <2>1, Zenon DEF ClaimsSettle, Classified, Touched
  <2> QED
    BY <2>1, <2>2, <2>3, <2>4, <2>5, Zenon DEF ClaimInv
<1>2. CASE Next
  BY <1>2, NextBlockStep, LiquidationsStep, SkimsStep, ArbsStep, JitStep, SandwichesStep,
     FrontrunsStep, BackrunsStep, ClaimsStep, PersistStep DEF Next
<1> QED
  BY <1>1, <1>2

(* Of each transaction of which a pass found something one event stands, on it *)
(* or closing with it, and those that touch it are of one kind, whatever the   *)
(* blocks, the pools and the window are (resolve_claims after classify_block). *)
THEOREM ClaimsAreSettled == Spec => []ClaimsSettle
<1>1. ClaimInv => ClaimsSettle
  BY DEF ClaimInv
<1> QED
  BY <1>1, InitClaims, NextClaims, PTL DEF Spec
===============================================================================
