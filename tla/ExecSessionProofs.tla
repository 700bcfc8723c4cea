------------------------- MODULE ExecSessionProofs -------------------------
(* Theorems about ExecSession, for every set of opportunities, every sequence of *)
(* passes, any pools, prices and gas, and any number of failures.                *)
EXTENDS ExecSession, FiniteSetTheorems, WellFoundedInduction, TLAPS

(* A nonempty set of numbers has a least element.                          *)
LEMMA LeastExists ==
  ASSUME NEW S, S \subseteq Nat, S # {}
  PROVE  \E x \in S : \A y \in S : x <= y
<1>1. PICK x \in S : \A y \in S : ~ (<<y, x>> \in OpToRel(<, Nat))
  BY NatLessThanWellFounded, WFMin
<1>2. \A y \in S : ~ (y < x)
  BY <1>1 DEF OpToRel
<1> QED
  BY <1>2

----------------------------------------------------------------------------
(* The order in which a ledger takes its opportunities.                      *)

(* What an opportunity is sorted by is five numbers.                         *)
LEMMA SortKeyIs ==
  ASSUME NEW o \in Opps
  PROVE  /\ \A i \in 1 .. 5 : SortKey(o)[i] \in Int
         /\ SortKey(o)[5] = o.id
<1>1. {o.id, o.block, o.tx, o.profit, o.gas} \subseteq Nat
  BY OppsAssumption
<1>2. NetWei(o) \in Int
  BY <1>1, LedgerAssumption DEF NetWei, AsSigned, Lesser
<1> DEFINE n == NetWei(o)
<1>3. SortKey(o) = <<o.block, 0 - n, IF o.mempool THEN 1 ELSE 0, o.tx, o.id>>
  BY DEF SortKey
<1>4. n \in Int
  BY <1>2
<1> HIDE DEF n
<1>5. 1 .. 5 = {1, 2, 3, 4, 5}
  OBVIOUS
<1> QED
  BY <1>1, <1>3, <1>4, <1>5

(* Sequences of five numbers, compared from the left.                        *)
Smaller(x, y) ==
    \E i \in 1 .. 5 : x[i] < y[i] /\ \A j \in 1 .. i - 1 : x[j] = y[j]

(* It is a strict order, and total where the last numbers differ.           *)
LEMMA SmallerIsOrder ==
  ASSUME NEW x, NEW y, NEW z,
         \A i \in 1 .. 5 : x[i] \in Int /\ y[i] \in Int /\ z[i] \in Int
  PROVE  /\ ~Smaller(x, x)
         /\ Smaller(x, y) /\ Smaller(y, z) => Smaller(x, z)
         /\ x[5] # y[5] => Smaller(x, y) \/ Smaller(y, x)
<1>1. ~Smaller(x, x)
  BY DEF Smaller
<1>2. ASSUME Smaller(x, y), Smaller(y, z) PROVE Smaller(x, z)
  <2>1. PICK i \in 1 .. 5 : x[i] < y[i] /\ \A j \in 1 .. i - 1 : x[j] = y[j]
    BY <1>2 DEF Smaller
  <2>2. PICK k \in 1 .. 5 : y[k] < z[k] /\ \A j \in 1 .. k - 1 : y[j] = z[j]
    BY <1>2 DEF Smaller
  <2>3. PICK m \in 1 .. 5 : m <= i /\ m <= k /\ (m = i \/ m = k)
    <3>1. CASE i <= k
      BY <3>1
    <3>2. CASE ~(i <= k)
      BY <3>2
    <3> QED
      BY <3>1, <3>2
  <2>4. x[m] < z[m]
    <3>1. x[m] <= y[m]
      BY <2>1, <2>3
    <3>2. y[m] <= z[m]
      BY <2>2, <2>3
    <3>3. x[m] < y[m] \/ y[m] < z[m]
      BY <2>1, <2>2, <2>3
    <3>4. x[m] \in Int /\ y[m] \in Int /\ z[m] \in Int
      OBVIOUS
    <3> QED
      BY <3>1, <3>2, <3>3, <3>4
  <2>5. \A j \in 1 .. m - 1 : x[j] = z[j]
    <3>1. \A j \in 1 .. m - 1 : j \in 1 .. i - 1 /\ j \in 1 .. k - 1
      BY <2>3
    <3> QED
      BY <2>1, <2>2, <3>1
  <2> QED
    BY <2>4, <2>5 DEF Smaller
<1>3. ASSUME x[5] # y[5] PROVE Smaller(x, y) \/ Smaller(y, x)
  <2> DEFINE D == {i \in 1 .. 5 : x[i] # y[i]}
  <2>1. D # {} /\ D \subseteq Nat
    BY <1>3
  <2>2. PICK i \in D : \A j \in D : i <= j
    <3> HIDE DEF D
    <3> QED
      BY <2>1, LeastExists
  <2>3. i \in 1 .. 5 /\ x[i] # y[i]
    OBVIOUS
  <2>4. \A j \in 1 .. i - 1 : x[j] = y[j]
    <3>1. \A j \in 1 .. i - 1 : j \in 1 .. 5 /\ ~(i <= j)
      BY <2>3
    <3> QED
      BY <2>2, <3>1
  <2>5. x[i] < y[i] \/ y[i] < x[i]
    BY <2>3
  <2> QED
    BY <2>3, <2>4, <2>5 DEF Smaller
<1> QED
  BY <1>1, <1>2, <1>3

(* The order is strict and total, as no two have the same id.                *)
LEMMA RankedIsOrder ==
  ASSUME NEW a \in Opps, NEW b \in Opps, NEW c \in Opps
  PROVE  /\ ~RankedBefore(a, a)
         /\ RankedBefore(a, b) /\ RankedBefore(b, c) => RankedBefore(a, c)
         /\ a # b => RankedBefore(a, b) \/ RankedBefore(b, a)
<1> DEFINE x == SortKey(a)
           y == SortKey(b)
           z == SortKey(c)
<1>1. \A i \in 1 .. 5 : x[i] \in Int /\ y[i] \in Int /\ z[i] \in Int
  BY SortKeyIs
<1>2. a # b => x[5] # y[5]
  BY SortKeyIs, OppsAssumption
<1>3. /\ RankedBefore(a, a) <=> Smaller(x, x)
      /\ RankedBefore(a, b) <=> Smaller(x, y)
      /\ RankedBefore(b, a) <=> Smaller(y, x)
      /\ RankedBefore(b, c) <=> Smaller(y, z)
      /\ RankedBefore(a, c) <=> Smaller(x, z)
  BY DEF RankedBefore, Smaller
<1> HIDE DEF x, y, z
<1> QED
  BY <1>1, <1>2, <1>3, SmallerIsOrder

(* Those that come before an opportunity.                                    *)
Ahead(s, o) == {e \in s : RankedBefore(e, o)}

(* Whoever comes before another has fewer before it.                        *)
LEMMA AheadGrows ==
  ASSUME NEW s \in SUBSET Opps, NEW a \in s, NEW b \in s
  PROVE  /\ IsFiniteSet(s)
         /\ Cardinality(Ahead(s, a)) \in 0 .. Cardinality(s) - 1
         /\ RankedBefore(a, b) => Cardinality(Ahead(s, a)) < Cardinality(Ahead(s, b))
         /\ a # b => Cardinality(Ahead(s, a)) # Cardinality(Ahead(s, b))
<1>1. IsFiniteSet(s)
  BY OppsAssumption, FS_Subset
<1>2. \A e \in s : IsFiniteSet(Ahead(s, e)) /\ Cardinality(Ahead(s, e)) \in Nat
  <2> TAKE e \in s
  <2>1. Ahead(s, e) \in SUBSET s
    BY DEF Ahead
  <2> QED
    BY <1>1, <2>1, FS_Subset, FS_CardinalityType
<1>3. \A e, f \in s : RankedBefore(e, f) => Cardinality(Ahead(s, e)) < Cardinality(Ahead(s, f))
  <2> SUFFICES ASSUME NEW e \in s, NEW f \in s, RankedBefore(e, f)
               PROVE  Cardinality(Ahead(s, e)) < Cardinality(Ahead(s, f))
    OBVIOUS
  <2>1. Ahead(s, e) \in SUBSET Ahead(s, f)
    BY RankedIsOrder DEF Ahead
  <2>2. e \in Ahead(s, f) /\ e \notin Ahead(s, e)
    BY RankedIsOrder DEF Ahead
  <2>3. /\ Cardinality(Ahead(s, e)) <= Cardinality(Ahead(s, f))
        /\ Cardinality(Ahead(s, f)) = Cardinality(Ahead(s, e)) => Ahead(s, f) = Ahead(s, e)
    BY <1>2, <2>1, FS_Subset
  <2> QED
    BY <1>2, <2>2, <2>3
<1>4. Cardinality(Ahead(s, a)) \in 0 .. Cardinality(s) - 1
  <2>1. Ahead(s, a) \in SUBSET s
    BY DEF Ahead
  <2>2. a \in s /\ a \notin Ahead(s, a)
    BY RankedIsOrder DEF Ahead
  <2>3. /\ Cardinality(Ahead(s, a)) <= Cardinality(s)
        /\ Cardinality(s) = Cardinality(Ahead(s, a)) => s = Ahead(s, a)
    BY <1>1, <2>1, FS_Subset
  <2>4. Cardinality(s) \in Nat
    BY <1>1, FS_CardinalityType
  <2> QED
    BY <1>2, <2>2, <2>3, <2>4
<1>5. RankedBefore(a, b) => Cardinality(Ahead(s, a)) < Cardinality(Ahead(s, b))
  BY <1>3
<1>6. a # b => Cardinality(Ahead(s, a)) # Cardinality(Ahead(s, b))
  <2>1. a # b => RankedBefore(a, b) \/ RankedBefore(b, a)
    BY RankedIsOrder
  <2> QED
    BY <1>2, <1>3, <2>1
<1> QED
  BY <1>1, <1>4, <1>5, <1>6

(* Ranked lists each opportunity of a set once, in the order.                *)
LEMMA RankedLists ==
  ASSUME NEW s \in SUBSET Opps
  PROVE  /\ Cardinality(s) \in Nat
         /\ Ranked(s) \in Seq(s) /\ Len(Ranked(s)) = Cardinality(s)
         /\ \A i, j \in 1 .. Cardinality(s) : i # j => Ranked(s)[i] # Ranked(s)[j]
         /\ \A o \in s : \E i \in 1 .. Cardinality(s) : Ranked(s)[i] = o
         /\ \A i, j \in 1 .. Cardinality(s) : i < j => RankedBefore(Ranked(s)[i], Ranked(s)[j])
<1> DEFINE n == Cardinality(s)
           rank == [o \in s |-> Cardinality(Ahead(s, o))]
<1>1. IsFiniteSet(s) /\ n \in Nat
  BY OppsAssumption, FS_Subset, FS_CardinalityType
<1>2. rank \in [s -> 0 .. n - 1] /\ \A a, b \in s : a # b => rank[a] # rank[b]
  BY AheadGrows
<1>3. rank \in Injection(s, 0 .. n - 1)
  <2> HIDE DEF rank
  <2> QED
    BY <1>2 DEF Injection, IsInjective
<1>4. IsFiniteSet(0 .. n - 1) /\ Cardinality(0 .. n - 1) = n
  <2> HIDE DEF n
  <2> QED
    BY <1>1, FS_Interval
<1>5. rank \in Surjection(s, 0 .. n - 1)
  BY <1>3, <1>4, FS_Injection
<1>6. \A k \in 0 .. n - 1 : \E o \in s : Cardinality(Ahead(s, o)) = k
  BY <1>5 DEF Surjection
<1>7. \A i \in 1 .. n : Ranked(s)[i] = CHOOSE o \in s : Cardinality(Ahead(s, o)) = i - 1
  BY DEF Ranked, Ahead
<1>8. \A i \in 1 .. n : Ranked(s)[i] \in s /\ Cardinality(Ahead(s, Ranked(s)[i])) = i - 1
  <2> TAKE i \in 1 .. n
  <2>1. i - 1 \in 0 .. n - 1
    BY <1>1
  <2> QED
    BY <1>6, <1>7, <2>1
<1>9. Ranked(s) \in Seq(s) /\ Len(Ranked(s)) = n
  <2>1. Ranked(s) = [i \in 1 .. n |-> CHOOSE o \in s : Cardinality(Ahead(s, o)) = i - 1]
    BY DEF Ranked, Ahead
  <2>2. DOMAIN Ranked(s) = 1 .. n /\ Ranked(s) = [i \in 1 .. n |-> Ranked(s)[i]]
    BY <2>1
  <2> HIDE DEF n
  <2> QED
    BY <1>1, <1>8, <2>2
<1>10. \A i, j \in 1 .. n : i # j => Ranked(s)[i] # Ranked(s)[j]
  BY <1>1, <1>8
<1>11. \A o \in s : \E i \in 1 .. n : Ranked(s)[i] = o
  <2> TAKE o \in s
  <2> DEFINE i == Cardinality(Ahead(s, o)) + 1
  <2>1. i \in 1 .. n /\ Cardinality(Ahead(s, o)) = i - 1
    BY <1>1, AheadGrows
  <2>2. Ranked(s)[i] \in s /\ Cardinality(Ahead(s, Ranked(s)[i])) = i - 1
    BY <1>8, <2>1
  <2>3. Ranked(s)[i] = o
    BY <2>1, <2>2, AheadGrows
  <2> QED
    BY <2>1, <2>3
<1>12. \A i, j \in 1 .. n : i < j => RankedBefore(Ranked(s)[i], Ranked(s)[j])
  <2> SUFFICES ASSUME NEW i \in 1 .. n, NEW j \in 1 .. n, i < j
               PROVE  RankedBefore(Ranked(s)[i], Ranked(s)[j])
    OBVIOUS
  <2> DEFINE a == Ranked(s)[i]
             b == Ranked(s)[j]
  <2>1. a \in s /\ b \in s /\ Cardinality(Ahead(s, a)) = i - 1 /\ Cardinality(Ahead(s, b)) = j - 1
    BY <1>8
  <2> HIDE DEF a, b
  <2>2. a # b /\ ~(Cardinality(Ahead(s, b)) < Cardinality(Ahead(s, a)))
    BY <1>1, <2>1
  <2>3. RankedBefore(a, b)
    BY <2>1, <2>2, RankedIsOrder, AheadGrows
  <2> QED
    BY <2>3 DEF a, b
<1> QED
  BY <1>1, <1>9, <1>10, <1>11, <1>12

----------------------------------------------------------------------------
(* One booking.                                                              *)

LedgerFields == {"wallet", "peak", "drawdown", "fills", "skips", "net", "gas", "reverts",
                 "revertGas", "loss", "block", "count", "used", "overlay", "written"}
Reasons == {"not_native_unit", "non_positive_net", "max_fills_per_block", "insufficient_gas"}
Whys == Reasons \union {"exec_strategy_unsupported", "exec_build_failed", "exec_revert",
                        "pool_conflict", "sim_strategy_unsupported", "sim_not_quotable",
                        "sim_path_unavailable", "sim_repay_shortfall", "sim_price_consumed"}
Skips == [id : Nat, why : Whys]
Fills == [id : Nat, block : Nat, net : Int, gross : Int, drift : BOOLEAN]

(* What an execution may be left out for is among the reasons.              *)
LEMMA WhysHas == {"exec_build_failed", "exec_revert", "non_positive_net"} \subseteq Whys
  BY DEF Whys, Reasons

(* A ledger whose numbers account for its wallet.                            *)
Solvent(l) ==
    /\ l = [f \in LedgerFields |-> l[f]]
    /\ l.skips \in Seq(Skips) /\ l.fills \in Seq(Fills)
    /\ l.wallet \in Nat /\ l.peak \in Nat /\ l.drawdown \in Nat
    /\ l.net \in Int /\ l.revertGas \in Int /\ l.loss \in Int
    /\ l.peak >= Starting /\ Accounted(l)

(* Two ledgers that have booked the same.                                    *)
SameLists(l, m) == l.skips = m.skips /\ l.fills = m.fills
SameBlock(l, m) == l.block = m.block /\ l.used = m.used /\ l.overlay = m.overlay

(* A ledger begins empty and accounts for its wallet.                       *)
LEMMA NewLedgerIs == Solvent(NewLedger) /\ NewLedger.skips = <<>> /\ NewLedger.fills = <<>>
<1> DEFINE l == NewLedger
<1>1. /\ l = [f \in LedgerFields |-> l[f]] /\ l.skips = <<>> /\ l.fills = <<>>
      /\ l.wallet = Starting /\ l.peak = Starting /\ l.drawdown = 0
      /\ l.net = 0 /\ l.revertGas = 0 /\ l.loss = 0
  BY DEF NewLedger, LedgerFields
<1>2. <<>> \in Seq(Skips) /\ <<>> \in Seq(Fills)
  OBVIOUS
<1>3. Starting \in Nat
  BY LedgerAssumption
<1> HIDE DEF l
<1>4. Accounted(l)
  BY <1>1, <1>3 DEF Accounted, Balance
<1>5. l.skips \in Seq(Skips) /\ l.fills \in Seq(Fills)
  BY <1>1, <1>2
<1>6. Solvent(l)
  BY <1>1, <1>3, <1>4, <1>5 DEF Solvent
<1> QED
  BY <1>1, <1>6 DEF l

(* A gate is open or names a reason, which is never that of a run.           *)
LEMMA GateIs ==
  ASSUME NEW l, NEW o
  PROVE  /\ Gate(l, o) \in Reasons \union {"open"}
         /\ ExecGate(l, o) \in Reasons \union {"open", "exec_strategy_unsupported"}
<1> DEFINE checks == << <<~NativeEligible(o), "not_native_unit">>,
                        <<NetWei(o) <= 0, "non_positive_net">>,
                        <<l.count >= MaxFills, "max_fills_per_block">>,
                        <<o.gas > Less0(l.wallet, Reserve), "insufficient_gas">> >>
           shut == {i \in DOMAIN checks : checks[i][1]}
<1>1. Gate(l, o) = IF shut = {} THEN "open" ELSE checks[Min(shut)][2]
  BY DEF Gate
<1>2. shut \subseteq 1 .. 4
  <2>1. DOMAIN checks = 1 .. 4
    OBVIOUS
  <2> HIDE DEF checks
  <2> QED
    BY <2>1
<1>3. ASSUME shut # {} PROVE Min(shut) \in 1 .. 4
  <2>1. PICK x \in shut : \A y \in shut : x <= y
    <3> HIDE DEF shut
    <3>1. shut \subseteq Nat
      BY <1>2
    <3> QED
      BY <1>3, <3>1, LeastExists
  <2> HIDE DEF shut
  <2>2. Min(shut) \in shut
    BY <2>1 DEF Min
  <2> QED
    BY <1>2, <2>2
<1>4. \A i \in 1 .. 4 : checks[i][2] \in Reasons
  <2>1. /\ checks[1][2] = "not_native_unit" /\ checks[2][2] = "non_positive_net"
        /\ checks[3][2] = "max_fills_per_block" /\ checks[4][2] = "insufficient_gas"
    OBVIOUS
  <2> HIDE DEF checks
  <2>2. 1 .. 4 = {1, 2, 3, 4}
    OBVIOUS
  <2> QED
    BY <2>1, <2>2 DEF Reasons
<1>5. Gate(l, o) \in Reasons \union {"open"}
  <2> HIDE DEF shut, checks
  <2> QED
    BY <1>1, <1>3, <1>4
<1> QED
  BY <1>5 DEF ExecGate, Reasons

(* The wallet moves, and one of the totals with it by as much; a wallet that *)
(* is emptied has lost at least its start.                                   *)
LEMMA MovedIs ==
  ASSUME NEW l, Solvent(l), NEW delta \in Int
  PROVE  LET m == Moved(l, delta)
         IN  /\ m = [f \in LedgerFields |-> m[f]]
             /\ SameLists(m, l) /\ SameBlock(m, l)
             /\ m.net = l.net /\ m.revertGas = l.revertGas /\ m.loss = l.loss
             /\ m.wallet \in Nat /\ m.peak \in Nat /\ m.drawdown \in Nat /\ m.peak >= Starting
             /\ m.wallet >= Balance(l) + delta
             /\ m.drawdown < Starting => m.wallet = Balance(l) + delta
             /\ m.peak >= m.wallet /\ m.peak - m.wallet <= m.drawdown
<1> DEFINE m == Moved(l, delta)
           w == IF l.wallet + delta < 0 THEN 0 ELSE l.wallet + delta
<1>1. /\ m = [f \in LedgerFields |-> m[f]]
      /\ SameLists(m, l) /\ SameBlock(m, l)
      /\ m.net = l.net /\ m.revertGas = l.revertGas /\ m.loss = l.loss
      /\ m.wallet = w /\ m.peak = (IF w > l.peak THEN w ELSE l.peak)
      /\ m.drawdown = IF l.peak - w > l.drawdown THEN l.peak - w ELSE l.drawdown
  BY DEF Solvent, Moved, LedgerFields, SameLists, SameBlock
<1>2. Starting \in Nat /\ Balance(l) \in Int
  <2>1. Starting \in Nat
    BY LedgerAssumption
  <2> DEFINE earned == l.net
             gas == l.revertGas
             drained == l.loss
  <2>2. earned \in Int /\ gas \in Int /\ drained \in Int
    BY DEF Solvent
  <2>3. Balance(l) = Starting + earned - gas - drained
    BY DEF Balance
  <2> HIDE DEF earned, gas, drained
  <2> QED
    BY <2>1, <2>2, <2>3
<1>3. /\ l.wallet \in Nat /\ l.peak \in Nat /\ l.drawdown \in Nat /\ l.peak >= Starting
      /\ l.wallet >= Balance(l)
      /\ l.drawdown < Starting => l.wallet = Balance(l)
      /\ l.peak >= l.wallet /\ l.peak - l.wallet <= l.drawdown
  BY DEF Solvent, Accounted
<1>4. w \in Nat /\ (w = l.wallet + delta \/ (w = 0 /\ l.wallet + delta < 0))
  BY <1>3
<1> HIDE DEF w, m
<1>5. m.wallet \in Nat /\ m.peak \in Nat /\ m.drawdown \in Nat /\ m.peak >= Starting
  BY <1>1, <1>2, <1>3, <1>4
<1>6. m.peak >= m.wallet /\ m.peak - m.wallet <= m.drawdown
  BY <1>1, <1>3, <1>4
<1>7. m.wallet >= Balance(l) + delta
  BY <1>1, <1>2, <1>3, <1>4
<1>8. m.drawdown < Starting => m.wallet = Balance(l) + delta
  <2>1. l.drawdown <= m.drawdown /\ l.peak - w <= m.drawdown
    BY <1>1, <1>3, <1>4
  <2>2. m.drawdown < Starting => w # 0 \/ w = l.wallet + delta
    BY <1>2, <1>3, <1>4, <1>5, <2>1
  <2> QED
    BY <1>1, <1>2, <1>3, <1>4, <1>5, <2>1, <2>2
<1>9. /\ m = [f \in LedgerFields |-> m[f]]
      /\ SameLists(m, l) /\ SameBlock(m, l)
      /\ m.net = l.net /\ m.revertGas = l.revertGas /\ m.loss = l.loss
  BY <1>1
<1> QED
  BY <1>5, <1>6, <1>7, <1>8, <1>9 DEF m

(* A fill, which earns its net.                                              *)
LEMMA FilledIs ==
  ASSUME NEW l, Solvent(l), NEW o, o.id \in Nat, o.block \in Nat,
         NEW net \in Int, NEW gas \in Int, NEW drift \in BOOLEAN
  PROVE  LET k == Filled(l, o, net, gas, drift)
         IN  Solvent(k) /\ SameBlock(k, l) /\ k.skips = l.skips
             /\ k.fills = Append(l.fills, [id |-> o.id, block |-> o.block, net |-> net,
                                        gross |-> net + gas, drift |-> drift])
<1> DEFINE d == net
           m == Moved(l, d)
           k == Filled(l, o, net, gas, drift)
           e == [id |-> o.id, block |-> o.block, net |-> net, gross |-> net + gas, drift |-> drift]
<1>1. d \in Int
  OBVIOUS
<1>2. k = [m EXCEPT !.count = @ + 1, !.net = @ + net, !.gas = @ + gas,
                  !.fills = Append(@, e)]
  BY DEF Filled
<1> HIDE DEF d
<1>3. /\ m = [f \in LedgerFields |-> m[f]]
      /\ SameLists(m, l) /\ SameBlock(m, l)
      /\ m.net = l.net /\ m.revertGas = l.revertGas /\ m.loss = l.loss
      /\ m.wallet \in Nat /\ m.peak \in Nat /\ m.drawdown \in Nat /\ m.peak >= Starting
      /\ m.wallet >= Balance(l) + d
      /\ m.drawdown < Starting => m.wallet = Balance(l) + d
      /\ m.peak >= m.wallet /\ m.peak - m.wallet <= m.drawdown
  BY <1>1, MovedIs
<1> HIDE DEF m, k
<1>4. /\ k = [f \in LedgerFields |-> k[f]]
      /\ SameBlock(k, l) /\ k.skips = l.skips /\ k.wallet = m.wallet /\ k.peak = m.peak
      /\ k.drawdown = m.drawdown /\ k.net = l.net + net /\ k.revertGas = l.revertGas /\ k.loss = l.loss
  BY <1>2, <1>3 DEF LedgerFields, SameLists, SameBlock
<1>5. k.fills = Append(l.fills, e) /\ k.fills \in Seq(Fills) /\ k.skips \in Seq(Skips)
  <2>1. k.fills = Append(l.fills, e)
    BY <1>2, <1>3 DEF LedgerFields, SameLists
  <2>2. e \in Fills
    BY DEF Fills
  <2>3. l.fills \in Seq(Fills) /\ l.skips \in Seq(Skips)
    BY DEF Solvent
  <2> HIDE DEF e
  <2>4. Append(l.fills, e) \in Seq(Fills)
    BY <2>2, <2>3
  <2> QED
    BY <1>4, <2>1, <2>3, <2>4
<1>6. Starting \in Nat /\ l.net \in Int /\ l.revertGas \in Int /\ l.loss \in Int
  BY LedgerAssumption DEF Solvent
<1>7. Balance(k) = Balance(l) + d /\ Balance(k) \in Int
      /\ k.net \in Int /\ k.revertGas \in Int /\ k.loss \in Int
  BY <1>1, <1>4, <1>6 DEF Balance, d
<1>8. Solvent(k)
  BY <1>3, <1>4, <1>5, <1>7 DEF Solvent, Accounted
<1> QED
  BY <1>4, <1>5, <1>8 DEF k, e

(* A revert, which costs its gas.                                            *)
LEMMA RevertedIs ==
  ASSUME NEW l, Solvent(l), NEW gas \in Int
  PROVE  LET k == Reverted(l, gas)
         IN  Solvent(k) /\ SameBlock(k, l) /\ k.skips = l.skips
             /\ k.fills = l.fills
<1> DEFINE d == 0 - gas
           m == Moved(l, d)
           k == Reverted(l, gas)
<1>1. d \in Int
  OBVIOUS
<1>2. k = [m EXCEPT !.reverts = @ + 1, !.revertGas = @ + gas, !.gas = @ + gas]
  BY DEF Reverted
<1> HIDE DEF d
<1>3. /\ m = [f \in LedgerFields |-> m[f]]
      /\ SameLists(m, l) /\ SameBlock(m, l)
      /\ m.net = l.net /\ m.revertGas = l.revertGas /\ m.loss = l.loss
      /\ m.wallet \in Nat /\ m.peak \in Nat /\ m.drawdown \in Nat /\ m.peak >= Starting
      /\ m.wallet >= Balance(l) + d
      /\ m.drawdown < Starting => m.wallet = Balance(l) + d
      /\ m.peak >= m.wallet /\ m.peak - m.wallet <= m.drawdown
  BY <1>1, MovedIs
<1> HIDE DEF m, k
<1>4. /\ k = [f \in LedgerFields |-> k[f]]
      /\ SameBlock(k, l) /\ k.skips = l.skips /\ k.wallet = m.wallet /\ k.peak = m.peak
      /\ k.drawdown = m.drawdown /\ k.net = l.net /\ k.revertGas = l.revertGas + gas /\ k.loss = l.loss
  BY <1>2, <1>3 DEF LedgerFields, SameLists, SameBlock
<1>5. k.fills = l.fills /\ k.fills \in Seq(Fills) /\ k.skips \in Seq(Skips)
  <2>1. k.fills = l.fills
    BY <1>2, <1>3 DEF LedgerFields, SameLists
  <2> QED
    BY <1>4, <2>1 DEF Solvent
<1>6. Starting \in Nat /\ l.net \in Int /\ l.revertGas \in Int /\ l.loss \in Int
  BY LedgerAssumption DEF Solvent
<1>7. Balance(k) = Balance(l) + d /\ Balance(k) \in Int
      /\ k.net \in Int /\ k.revertGas \in Int /\ k.loss \in Int
  BY <1>1, <1>4, <1>6 DEF Balance, d
<1>8. Solvent(k)
  BY <1>3, <1>4, <1>5, <1>7 DEF Solvent, Accounted
<1> QED
  BY <1>4, <1>5, <1>8 DEF k

(* A run that ends at a loss.                                                *)
LEMMA LostIs ==
  ASSUME NEW l, Solvent(l), NEW a, a.net \in Int
  PROVE  LET k == Lost(l, a)
         IN  Solvent(k) /\ SameBlock(k, l) /\ k.skips = l.skips
             /\ k.fills = l.fills
<1> DEFINE d == a.net
           m == Moved(l, d)
           k == Lost(l, a)
<1>1. d \in Int
  OBVIOUS
<1>2. k = [m EXCEPT !.loss = @ - a.net, !.gas = @ + a.gas]
  BY DEF Lost
<1> HIDE DEF d
<1>3. /\ m = [f \in LedgerFields |-> m[f]]
      /\ SameLists(m, l) /\ SameBlock(m, l)
      /\ m.net = l.net /\ m.revertGas = l.revertGas /\ m.loss = l.loss
      /\ m.wallet \in Nat /\ m.peak \in Nat /\ m.drawdown \in Nat /\ m.peak >= Starting
      /\ m.wallet >= Balance(l) + d
      /\ m.drawdown < Starting => m.wallet = Balance(l) + d
      /\ m.peak >= m.wallet /\ m.peak - m.wallet <= m.drawdown
  BY <1>1, MovedIs
<1> HIDE DEF m, k
<1>4. /\ k = [f \in LedgerFields |-> k[f]]
      /\ SameBlock(k, l) /\ k.skips = l.skips /\ k.wallet = m.wallet /\ k.peak = m.peak
      /\ k.drawdown = m.drawdown /\ k.net = l.net /\ k.revertGas = l.revertGas /\ k.loss = l.loss - a.net
  BY <1>2, <1>3 DEF LedgerFields, SameLists, SameBlock
<1>5. k.fills = l.fills /\ k.fills \in Seq(Fills) /\ k.skips \in Seq(Skips)
  <2>1. k.fills = l.fills
    BY <1>2, <1>3 DEF LedgerFields, SameLists
  <2> QED
    BY <1>4, <2>1 DEF Solvent
<1>6. Starting \in Nat /\ l.net \in Int /\ l.revertGas \in Int /\ l.loss \in Int
  BY LedgerAssumption DEF Solvent
<1>7. Balance(k) = Balance(l) + d /\ Balance(k) \in Int
      /\ k.net \in Int /\ k.revertGas \in Int /\ k.loss \in Int
  BY <1>1, <1>4, <1>6 DEF Balance, d
<1>8. Solvent(k)
  BY <1>3, <1>4, <1>5, <1>7 DEF Solvent, Accounted
<1> QED
  BY <1>4, <1>5, <1>8 DEF k

(* Another block, and a skip, which cost nothing.                            *)
LEMMA AtBlockIs ==
  ASSUME NEW l, Solvent(l), NEW b
  PROVE  LET k == AtBlock(l, b)
         IN  Solvent(k) /\ SameLists(k, l) /\ k.block = b
             /\ IF l.block = b THEN k = l ELSE k.used = {} /\ k.overlay = <<>>
<1> DEFINE k == AtBlock(l, b)
<1>1. /\ k = [f \in LedgerFields |-> k[f]] /\ SameLists(k, l) /\ k.block = b
      /\ k.wallet = l.wallet /\ k.peak = l.peak /\ k.drawdown = l.drawdown
      /\ k.net = l.net /\ k.revertGas = l.revertGas /\ k.loss = l.loss
      /\ IF l.block = b THEN k = l ELSE k.used = {} /\ k.overlay = <<>>
  BY DEF Solvent, AtBlock, LedgerFields, SameLists
<1> HIDE DEF k
<1>2. Solvent(k)
  BY <1>1 DEF Solvent, Accounted, Balance, SameLists
<1> QED
  BY <1>1, <1>2 DEF k

(* A skip changes nothing but the list of skips.                            *)
LEMMA SkippedIs ==
  ASSUME NEW l, Solvent(l), NEW o, o.id \in Nat, NEW why \in Whys
  PROVE  LET k == Skipped(l, o, why)
         IN  Solvent(k) /\ SameBlock(k, l) /\ k.fills = l.fills
             /\ k.skips = Append(l.skips, [id |-> o.id, why |-> why])
<1> DEFINE e == [id |-> o.id, why |-> why]
           k == Skipped(l, o, why)
<1>1. e \in Skips
  BY DEF Skips
<1>2. k = [l EXCEPT !.skips = Append(@, e)]
  BY DEF Skipped
<1> HIDE DEF e, k
<1>3. /\ k = [f \in LedgerFields |-> k[f]] /\ k.skips = Append(l.skips, e) /\ k.fills = l.fills
      /\ SameBlock(k, l) /\ k.wallet = l.wallet /\ k.peak = l.peak /\ k.drawdown = l.drawdown
      /\ k.net = l.net /\ k.revertGas = l.revertGas /\ k.loss = l.loss
  BY <1>2 DEF Solvent, LedgerFields, SameBlock
<1>4. Append(l.skips, e) \in Seq(Skips)
  BY <1>1 DEF Solvent
<1>5. Solvent(k)
  BY <1>3, <1>4 DEF Solvent, Accounted, Balance
<1> QED
  BY <1>3, <1>5 DEF k, e

(* What a pass books is what its list and the answers kept say: each is shut *)
(* out, answered, or not to be had.                                          *)
BookOne(l, o, c) ==
    LET now == AtBlock(l, o.block)
    IN  IF ExecGate(now, o) # "open" THEN Skipped(now, o, ExecGate(now, o))
        ELSE Executed(now, o, IF o.id \in DOMAIN c THEN c[o.id] ELSE Failed("exec_build_failed"))

(* The ledger after each opportunity of a list.                              *)
Books(list, c) ==
    LET l[i \in 0 .. Len(list)] == IF i = 0 THEN NewLedger ELSE BookOne(l[i - 1], list[i], c)
    IN  l

(* The ledger after each of the opportunities of a list.                     *)
LEMMA BooksIs ==
  ASSUME NEW list, NEW c, Len(list) \in Nat
  PROVE  /\ DOMAIN Books(list, c) = 0 .. Len(list)
         /\ Books(list, c)[0] = NewLedger
         /\ \A i \in 1 .. Len(list) :
               Books(list, c)[i] = BookOne(Books(list, c)[i - 1], list[i], c)
<1> DEFINE Is(f, n) == f = [i \in 0 .. n |-> IF i = 0 THEN NewLedger ELSE BookOne(f[i - 1], list[i], c)]
           Bad == {n \in Nat : \A f : ~Is(f, n)}
<1>1. Bad = {}
  <2>1. SUFFICES ASSUME Bad # {} PROVE FALSE
    OBVIOUS
  <2>2. PICK n \in Bad : \A k \in Bad : n <= k
    <3>1. Bad \subseteq Nat
      OBVIOUS
    <3> HIDE DEF Bad
    <3> QED
      BY <2>1, <3>1, LeastExists
  <2>3. n \in Nat /\ \A f : ~Is(f, n)
    OBVIOUS
  <2>4. CASE n = 0
    <3> DEFINE f == [i \in 0 .. 0 |-> NewLedger]
    <3>1. Is(f, 0)
      OBVIOUS
    <3> QED
      BY <2>3, <2>4, <3>1
  <2>5. CASE n # 0
    <3>1. n - 1 \in Nat /\ ~(n <= n - 1)
      BY <2>3, <2>5
    <3>2. n - 1 \notin Bad
      <4> HIDE DEF Bad
      <4> QED
        BY <2>2, <3>1
    <3>3. PICK g : Is(g, n - 1)
      BY <3>1, <3>2
    <3> DEFINE f == [i \in 0 .. n |-> IF i = n THEN BookOne(g[n - 1], list[n], c) ELSE g[i]]
    <3>4. \A i \in 0 .. n - 1 : f[i] = g[i] /\ g[i] = IF i = 0 THEN NewLedger ELSE BookOne(g[i - 1], list[i], c)
      BY <2>3, <3>1, <3>3
    <3>5. \A i \in 0 .. n : f[i] = IF i = 0 THEN NewLedger ELSE BookOne(f[i - 1], list[i], c)
      <4>1. \A i \in 1 .. n : f[i - 1] = g[i - 1]
        BY <2>3, <3>4
      <4>2. f[n] = BookOne(g[n - 1], list[n], c)
        BY <2>3
      <4> HIDE DEF f
      <4> QED
        BY <2>3, <2>5, <3>4, <4>1, <4>2
    <3>6. Is(f, n)
      <4>1. f = [i \in 0 .. n |-> f[i]]
        OBVIOUS
      <4> HIDE DEF f
      <4> QED
        BY <3>5, <4>1
    <3> QED
      BY <2>3, <3>6
  <2> QED
    BY <2>4, <2>5
<1>2. \E f : Is(f, Len(list))
  BY <1>1
<1>3. Books(list, c) = CHOOSE f : Is(f, Len(list))
  BY DEF Books
<1>4. Is(Books(list, c), Len(list))
  BY <1>2, <1>3
<1>5. \A i \in 0 .. Len(list) : Books(list, c)[i] = IF i = 0 THEN NewLedger ELSE BookOne(Books(list, c)[i - 1], list[i], c)
  BY <1>4
<1>6. DOMAIN Books(list, c) = 0 .. Len(list)
  BY <1>4
<1> HIDE DEF Bad, Is
<1> QED
  BY <1>5, <1>6


(* A ledger that has taken an opportunity: it is a skip or a fill.           *)
Skips1(l, o, m, whys) ==
    m.fills = l.fills /\ \E why \in whys : m.skips = Append(l.skips, [id |-> o.id, why |-> why])
Fills1(l, o, m) ==
    /\ m.skips = l.skips
    /\ \E f \in Fills : f.id = o.id /\ f.block = o.block /\ m.fills = Append(l.fills, f)
Takes(l, o, m) ==
    Solvent(m) /\ m.block = o.block /\ (Skips1(l, o, m, Whys) \/ Fills1(l, o, m))

(* The answers of a backend are runs, or end with exec_revert.               *)
AnswerOk(a) == a.fail \in {"none", "exec_revert"} /\ a.net \in Int /\ a.gas \in Int
Kept(c) == \A id \in DOMAIN c : AnswerOk(c[id])

(* One more opportunity. Without an answer it is not a fill, and not a       *)
(* revert; with an open gate it is then one that could not be built.         *)
LEMMA BookOneTakes ==
  ASSUME NEW l, Solvent(l), NEW o, o.id \in Nat, o.block \in Nat, NEW c, Kept(c)
  PROVE  /\ Takes(l, o, BookOne(l, o, c))
         /\ o.id \notin DOMAIN c => Skips1(l, o, BookOne(l, o, c), Whys \ {"exec_revert"})
         /\ (ExecGate(AtBlock(l, o.block), o) = "open" /\ o.id \notin DOMAIN c) =>
               Skips1(l, o, BookOne(l, o, c), {"exec_build_failed"})
<1> DEFINE now == AtBlock(l, o.block)
           gate == ExecGate(now, o)
           a == IF o.id \in DOMAIN c THEN c[o.id] ELSE Failed("exec_build_failed")
           k == BookOne(l, o, c)
<1>1. Solvent(now) /\ SameLists(now, l) /\ now.block = o.block
  BY AtBlockIs
<1>2. gate # "open" => gate \in Whys \ {"exec_revert"}
  BY GateIs DEF Whys, Reasons
<1>3. k = IF gate # "open" THEN Skipped(now, o, gate) ELSE Executed(now, o, a)
  BY DEF BookOne
<1>4. /\ o.id \in DOMAIN c => AnswerOk(a)
      /\ o.id \notin DOMAIN c => a.fail = "exec_build_failed"
  BY DEF Failed, Kept
<1> SUFFICES /\ Takes(l, o, k)
             /\ o.id \notin DOMAIN c => Skips1(l, o, k, Whys \ {"exec_revert"})
             /\ (gate = "open" /\ o.id \notin DOMAIN c) => Skips1(l, o, k, {"exec_build_failed"})
  OBVIOUS
<1> HIDE DEF now, gate, a, k
<1>5. ASSUME NEW r, Solvent(r), SameLists(r, l), r.block = o.block, NEW why \in Whys,
             k = Skipped(r, o, why)
      PROVE  Takes(l, o, k) /\ Skips1(l, o, k, {why})
  <2>1. /\ Solvent(k) /\ SameBlock(k, r) /\ k.fills = r.fills
        /\ k.skips = Append(r.skips, [id |-> o.id, why |-> why])
    BY <1>5, SkippedIs
  <2> QED
    BY <1>5, <2>1 DEF Takes, Skips1, SameLists, SameBlock
<1>6. CASE gate # "open"
  <2>1. Takes(l, o, k) /\ Skips1(l, o, k, {gate})
    BY <1>1, <1>2, <1>3, <1>5, <1>6
  <2> QED
    BY <1>2, <1>6, <2>1 DEF Skips1
<1>7. CASE gate = "open" /\ o.id \notin DOMAIN c
  <2>1. k = Skipped(now, o, "exec_build_failed")
    BY <1>3, <1>4, <1>7 DEF Executed
  <2>2. Takes(l, o, k) /\ Skips1(l, o, k, {"exec_build_failed"})
    BY <1>1, <1>5, <2>1, WhysHas
  <2> QED
    BY <1>7, <2>2, WhysHas DEF Skips1
<1>8. CASE gate = "open" /\ o.id \in DOMAIN c
  <2>1. AnswerOk(a) /\ k = Executed(now, o, a)
    BY <1>3, <1>4, <1>8
  <2>2. \/ k = Skipped(Reverted(now, a.gas), o, "exec_revert")
        \/ k = Skipped(Lost(now, a), o, "non_positive_net")
        \/ k = Filled(now, o, a.net, a.gas, now.count > 0)
    BY <2>1 DEF Executed, AnswerOk
  <2>3. CASE k = Skipped(Reverted(now, a.gas), o, "exec_revert")
    <3> DEFINE r == Reverted(now, a.gas)
    <3>1. Solvent(r) /\ SameBlock(r, now) /\ r.skips = now.skips /\ r.fills = now.fills
      BY <1>1, <2>1, RevertedIs DEF AnswerOk
    <3> HIDE DEF r
    <3>2. SameLists(r, l) /\ r.block = o.block
      BY <1>1, <3>1 DEF SameLists, SameBlock
    <3>3. Takes(l, o, k)
      BY <1>5, <2>3, <3>1, <3>2, WhysHas DEF r
    <3> QED
      BY <1>8, <3>3
  <2>4. CASE k = Skipped(Lost(now, a), o, "non_positive_net")
    <3> DEFINE r == Lost(now, a)
    <3>1. Solvent(r) /\ SameBlock(r, now) /\ r.skips = now.skips /\ r.fills = now.fills
      BY <1>1, <2>1, LostIs DEF AnswerOk
    <3> HIDE DEF r
    <3>2. SameLists(r, l) /\ r.block = o.block
      BY <1>1, <3>1 DEF SameLists, SameBlock
    <3>3. Takes(l, o, k)
      BY <1>5, <2>4, <3>1, <3>2, WhysHas DEF r
    <3> QED
      BY <1>8, <3>3
  <2>5. CASE k = Filled(now, o, a.net, a.gas, now.count > 0)
    <3> DEFINE drift == now.count > 0
               f == [id |-> o.id, block |-> o.block, net |-> a.net,
                     gross |-> a.net + a.gas, drift |-> drift]
    <3>1. drift \in BOOLEAN
      OBVIOUS
    <3> HIDE DEF drift
    <3>2. k = Filled(now, o, a.net, a.gas, drift)
      BY <2>5 DEF drift
    <3>3. Solvent(k) /\ SameBlock(k, now) /\ k.skips = now.skips /\ k.fills = Append(now.fills, f)
      BY <1>1, <2>1, <3>1, <3>2, FilledIs DEF AnswerOk
    <3>4. f \in Fills /\ f.id = o.id /\ f.block = o.block
      BY <2>1, <3>1 DEF Fills, AnswerOk
    <3> HIDE DEF f
    <3>5. Takes(l, o, k)
      BY <1>1, <3>3, <3>4 DEF Takes, Fills1, SameLists, SameBlock
    <3> QED
      BY <1>8, <3>5
  <2> QED
    BY <2>2, <2>3, <2>4, <2>5
<1> QED
  BY <1>6, <1>7, <1>8

----------------------------------------------------------------------------
(* A whole list, whichever way it is booked.                                 *)

BookedBy(list, b) ==
    /\ b[0] = NewLedger
    /\ \A i \in 1 .. Len(list) : Solvent(b[i - 1]) => Takes(b[i - 1], list[i], b[i])

(* The wallet is accounted for after each.                                   *)
LEMMA BookedSolvent ==
  ASSUME NEW list, Len(list) \in Nat, NEW b, BookedBy(list, b)
  PROVE  /\ \A n \in 0 .. Len(list) : Solvent(b[n])
         /\ \A n \in 1 .. Len(list) : Solvent(b[n - 1]) /\ Takes(b[n - 1], list[n], b[n])
<1> DEFINE Bad == {n \in Nat : n <= Len(list) /\ ~Solvent(b[n])}
<1>1. \A n \in 0 .. Len(list) : Solvent(b[n])
  <2>1. SUFFICES Bad = {}
    OBVIOUS
  <2>2. SUFFICES ASSUME Bad # {} PROVE FALSE
    OBVIOUS
  <2>3. PICK n \in Bad : \A k \in Bad : n <= k
    <3>1. Bad \subseteq Nat
      OBVIOUS
    <3> HIDE DEF Bad
    <3> QED
      BY <2>2, <3>1, LeastExists
  <2>4. n \in Nat /\ n <= Len(list) /\ ~Solvent(b[n])
    OBVIOUS
  <2>5. n # 0
    BY <2>4, NewLedgerIs DEF BookedBy
  <2>6. n - 1 \in Nat /\ ~(n <= n - 1) /\ n - 1 <= Len(list) /\ n \in 1 .. Len(list)
    BY <2>4, <2>5
  <2>7. n - 1 \notin Bad
    <3> HIDE DEF Bad
    <3> QED
      BY <2>3, <2>6
  <2> QED
    BY <2>4, <2>6, <2>7 DEF BookedBy, Takes
<1>2. \A n \in 1 .. Len(list) : n - 1 \in 0 .. Len(list)
  OBVIOUS
<1> QED
  BY <1>1, <1>2 DEF BookedBy

(* What is booked stays booked.                                              *)
Begins(l, m) ==
    /\ \A i \in DOMAIN l.skips : i \in DOMAIN m.skips /\ m.skips[i] = l.skips[i]
    /\ \A i \in DOMAIN l.fills : i \in DOMAIN m.fills /\ m.fills[i] = l.fills[i]

(* To take an opportunity is to leave what was booked.                      *)
LEMMA TakesBegins ==
  ASSUME NEW l, Solvent(l), NEW o, o.id \in Nat, NEW m, Takes(l, o, m)
  PROVE  Begins(l, m)
<1>1. l.skips \in Seq(Skips) /\ l.fills \in Seq(Fills)
  BY DEF Solvent
<1>2. CASE Skips1(l, o, m, Whys)
  <2>1. PICK why \in Whys : m.skips = Append(l.skips, [id |-> o.id, why |-> why])
    BY <1>2 DEF Skips1
  <2> DEFINE e == [id |-> o.id, why |-> why]
  <2>2. e \in Skips
    BY DEF Skips
  <2> HIDE DEF e
  <2>3. m.skips = Append(l.skips, e) /\ m.fills = l.fills
    BY <1>2, <2>1 DEF e, Skips1
  <2> QED
    BY <1>1, <2>2, <2>3 DEF Begins
<1>3. CASE Fills1(l, o, m)
  <2>1. PICK f \in Fills : m.fills = Append(l.fills, f)
    BY <1>3 DEF Fills1
  <2> QED
    BY <1>1, <1>3, <2>1 DEF Begins, Fills1
<1> QED
  BY <1>2, <1>3 DEF Takes

(* So what the first opportunities booked is in the ledger of them all.     *)
LEMMA BookedStays ==
  ASSUME NEW list, Len(list) \in Nat, NEW b, BookedBy(list, b),
         \A i \in 1 .. Len(list) : list[i].id \in Nat,
         NEW n \in 0 .. Len(list)
  PROVE  Begins(b[n], b[Len(list)])
<1> DEFINE Bad == {k \in Nat : n <= k /\ k <= Len(list) /\ ~Begins(b[n], b[k])}
<1>1. Bad = {}
  <2>1. SUFFICES ASSUME Bad # {} PROVE FALSE
    OBVIOUS
  <2>2. PICK k \in Bad : \A j \in Bad : k <= j
    <3>1. Bad \subseteq Nat
      OBVIOUS
    <3> HIDE DEF Bad
    <3> QED
      BY <2>1, <3>1, LeastExists
  <2>3. k \in Nat /\ n <= k /\ k <= Len(list) /\ ~Begins(b[n], b[k])
    OBVIOUS
  <2>4. k # n
    BY <2>3 DEF Begins
  <2>5. k - 1 \in Nat /\ n <= k - 1 /\ k - 1 <= Len(list) /\ ~(k <= k - 1) /\ k \in 1 .. Len(list)
    BY <2>3, <2>4
  <2>6. Begins(b[n], b[k - 1])
    <3>1. k - 1 \notin Bad
      <4> HIDE DEF Bad
      <4> QED
        BY <2>2, <2>5
    <3> QED
      BY <2>5, <3>1
  <2>7. Begins(b[k - 1], b[k])
    BY <2>5, BookedSolvent, TakesBegins
  <2> QED
    BY <2>3, <2>6, <2>7 DEF Begins
<1> QED
  BY <1>1

(* Each opportunity that was taken has one entry, and no other has.          *)
FillIds(l) == {l.fills[i].id : i \in DOMAIN l.fills}
SkipIds(l) == {l.skips[i].id : i \in DOMAIN l.skips}
Entered(l, n, ids) ==
    /\ Len(l.fills) + Len(l.skips) = n
    /\ FillIds(l) \union SkipIds(l) = ids
    /\ \A i, j \in DOMAIN l.fills : i # j => l.fills[i].id # l.fills[j].id

(* An opportunity that is taken adds the entry it has, and no other.        *)
LEMMA TakesEnters ==
  ASSUME NEW l, Solvent(l), NEW o, o.id \in Nat, NEW m, Takes(l, o, m),
         NEW n \in Nat, NEW ids, Entered(l, n, ids), o.id \notin ids
  PROVE  Entered(m, n + 1, ids \union {o.id})
<1>1. l.skips \in Seq(Skips) /\ l.fills \in Seq(Fills)
  BY DEF Solvent
<1>2. CASE Skips1(l, o, m, Whys)
  <2>1. PICK why \in Whys : m.skips = Append(l.skips, [id |-> o.id, why |-> why])
    BY <1>2 DEF Skips1
  <2> DEFINE e == [id |-> o.id, why |-> why]
  <2>2. e \in Skips /\ e.id = o.id
    BY DEF Skips
  <2> HIDE DEF e
  <2>3. m.skips = Append(l.skips, e) /\ m.fills = l.fills
    BY <1>2, <2>1 DEF e, Skips1
  <2>4. /\ Len(m.skips) = Len(l.skips) + 1 /\ DOMAIN m.skips = DOMAIN l.skips \union {Len(l.skips) + 1}
        /\ m.skips[Len(l.skips) + 1] = e /\ \A i \in DOMAIN l.skips : m.skips[i] = l.skips[i]
    BY <1>1, <2>2, <2>3
  <2>5. SkipIds(m) = SkipIds(l) \union {o.id}
    BY <2>2, <2>4 DEF SkipIds
  <2>6. FillIds(m) = FillIds(l)
    BY <2>3 DEF FillIds
  <2>7. Len(l.fills) \in Nat /\ Len(l.skips) \in Nat
    BY <1>1
  <2>8. Len(m.fills) + Len(m.skips) = n + 1
    <3>1. Len(l.fills) + Len(l.skips) = n
      BY DEF Entered
    <3>2. Len(m.fills) = Len(l.fills) /\ Len(m.skips) = Len(l.skips) + 1
      BY <2>3, <2>4
    <3> DEFINE x == Len(l.fills)
               y == Len(l.skips)
    <3>3. x \in Nat /\ y \in Nat /\ x + y = n
      BY <2>7, <3>1
    <3>4. Len(m.fills) + Len(m.skips) = x + (y + 1)
      BY <3>2
    <3> HIDE DEF x, y
    <3>5. x + (y + 1) = n + 1
      BY <3>3
    <3> QED
      BY <3>4, <3>5
  <2> QED
    BY <2>3, <2>5, <2>6, <2>8 DEF Entered
<1>3. CASE Fills1(l, o, m)
  <2>1. PICK f \in Fills : f.id = o.id /\ m.fills = Append(l.fills, f)
    BY <1>3 DEF Fills1
  <2>2. /\ Len(m.fills) = Len(l.fills) + 1 /\ DOMAIN m.fills = DOMAIN l.fills \union {Len(l.fills) + 1}
        /\ m.fills[Len(l.fills) + 1] = f /\ \A i \in DOMAIN l.fills : m.fills[i] = l.fills[i]
    BY <1>1, <2>1
  <2>3. FillIds(m) = FillIds(l) \union {o.id}
    BY <2>1, <2>2 DEF FillIds
  <2>4. SkipIds(m) = SkipIds(l) /\ m.skips = l.skips
    BY <1>3 DEF SkipIds, Fills1
  <2>5. Len(l.fills) \in Nat /\ Len(l.skips) \in Nat
    BY <1>1
  <2>6. Len(m.fills) + Len(m.skips) = n + 1
    <3>1. Len(l.fills) + Len(l.skips) = n
      BY DEF Entered
    <3>2. Len(m.fills) = Len(l.fills) + 1 /\ Len(m.skips) = Len(l.skips)
      BY <2>2, <2>4
    <3> DEFINE x == Len(l.fills)
               y == Len(l.skips)
    <3>3. x \in Nat /\ y \in Nat /\ x + y = n
      BY <2>5, <3>1
    <3>4. Len(m.fills) + Len(m.skips) = (x + 1) + y
      BY <3>2
    <3> HIDE DEF x, y
    <3>5. (x + 1) + y = n + 1
      BY <3>3
    <3> QED
      BY <3>4, <3>5
  <2>7. \A i \in DOMAIN l.fills : m.fills[i].id # o.id
    BY <2>2 DEF Entered, FillIds
  <2>8. \A i, j \in DOMAIN m.fills : i # j => m.fills[i].id # m.fills[j].id
    BY <2>1, <2>2, <2>7 DEF Entered
  <2> QED
    BY <2>3, <2>4, <2>6, <2>8 DEF Entered
<1> QED
  BY <1>2, <1>3 DEF Takes

(* A ledger has one entry for each opportunity of its list.                 *)
LEMMA BookedEntries ==
  ASSUME NEW list, Len(list) \in Nat, NEW b, BookedBy(list, b),
         \A i \in 1 .. Len(list) : list[i].id \in Nat,
         \A i, j \in 1 .. Len(list) : i # j => list[i].id # list[j].id
  PROVE  Entered(b[Len(list)], Len(list), {list[i].id : i \in 1 .. Len(list)})
<1> DEFINE Firsts(n) == {list[i].id : i \in 1 .. n}
           Bad == {n \in Nat : n <= Len(list) /\ ~Entered(b[n], n, Firsts(n))}
<1>1. Bad = {}
  <2>1. SUFFICES ASSUME Bad # {} PROVE FALSE
    OBVIOUS
  <2>2. PICK n \in Bad : \A k \in Bad : n <= k
    <3>1. Bad \subseteq Nat
      OBVIOUS
    <3> HIDE DEF Bad
    <3> QED
      BY <2>1, <3>1, LeastExists
  <2>3. n \in Nat /\ n <= Len(list) /\ ~Entered(b[n], n, Firsts(n))
    OBVIOUS
  <2>4. n # 0
    <3>1. DOMAIN <<>> = {} /\ Len(<<>>) = 0
      OBVIOUS
    <3>2. Firsts(0) = {}
      OBVIOUS
    <3>3. b[0].skips = <<>> /\ b[0].fills = <<>>
      BY NewLedgerIs DEF BookedBy
    <3>4. Entered(b[0], 0, Firsts(0))
      BY <3>1, <3>2, <3>3 DEF Entered, FillIds, SkipIds
    <3> QED
      BY <2>3, <3>4
  <2>5. n - 1 \in Nat /\ n - 1 <= Len(list) /\ ~(n <= n - 1) /\ n \in 1 .. Len(list)
    BY <2>3, <2>4
  <2>6. Entered(b[n - 1], n - 1, Firsts(n - 1))
    <3>1. n - 1 \notin Bad
      <4> HIDE DEF Bad
      <4> QED
        BY <2>2, <2>5
    <3> QED
      BY <2>5, <3>1
  <2>7. list[n].id \notin Firsts(n - 1) /\ Firsts(n) = Firsts(n - 1) \union {list[n].id}
    <3>1. 1 .. n = (1 .. n - 1) \union {n}
      BY <2>5
    <3>2. \A i \in 1 .. n - 1 : i \in 1 .. Len(list) /\ i # n
      BY <2>5
    <3> QED
      BY <2>5, <3>1, <3>2
  <2> HIDE DEF Firsts
  <2>8. Entered(b[n], (n - 1) + 1, Firsts(n - 1) \union {list[n].id})
    BY <2>5, <2>6, <2>7, BookedSolvent, TakesEnters
  <2>9. (n - 1) + 1 = n
    BY <2>5
  <2> QED
    BY <2>3, <2>7, <2>8, <2>9
<1>2. Len(list) \notin Bad
  BY <1>1
<1>3. Entered(b[Len(list)], Len(list), Firsts(Len(list)))
  <2> HIDE DEF Firsts
  <2> QED
    BY <1>2
<1> QED
  BY <1>3

(* The list of a session, booked with the answers there are.                 *)
LEMMA ListIs ==
  ASSUME NEW s \in SUBSET Opps
  PROVE  /\ Len(Ranked(s)) \in Nat
         /\ \A i \in 1 .. Len(Ranked(s)) : /\ Ranked(s)[i] \in s /\ Ranked(s)[i] \in Opps
                                          /\ Ranked(s)[i].id \in Nat /\ Ranked(s)[i].block \in Nat
         /\ \A i, j \in 1 .. Len(Ranked(s)) : i # j => Ranked(s)[i].id # Ranked(s)[j].id
         /\ {Ranked(s)[i].id : i \in 1 .. Len(Ranked(s))} = {o.id : o \in s}
<1> DEFINE list == Ranked(s)
           n == Len(list)
<1>1. /\ n \in Nat /\ \A i \in 1 .. n : list[i] \in s
      /\ \A i, j \in 1 .. n : i # j => list[i] # list[j]
      /\ \A o \in s : \E i \in 1 .. n : list[i] = o
  BY RankedLists
<1> HIDE DEF list, n
<1>2. \A i \in 1 .. n : list[i] \in Opps /\ list[i].id \in Nat /\ list[i].block \in Nat
  BY <1>1, OppsAssumption
<1>3. \A i, j \in 1 .. n : i # j => list[i].id # list[j].id
  BY <1>1, <1>2, OppsAssumption
<1>4. {list[i].id : i \in 1 .. n} = {o.id : o \in s}
  BY <1>1
<1> QED
  BY <1>1, <1>2, <1>3, <1>4 DEF list, n

(* The executed ledger of a session is booked one by one.                   *)
LEMMA BooksBooked ==
  ASSUME NEW s \in SUBSET Opps, NEW c, Kept(c)
  PROVE  BookedBy(Ranked(s), Books(Ranked(s), c))
<1> DEFINE list == Ranked(s)
           b == Books(list, c)
<1>1. Len(list) \in Nat /\ \A i \in 1 .. Len(list) : list[i].id \in Nat /\ list[i].block \in Nat
  BY ListIs
<1>2. b[0] = NewLedger /\ \A i \in 1 .. Len(list) : b[i] = BookOne(b[i - 1], list[i], c)
  BY <1>1, BooksIs
<1> HIDE DEF list, b
<1>3. \A i \in 1 .. Len(list) : Solvent(b[i - 1]) => Takes(b[i - 1], list[i], b[i])
  BY <1>1, <1>2, BookOneTakes
<1> QED
  BY <1>2, <1>3 DEF BookedBy, list, b

(* One that could have been sent and was not is still among the skips at the *)
(* end of the list.                                                          *)
LEMMA BooksSkips ==
  ASSUME NEW s \in SUBSET Opps, NEW c, Kept(c), NEW n \in 1 .. Len(Ranked(s)),
         ExecGate(AtBlock(Books(Ranked(s), c)[n - 1], Ranked(s)[n].block), Ranked(s)[n]) = "open",
         Ranked(s)[n].id \notin DOMAIN c
  PROVE  \E i \in DOMAIN Books(Ranked(s), c)[Len(Ranked(s))].skips :
            Books(Ranked(s), c)[Len(Ranked(s))].skips[i]
                = [id |-> Ranked(s)[n].id, why |-> "exec_build_failed"]
<1> DEFINE list == Ranked(s)
           b == Books(list, c)
           o == list[n]
           e == [id |-> o.id, why |-> "exec_build_failed"]
           l == b[n - 1]
<1>1. Len(list) \in Nat /\ \A i \in 1 .. Len(list) : list[i].id \in Nat /\ list[i].block \in Nat
  BY ListIs
<1>2. BookedBy(list, b)
  BY BooksBooked
<1>3. b[n] = BookOne(l, o, c)
  BY <1>1, BooksIs
<1>4. Solvent(l)
  <2>1. n \in 1 .. Len(list)
    OBVIOUS
  <2> HIDE DEF list, b
  <2> QED
    BY <1>1, <1>2, <2>1, BookedSolvent
<1>5. o.id \in Nat /\ o.block \in Nat /\ n \in 0 .. Len(list)
  BY <1>1
<1>6. ExecGate(AtBlock(l, o.block), o) = "open" /\ o.id \notin DOMAIN c
  OBVIOUS
<1>7. Begins(b[n], b[Len(list)])
  <2> HIDE DEF list, b
  <2> QED
    BY <1>1, <1>2, <1>5, BookedStays
<1> HIDE DEF list, b, o, l
<1>8. Skips1(l, o, b[n], {"exec_build_failed"})
  BY <1>3, <1>4, <1>5, <1>6, BookOneTakes
<1>9. b[n].skips = Append(l.skips, e)
  BY <1>8 DEF Skips1
<1>10. e \in Skips /\ l.skips \in Seq(Skips)
  BY <1>4, <1>5, WhysHas DEF Skips, Solvent
<1> HIDE DEF e
<1> DEFINE i == Len(l.skips) + 1
<1>11. i \in DOMAIN b[n].skips /\ b[n].skips[i] = e
  BY <1>9, <1>10
<1> HIDE DEF i
<1>12. i \in DOMAIN b[Len(list)].skips /\ b[Len(list)].skips[i] = e
  BY <1>7, <1>11 DEF Begins
<1> QED
  BY <1>12 DEF e, b, list, o

(* An answer changes nothing of what is booked before its opportunity.       *)
LEMMA BooksAgree ==
  ASSUME NEW list, Len(list) \in Nat, NEW c, NEW d, NEW m \in 0 .. Len(list),
         \A i \in 1 .. m : /\ list[i].id \in DOMAIN c <=> list[i].id \in DOMAIN d
                           /\ list[i].id \in DOMAIN c => c[list[i].id] = d[list[i].id]
  PROVE  Books(list, c)[m] = Books(list, d)[m]
<1> DEFINE b == Books(list, c)
           e == Books(list, d)
           Bad == {n \in Nat : n <= m /\ b[n] # e[n]}
<1>1. /\ b[0] = NewLedger /\ \A i \in 1 .. Len(list) : b[i] = BookOne(b[i - 1], list[i], c)
      /\ e[0] = NewLedger /\ \A i \in 1 .. Len(list) : e[i] = BookOne(e[i - 1], list[i], d)
  BY BooksIs
<1> HIDE DEF b, e
<1>2. Bad = {}
  <2>1. SUFFICES ASSUME Bad # {} PROVE FALSE
    OBVIOUS
  <2>2. PICK n \in Bad : \A k \in Bad : n <= k
    <3>1. Bad \subseteq Nat
      OBVIOUS
    <3> HIDE DEF Bad
    <3> QED
      BY <2>1, <3>1, LeastExists
  <2>3. n \in Nat /\ n <= m /\ b[n] # e[n]
    OBVIOUS
  <2>4. n # 0
    BY <1>1, <2>3
  <2>5. n - 1 \in Nat /\ n - 1 <= m /\ ~(n <= n - 1) /\ n \in 1 .. Len(list) /\ n \in 1 .. m
    BY <2>3, <2>4
  <2>6. b[n - 1] = e[n - 1]
    <3>1. n - 1 \notin Bad
      <4> HIDE DEF Bad
      <4> QED
        BY <2>2, <2>5
    <3> QED
      BY <2>5, <3>1
  <2>7. BookOne(b[n - 1], list[n], c) = BookOne(e[n - 1], list[n], d)
    <3> DEFINE o == list[n]
    <3>1. /\ o.id \in DOMAIN c <=> o.id \in DOMAIN d
          /\ o.id \in DOMAIN c => c[o.id] = d[o.id]
      BY <2>5
    <3> HIDE DEF o
    <3>2. (IF o.id \in DOMAIN c THEN c[o.id] ELSE Failed("exec_build_failed"))
             = IF o.id \in DOMAIN d THEN d[o.id] ELSE Failed("exec_build_failed")
      BY <3>1
    <3> QED
      BY <2>6, <3>2 DEF BookOne, o
  <2> QED
    BY <1>1, <2>3, <2>5, <2>7
<1> QED
  BY <1>2 DEF b, e

(* The recursive functions of the model have the values they are given.    *)

(* The tokens along a path, the walk of a quote, and the run of a plan.     *)
LEMMA LegTokensIs ==
  ASSUME NEW o, Len(o.path) \in Nat
  PROVE  /\ DOMAIN LegTokens(o) = 0 .. Len(o.path)
         /\ LegTokens(o)[0] = o.token
         /\ \A i \in 1 .. Len(o.path) :
               LegTokens(o)[i] = TokenOut(Known[o.path[i]], LegTokens(o)[i - 1])
<1> DEFINE Is(f, n) == f = [i \in 0 .. n |-> IF i = 0 THEN o.token ELSE TokenOut(Known[o.path[i]], f[i - 1])]
           Bad == {n \in Nat : \A f : ~Is(f, n)}
<1>1. Bad = {}
  <2>1. SUFFICES ASSUME Bad # {} PROVE FALSE
    OBVIOUS
  <2>2. PICK n \in Bad : \A k \in Bad : n <= k
    <3>1. Bad \subseteq Nat
      OBVIOUS
    <3> HIDE DEF Bad
    <3> QED
      BY <2>1, <3>1, LeastExists
  <2>3. n \in Nat /\ \A f : ~Is(f, n)
    OBVIOUS
  <2>4. CASE n = 0
    <3> DEFINE f == [i \in 0 .. 0 |-> o.token]
    <3>1. Is(f, 0)
      OBVIOUS
    <3> QED
      BY <2>3, <2>4, <3>1
  <2>5. CASE n # 0
    <3>1. n - 1 \in Nat /\ ~(n <= n - 1)
      BY <2>3, <2>5
    <3>2. n - 1 \notin Bad
      <4> HIDE DEF Bad
      <4> QED
        BY <2>2, <3>1
    <3>3. PICK g : Is(g, n - 1)
      BY <3>1, <3>2
    <3> DEFINE f == [i \in 0 .. n |-> IF i = n THEN TokenOut(Known[o.path[n]], g[n - 1]) ELSE g[i]]
    <3>4. \A i \in 0 .. n - 1 : f[i] = g[i] /\ g[i] = IF i = 0 THEN o.token ELSE TokenOut(Known[o.path[i]], g[i - 1])
      BY <2>3, <3>1, <3>3
    <3>5. \A i \in 0 .. n : f[i] = IF i = 0 THEN o.token ELSE TokenOut(Known[o.path[i]], f[i - 1])
      <4>1. \A i \in 1 .. n : f[i - 1] = g[i - 1]
        BY <2>3, <3>4
      <4>2. f[n] = TokenOut(Known[o.path[n]], g[n - 1])
        BY <2>3
      <4> HIDE DEF f
      <4> QED
        BY <2>3, <2>5, <3>4, <4>1, <4>2
    <3>6. Is(f, n)
      <4>1. f = [i \in 0 .. n |-> f[i]]
        OBVIOUS
      <4> HIDE DEF f
      <4> QED
        BY <3>5, <4>1
    <3> QED
      BY <2>3, <3>6
  <2> QED
    BY <2>4, <2>5
<1>2. \E f : Is(f, Len(o.path))
  BY <1>1
<1>3. LegTokens(o) = CHOOSE f : Is(f, Len(o.path))
  BY DEF LegTokens
<1>4. Is(LegTokens(o), Len(o.path))
  BY <1>2, <1>3
<1>5. \A i \in 0 .. Len(o.path) : LegTokens(o)[i] = IF i = 0 THEN o.token ELSE TokenOut(Known[o.path[i]], LegTokens(o)[i - 1])
  BY <1>4
<1>6. DOMAIN LegTokens(o) = 0 .. Len(o.path)
  BY <1>4
<1> HIDE DEF Bad, Is
<1> QED
  BY <1>5, <1>6

(* Before the first leg of a walk.                                          *)
AtStart(pools, token, amount) ==
    [ok |-> TRUE, pools |-> pools, token |-> token, amount |-> amount]

(* A quote walks its path leg by leg.                                       *)
LEMMA WalkedIs ==
  ASSUME NEW pools, NEW path, NEW token, NEW amount, Len(path) \in Nat
  PROVE  /\ DOMAIN Walked(pools, path, token, amount) = 0 .. Len(path)
         /\ Walked(pools, path, token, amount)[0] = AtStart(pools, token, amount)
         /\ \A i \in 1 .. Len(path) :
               Walked(pools, path, token, amount)[i] = Leg(Walked(pools, path, token, amount)[i - 1], path[i])
<1> DEFINE Is(f, n) == f = [i \in 0 .. n |-> IF i = 0 THEN AtStart(pools, token, amount) ELSE Leg(f[i - 1], path[i])]
           Bad == {n \in Nat : \A f : ~Is(f, n)}
<1>1. Bad = {}
  <2>1. SUFFICES ASSUME Bad # {} PROVE FALSE
    OBVIOUS
  <2>2. PICK n \in Bad : \A k \in Bad : n <= k
    <3>1. Bad \subseteq Nat
      OBVIOUS
    <3> HIDE DEF Bad
    <3> QED
      BY <2>1, <3>1, LeastExists
  <2>3. n \in Nat /\ \A f : ~Is(f, n)
    OBVIOUS
  <2>4. CASE n = 0
    <3> DEFINE f == [i \in 0 .. 0 |-> AtStart(pools, token, amount)]
    <3>1. Is(f, 0)
      OBVIOUS
    <3> QED
      BY <2>3, <2>4, <3>1
  <2>5. CASE n # 0
    <3>1. n - 1 \in Nat /\ ~(n <= n - 1)
      BY <2>3, <2>5
    <3>2. n - 1 \notin Bad
      <4> HIDE DEF Bad
      <4> QED
        BY <2>2, <3>1
    <3>3. PICK g : Is(g, n - 1)
      BY <3>1, <3>2
    <3> DEFINE f == [i \in 0 .. n |-> IF i = n THEN Leg(g[n - 1], path[n]) ELSE g[i]]
    <3>4. \A i \in 0 .. n - 1 : f[i] = g[i] /\ g[i] = IF i = 0 THEN AtStart(pools, token, amount) ELSE Leg(g[i - 1], path[i])
      BY <2>3, <3>1, <3>3
    <3>5. \A i \in 0 .. n : f[i] = IF i = 0 THEN AtStart(pools, token, amount) ELSE Leg(f[i - 1], path[i])
      <4>1. \A i \in 1 .. n : f[i - 1] = g[i - 1]
        BY <2>3, <3>4
      <4>2. f[n] = Leg(g[n - 1], path[n])
        BY <2>3
      <4> HIDE DEF f
      <4> QED
        BY <2>3, <2>5, <3>4, <4>1, <4>2
    <3>6. Is(f, n)
      <4>1. f = [i \in 0 .. n |-> f[i]]
        OBVIOUS
      <4> HIDE DEF f
      <4> QED
        BY <3>5, <4>1
    <3> QED
      BY <2>3, <3>6
  <2> QED
    BY <2>4, <2>5
<1>2. \E f : Is(f, Len(path))
  BY <1>1
<1>3. Walked(pools, path, token, amount) = CHOOSE f : Is(f, Len(path))
  BY DEF Walked, AtStart
<1>4. Is(Walked(pools, path, token, amount), Len(path))
  BY <1>2, <1>3
<1>5. \A i \in 0 .. Len(path) : Walked(pools, path, token, amount)[i] = IF i = 0 THEN AtStart(pools, token, amount) ELSE Leg(Walked(pools, path, token, amount)[i - 1], path[i])
  BY <1>4
<1>6. DOMAIN Walked(pools, path, token, amount) = 0 .. Len(path)
  BY <1>4
<1> HIDE DEF Bad, Is
<1> QED
  BY <1>5, <1>6

(* The contract runs its legs one by one.                                   *)
LEMMA LegsRunIs ==
  ASSUME NEW pools, NEW plan, Len(plan.legs) \in Nat
  PROVE  /\ DOMAIN LegsRun(pools, plan) = 0 .. Len(plan.legs)
         /\ LegsRun(pools, plan)[0] = Begun(pools, plan)
         /\ \A i \in 1 .. Len(plan.legs) :
               LegsRun(pools, plan)[i] = RunLeg(LegsRun(pools, plan)[i - 1], plan.legs[i])
<1> DEFINE Is(f, n) == f = [i \in 0 .. n |-> IF i = 0 THEN Begun(pools, plan) ELSE RunLeg(f[i - 1], plan.legs[i])]
           Bad == {n \in Nat : \A f : ~Is(f, n)}
<1>1. Bad = {}
  <2>1. SUFFICES ASSUME Bad # {} PROVE FALSE
    OBVIOUS
  <2>2. PICK n \in Bad : \A k \in Bad : n <= k
    <3>1. Bad \subseteq Nat
      OBVIOUS
    <3> HIDE DEF Bad
    <3> QED
      BY <2>1, <3>1, LeastExists
  <2>3. n \in Nat /\ \A f : ~Is(f, n)
    OBVIOUS
  <2>4. CASE n = 0
    <3> DEFINE f == [i \in 0 .. 0 |-> Begun(pools, plan)]
    <3>1. Is(f, 0)
      OBVIOUS
    <3> QED
      BY <2>3, <2>4, <3>1
  <2>5. CASE n # 0
    <3>1. n - 1 \in Nat /\ ~(n <= n - 1)
      BY <2>3, <2>5
    <3>2. n - 1 \notin Bad
      <4> HIDE DEF Bad
      <4> QED
        BY <2>2, <3>1
    <3>3. PICK g : Is(g, n - 1)
      BY <3>1, <3>2
    <3> DEFINE f == [i \in 0 .. n |-> IF i = n THEN RunLeg(g[n - 1], plan.legs[n]) ELSE g[i]]
    <3>4. \A i \in 0 .. n - 1 : f[i] = g[i] /\ g[i] = IF i = 0 THEN Begun(pools, plan) ELSE RunLeg(g[i - 1], plan.legs[i])
      BY <2>3, <3>1, <3>3
    <3>5. \A i \in 0 .. n : f[i] = IF i = 0 THEN Begun(pools, plan) ELSE RunLeg(f[i - 1], plan.legs[i])
      <4>1. \A i \in 1 .. n : f[i - 1] = g[i - 1]
        BY <2>3, <3>4
      <4>2. f[n] = RunLeg(g[n - 1], plan.legs[n])
        BY <2>3
      <4> HIDE DEF f
      <4> QED
        BY <2>3, <2>5, <3>4, <4>1, <4>2
    <3>6. Is(f, n)
      <4>1. f = [i \in 0 .. n |-> f[i]]
        OBVIOUS
      <4> HIDE DEF f
      <4> QED
        BY <3>5, <4>1
    <3> QED
      BY <2>3, <3>6
  <2> QED
    BY <2>4, <2>5
<1>2. \E f : Is(f, Len(plan.legs))
  BY <1>1
<1>3. LegsRun(pools, plan) = CHOOSE f : Is(f, Len(plan.legs))
  BY DEF LegsRun
<1>4. Is(LegsRun(pools, plan), Len(plan.legs))
  BY <1>2, <1>3
<1>5. \A i \in 0 .. Len(plan.legs) : LegsRun(pools, plan)[i] = IF i = 0 THEN Begun(pools, plan) ELSE RunLeg(LegsRun(pools, plan)[i - 1], plan.legs[i])
  BY <1>4
<1>6. DOMAIN LegsRun(pools, plan) = 0 .. Len(plan.legs)
  BY <1>4
<1> HIDE DEF Bad, Is
<1> QED
  BY <1>5, <1>6

----------------------------------------------------------------------------
(* The contract and the quote.                                               *)

(* What a fee may be.                                                        *)
Bps == {x \in Nat : x < 10000}

(* What is paid out is a number. Where both reserves are there it is less    *)
(* than what the pair has, and the product does not fall.                    *)
LEMMA PaidOut ==
  ASSUME NEW in \in Nat \ {0}, NEW x \in Nat, NEW y \in Nat, NEW bps \in Bps
  PROVE  LET out == AmountOut(in, <<x, y>>, bps)
         IN  /\ out = (in * (10000 - bps) * y) \div (x * 10000 + in * (10000 - bps))
             /\ out \in Nat
             /\ out > 0 => y > 0
             /\ x = 0 => out = y
             /\ x > 0 /\ out > 0 => out < y
             /\ x > 0 => ((x + in) * 10000 - in * bps) * (y - out) >= x * y * 10000
<1> DEFINE k == in * (10000 - bps)
           d == x * 10000 + k
           n == k * y
           out == n \div d
<1>0. AmountOut(in, <<x, y>>, bps) = out
  BY DEF AmountOut
<1>10. out = (in * (10000 - bps) * y) \div (x * 10000 + in * (10000 - bps))
  OBVIOUS
<1>1. k \in Nat /\ k > 0
  <2> DEFINE r == 10000 - bps
  <2>1. r \in Nat /\ r > 0
    BY DEF Bps
  <2> HIDE DEF r
  <2>2. in * r \in Nat /\ in * r > 0
    BY <2>1
  <2> QED
    BY <2>2 DEF r
<1>2. (x + in) * 10000 - in * bps = d
  BY DEF Bps
<1> HIDE DEF k
<1>3. d \in Nat /\ d > 0 /\ d >= k /\ n \in Nat
  BY <1>1
<1>4. x > 0 => d > k
  BY <1>1
<1>5. d = x * 10000 + k /\ n = k * y
  OBVIOUS
<1> HIDE DEF d, n
<1>6. out \in Nat /\ d * out <= n
  BY <1>3
<1> HIDE DEF out
<1>7. out > 0 => y > 0
  <2>1. y = 0 => n = 0
    BY <1>1, <1>5
  <2>2. out > 0 => d * out > 0
    BY <1>3, <1>6
  <2> QED
    BY <1>3, <1>6, <2>1, <2>2
<1>8. x > 0 /\ out > 0 => out < y
  <2> SUFFICES ASSUME x > 0, out > 0, out >= y PROVE FALSE
    BY <1>6
  <2>1. d * y <= d * out
    BY <1>3, <1>6
  <2>2. d * y > k * y
    BY <1>1, <1>3, <1>4, <1>7
  <2> QED
    BY <1>1, <1>3, <1>5, <1>6, <2>1, <2>2
<1>9. d * (y - out) >= x * y * 10000
  <2>1. d * (y - out) = d * y - d * out
    BY <1>3, <1>6
  <2>2. d * y = x * y * 10000 + n
    BY <1>1, <1>5
  <2> DEFINE p == d * out
             q == d * y
             z == x * y * 10000
  <2>3. p \in Int /\ q \in Int /\ z \in Int
    BY <1>3, <1>6
  <2> HIDE DEF p, q, z
  <2>4. q - p >= z
    BY <1>3, <1>6, <2>2, <2>3 DEF p, q, z
  <2> QED
    BY <2>1, <2>4 DEF p, q, z
<1>14. x = 0 => out = y
  <2> SUFFICES ASSUME x = 0 PROVE out = y
    OBVIOUS
  <2>1. d = k
    BY <1>1, <1>5
  <2>2. n < d * out + d
    <3>1. n = d * (n \div d) + (n % d) /\ n % d < d
      BY <1>3
    <3> QED
      BY <1>3, <3>1 DEF out
  <2>3. ~(out < y)
    <3> SUFFICES ASSUME out < y PROVE FALSE
      OBVIOUS
    <3>1. out + 1 <= y
      BY <1>6
    <3>2. k * (out + 1) <= k * y
      BY <1>1, <1>6, <3>1
    <3>3. k * (out + 1) = k * out + k
      BY <1>1, <1>6
    <3> DEFINE u == k * out
               v == k * y
    <3>4. u \in Nat /\ v \in Nat
      BY <1>1, <1>6
    <3>5. u + k <= v /\ v < u + k
      BY <1>5, <2>1, <2>2, <3>2, <3>3
    <3> HIDE DEF u, v
    <3> QED
      BY <1>1, <3>4, <3>5
  <2>4. ~(out > y)
    <3> SUFFICES ASSUME out > y PROVE FALSE
      OBVIOUS
    <3>1. y + 1 <= out
      BY <1>6
    <3>2. k * (y + 1) <= k * out
      BY <1>1, <1>6, <3>1
    <3>3. k * (y + 1) = k * y + k
      BY <1>1, <1>6
    <3> DEFINE u == k * out
               v == k * y
    <3>4. u \in Nat /\ v \in Nat
      BY <1>1, <1>6
    <3>5. v + k <= u /\ u <= v
      BY <1>5, <1>6, <2>1, <3>2, <3>3
    <3> HIDE DEF u, v
    <3> QED
      BY <1>1, <3>4, <3>5
  <2> QED
    BY <1>6, <2>3, <2>4
<1>11. x > 0 => ((x + in) * 10000 - in * bps) * (y - out) >= x * y * 10000
  BY <1>2, <1>9
<1>12. AmountOut(in, <<x, y>>, bps) = out
  BY <1>0 DEF out, n, d, k
<1>13. out = (in * (10000 - bps) * y) \div (x * 10000 + in * (10000 - bps))
  BY <1>10 DEF out, n, d, k
<1> QED
  BY <1>6, <1>7, <1>8, <1>11, <1>12, <1>13, <1>14

(* What a pair pays out is an amount.                                       *)
LEMMA PaidOutIsNat ==
  ASSUME NEW in \in Nat \ {0}, NEW x \in Nat, NEW y \in Nat, NEW bps \in Bps
  PROVE  AmountOut(in, <<x, y>>, bps) \in Nat
<1> DEFINE r == 10000 - bps
           k == in * r
           d == x * 10000 + k
           n == k * y
<1>1. AmountOut(in, <<x, y>>, bps) = n \div d
  BY DEF AmountOut
<1>2. r \in Nat /\ r > 0
  BY DEF Bps
<1> HIDE DEF r
<1>3. k \in Nat /\ k > 0
  BY <1>2
<1> HIDE DEF k
<1>4. d \in Nat /\ d > 0 /\ n \in Nat
  BY <1>3
<1> HIDE DEF d, n
<1>5. n \div d \in Nat
  BY <1>4
<1> QED
  BY <1>1, <1>5 DEF r, k, d, n

(* What a pair is.                                                           *)
LEMMA PairIs ==
  ASSUME NEW p, PairOk(p)
  PROVE  p.r0 \in Nat /\ p.r1 \in Nat /\ p.fee \in Bps /\ p.charged \in Bps
BY DEF PairOk, Bps

(* The tokens of a pair differ, and it charges something.                   *)
LEMMA PairKind ==
  ASSUME NEW p, PairOk(p)
  PROVE  p.t0 # p.t1 /\ p.charged # 0 /\ DOMAIN p = {"t0", "t1", "r0", "r1", "fee", "charged", "kind"}
<1>1. p.charged # 0
  <2> DEFINE c == p.charged
  <2>1. c \in Nat /\ c > 0
    BY DEF PairOk
  <2> HIDE DEF c
  <2>2. c # 0
    BY <2>1
  <2> QED
    BY <2>2 DEF c
<1> QED
  BY <1>1 DEF PairOk

(* The pools of a block, and a leg of a plan through one of them.            *)
Static == {"t0", "t1", "fee", "charged", "kind"}
PoolsOk(ps) ==
    /\ DOMAIN ps = DOMAIN Known
    /\ \A a \in DOMAIN Known : PairOk(ps[a]) /\ \A f \in Static : ps[a][f] = Known[a][f]
LegOk(leg) ==
    LET p == Known[leg.pool]
    IN  /\ leg.pool \in DOMAIN Known /\ leg.fee = p.fee /\ leg.kind = p.kind
        /\ Routable(p) /\ leg.in \in {p.t0, p.t1} /\ leg.out = TokenOut(p, leg.in)

(* Another reserve makes another pair of the same tokens, at the same fees.  *)
LEMMA SamePair ==
  ASSUME NEW p, PairOk(p), NEW q, DOMAIN q = DOMAIN p, \A f \in Static : q[f] = p[f],
         q.r0 \in Nat, q.r1 \in Nat
  PROVE  PairOk(q)
<1>1. q.t0 = p.t0 /\ q.t1 = p.t1 /\ q.fee = p.fee /\ q.charged = p.charged
  BY DEF Static
<1>2. DOMAIN q = {"t0", "t1", "r0", "r1", "fee", "charged", "kind"} /\ q.t0 # q.t1
  BY <1>1, PairKind
<1> DEFINE fee == q.fee
           charged == q.charged
<1>3. {fee, charged} \subseteq Nat /\ fee < 10000 /\ charged > 0 /\ charged < 10000
  BY <1>1 DEF PairOk
<1> QED
  BY <1>2, <1>3 DEF PairOk

(* What the contract holds and the pools hold, while a plan runs.            *)
WorldFields == {"ok", "pools", "held", "amount"}
World(w) ==
    /\ w = [f \in WorldFields |-> w[f]]
    /\ w.ok \in BOOLEAN /\ PoolsOk(w.pools) /\ w.amount \in Nat /\ (w.ok => w.amount > 0)
    /\ \A t : Held(w, t) \in Int

(* A swap moves the reserves of one pair, and the amounts held.              *)
LEMMA SwappedIs ==
  ASSUME NEW w, World(w), NEW leg, LegOk(leg), NEW out \in Nat, out > 0, w.ok,
         out < Reserves(w.pools[leg.pool], leg.in)[2]
  PROVE  LET v == Swapped(w, leg, w.amount, out)
         IN  /\ World(v) /\ v.ok /\ v.amount = out
             /\ v.pools = [w.pools EXCEPT ![leg.pool] =
                              AfterSwap(w.pools[leg.pool], leg.in, w.amount, out)]
             /\ \A t : Held(v, t) = Held(w, t) + (IF t = leg.out THEN out ELSE 0)
                                               - (IF t = leg.in THEN w.amount ELSE 0)
<1> DEFINE v == Swapped(w, leg, w.amount, out)
           a == leg.pool
           p == w.pools[a]
           r == Reserves(p, leg.in)
           q == AfterSwap(p, leg.in, w.amount, out)
           h == [t \in DOMAIN w.held \union {leg.in, leg.out} |->
                    Held(w, t) + (IF t = leg.out THEN out ELSE 0)
                               - (IF t = leg.in THEN w.amount ELSE 0)]
           s == IF p.t0 = leg.in THEN [p EXCEPT !.r0 = r[1] + w.amount, !.r1 = r[2] - out]
                ELSE [p EXCEPT !.r0 = r[2] - out, !.r1 = r[1] + w.amount]
<1>1. /\ a \in DOMAIN Known /\ PairOk(p) /\ \A f \in Static : p[f] = Known[a][f]
      /\ DOMAIN w.pools = DOMAIN Known /\ w.amount \in Nat
  BY DEF World, PoolsOk, LegOk
<1>2. p.r0 \in Nat /\ p.r1 \in Nat /\ DOMAIN p = {"t0", "t1", "r0", "r1", "fee", "charged", "kind"}
  BY <1>1, PairIs, PairKind
<1>3. r = IF p.t0 = leg.in THEN <<p.r0, p.r1>> ELSE <<p.r1, p.r0>>
  BY DEF Reserves
<1>4. s = q
  <2>1. CASE p.t0 = leg.in
    <3>1. r[1] = p.r0 /\ r[2] = p.r1
      BY <1>3, <2>1
    <3> HIDE DEF r, p
    <3> QED
      BY <1>2, <2>1, <3>1 DEF AfterSwap
  <2>2. CASE p.t0 # leg.in
    <3>1. r[1] = p.r1 /\ r[2] = p.r0
      BY <1>3, <2>2
    <3> HIDE DEF r, p
    <3> QED
      BY <1>2, <2>2, <3>1 DEF AfterSwap
  <2> QED
    BY <2>1, <2>2
<1>5. PairOk(q) /\ \A f \in Static : q[f] = Known[a][f]
  <2>1. out < IF p.t0 = leg.in THEN p.r1 ELSE p.r0
    BY <1>3
  <2>2. DOMAIN q = DOMAIN p /\ \A f \in Static : q[f] = p[f]
    <3> HIDE DEF p
    <3> QED
      BY <1>2 DEF AfterSwap, Static
  <2>3. q.r0 \in Nat /\ q.r1 \in Nat
    <3> HIDE DEF p
    <3> QED
      BY <1>1, <1>2, <2>1 DEF AfterSwap
  <2>4. PairOk(p) /\ \A f \in Static : p[f] = Known[a][f]
    BY <1>1
  <2> HIDE DEF p, q
  <2>5. PairOk(q)
    BY <2>2, <2>3, <2>4, SamePair
  <2> QED
    BY <2>2, <2>4, <2>5
<1>6. v = [w EXCEPT !.amount = out, !.held = h, !.pools[a] = s]
  BY DEF Swapped
<1>7. /\ v = [f \in WorldFields |-> v[f]] /\ v.ok = w.ok /\ v.amount = out /\ v.held = h
      /\ v.pools = [w.pools EXCEPT ![a] = s]
  <2> HIDE DEF h, s, v
  <2> QED
    BY <1>6 DEF World, WorldFields
<1>8. PoolsOk(v.pools)
  <2>1. PoolsOk(w.pools) /\ v.pools = [w.pools EXCEPT ![a] = q]
    BY <1>4, <1>7 DEF World
  <2> HIDE DEF p, q, v
  <2> QED
    BY <1>1, <1>5, <2>1 DEF PoolsOk
<1>9. \A t : Held(v, t) = Held(w, t) + (IF t = leg.out THEN out ELSE 0)
                                     - (IF t = leg.in THEN w.amount ELSE 0)
  <2> TAKE t
  <2>1. CASE t \in DOMAIN w.held \union {leg.in, leg.out}
    <3>1. t \in DOMAIN h /\ Held(v, t) = h[t]
      BY <1>7, <2>1 DEF Held
    <3> QED
      BY <2>1, <3>1
  <2>2. CASE t \notin DOMAIN w.held \union {leg.in, leg.out}
    <3>1. Held(v, t) = 0 /\ Held(w, t) = 0 /\ t # leg.in /\ t # leg.out
      BY <1>7, <2>2 DEF Held
    <3> QED
      BY <3>1
  <2> QED
    BY <2>1, <2>2
<1>10. \A t : Held(v, t) \in Int
  <2>1. \A t : Held(w, t) \in Int
    BY DEF World
  <2> HIDE DEF v
  <2> QED
    BY <1>1, <1>9, <2>1
<1>11. World(v)
  <2> HIDE DEF v
  <2> QED
    BY <1>7, <1>8, <1>10 DEF World
<1> HIDE DEF v
<1>12. /\ v.ok /\ v.amount = out
       /\ v.pools = [w.pools EXCEPT ![leg.pool] = AfterSwap(w.pools[leg.pool], leg.in, w.amount, out)]
  BY <1>4, <1>7
<1> QED
  BY <1>9, <1>11, <1>12 DEF v

(* What a leg pays out, by the fee it is told or the one it charges.         *)
LegOut(w, leg) ==
    IF leg.kind = "v2" THEN V2Out(w.pools[leg.pool], leg, w.amount)
    ELSE V3Out(w.pools[leg.pool], leg, w.amount)

(* The pair of a leg: what it has of either token, and what it is paid for.  *)
LEMMA LegOutIs ==
  ASSUME NEW w, World(w), w.ok, NEW leg, LegOk(leg)
  PROVE  /\ Reserves(w.pools[leg.pool], leg.in) \in Nat \X Nat
         /\ LegOut(w, leg) \in Nat
         /\ \E bps \in Bps :
               LegOut(w, leg) = AmountOut(w.amount, Reserves(w.pools[leg.pool], leg.in), bps)
<1> DEFINE p == w.pools[leg.pool]
           out == LegOut(w, leg)
           in == w.amount
           fee == IF leg.fee = 0 THEN 30 ELSE leg.fee
           bps == IF leg.kind = "v2" THEN fee ELSE p.charged
           r == Reserves(p, leg.in)
<1>1. PairOk(p) /\ p.fee = leg.fee
  BY DEF World, PoolsOk, LegOk, Static
<1>2. out = AmountOut(in, r, bps)
  <2>1. leg.kind = "v2" => out = AmountOut(in, r, fee)
    BY DEF LegOut, V2Out
  <2>2. leg.kind # "v2" => out = AmountOut(in, r, p.charged)
    BY DEF LegOut, V3Out
  <2> QED
    BY <2>1, <2>2
<1>3. r = IF p.t0 = leg.in THEN <<p.r0, p.r1>> ELSE <<p.r1, p.r0>>
  BY DEF Reserves
<1>4. in \in Nat \ {0}
  BY DEF World
<1> HIDE DEF p, out, r, in, fee, bps
<1>5. leg.fee \in Bps /\ p.charged \in Bps /\ p.r0 \in Nat /\ p.r1 \in Nat
  <2>1. p.fee \in Bps /\ p.charged \in Bps /\ p.r0 \in Nat /\ p.r1 \in Nat
    BY <1>1, PairIs
  <2> QED
    BY <1>1, <2>1
<1>6. PICK x \in Nat, y \in Nat : r = <<x, y>>
  <2>1. r = <<p.r0, p.r1>> \/ r = <<p.r1, p.r0>>
    BY <1>3
  <2> QED
    BY <1>5, <2>1
<1>7. bps \in Bps
  <2>1. fee \in Bps
    BY <1>5 DEF fee, Bps
  <2> QED
    BY <1>5, <2>1 DEF bps
<1>8. AmountOut(in, <<x, y>>, bps) \in Nat
  BY <1>4, <1>7, PaidOutIsNat
<1>9. r \in Nat \X Nat
  BY <1>6
<1>10. out \in Nat
  BY <1>2, <1>6, <1>8
<1> QED
  BY <1>2, <1>7, <1>9, <1>10 DEF p, out, r, in

(* A leg of the contract trades when the contract holds what the leg takes  *)
(* and the pair accepts; otherwise it reverts.                              *)
LEMMA RunLegIs ==
  ASSUME NEW w, World(w), NEW leg, LegOk(leg)
  PROVE  /\ World(RunLeg(w, leg))
         /\ IF /\ w.ok /\ Held(w, leg.in) >= w.amount
               /\ PairAccepts(w.pools[leg.pool], Reserves(w.pools[leg.pool], leg.in),
                              w.amount, LegOut(w, leg))
            THEN RunLeg(w, leg) = Swapped(w, leg, w.amount, LegOut(w, leg))
            ELSE ~RunLeg(w, leg).ok
<1> DEFINE p == w.pools[leg.pool]
           r == Reserves(p, leg.in)
           out == LegOut(w, leg)
           v == RunLeg(w, leg)
<1>1. v = IF ~w.ok \/ Held(w, leg.in) < w.amount \/ ~PairAccepts(p, r, w.amount, out)
          THEN [w EXCEPT !.ok = FALSE] ELSE Swapped(w, leg, w.amount, out)
  BY DEF RunLeg, LegOut
<1>2. w.amount \in Nat /\ Held(w, leg.in) \in Int /\ w.ok \in BOOLEAN /\ (w.ok => w.amount > 0)
  BY DEF World
<1>3. CASE ~w.ok \/ Held(w, leg.in) < w.amount \/ ~PairAccepts(p, r, w.amount, out)
  <2> HIDE DEF p, r, out, v
  <2>1. v = [w EXCEPT !.ok = FALSE]
    BY <1>1, <1>3
  <2>2. /\ v = [f \in WorldFields |-> v[f]] /\ v.ok = FALSE /\ v.pools = w.pools
        /\ v.amount = w.amount /\ v.held = w.held
    BY <2>1 DEF World, WorldFields
  <2>3. \A t : Held(v, t) = Held(w, t)
    BY <2>2 DEF Held
  <2>4. World(v)
    BY <2>2, <2>3 DEF World
  <2> QED
    BY <1>2, <1>3, <2>2, <2>4 DEF p, r, out, v
<1>4. CASE w.ok /\ ~(Held(w, leg.in) < w.amount) /\ PairAccepts(p, r, w.amount, out)
  <2>6. out \in Nat
    <3>1. w.ok
      BY <1>4
    <3> QED
      BY <3>1, LegOutIs
  <2> HIDE DEF p, r, out, v
  <2>7. out > 0 /\ out < r[2]
    BY <1>4 DEF PairAccepts
  <2>8. World(Swapped(w, leg, w.amount, out))
    <3>1. out < Reserves(w.pools[leg.pool], leg.in)[2] /\ w.ok
      BY <1>4, <2>7 DEF p, r
    <3> QED
      BY <2>6, <2>7, <3>1, SwappedIs
  <2> QED
    BY <1>1, <1>2, <1>4, <2>8 DEF p, r, out, v
<1> QED
  BY <1>2, <1>3, <1>4

(* A quote, which is the same amount; and a pair of empty reserves pays      *)
(* nothing that it would let go.                                             *)
LEMMA QuoteIs ==
  ASSUME NEW p, NEW token, NEW amount
  PROVE  Quote(p, token, amount) = AmountOut(amount, Reserves(p, token), p.fee)
<1>1. CASE p.t0 = token
  BY <1>1 DEF Quote, AmountOut, Reserves
<1>2. CASE p.t0 # token
  BY <1>2 DEF Quote, AmountOut, Reserves
<1> QED
  BY <1>1, <1>2

(* A pair accepts what it would pay by its own fee, unless it is empty or   *)
(* pays nothing.                                                            *)
LEMMA PairAcceptsIs ==
  ASSUME NEW p, PairOk(p), NEW token, NEW in \in Nat \ {0}
  PROVE  LET out == AmountOut(in, Reserves(p, token), p.charged)
         IN  PairAccepts(p, Reserves(p, token), in, out) <=> (p.r0 # 0 /\ p.r1 # 0 /\ out # 0)
<1> DEFINE r == Reserves(p, token)
           out == AmountOut(in, r, p.charged)
           bps == p.charged
<1>1. p.r0 \in Nat /\ p.r1 \in Nat /\ bps \in Bps
  BY PairIs
<1>2. r = IF p.t0 = token THEN <<p.r0, p.r1>> ELSE <<p.r1, p.r0>>
  BY DEF Reserves
<1> HIDE DEF r
<1>3. PICK x \in Nat, y \in Nat : r = <<x, y>> /\ ((p.r0 # 0 /\ p.r1 # 0) <=> (x # 0 /\ y # 0))
  BY <1>1, <1>2
<1>4. out = AmountOut(in, <<x, y>>, bps)
  BY <1>3
<1>5. PairAccepts(p, r, in, out) <=>
         (out > 0 /\ out < y /\ ((x + in) * 10000 - in * bps) * (y - out) >= x * y * 10000)
  BY <1>3 DEF PairAccepts
<1> HIDE DEF out, bps
<1>6. /\ out \in Nat
      /\ out > 0 => y > 0
      /\ x = 0 => out = y
      /\ x > 0 /\ out > 0 => out < y
      /\ x > 0 => ((x + in) * 10000 - in * bps) * (y - out) >= x * y * 10000
  BY <1>1, <1>4, PaidOut
<1> DEFINE kept == ((x + in) * 10000 - in * bps) * (y - out) >= x * y * 10000
<1>7. /\ x > 0 => kept
      /\ PairAccepts(p, r, in, out) <=> (out > 0 /\ out < y /\ kept)
  BY <1>5, <1>6
<1> HIDE DEF kept
<1>8. PairAccepts(p, r, in, out) <=> (x # 0 /\ y # 0 /\ out # 0)
  <2>1. ASSUME x = 0 PROVE ~PairAccepts(p, r, in, out)
    BY <1>6, <1>7, <2>1
  <2>2. ASSUME x # 0, out # 0 PROVE PairAccepts(p, r, in, out) /\ y # 0
    BY <1>6, <1>7, <2>2
  <2>3. ASSUME out = 0 PROVE ~PairAccepts(p, r, in, out)
    BY <1>7, <2>3
  <2> QED
    BY <2>1, <2>2, <2>3
<1> QED
  BY <1>3, <1>8 DEF out, r, bps

(* A quote goes leg by leg, too.                                             *)
WalkFields == {"ok", "pools", "token", "amount"}
Walking(q) == q = [f \in WalkFields |-> q[f]] /\ q.ok \in BOOLEAN

Stops(q, a) ==
    LET p == q.pools[a]
    IN  \/ ~q.ok \/ p.kind \notin {"v2", "v3"} \/ q.token \notin {p.t0, p.t1}
        \/ q.amount = 0 \/ p.r0 = 0 \/ p.r1 = 0 \/ Quote(p, q.token, q.amount) = 0

(* A leg of a quote is the quote of its pool, which is left as after the    *)
(* swap, unless the walk stops there.                                       *)
LEMMA LegIs ==
  ASSUME NEW q, Walking(q), NEW a
  PROVE  /\ Walking(Leg(q, a))
         /\ Leg(q, a).ok <=> ~Stops(q, a)
         /\ ~Stops(q, a) =>
               /\ Leg(q, a).amount = Quote(q.pools[a], q.token, q.amount)
               /\ Leg(q, a).token = TokenOut(q.pools[a], q.token)
               /\ Leg(q, a).pools = [q.pools EXCEPT ![a] =
                     AfterSwap(q.pools[a], q.token, q.amount, Quote(q.pools[a], q.token, q.amount))]
<1> DEFINE v == Leg(q, a)
           p == q.pools[a]
           out == Quote(p, q.token, q.amount)
           to == TokenOut(p, q.token)
           s == AfterSwap(p, q.token, q.amount, out)
<1>1. v = IF Stops(q, a) THEN [q EXCEPT !.ok = FALSE]
          ELSE [q EXCEPT !.amount = out, !.token = to, !.pools[a] = s]
  BY DEF Leg, Stops
<1> HIDE DEF v, out, to, s
<1>2. CASE Stops(q, a)
  <2>1. v = [f \in WalkFields |-> v[f]] /\ v.ok = FALSE
    BY <1>1, <1>2 DEF Walking, WalkFields
  <2>2. Walking(v)
    BY <2>1 DEF Walking
  <2> QED
    BY <1>2, <2>1, <2>2 DEF v
<1>3. CASE ~Stops(q, a)
  <2>1. /\ v = [f \in WalkFields |-> v[f]] /\ v.ok = q.ok /\ v.amount = out /\ v.token = to
        /\ v.pools = [q.pools EXCEPT ![a] = s]
    BY <1>1, <1>3 DEF Walking, WalkFields
  <2>2. Walking(v) /\ q.ok
    BY <1>3, <2>1 DEF Walking, Stops
  <2> QED
    BY <1>3, <2>1, <2>2 DEF v, out, to, s, p
<1> QED
  BY <1>2, <1>3

(* The quote and the contract are as far, and hold one token.                *)
Alike(q, w, token) ==
    /\ Walking(q) /\ World(w) /\ q.ok = w.ok
    /\ w.ok => /\ q.pools = w.pools /\ q.amount = w.amount /\ q.token = token
               /\ \A t : Held(w, t) = IF t = token THEN w.amount ELSE 0

(* One leg of either. Where the pool charges what it is believed to, the     *)
(* contract is paid what was quoted.                                         *)
TrueFee(leg) == Known[leg.pool].fee = Known[leg.pool].charged

(* A leg that charges what it is believed to pays what is quoted.           *)
LEMMA LegPays ==
  ASSUME NEW w, World(w), w.ok, NEW leg, LegOk(leg), TrueFee(leg)
  PROVE  LET p == w.pools[leg.pool]
         IN  /\ PairOk(p) /\ p.kind \in {"v2", "v3"}
             /\ leg.in \in {p.t0, p.t1} /\ leg.out = TokenOut(p, leg.in) /\ leg.in # leg.out
             /\ LegOut(w, leg) = AmountOut(w.amount, Reserves(p, leg.in), p.charged)
             /\ LegOut(w, leg) = Quote(p, leg.in, w.amount)
<1> DEFINE p == w.pools[leg.pool]
           k == Known[leg.pool]
<1>1. PairOk(p) /\ \A f \in Static : p[f] = k[f]
  BY DEF World, PoolsOk, LegOk
<1>2. p.t0 = k.t0 /\ p.t1 = k.t1 /\ p.fee = k.fee /\ p.charged = k.charged /\ p.kind = k.kind
  BY <1>1 DEF Static
<1>3. leg.fee = k.fee /\ leg.kind = k.kind /\ k.fee = k.charged
      /\ Routable(k) /\ leg.in \in {k.t0, k.t1} /\ leg.out = TokenOut(k, leg.in)
  BY DEF LegOk, TrueFee
<1>4. LegOut(w, leg) = IF leg.kind = "v2" THEN V2Out(p, leg, w.amount) ELSE V3Out(p, leg, w.amount)
  BY DEF LegOut
<1> HIDE DEF p, k
<1>5. p.t0 # p.t1
  BY <1>1, PairKind
<1>6. p.charged # 0
  BY <1>1, PairKind
<1>7. p.kind \in {"v2", "v3"}
  BY <1>2, <1>3 DEF Routable
<1>8. leg.in \in {p.t0, p.t1} /\ leg.out = TokenOut(p, leg.in) /\ leg.in # leg.out
  BY <1>2, <1>3, <1>5 DEF TokenOut
<1>9. LegOut(w, leg) = AmountOut(w.amount, Reserves(p, leg.in), p.charged)
  <2>1. leg.fee = p.charged /\ leg.fee # 0
    BY <1>2, <1>3, <1>6
  <2> QED
    BY <1>4, <2>1 DEF V2Out, V3Out
<1>10. LegOut(w, leg) = Quote(p, leg.in, w.amount)
  <2>1. p.fee = p.charged
    BY <1>2, <1>3
  <2> QED
    BY <1>9, <2>1, QuoteIs
<1> QED
  BY <1>1, <1>7, <1>8, <1>9, <1>10 DEF p

(* So a leg of the walk and a leg of the contract end alike.                *)
LEMMA LegsAlike ==
  ASSUME NEW q, NEW w, NEW leg, LegOk(leg), TrueFee(leg), Alike(q, w, leg.in)
  PROVE  Alike(Leg(q, leg.pool), RunLeg(w, leg), leg.out)
<1> DEFINE q2 == Leg(q, leg.pool)
           w2 == RunLeg(w, leg)
           a == leg.pool
           p == w.pools[a]
           out == LegOut(w, leg)
<1>1. Walking(q) /\ World(w) /\ q.ok = w.ok /\ w.ok \in BOOLEAN
  BY DEF Alike, World
<1>2. Walking(q2) /\ World(w2)
  BY <1>1, LegIs, RunLegIs
<1>3. CASE ~w.ok
  <2>1. ~q2.ok /\ ~w2.ok
    BY <1>1, <1>3, LegIs, RunLegIs DEF Stops
  <2>2. q2.ok \in BOOLEAN /\ w2.ok \in BOOLEAN
    BY <1>2 DEF Walking, World
  <2> QED
    BY <1>2, <2>1, <2>2 DEF Alike
<1>4. CASE w.ok
  <2>1. q.pools = w.pools /\ q.amount = w.amount /\ q.token = leg.in
        /\ \A t : Held(w, t) = IF t = leg.in THEN w.amount ELSE 0
    BY <1>4 DEF Alike
  <2>2. /\ PairOk(p) /\ p.kind \in {"v2", "v3"}
        /\ leg.in \in {p.t0, p.t1} /\ leg.out = TokenOut(p, leg.in) /\ leg.in # leg.out
        /\ out = AmountOut(w.amount, Reserves(p, leg.in), p.charged)
        /\ out = Quote(p, leg.in, w.amount)
    BY <1>1, <1>4, LegPays
  <2>3. w.amount \in Nat \ {0} /\ out \in Nat
    BY <1>1, <1>4, LegOutIs DEF World
  <2>4. PairAccepts(p, Reserves(p, leg.in), w.amount, out) <=> (p.r0 # 0 /\ p.r1 # 0 /\ out # 0)
    BY <2>2, <2>3, PairAcceptsIs
  <2>5. Stops(q, a) <=> (p.r0 = 0 \/ p.r1 = 0 \/ out = 0)
    <3>1. q.ok
      BY <1>1, <1>4
    <3> HIDE DEF out
    <3> QED
      BY <2>1, <2>2, <2>3, <3>1 DEF Stops
  <2>6. Held(w, leg.in) >= w.amount
    BY <2>1, <2>3
  <2>7. CASE Stops(q, a)
    <3>1. ~q2.ok
      BY <1>1, <2>7, LegIs
    <3>2. ~w2.ok
      <4>1. ~PairAccepts(p, Reserves(p, leg.in), w.amount, out)
        BY <2>4, <2>5, <2>7
      <4> QED
        BY <1>1, <4>1, RunLegIs
    <3>3. q2.ok \in BOOLEAN /\ w2.ok \in BOOLEAN
      BY <1>2 DEF Walking, World
    <3> QED
      BY <1>2, <3>1, <3>2, <3>3 DEF Alike
  <2>8. CASE ~Stops(q, a)
    <3>1. q2.ok /\ q2.amount = out /\ q2.token = leg.out
          /\ q2.pools = [w.pools EXCEPT ![a] = AfterSwap(p, leg.in, w.amount, out)]
      <4>1. /\ q2.ok
            /\ q2.amount = Quote(q.pools[a], q.token, q.amount)
            /\ q2.token = TokenOut(q.pools[a], q.token)
            /\ q2.pools = [q.pools EXCEPT ![a] =
                  AfterSwap(q.pools[a], q.token, q.amount, Quote(q.pools[a], q.token, q.amount))]
        BY <1>1, <2>8, LegIs
      <4> HIDE DEF q2, out
      <4> QED
        BY <2>1, <2>2, <4>1
    <3>2. PairAccepts(p, Reserves(p, leg.in), w.amount, out)
      BY <2>4, <2>5, <2>8
    <3>3. w2 = Swapped(w, leg, w.amount, out)
      BY <1>1, <1>4, <2>6, <3>2, RunLegIs
    <3>4. out > 0 /\ out < Reserves(w.pools[leg.pool], leg.in)[2]
      BY <3>2 DEF PairAccepts
    <3>5. /\ w2.ok /\ w2.amount = out
          /\ w2.pools = [w.pools EXCEPT ![a] = AfterSwap(p, leg.in, w.amount, out)]
          /\ \A t : Held(w2, t) = Held(w, t) + (IF t = leg.out THEN out ELSE 0)
                                             - (IF t = leg.in THEN w.amount ELSE 0)
      <4> HIDE DEF out
      <4> QED
        BY <1>1, <1>4, <2>3, <3>3, <3>4, SwappedIs
    <3>6. \A t : Held(w2, t) = IF t = leg.out THEN w2.amount ELSE 0
      <4> HIDE DEF out, w2
      <4> QED
        BY <2>1, <2>2, <2>3, <3>5
    <3>7. q2.ok = w2.ok
      <4>1. q2.ok \in BOOLEAN /\ w2.ok \in BOOLEAN
        BY <1>2 DEF Walking, World
      <4> QED
        BY <3>1, <3>5, <4>1
    <3> HIDE DEF q2, w2, out
    <3> QED
      BY <1>2, <3>1, <3>5, <3>6, <3>7 DEF Alike, q2, w2
  <2> QED
    BY <2>7, <2>8
<1> QED
  BY <1>1, <1>3, <1>4

(* A plan, leg by leg.                                                       *)
LEMMA PlanIs ==
  ASSUME NEW o \in Opps, Plannable(o)
  PROVE  /\ Plan(o).token = o.token /\ Plan(o).amount = o.input /\ Plan(o).minProfit = 1
         /\ o.input \in Nat \ {0} /\ Len(o.path) \in Nat \ {0} /\ Plan(o).legs # <<>>
         /\ Len(Plan(o).legs) = Len(o.path)
         /\ LegTokens(o)[0] = o.token
         /\ \A i \in 1 .. Len(o.path) :
               /\ LegOk(Plan(o).legs[i]) /\ Plan(o).legs[i].pool = o.path[i]
               /\ o.path[i] \in Range(o.path)
               /\ Plan(o).legs[i].in = LegTokens(o)[i - 1]
               /\ Plan(o).legs[i].out = LegTokens(o)[i]
<1> DEFINE tokens == LegTokens(o)
           leg(i) == [pool |-> o.path[i], in |-> tokens[i - 1], out |-> tokens[i],
                      kind |-> Known[o.path[i]].kind, fee |-> Known[o.path[i]].fee]
           legs == [i \in DOMAIN o.path |-> leg(i)]
<1>1. /\ o.path \in Seq(Range(o.path)) /\ o.input \in Nat /\ o.input > 0 /\ o.path # <<>>
      /\ Range(o.path) \subseteq DOMAIN Known
  BY OppsAssumption, ChainAssumption DEF Plannable
<1>2. Len(o.path) \in Nat \ {0} /\ DOMAIN o.path = 1 .. Len(o.path)
      /\ \A i \in 1 .. Len(o.path) : o.path[i] \in Range(o.path)
  BY <1>1
<1>3. /\ Plan(o).token = o.token /\ Plan(o).amount = o.input /\ Plan(o).minProfit = 1
      /\ Plan(o).legs = legs
  BY DEF Plan
<1>4. tokens[0] = o.token
      /\ \A i \in 1 .. Len(o.path) : tokens[i] = TokenOut(Known[o.path[i]], tokens[i - 1])
  BY <1>2, LegTokensIs
<1>5. Len(legs) = Len(o.path) /\ legs # <<>> /\ \A i \in 1 .. Len(o.path) : legs[i] = leg(i)
  <2> DEFINE n == Len(o.path)
  <2>1. legs = [i \in 1 .. n |-> leg(i)] /\ n \in Nat \ {0}
    BY <1>2
  <2> HIDE DEF leg, n
  <2>2. Len([i \in 1 .. n |-> leg(i)]) = n /\ DOMAIN [i \in 1 .. n |-> leg(i)] = 1 .. n
    BY <2>1
  <2>3. DOMAIN <<>> = {} /\ 1 \in 1 .. n
    BY <2>1
  <2>4. legs # <<>>
    BY <2>1, <2>2, <2>3
  <2> HIDE DEF legs
  <2>5. \A i \in 1 .. n : legs[i] = leg(i)
    BY <2>1
  <2> QED
    BY <2>1, <2>2, <2>4, <2>5 DEF n
<1>6. \A i \in 1 .. Len(o.path) :
         /\ LegOk(leg(i)) /\ leg(i).pool = o.path[i]
         /\ leg(i).in = tokens[i - 1] /\ leg(i).out = tokens[i]
  <2> TAKE i \in 1 .. Len(o.path)
  <2> DEFINE x == leg(i)
  <2>1. /\ x.pool = o.path[i] /\ x.in = tokens[i - 1] /\ x.out = tokens[i]
        /\ x.kind = Known[x.pool].kind /\ x.fee = Known[x.pool].fee
    OBVIOUS
  <2>2. Routable(Known[o.path[i]]) /\ tokens[i - 1] \in {Known[o.path[i]].t0, Known[o.path[i]].t1}
    BY <1>2 DEF Plannable
  <2>3. o.path[i] \in DOMAIN Known /\ tokens[i] = TokenOut(Known[o.path[i]], tokens[i - 1])
    BY <1>1, <1>2, <1>4
  <2> HIDE DEF x
  <2>4. LegOk(x)
    BY <2>1, <2>2, <2>3 DEF LegOk
  <2> QED
    BY <2>1, <2>4 DEF x
<1> HIDE DEF leg, legs, tokens
<1>7. \A i \in 1 .. Len(o.path) :
               /\ LegOk(Plan(o).legs[i]) /\ Plan(o).legs[i].pool = o.path[i]
               /\ o.path[i] \in Range(o.path)
               /\ Plan(o).legs[i].in = tokens[i - 1]
               /\ Plan(o).legs[i].out = tokens[i]
  BY <1>2, <1>3, <1>5, <1>6
<1>8. o.input \in Nat \ {0}
  BY <1>1
<1> QED
  BY <1>2, <1>3, <1>4, <1>5, <1>7, <1>8 DEF tokens

(* The contract when the loan has come, and as it runs.                      *)
LEMMA BegunIs ==
  ASSUME NEW o \in Opps, Plannable(o), NEW pools, PoolsOk(pools)
  PROVE  /\ World(Begun(pools, Plan(o))) /\ Begun(pools, Plan(o)).ok
         /\ Begun(pools, Plan(o)).pools = pools /\ Begun(pools, Plan(o)).amount = o.input
         /\ \A t : Held(Begun(pools, Plan(o)), t) = IF t = o.token THEN o.input ELSE 0
<1> DEFINE w == Begun(pools, Plan(o))
           plan == Plan(o)
           h == [t \in {plan.token} |-> plan.amount]
<1>1. plan.token = o.token /\ plan.amount = o.input /\ o.input \in Nat \ {0} /\ plan.legs # <<>>
  BY PlanIs
<1> HIDE DEF plan
<1>2. w = [ok |-> plan.amount > 0 /\ plan.legs # <<>>, pools |-> pools,
           held |-> h, amount |-> plan.amount]
  BY DEF Begun, plan
<1>3. plan.amount > 0 /\ plan.legs # <<>>
  BY <1>1
<1>4. /\ w = [f \in WorldFields |-> w[f]] /\ w.ok = TRUE /\ w.pools = pools
      /\ w.held = h /\ w.amount = plan.amount
  <2>1. w = [ok |-> TRUE, pools |-> pools, held |-> h, amount |-> plan.amount]
    BY <1>2, <1>3
  <2> HIDE DEF w, h
  <2> QED
    BY <2>1 DEF WorldFields
<1> HIDE DEF w
<1>5. \A t : Held(w, t) = IF t = o.token THEN o.input ELSE 0
  BY <1>1, <1>4 DEF Held
<1>6. \A t : Held(w, t) \in Int
  BY <1>1, <1>5
<1>7. World(w)
  <2>1. w.ok \in BOOLEAN /\ PoolsOk(w.pools)
    BY <1>4
  <2>2. w.amount \in Nat /\ w.amount > 0
    BY <1>1, <1>4
  <2> HIDE DEF h
  <2> QED
    BY <1>4, <1>6, <2>1, <2>2 DEF World
<1> QED
  BY <1>1, <1>4, <1>5, <1>7 DEF w

(* Whatever the contract runs, its pools remain pairs.                      *)
LEMMA WorldsRun ==
  ASSUME NEW o \in Opps, Plannable(o), NEW pools, PoolsOk(pools)
  PROVE  \A n \in 0 .. Len(o.path) : World(LegsRun(pools, Plan(o))[n])
<1> DEFINE w == LegsRun(pools, Plan(o))
           legs == Plan(o).legs
           Bad == {n \in Nat : n <= Len(o.path) /\ ~World(w[n])}
<1>1. /\ Len(o.path) \in Nat /\ Len(legs) = Len(o.path)
      /\ \A i \in 1 .. Len(o.path) : LegOk(legs[i])
  BY PlanIs
<1>2. w[0] = Begun(pools, Plan(o)) /\ \A i \in 1 .. Len(o.path) : w[i] = RunLeg(w[i - 1], legs[i])
  BY <1>1, LegsRunIs
<1>3. World(w[0])
  BY <1>2, BegunIs
<1> HIDE DEF w, legs
<1>4. Bad = {}
  <2>1. SUFFICES ASSUME Bad # {} PROVE FALSE
    OBVIOUS
  <2>2. PICK n \in Bad : \A k \in Bad : n <= k
    <3>1. Bad \subseteq Nat
      OBVIOUS
    <3> HIDE DEF Bad
    <3> QED
      BY <2>1, <3>1, LeastExists
  <2>3. n \in Nat /\ n <= Len(o.path) /\ ~World(w[n])
    OBVIOUS
  <2>4. n # 0
    BY <1>3, <2>3
  <2>5. n - 1 \in Nat /\ n - 1 <= Len(o.path) /\ ~(n <= n - 1) /\ n \in 1 .. Len(o.path)
    BY <1>1, <2>3, <2>4
  <2>6. World(w[n - 1])
    <3>1. n - 1 \notin Bad
      <4> HIDE DEF Bad
      <4> QED
        BY <2>2, <2>5
    <3> QED
      BY <2>5, <3>1
  <2> QED
    BY <1>1, <1>2, <2>3, <2>5, <2>6, RunLegIs
<1>5. \A n \in 0 .. Len(o.path) : World(w[n])
  BY <1>1, <1>4
<1> QED
  BY <1>5 DEF w

(* An execution leaves pools that are pairs, and earns a number.            *)
LEMMA ExecuteKeeps ==
  ASSUME NEW o \in Opps, Plannable(o), NEW pools, PoolsOk(pools)
  PROVE  LET r == Execute(pools, Plan(o), Native)
         IN  r.ok \in BOOLEAN /\ PoolsOk(r.pools) /\ r.gain \in Int
<1> DEFINE plan == Plan(o)
           w == LegsRun(pools, plan)[Len(plan.legs)]
           r == Execute(pools, plan, Native)
<1>1. Len(plan.legs) \in 0 .. Len(o.path) /\ plan.token = o.token /\ plan.amount \in Int
  BY PlanIs
<1>2. World(w)
  <2>1. Len(plan.legs) = Len(o.path)
    BY PlanIs
  <2> QED
    BY <1>1, <2>1, WorldsRun
<1>3. r = IF w.ok /\ Left(w, plan) >= plan.minProfit
          THEN [ok |-> TRUE, pools |-> w.pools, gain |-> IF plan.token = Native THEN Left(w, plan) ELSE 0]
          ELSE [ok |-> FALSE, pools |-> pools, gain |-> 0]
  BY DEF Execute
<1> HIDE DEF w, plan, r
<1>4. Left(w, plan) \in Int
  BY <1>1, <1>2 DEF Left, World
<1>5. PoolsOk(w.pools)
  BY <1>2 DEF World
<1>6. r.ok \in BOOLEAN /\ PoolsOk(r.pools) /\ r.gain \in Int
  BY <1>3, <1>4, <1>5
<1> QED
  BY <1>6 DEF r, plan

(* The contract runs as the quote walks, where every pool charges what it is *)
(* believed to.                                                              *)
LEMMA RunsAlike ==
  ASSUME NEW o \in Opps, Plannable(o), NEW pools, PoolsOk(pools),
         \A i \in 1 .. Len(o.path) : TrueFee(Plan(o).legs[i])
  PROVE  \A n \in 0 .. Len(o.path) :
            Alike(Walked(pools, o.path, o.token, o.input)[n],
                  LegsRun(pools, Plan(o))[n], LegTokens(o)[n])
<1> DEFINE q == Walked(pools, o.path, o.token, o.input)
           w == LegsRun(pools, Plan(o))
           legs == Plan(o).legs
           tokens == LegTokens(o)
           Bad == {n \in Nat : n <= Len(o.path) /\ ~Alike(q[n], w[n], tokens[n])}
<1>1. /\ Len(o.path) \in Nat /\ Len(legs) = Len(o.path) /\ tokens[0] = o.token
      /\ \A i \in 1 .. Len(o.path) : /\ LegOk(legs[i]) /\ legs[i].pool = o.path[i]
                                     /\ legs[i].in = tokens[i - 1] /\ legs[i].out = tokens[i]
  BY PlanIs
<1>2. \A i \in 1 .. Len(o.path) : TrueFee(legs[i])
  OBVIOUS
<1>3. w[0] = Begun(pools, Plan(o)) /\ \A i \in 1 .. Len(o.path) : w[i] = RunLeg(w[i - 1], legs[i])
  BY <1>1, LegsRunIs
<1>4. /\ q[0] = AtStart(pools, o.token, o.input)
      /\ \A i \in 1 .. Len(o.path) : q[i] = Leg(q[i - 1], o.path[i])
  BY <1>1, WalkedIs
<1>5. Alike(q[0], w[0], tokens[0])
  <2> DEFINE a == AtStart(pools, o.token, o.input)
             b == Begun(pools, Plan(o))
  <2>1. /\ World(b) /\ b.ok /\ b.pools = pools /\ b.amount = o.input
        /\ \A t : Held(b, t) = IF t = o.token THEN o.input ELSE 0
    BY BegunIs
  <2>2. /\ a = [f \in WalkFields |-> a[f]] /\ a.ok = TRUE /\ a.pools = pools
        /\ a.token = o.token /\ a.amount = o.input
    BY DEF AtStart, WalkFields
  <2> HIDE DEF a, b
  <2>3. a.ok = b.ok
    <3>1. b.ok \in BOOLEAN
      BY <2>1 DEF World
    <3> QED
      BY <2>1, <2>2, <3>1
  <2>4. Alike(a, b, o.token)
    BY <2>1, <2>2, <2>3 DEF Alike, Walking
  <2> QED
    BY <1>1, <1>3, <1>4, <2>4 DEF a, b
<1> HIDE DEF q, w, legs, tokens
<1>6. Bad = {}
  <2>1. SUFFICES ASSUME Bad # {} PROVE FALSE
    OBVIOUS
  <2>2. PICK n \in Bad : \A k \in Bad : n <= k
    <3>1. Bad \subseteq Nat
      OBVIOUS
    <3> HIDE DEF Bad
    <3> QED
      BY <2>1, <3>1, LeastExists
  <2>3. n \in Nat /\ n <= Len(o.path) /\ ~Alike(q[n], w[n], tokens[n])
    OBVIOUS
  <2>4. n # 0
    BY <1>5, <2>3
  <2>5. n - 1 \in Nat /\ n - 1 <= Len(o.path) /\ ~(n <= n - 1) /\ n \in 1 .. Len(o.path)
    BY <1>1, <2>3, <2>4
  <2>6. Alike(q[n - 1], w[n - 1], tokens[n - 1])
    <3>1. n - 1 \notin Bad
      <4> HIDE DEF Bad
      <4> QED
        BY <2>2, <2>5
    <3> QED
      BY <2>5, <3>1
  <2> HIDE DEF Bad
  <2>7. Alike(Leg(q[n - 1], legs[n].pool), RunLeg(w[n - 1], legs[n]), legs[n].out)
    <3>1. LegOk(legs[n]) /\ TrueFee(legs[n]) /\ Alike(q[n - 1], w[n - 1], legs[n].in)
      BY <1>1, <1>2, <2>5, <2>6
    <3> QED
      BY <3>1, LegsAlike
  <2>8. q[n] = Leg(q[n - 1], legs[n].pool) /\ w[n] = RunLeg(w[n - 1], legs[n]) /\ tokens[n] = legs[n].out
    BY <1>1, <1>3, <1>4, <2>5
  <2> QED
    BY <2>3, <2>7, <2>8
<1>7. \A n \in 0 .. Len(o.path) : Alike(q[n], w[n], tokens[n])
  BY <1>1, <1>6
<1> QED
  BY <1>7 DEF q, w, tokens

(* What the contract earns is the quote, if it repays the loan.              *)
Quoted(r, w, input) ==
    /\ r.ok <=> (w.ok /\ w.amount > input)
    /\ r.ok => r.gain = w.amount - input

(* Where the fees are the believed ones, what the contract earns is what    *)
(* the walk quotes.                                                         *)
LEMMA ExecuteIsQuote ==
  ASSUME NEW o \in Opps, Plannable(o), Simulatable(o), NEW pools, PoolsOk(pools),
         o.token = Native, TrueFees(o, pools)
  PROVE  Quoted(Execute(pools, Plan(o), Native),
                WalkQuotePost(pools, o.path, o.token, o.input), o.input)
<1> DEFINE n == Len(o.path)
           plan == Plan(o)
           w == LegsRun(pools, plan)[Len(plan.legs)]
           q == WalkQuotePost(pools, o.path, o.token, o.input)
           r == Execute(pools, plan, Native)
<1>1. /\ plan.token = o.token /\ plan.amount = o.input /\ plan.minProfit = 1
      /\ o.input \in Nat \ {0} /\ n \in Nat \ {0} /\ Len(plan.legs) = n
      /\ \A i \in 1 .. n : LegOk(plan.legs[i]) /\ plan.legs[i].pool \in Range(o.path)
  BY PlanIs
<1>2. \A i \in 1 .. n : TrueFee(plan.legs[i])
  <2> TAKE i \in 1 .. n
  <2> DEFINE leg == plan.legs[i]
  <2>1. LegOk(leg) /\ leg.pool \in Range(o.path)
    BY <1>1
  <2> HIDE DEF leg
  <2>2. /\ leg.pool \in DOMAIN Known /\ pools[leg.pool].fee = pools[leg.pool].charged
        /\ \A f \in Static : pools[leg.pool][f] = Known[leg.pool][f]
    BY <2>1 DEF LegOk, TrueFees, PoolsOk
  <2> QED
    BY <2>2 DEF TrueFee, Static, leg
<1>3. LegTokens(o)[n] = o.token
  BY ChainAssumption
<1>4. Alike(q, w, o.token)
  <2>1. n \in 0 .. n
    BY <1>1
  <2>2. Alike(Walked(pools, o.path, o.token, o.input)[n], LegsRun(pools, plan)[n], LegTokens(o)[n])
    BY <1>2, <2>1, RunsAlike
  <2> QED
    BY <1>1, <1>3, <2>2 DEF WalkQuotePost
<1>5. r = IF w.ok /\ Left(w, plan) >= plan.minProfit
          THEN [ok |-> TRUE, pools |-> w.pools, gain |-> IF plan.token = Native THEN Left(w, plan) ELSE 0]
          ELSE [ok |-> FALSE, pools |-> pools, gain |-> 0]
  BY DEF Execute
<1> HIDE DEF n, plan, w, q, r
<1>6. q.ok = w.ok /\ w.ok \in BOOLEAN /\ w.amount \in Nat
  BY <1>4 DEF Alike, World
<1>7. w.ok => Left(w, plan) = q.amount - o.input /\ q.amount = w.amount
  BY <1>1, <1>4 DEF Alike, Left
<1> DEFINE amount == q.amount
           input == o.input
           left == Left(w, plan)
<1>8. w.ok => (amount \in Nat /\ left = amount - input)
  BY <1>6, <1>7
<1>9. input \in Nat /\ plan.minProfit = 1 /\ plan.token = Native
  BY <1>1
<1>10. /\ r.ok <=> (w.ok /\ left >= 1)
       /\ r.ok => r.gain = left
  BY <1>5, <1>9
<1> HIDE DEF amount, input, left
<1>11. w.ok => (left >= 1 <=> amount > input)
  BY <1>8, <1>9
<1>12. r.ok <=> (q.ok /\ amount > input)
  BY <1>6, <1>10, <1>11
<1>13. r.ok => r.gain = amount - input
  BY <1>8, <1>10
<1> QED
  BY <1>12, <1>13 DEF Quoted, amount, input, r, q, plan

----------------------------------------------------------------------------
(* The fork, and what was run on it.                                         *)

ForkFields == {"block", "pending", "pools", "balance", "executor", "live"}

(* The pools of the fork are those of a block, whatever was run on it.       *)
ForkSound ==
    /\ DOMAIN fork = ForkFields
    /\ mode = "revm" => prepared = NoBlock
    /\ prepared # NoBlock => fork.block # NoBlock
    /\ fork.block # NoBlock => PoolsOk(fork.pools)

(* The latest run was of a plan by the contract, on the pools it had.        *)
LastRun ==
    last.forked =>
        \E o \in Opps :
            /\ last.id = o.id /\ Simulatable(o) /\ Plannable(o) /\ PoolsOk(last.pools)
            /\ last.ok = Execute(last.pools, Plan(o), Native).ok
            /\ last.gain = Execute(last.pools, Plan(o), Native).gain

(* The pools of a block of the chain, after any of its transactions.         *)
LEMMA ChainPools ==
  ASSUME NEW o \in Opps
  PROVE  /\ o.block \in Nat /\ o.block - 1 \in Nat /\ ForkBlock(o) \in Nat
         /\ PoolsOk(Last(Chain[ForkBlock(o)])) /\ PoolsOk(RevmState(o))
<1>1. /\ o.block \in DOMAIN Chain /\ o.block - 1 \in DOMAIN Chain
      /\ o.block \in Nat /\ o.block - 1 \in Nat /\ o.tx \in Nat /\ o.mempool \in BOOLEAN
  BY ChainAssumption, OppsAssumption
<1>2. \A b \in DOMAIN Chain :
         /\ Len(Chain[b]) \in Nat \ {0} /\ \A i \in 1 .. Len(Chain[b]) : PoolsOk(Chain[b][i])
  <2> TAKE b \in DOMAIN Chain
  <2> DEFINE c == Chain[b]
  <2>1. c \in Seq(Range(c)) /\ c # <<>>
    BY ChainAssumption
  <2>2. \A i \in DOMAIN c :
           /\ DOMAIN c[i] = DOMAIN Known
           /\ \A a \in DOMAIN Known : PairOk(c[i][a]) /\ \A f \in Static : c[i][a][f] = Known[a][f]
    BY ChainAssumption DEF Static
  <2> HIDE DEF c
  <2>3. \A i \in DOMAIN c : PoolsOk(c[i])
    BY <2>2 DEF PoolsOk
  <2>4. Len(c) \in Nat \ {0} /\ DOMAIN c = 1 .. Len(c)
    BY <2>1
  <2>5. Len(c) \in Nat \ {0} /\ \A i \in 1 .. Len(c) : PoolsOk(c[i])
    BY <2>3, <2>4
  <2> QED
    BY <2>5 DEF c
<1>3. ForkBlock(o) \in DOMAIN Chain /\ ForkBlock(o) \in Nat
  BY <1>1 DEF ForkBlock
<1>4. \A b \in DOMAIN Chain : PoolsOk(Last(Chain[b]))
  <2> TAKE b \in DOMAIN Chain
  <2>1. Last(Chain[b]) = Chain[b][Len(Chain[b])]
    BY DEF Last
  <2>2. Len(Chain[b]) \in 1 .. Len(Chain[b])
    BY <1>2
  <2> QED
    BY <1>2, <2>1, <2>2
<1>5. PoolsOk(RevmState(o))
  <2> DEFINE i == Lesser(o.tx + 2, Len(Chain[o.block]))
  <2>1. i \in 1 .. Len(Chain[o.block])
    <3> DEFINE n == Len(Chain[o.block])
    <3>1. n \in Nat \ {0}
      BY <1>1, <1>2
    <3> HIDE DEF n
    <3>2. Lesser(o.tx + 2, n) \in 1 .. n
      BY <1>1, <3>1 DEF Lesser
    <3> QED
      BY <3>2 DEF n
  <2> HIDE DEF i
  <2>2. PoolsOk(Chain[o.block][i])
    BY <1>1, <1>2, <2>1
  <2> QED
    BY <1>1, <1>4, <2>2 DEF RevmState, i
<1> QED
  BY <1>1, <1>3, <1>4, <1>5

(* What an opportunity that is run is.                                       *)
LEMMA RunningIs ==
  ASSUME session \in SUBSET Opps, NEW o \in session, Running(o)
  PROVE  o \in Opps /\ Simulatable(o)
BY DEF Running, Considering, ExecGate

(* A fork that is where an opportunity needs it holds the pools of a block.  *)
LEMMA ForkReady ==
  ASSUME ForkSound, NEW o \in Opps,
         ForkedAt(o) \/ prepared = ForkBlock(o)
  PROVE  PoolsOk(fork.pools) /\ fork.block # NoBlock
<1>1. ForkBlock(o) \in Nat
  BY ChainPools
<1>2. NoBlock \notin Nat
  BY DEF NoBlock
<1>3. ForkedAt(o) => fork.block = ForkBlock(o)
  BY DEF ForkedAt, ForkBlock
<1>4. fork.block # NoBlock
  BY <1>1, <1>2, <1>3 DEF ForkSound
<1> QED
  BY <1>4 DEF ForkSound

(* A run on it is an answer in numbers, and leaves it sound.                 *)
LEMMA CalledIs ==
  ASSUME NEW o \in Opps, Plannable(o), PoolsOk(fork.pools)
  PROVE  /\ Called(o).ok \in BOOLEAN /\ PoolsOk(Called(o).pools) /\ Called(o).gain \in Int
         /\ ExecGas(o) \in Nat /\ ExecLimit(o) \in Nat
<1>1. ExecGas(o) \in Nat /\ ExecLimit(o) \in Nat
  <2>1. Executes.used \in Nat /\ Executes.limit \in Nat /\ Price[o.block] \in Nat
    BY ExecAssumption
  <2> DEFINE u == Executes.used
             n == Executes.limit
             p == Price[o.block]
  <2>2. u \in Nat /\ n \in Nat /\ p \in Nat
    BY <2>1
  <2> HIDE DEF u, n, p
  <2>3. u * p \in Nat /\ n * p \in Nat
    BY <2>2
  <2> QED
    BY <2>3 DEF u, n, p, ExecGas, ExecLimit
<1>2. CASE fork.executor
  <2>1. Called(o) = Execute(fork.pools, Plan(o), Native)
    BY <1>2 DEF Called
  <2> QED
    BY <1>1, <2>1, ExecuteKeeps
<1>3. CASE ~fork.executor
  <2>1. Called(o) = [ok |-> TRUE, pools |-> fork.pools, gain |-> 0]
    BY <1>3 DEF Called
  <2>2. Called(o).ok \in BOOLEAN
    BY <2>1
  <2>3. Called(o).gain \in Int
    BY <2>1
  <2>4. PoolsOk(Called(o).pools)
    BY <2>1
  <2> QED
    BY <1>1, <2>2, <2>3, <2>4
<1> QED
  BY <1>2, <1>3

(* A mined execution leaves the fork where it was, with the pools of the    *)
(* execution.                                                               *)
LEMMA MinedIs ==
  ASSUME ForkSound, NEW o, NEW r, PoolsOk(r.pools)
  PROVE  LET f == Mined(o, r)
         IN  /\ DOMAIN f = ForkFields /\ f.block = fork.block /\ PoolsOk(f.pools)
<1>1. DOMAIN fork = ForkFields
  BY DEF ForkSound
<1>2. Mined(o, r) = [fork EXCEPT !.pools = r.pools, !.balance = @ + r.gain - ExecGas(o)]
  BY DEF Mined
<1> DEFINE f == Mined(o, r)
           x == fork.balance + r.gain - ExecGas(o)
<1>3. f = [fork EXCEPT !.pools = r.pools, !.balance = x]
  BY <1>2
<1> HIDE DEF f, x
<1>4. DOMAIN f = ForkFields /\ f.block = fork.block /\ f.pools = r.pools
  BY <1>1, <1>3 DEF ForkFields
<1> QED
  BY <1>4 DEF f

(* The steps that leave the fork where it is, or with what a run has left.   *)
LEMMA ForkStays ==
  ASSUME ForkSound, mode' = mode, prepared' = prepared, DOMAIN fork' = ForkFields,
         fork'.block = fork.block, fork.block # NoBlock => PoolsOk(fork'.pools)
  PROVE  ForkSound'
BY DEF ForkSound

(* The latest run is noted.                                                  *)
LEMMA LastNoted ==
  ASSUME NEW o \in Opps, Simulatable(o), Plannable(o), PoolsOk(fork.pools), NEW r,
         fork.executor => r = Execute(fork.pools, Plan(o), Native), last' = Noted(o, r)
  PROVE  LastRun'
<1>1. /\ last'.id = o.id /\ last'.ok = r.ok /\ last'.pools = fork.pools /\ last'.gain = r.gain
      /\ last'.forked => fork.executor
  BY DEF Noted
<1> QED
  BY <1>1 DEF LastRun

(* Each step keeps the fork and the latest run as they should be.            *)
LEMMA ForkNext ==
  ASSUME session \in SUBSET Opps, ForkSound, LastRun, [Next]_vars
  PROVE  ForkSound' /\ LastRun'
<1>1. /\ DOMAIN NoFork = ForkFields /\ NoFork.block = NoBlock
  BY DEF NoFork, ForkFields
<1>3. last' = last => LastRun'
  BY DEF LastRun
<1>4. (mode' = mode /\ prepared' = prepared /\ fork' = fork) => ForkSound'
  BY DEF ForkSound
<1>5. CASE BeginPass
  <2>1. /\ last' = last /\ mode' = mode /\ prepared' = prepared
        /\ fork' = IF mode = "revm" THEN NoFork ELSE fork
    BY <1>5 DEF BeginPass
  <2>2. CASE mode = "revm"
    BY <1>1, <1>3, <2>1, <2>2 DEF ForkSound
  <2>3. CASE mode # "revm"
    BY <1>3, <1>4, <2>1, <2>3
  <2> QED
    BY <2>2, <2>3
<1>6. CASE GatedOut
  BY <1>3, <1>4, <1>6 DEF GatedOut
<1>7. CASE FromCache
  BY <1>3, <1>4, <1>7 DEF FromCache
<1>8. CASE OpenRevm
  <2>1. PICK o \in session :
           /\ mode = "revm" /\ mode' = mode /\ prepared' = prepared /\ last' = last
           /\ fork' = [block |-> o.block - (IF o.mempool THEN 1 ELSE 0), pending |-> o.mempool,
                       pools |-> RevmState(o), balance |-> Now.wallet - DeployGas(o),
                       executor |-> TRUE, live |-> TRUE]
    BY <1>8 DEF OpenRevm
  <2>2. PoolsOk(RevmState(o))
    BY ChainPools
  <2> DEFINE b == o.block - (IF o.mempool THEN 1 ELSE 0)
             n == Now.wallet - DeployGas(o)
             ps == RevmState(o)
             m == o.mempool
  <2>3. fork' = [block |-> b, pending |-> m, pools |-> ps, balance |-> n, executor |-> TRUE, live |-> TRUE]
    BY <2>1
  <2> HIDE DEF b, n, ps, m
  <2>4. DOMAIN fork' = ForkFields /\ fork'.pools = ps
    BY <2>3 DEF ForkFields
  <2>5. PoolsOk(fork'.pools) /\ prepared = NoBlock
    BY <2>1, <2>2, <2>4 DEF ForkSound, ps
  <2> QED
    BY <1>3, <2>1, <2>4, <2>5 DEF ForkSound
<1>9. CASE OpenRevmFails
  BY <1>3, <1>4, <1>9 DEF OpenRevmFails, BuildFails
<1>10. CASE RunRevm
  <2>1. PICK o \in session :
           /\ Running(o) /\ ForkedAt(o) /\ Plannable(o)
           /\ mode' = mode /\ prepared' = prepared
           /\ \/ fork' = fork /\ last' = last
              \/ /\ fork' = Mined(o, Execute(fork.pools, Plan(o), Native))
                 /\ last' = Noted(o, Execute(fork.pools, Plan(o), Native))
    BY <1>10 DEF RunRevm
  <2>2. o \in Opps /\ Simulatable(o) /\ PoolsOk(fork.pools)
    BY <2>1, RunningIs, ForkReady
  <2>3. CASE fork' = fork /\ last' = last
    BY <1>3, <1>4, <2>1, <2>3
  <2>4. CASE /\ fork' = Mined(o, Execute(fork.pools, Plan(o), Native))
             /\ last' = Noted(o, Execute(fork.pools, Plan(o), Native))
    <3> DEFINE r == Execute(fork.pools, Plan(o), Native)
    <3>1. PoolsOk(r.pools)
      BY <2>1, <2>2, ExecuteKeeps
    <3>2. fork' = Mined(o, r) /\ last' = Noted(o, r) /\ (fork.executor => r = Execute(fork.pools, Plan(o), Native))
      BY <2>4
    <3> HIDE DEF r
    <3>3. DOMAIN fork' = ForkFields /\ fork'.block = fork.block /\ PoolsOk(fork'.pools)
      BY <3>1, <3>2, MinedIs
    <3> QED
      BY <2>1, <2>2, <3>2, <3>3, ForkStays, LastNoted
  <2> QED
    BY <2>1, <2>3, <2>4
<1>11. CASE RunRevmFails
  <2>1. PICK o \in session :
           /\ mode' = mode /\ prepared' = prepared /\ last' = last
           /\ fork' = fork \/ fork' = [fork EXCEPT !.live = FALSE]
    BY <1>11 DEF RunRevmFails, BuildFails
  <2>2. /\ DOMAIN fork' = ForkFields /\ fork'.block = fork.block /\ fork'.pools = fork.pools
    <3>1. DOMAIN fork = ForkFields
      BY DEF ForkSound
    <3> QED
      BY <2>1, <3>1 DEF ForkFields
  <2> QED
    BY <1>3, <2>1, <2>2, ForkStays DEF ForkSound
<1>12. CASE Unplannable
  BY <1>3, <1>4, <1>12 DEF Unplannable, BuildFails
<1>13. ASSUME NEW o \in Opps, NEW gas, NEW d, ResetNode(o, gas, d), mode = "anvil", mode' = mode, last' = last,
              prepared' = prepared \/ prepared' = ForkBlock(o)
       PROVE  ForkSound' /\ LastRun'
  <2> DEFINE b == ForkBlock(o)
             n == Now.wallet - gas
             ps == Last(Chain[ForkBlock(o)])
             m == o.mempool
  <2>1. fork' = [block |-> b, pending |-> m, pools |-> ps, balance |-> n, executor |-> d, live |-> TRUE]
    BY <1>13 DEF ResetNode
  <2>2. PoolsOk(ps) /\ b \in Nat
    BY ChainPools
  <2> HIDE DEF b, n, ps, m
  <2>3. DOMAIN fork' = ForkFields /\ fork'.pools = ps /\ fork'.block = b
    BY <2>1 DEF ForkFields
  <2>4. PoolsOk(fork'.pools) /\ fork'.block # NoBlock
    BY <2>2, <2>3 DEF NoBlock
  <2> QED
    BY <1>3, <1>13, <2>3, <2>4 DEF ForkSound
<1>14. CASE PrepareAnvil
  <2>1. PICK o \in session : /\ ResetNode(o, DeployGas(o), TRUE) /\ mode = "anvil" /\ mode' = mode /\ last' = last
                             /\ prepared' = ForkBlock(o)
    BY <1>14 DEF PrepareAnvil
  <2> QED
    BY <1>13, <2>1
<1>15. CASE PrepareAnvilFails
  <2>1. PICK o \in session : /\ mode = "anvil" /\ mode' = mode /\ last' = last /\ prepared' = prepared
                             /\ \/ fork' = fork
                                \/ \E gas, d : ResetNode(o, gas, d)
    BY <1>15 DEF PrepareAnvilFails, BuildFails
  <2>2. CASE fork' = fork
    BY <1>3, <1>4, <2>1, <2>2
  <2>3. CASE \E gas, d : ResetNode(o, gas, d)
    <3>1. PICK gas, d : ResetNode(o, gas, d)
      BY <2>3
    <3> QED
      BY <1>13, <2>1, <3>1
  <2> QED
    BY <2>1, <2>2, <2>3
<1>16. CASE SendAnvil
  <2>1. PICK o \in session :
           /\ Running(o) /\ prepared = ForkBlock(o) /\ Plannable(o)
           /\ mode' = mode /\ prepared' = prepared
           /\ fork' = Mined(o, Called(o)) /\ last' = Noted(o, Called(o))
    BY <1>16 DEF SendAnvil
  <2>2. o \in Opps /\ Simulatable(o) /\ PoolsOk(fork.pools)
    BY <2>1, RunningIs, ForkReady
  <2> DEFINE r == Called(o)
  <2>3. PoolsOk(r.pools)
    BY <2>1, <2>2, CalledIs
  <2>4. fork.executor => r = Execute(fork.pools, Plan(o), Native)
    BY DEF Called
  <2>5. fork' = Mined(o, r) /\ last' = Noted(o, r)
    BY <2>1
  <2> HIDE DEF r
  <2>6. DOMAIN fork' = ForkFields /\ fork'.block = fork.block /\ PoolsOk(fork'.pools)
    BY <2>3, <2>5, MinedIs
  <2> QED
    BY <2>1, <2>2, <2>4, <2>5, <2>6, ForkStays, LastNoted
<1>17. CASE ReceiptFails \/ SendAnvilFails
  <2>1. PICK o \in session :
           /\ Running(o) /\ prepared = ForkBlock(o) /\ Plannable(o)
           /\ mode' = mode /\ prepared' = prepared /\ last' = last
           /\ fork' \in {fork, Mined(o, Called(o))}
    BY <1>17 DEF ReceiptFails, SendAnvilFails, BuildFails
  <2>2. o \in Opps /\ PoolsOk(fork.pools)
    BY <2>1, RunningIs, ForkReady
  <2> DEFINE r == Called(o)
  <2>3. PoolsOk(r.pools)
    BY <2>1, <2>2, CalledIs
  <2>4. fork' = fork \/ fork' = Mined(o, r)
    BY <2>1
  <2> HIDE DEF r
  <2>5. CASE fork' = fork
    BY <1>3, <1>4, <2>1, <2>5
  <2>6. CASE fork' = Mined(o, r)
    <3>1. DOMAIN fork' = ForkFields /\ fork'.block = fork.block /\ PoolsOk(fork'.pools)
      BY <2>3, <2>6, MinedIs
    <3> QED
      BY <1>3, <2>1, <3>1, ForkStays
  <2> QED
    BY <2>4, <2>5, <2>6
<1>18. CASE UNCHANGED vars
  BY <1>3, <1>4, <1>18 DEF vars
<1> QED
  BY <1>5, <1>6, <1>7, <1>8, <1>9, <1>10, <1>11, <1>12, <1>14, <1>15, <1>16, <1>17, <1>18
     DEF Next

----------------------------------------------------------------------------
(* The invariant.                                                            *)

List == Ranked(session)
Done == Len(List) - Len(todo)

(* What is still to be considered is the end of the list.                    *)
Listed ==
    /\ session \in SUBSET Opps /\ pass \in 0 .. Len(Delivered)
    /\ todo \in Seq(session) /\ Len(todo) <= Len(List)
    /\ \A i \in 1 .. Len(todo) : todo[i] = List[Done + i]

(* Each run was answered and its answer is kept, but for those that were lost:*)
(* there is one answer for the rest, and so at most one such run.            *)
Counted ==
    /\ sent \in [Ids -> Nat] /\ lost \in [Ids -> Nat]
    /\ \A id \in Ids : sent[id] = lost[id] + (IF id \in DOMAIN cache THEN 1 ELSE 0)
AnswersKept == Kept(cache) /\ Counted

(* The ledger is what the list and the answers make it.                      *)
BooksAnswers == ledger = Books(List, cache)[Done]

(* And so was the last, of the same list, if nothing was left out of it.     *)
BooksStand ==
    (pass > 0 /\ Delivered[pass] = {} /\ LeftOut(booked) = {}) =>
        booked = Books(List, cache)[Len(List)]

LedgerInv == Listed /\ AnswersKept /\ BooksAnswers /\ BooksStand
SessionInv == LedgerInv /\ ForkSound /\ LastRun

(* The invariant at the beginning: no list, and no answers.                  *)
LEMMA SessionInit == Init => SessionInv
<1> SUFFICES ASSUME Init PROVE SessionInv
  OBVIOUS
<1>1. session = {} /\ todo = <<>> /\ pass = 0 /\ ledger = NewLedger /\ cache = <<>>
      /\ sent = [id \in Ids |-> 0] /\ lost = sent
  BY DEF Init
<1>2. session \in SUBSET Opps
  BY <1>1
<1>3. Len(List) = 0
  BY <1>1, <1>2, RankedLists, FS_EmptySet DEF List
<1>4. <<>> \in Seq(session) /\ Len(<<>>) = 0
  OBVIOUS
<1>5. Len(Delivered) \in Nat
  BY ExecAssumption
<1>6. Listed
  BY <1>1, <1>2, <1>3, <1>4, <1>5 DEF Listed
<1>7. DOMAIN cache = {}
  <2>1. DOMAIN <<>> = {}
    OBVIOUS
  <2> QED
    BY <1>1, <2>1
<1>8. AnswersKept
  BY <1>1, <1>7 DEF AnswersKept, Kept, Counted
<1>9. Done = 0 /\ Books(List, cache)[0] = NewLedger
  <2>1. Len(todo) = 0
    BY <1>1, <1>4
  <2>2. Done = 0 - 0
    BY <1>3, <2>1 DEF Done
  <2>3. Len(List) \in Nat
    BY <1>3
  <2> QED
    BY <2>2, <2>3, BooksIs
<1>10. LedgerInv
  BY <1>1, <1>6, <1>8, <1>9 DEF LedgerInv, BooksAnswers, BooksStand
<1>11. ForkSound
  BY DEF Init, ForkSound, NoFork, ForkFields
<1>12. LastRun
  BY DEF Init, LastRun, NoRun
<1> QED
  BY <1>10, <1>11, <1>12 DEF SessionInv

(* What the list says of the one at its head.                                *)
LEMMA HeadIs ==
  ASSUME Listed, todo # <<>>
  PROVE  /\ Len(List) \in Nat /\ Done \in 0 .. Len(List) /\ Done + 1 \in 1 .. Len(List)
         /\ Head(todo) = List[Done + 1] /\ Head(todo) \in session /\ Head(todo) \in Opps
         /\ Tail(todo) \in Seq(session) /\ Len(Tail(todo)) = Len(todo) - 1
         /\ \A i \in 1 .. Len(todo) - 1 : Tail(todo)[i] = List[(Done + 1) + i]
         /\ \A i \in 1 .. Done : List[i].id # Head(todo).id
<1>1. Len(List) \in Nat /\ \A i \in 1 .. Len(List) : List[i] \in Opps
  BY RankedLists DEF Listed, List
<1>2. todo \in Seq(session) /\ Len(todo) \in Nat /\ Len(todo) <= Len(List) /\ Len(todo) # 0
  BY DEF Listed
<1>3. Done \in 0 .. Len(List) /\ Done + 1 \in 1 .. Len(List)
  BY <1>1, <1>2 DEF Done
<1>4. Head(todo) = todo[1] /\ 1 \in 1 .. Len(todo) /\ todo[1] \in session
  BY <1>2
<1>5. Head(todo) = List[Done + 1]
  BY <1>4 DEF Listed
<1>6. Tail(todo) \in Seq(session) /\ Len(Tail(todo)) = Len(todo) - 1
      /\ \A i \in 1 .. Len(todo) - 1 : Tail(todo)[i] = todo[i + 1]
  BY <1>2
<1>7. \A i \in 1 .. Len(todo) - 1 : Tail(todo)[i] = List[(Done + 1) + i]
  <2> TAKE i \in 1 .. Len(todo) - 1
  <2>1. i + 1 \in 1 .. Len(todo) /\ Done + (i + 1) = (Done + 1) + i
    BY <1>2, <1>3
  <2>2. todo[i + 1] = List[Done + (i + 1)]
    BY <2>1 DEF Listed
  <2> QED
    BY <1>6, <2>1, <2>2
<1>8. \A i \in 1 .. Done : List[i].id # Head(todo).id
  <2> TAKE i \in 1 .. Done
  <2>1. i \in 1 .. Len(List) /\ i # Done + 1
    BY <1>1, <1>3
  <2>2. List[i] # List[Done + 1]
    <3> DEFINE d == Done + 1
    <3>1. d \in 1 .. Len(List) /\ i # d
      BY <1>3, <2>1
    <3> HIDE DEF d
    <3>2. session \in SUBSET Opps
      BY DEF Listed
    <3>3. Len(List) = Cardinality(session)
      BY <3>2, RankedLists DEF List
    <3>4. \A a, b \in 1 .. Len(List) : a # b => List[a] # List[b]
      BY <3>2, <3>3, RankedLists DEF List
    <3>5. List[i] # List[d]
      BY <2>1, <3>1, <3>4
    <3> QED
      BY <3>5 DEF d
  <2> QED
    BY <1>1, <1>3, <1>5, <2>1, <2>2, OppsAssumption
<1> QED
  BY <1>1, <1>2, <1>3, <1>4, <1>5, <1>6, <1>7, <1>8 DEF Listed

(* A step that takes the head off, and books it with the answers as they are *)
(* then: the list goes on.                                                   *)
LEMMA ListAdvances ==
  ASSUME Listed, todo # <<>>, todo' = Tail(todo), session' = session, pass' = pass
  PROVE  Listed' /\ List' = List /\ Done' = Done + 1
<1>1. List' = List
  BY DEF List
<1>2. Len(List) \in Nat /\ Len(todo) \in Nat /\ Len(todo) <= Len(List)
  BY HeadIs DEF Listed
<1>3. Done' = Done + 1
  BY <1>1, <1>2, HeadIs DEF Done
<1>4. /\ session' \in SUBSET Opps /\ pass' \in 0 .. Len(Delivered)
      /\ todo' \in Seq(session') /\ Len(todo') <= Len(List')
  BY <1>1, <1>2, HeadIs DEF Listed
<1>5. \A i \in 1 .. Len(todo') : todo'[i] = List'[Done' + i]
  BY <1>1, <1>3, HeadIs
<1> QED
  BY <1>1, <1>3, <1>4, <1>5 DEF Listed

(* The head is booked without a new answer.                                  *)
LEMMA Advance ==
  ASSUME LedgerInv, todo # <<>>, todo' = Tail(todo), ledger' = BookOne(ledger, Head(todo), cache),
         UNCHANGED <<session, pass, cache, booked>>, Counted'
  PROVE  LedgerInv'
<1>1. Listed' /\ List' = List /\ Done' = Done + 1
  BY ListAdvances DEF LedgerInv
<1>2. AnswersKept'
  BY DEF LedgerInv, AnswersKept, Kept
<1>3. BooksAnswers'
  <2>1. Len(List) \in Nat /\ Done + 1 \in 1 .. Len(List) /\ Head(todo) = List[Done + 1]
        /\ Done \in 0 .. Len(List)
    BY HeadIs DEF LedgerInv
  <2>2. Books(List, cache)[Done + 1] = BookOne(Books(List, cache)[(Done + 1) - 1], List[Done + 1], cache)
    BY <2>1, BooksIs
  <2>3. (Done + 1) - 1 = Done
    BY <2>1
  <2> QED
    BY <1>1, <2>1, <2>2, <2>3 DEF LedgerInv, BooksAnswers
<1>4. BooksStand'
  BY <1>1 DEF LedgerInv, BooksStand, LeftOut
<1> QED
  BY <1>1, <1>2, <1>3, <1>4 DEF LedgerInv

(* The head is booked by a backend's answer, which is kept. If the pass      *)
(* before had left nothing out it was answered then, and not run now.        *)
LEMMA Answered ==
  ASSUME LedgerInv, NEW o, Running(o), Plannable(o), NEW a, Answer(o, a),
         a.hash, AnswerOk(a),
         UNCHANGED <<session, pass, booked>>
  PROVE  LedgerInv'
<1>1. /\ todo # <<>> /\ o = Head(todo) /\ o \in Opps /\ o.id \notin DOMAIN cache
      /\ ExecGate(AtBlock(ledger, o.block), o) = "open"
  BY HeadIs DEF Running, Considering, Now, LedgerInv
<1>2. /\ todo' = Tail(todo) /\ ledger' = Executed(AtBlock(ledger, o.block), o, a)
      /\ cache' = Put(cache, o.id, a)
  BY <1>1 DEF Answer, Book, Now, Remember, Reached
<1>3. Listed' /\ List' = List /\ Done' = Done + 1
  BY <1>1, <1>2, ListAdvances DEF LedgerInv
<1>4. /\ DOMAIN cache' = DOMAIN cache \union {o.id} /\ cache'[o.id] = a
      /\ \A id \in DOMAIN cache : cache'[id] = cache[id]
  BY <1>1, <1>2 DEF Put
<1>5. AnswersKept'
  <2> DEFINE k == o.id
  <2>1. k \in Ids /\ k \notin DOMAIN cache
    BY <1>1 DEF Ids
  <2>2. sent' = [sent EXCEPT ![k] = @ + 1] /\ lost' = lost /\ DOMAIN cache' = DOMAIN cache \union {k}
    BY <1>4 DEF Answer
  <2> HIDE DEF k
  <2>3. Counted'
    BY <2>1, <2>2 DEF LedgerInv, AnswersKept, Counted
  <2>4. Kept(cache')
    BY <1>4 DEF LedgerInv, AnswersKept, Kept
  <2> QED
    BY <2>3, <2>4 DEF AnswersKept
<1>6. /\ Len(List) \in Nat /\ Done + 1 \in 1 .. Len(List) /\ o = List[Done + 1]
      /\ Done \in 0 .. Len(List) /\ \A i \in 1 .. Done : List[i].id # o.id
      /\ (Done + 1) - 1 = Done /\ o \in session
  BY <1>1, HeadIs DEF LedgerInv
<1>7. BooksAnswers'
  <2>1. Books(List, cache')[Done + 1] = BookOne(Books(List, cache')[(Done + 1) - 1], List[Done + 1], cache')
    BY <1>6, BooksIs
  <2>2. Books(List, cache')[Done] = Books(List, cache)[Done]
    <3>1. \A i \in 1 .. Done : /\ List[i].id \in DOMAIN cache' <=> List[i].id \in DOMAIN cache
                               /\ List[i].id \in DOMAIN cache' => cache'[List[i].id] = cache[List[i].id]
      BY <1>4, <1>6
    <3> DEFINE d == cache'
               m == Done
               list == List
    <3>2. Len(list) \in Nat /\ m \in 0 .. Len(list)
      BY <1>6
    <3>3. \A i \in 1 .. m : /\ list[i].id \in DOMAIN d <=> list[i].id \in DOMAIN cache
                            /\ list[i].id \in DOMAIN d => d[list[i].id] = cache[list[i].id]
      BY <3>1
    <3> HIDE DEF d, m, list
    <3>4. Books(list, d)[m] = Books(list, cache)[m]
      BY <3>2, <3>3, BooksAgree
    <3> QED
      BY <3>4 DEF d, m, list
  <2>3. BookOne(ledger, o, cache') = Executed(AtBlock(ledger, o.block), o, a)
    BY <1>1, <1>4 DEF BookOne
  <2> QED
    BY <1>2, <1>3, <1>6, <2>1, <2>2, <2>3 DEF LedgerInv, BooksAnswers
<1>8. BooksStand'
  <2> SUFFICES ASSUME pass > 0, Delivered[pass] = {}, LeftOut(booked) = {}
               PROVE  FALSE
    BY DEF BooksStand, LeftOut
  <2>1. booked = Books(List, cache)[Len(List)]
    BY DEF LedgerInv, BooksStand
  <2>2. ledger = Books(List, cache)[(Done + 1) - 1]
    BY <1>6 DEF LedgerInv, BooksAnswers
  <2>3. session \in SUBSET Opps /\ Kept(cache)
    BY DEF LedgerInv, Listed, AnswersKept
  <2>4. \E i \in DOMAIN booked.skips : booked.skips[i] = [id |-> o.id, why |-> "exec_build_failed"]
    <3> DEFINE n == Done + 1
    <3>1. n \in 1 .. Len(List) /\ List[n] = o /\ ledger = Books(List, cache)[n - 1]
      BY <1>6, <2>2
    <3> HIDE DEF n
    <3>2. ExecGate(AtBlock(Books(List, cache)[n - 1], List[n].block), List[n]) = "open"
          /\ List[n].id \notin DOMAIN cache
      BY <1>1, <3>1
    <3> QED
      BY <2>1, <2>3, <3>1, <3>2, BooksSkips DEF List
  <2>5. o \in LeftOut(booked)
    BY <1>6, <2>4 DEF LeftOut
  <2> QED
    BY <2>5
<1> QED
  BY <1>3, <1>5, <1>7, <1>8 DEF LedgerInv

(* A pass begins: what it books is nothing yet, and what the pass before it  *)
(* booked is of the same list if nothing new came.                           *)
LEMMA Begun1 == LedgerInv /\ BeginPass => LedgerInv'
<1> SUFFICES ASSUME LedgerInv, BeginPass PROVE LedgerInv'
  OBVIOUS
<1>1. /\ todo = <<>> /\ pass < Len(Delivered) /\ pass' = pass + 1
      /\ session' = session \union Delivered[pass + 1] /\ todo' = Ranked(session')
      /\ ledger' = NewLedger /\ booked' = ledger /\ cache' = cache
      /\ sent' = sent /\ lost' = lost
  BY DEF BeginPass
<1>2. pass + 1 \in 1 .. Len(Delivered) /\ Delivered[pass + 1] \in SUBSET Opps
  <2>1. pass \in 0 .. Len(Delivered) /\ Len(Delivered) \in Nat
    BY ExecAssumption DEF LedgerInv, Listed
  <2>2. pass + 1 \in 1 .. Len(Delivered)
    BY <1>1, <2>1
  <2> QED
    BY <2>2, ExecAssumption
<1>3. session' \in SUBSET Opps
  BY <1>1, <1>2 DEF LedgerInv, Listed
<1>4. List' = todo' /\ Len(todo') \in Nat /\ todo' \in Seq(session') /\ Done' = 0
  <2>1. List' = todo'
    BY <1>1 DEF List
  <2>2. Len(todo') \in Nat /\ todo' \in Seq(session')
    BY <1>1, <1>3, RankedLists
  <2>3. Done' = Len(todo') - Len(todo')
    BY <2>1 DEF Done
  <2> QED
    BY <2>1, <2>2, <2>3
<1>5. Listed'
  BY <1>1, <1>2, <1>3, <1>4 DEF Listed
<1>6. AnswersKept'
  BY <1>1 DEF LedgerInv, AnswersKept, Kept, Counted
<1>7. BooksAnswers'
  <2>1. Books(todo', cache)[0] = NewLedger
    BY <1>4, BooksIs
  <2> QED
    BY <1>1, <1>4, <2>1 DEF BooksAnswers
<1>8. BooksStand'
  <2> SUFFICES ASSUME Delivered[pass + 1] = {} PROVE booked' = Books(List', cache')[Len(List')]
    BY <1>1 DEF BooksStand
  <2>1. List' = List /\ Len(List) \in Nat
    BY <1>1, <1>4 DEF List
  <2>2. Len(<<>>) = 0
    OBVIOUS
  <2>3. Done = Len(List)
    BY <1>1, <2>1, <2>2 DEF Done
  <2> QED
    BY <1>1, <2>1, <2>3 DEF LedgerInv, BooksAnswers
<1> QED
  BY <1>5, <1>6, <1>7, <1>8 DEF LedgerInv

(* An attempt that comes to nothing is booked as one without an answer.      *)
LEMMA Nothing ==
  ASSUME LedgerInv, NEW o, Running(o), BuildFails, Counted'
  PROVE  LedgerInv'
<1>1. /\ todo # <<>> /\ o = Head(todo) /\ o.id \notin DOMAIN cache
      /\ ExecGate(AtBlock(ledger, o.block), o) = "open"
  BY DEF Running, Considering, Now
<1>2. /\ todo' = Tail(todo)
      /\ ledger' = Executed(AtBlock(ledger, o.block), o, Failed("exec_build_failed"))
      /\ UNCHANGED <<session, pass, cache, booked>>
  BY <1>1 DEF BuildFails, Book, Now
<1>3. ledger' = BookOne(ledger, Head(todo), cache)
  BY <1>1, <1>2 DEF BookOne
<1> QED
  BY <1>1, <1>2, <1>3, Advance

(* The steps that ready a fork book nothing.                                 *)
LEMMA Unmoved ==
  LedgerInv /\ UNCHANGED <<session, pass, todo, ledger, cache, sent, lost, booked>> => LedgerInv'
BY DEF LedgerInv, Listed, AnswersKept, Kept, Counted, BooksAnswers, BooksStand, LeftOut, List, Done

(* Runs are counted as before, or one more was run and its answer lost.      *)
LEMMA CountedStays ==
  /\ LedgerInv /\ UNCHANGED <<cache, sent, lost>> => Counted'
  /\ \A o \in Opps :
        /\ LedgerInv /\ cache' = cache
        /\ sent' = [sent EXCEPT ![o.id] = @ + 1] /\ lost' = [lost EXCEPT ![o.id] = @ + 1]
        => Counted'
<1>1. LedgerInv /\ UNCHANGED <<cache, sent, lost>> => Counted'
  BY DEF LedgerInv, AnswersKept, Counted
<1>2. ASSUME LedgerInv, NEW o \in Opps, cache' = cache,
             sent' = [sent EXCEPT ![o.id] = @ + 1], lost' = [lost EXCEPT ![o.id] = @ + 1]
      PROVE  Counted'
  <2> DEFINE k == o.id
  <2>1. k \in Ids
    BY DEF Ids
  <2>2. sent' = [sent EXCEPT ![k] = @ + 1] /\ lost' = [lost EXCEPT ![k] = @ + 1]
    BY <1>2
  <2> HIDE DEF k
  <2> QED
    BY <1>2, <2>1, <2>2 DEF LedgerInv, AnswersKept, Counted
<1> QED
  BY <1>1, <1>2

(* The answers of a backend, and what it answers with.                       *)
LEMMA AnswerKinds ==
  /\ \A s : \A n, g \in Int : Ran(s, n, g).hash /\ AnswerOk(Ran(s, n, g))
  /\ Unanswered.hash /\ AnswerOk(Unanswered)
<1>1. \A s : \A n, g \in Int : Ran(s, n, g).hash /\ AnswerOk(Ran(s, n, g))
  BY DEF Ran, AnswerOk
<1>2. Unanswered.hash /\ AnswerOk(Unanswered)
  BY DEF Unanswered, Failed, AnswerOk
<1> QED
  BY <1>1, <1>2

(* Every step preserves what is said of the ledger.                         *)
LEMMA LedgerNext == SessionInv /\ [Next]_vars => LedgerInv'
<1> SUFFICES ASSUME SessionInv, [Next]_vars PROVE LedgerInv'
  OBVIOUS
<1> USE DEF SessionInv
<1>1. CASE BeginPass
  BY <1>1, Begun1
<1>2. CASE GatedOut
  <2>1. /\ todo # <<>> /\ todo' = Tail(todo)
        /\ ledger' = BookOne(ledger, Head(todo), cache)
        /\ UNCHANGED <<session, pass, cache, booked, sent, lost>>
    BY <1>2 DEF GatedOut, Now, BookOne
  <2> QED
    BY <2>1, Advance, CountedStays
<1>3. CASE FromCache
  <2>1. PICK o \in session : /\ Considering(o) /\ o.id \in DOMAIN cache /\ Book(cache[o.id])
                             /\ UNCHANGED <<session, pass, cache, booked, sent, lost>>
    BY <1>3 DEF FromCache
  <2>2. /\ todo # <<>> /\ todo' = Tail(todo)
        /\ ledger' = BookOne(ledger, Head(todo), cache)
    BY <2>1 DEF Considering, Book, Now, BookOne
  <2> QED
    BY <2>1, <2>2, Advance, CountedStays
<1>4. CASE OpenRevm
  <2>1. UNCHANGED <<session, pass, todo, ledger, cache, sent, lost, booked>>
    BY <1>4 DEF OpenRevm
  <2> QED
    BY <2>1, Unmoved
<1>5. CASE OpenRevmFails
  BY <1>5, Nothing, CountedStays DEF OpenRevmFails, BuildFails
<1>15. ASSUME NEW o \in session, Running(o), Plannable(o), PoolsOk(fork.pools),
              NEW s, NEW n \in Int, NEW g \in Int, Answer(o, Ran(s, n, g)),
              UNCHANGED <<session, pass, booked>>
       PROVE  LedgerInv'
  <2> DEFINE a == Ran(s, n, g)
  <2>1. a.hash /\ AnswerOk(a) /\ Answer(o, a)
    BY <1>15, AnswerKinds
  <2> HIDE DEF a
  <2> QED
    BY <1>15, <2>1, Answered
<1>16. session \in SUBSET Opps
  BY DEF LedgerInv, Listed
<1>6. CASE RunRevm
  <2>1. PICK o \in session :
           /\ Running(o) /\ ForkedAt(o) /\ Plannable(o)
           /\ \/ Answer(o, Ran(FALSE, 0, ExecLimit(o)))
              \/ Answer(o, Ran(Execute(fork.pools, Plan(o), Native).ok,
                               Execute(fork.pools, Plan(o), Native).gain - ExecGas(o), ExecGas(o)))
           /\ UNCHANGED <<session, pass, booked>>
    BY <1>6 DEF RunRevm
  <2>2. o \in Opps /\ PoolsOk(fork.pools)
    BY <1>16, <2>1, ForkReady
  <2> DEFINE r == Execute(fork.pools, Plan(o), Native)
             s == r.ok
             gain == r.gain
             g == ExecGas(o)
             m == ExecLimit(o)
             net == gain - g
             shut == FALSE
             zero == 0
  <2>3. gain \in Int /\ g \in Nat /\ m \in Nat
    BY <2>1, <2>2, ExecuteKeeps, CalledIs
  <2>4. Answer(o, Ran(shut, zero, m)) \/ Answer(o, Ran(s, net, g))
    BY <2>1
  <2> HIDE DEF r, s, gain, g, m
  <2>5. net \in Int /\ zero \in Int /\ g \in Int /\ m \in Int
    BY <2>3
  <2> HIDE DEF net, zero, shut
  <2>6. CASE Answer(o, Ran(shut, zero, m))
    BY <1>15, <2>1, <2>2, <2>5, <2>6
  <2>7. CASE Answer(o, Ran(s, net, g))
    BY <1>15, <2>1, <2>2, <2>5, <2>7
  <2> QED
    BY <2>4, <2>6, <2>7
<1>7. CASE RunRevmFails
  BY <1>7, Nothing, CountedStays DEF RunRevmFails, BuildFails
<1>8. CASE Unplannable
  BY <1>8, Nothing, CountedStays DEF Unplannable, BuildFails
<1>9. CASE PrepareAnvil
  <2>1. UNCHANGED <<session, pass, todo, ledger, cache, sent, lost, booked>>
    BY <1>9 DEF PrepareAnvil
  <2> QED
    BY <2>1, Unmoved
<1>10. CASE PrepareAnvilFails
  BY <1>10, Nothing, CountedStays DEF PrepareAnvilFails, BuildFails
<1>11. CASE SendAnvil
  <2>1. PICK o \in session :
           /\ Running(o) /\ prepared = ForkBlock(o) /\ Plannable(o)
           /\ \/ Answer(o, Ran(Called(o).ok, Called(o).gain - ExecGas(o), ExecGas(o)))
              \/ Answer(o, Ran(Called(o).ok, 0, ExecGas(o)))
           /\ UNCHANGED <<session, pass, booked>>
    BY <1>11 DEF SendAnvil
  <2>2. o \in Opps /\ PoolsOk(fork.pools)
    BY <1>16, <2>1, ForkReady
  <2> DEFINE s == Called(o).ok
             gain == Called(o).gain
             g == ExecGas(o)
  <2>3. gain \in Int /\ g \in Nat
    BY <2>1, <2>2, CalledIs
  <2>4. PICK net \in {gain - g, 0} : Answer(o, Ran(s, net, g))
    BY <2>1
  <2> HIDE DEF s, gain, g
  <2>5. net \in Int
    BY <2>3
  <2> QED
    BY <1>15, <2>1, <2>2, <2>3, <2>4, <2>5
<1>12. CASE ReceiptFails
  <2>1. PICK o \in session : /\ Running(o) /\ Plannable(o) /\ Answer(o, Unanswered)
                             /\ UNCHANGED <<session, pass, booked>>
    BY <1>12 DEF ReceiptFails
  <2> DEFINE a == Unanswered
  <2>2. a.hash /\ AnswerOk(a) /\ Answer(o, a)
    BY <2>1, AnswerKinds
  <2> HIDE DEF a
  <2> QED
    BY <2>1, <2>2, Answered
<1>13. CASE SendAnvilFails
  <2>1. PICK o \in session :
           /\ Running(o) /\ BuildFails
           /\ \/ UNCHANGED <<sent, lost>>
              \/ /\ sent' = [sent EXCEPT ![o.id] = @ + 1]
                 /\ lost' = [lost EXCEPT ![o.id] = @ + 1]
    BY <1>13 DEF SendAnvilFails
  <2>2. o \in Opps /\ cache' = cache
    BY <1>16, <2>1 DEF BuildFails
  <2>3. Counted'
    BY <2>1, <2>2, CountedStays
  <2> QED
    BY <2>1, <2>3, Nothing
<1>14. CASE UNCHANGED vars
  <2>1. UNCHANGED <<session, pass, todo, ledger, cache, sent, lost, booked>>
    BY <1>14 DEF vars
  <2> QED
    BY <2>1, Unmoved
<1> QED
  BY <1>1, <1>2, <1>3, <1>4, <1>5, <1>6, <1>7, <1>8, <1>9, <1>10, <1>11, <1>12, <1>13, <1>14
     DEF Next

(* The ledger is at any time what the list and the answers kept make it, and *)
(* whatever was run was run on the pools of a block.                         *)
THEOREM SessionSound == Spec => []SessionInv
<1>1. Init => SessionInv
  BY SessionInit
<1>2. SessionInv /\ [Next]_vars => SessionInv'
  BY LedgerNext, ForkNext DEF SessionInv, LedgerInv, Listed
<1> QED
  BY <1>1, <1>2, PTL DEF Spec

(* An answer stands: nothing is sent twice unless its answer was lost, and a *)
(* pass that brings nothing new books what the pass before it booked         *)
(* (execute_ledger).                                                         *)
THEOREM AnswersAreFinal == Spec => []AnswersStand
<1>1. SessionInv => AnswersStand
  <2> SUFFICES ASSUME SessionInv PROVE AnswersStand
    OBVIOUS
  <2>1. \A id \in Ids : sent[id] <= lost[id] + 1
    BY DEF SessionInv, LedgerInv, AnswersKept, Counted
  <2>2. ASSUME todo = <<>>, pass > 0, Delivered[pass] = {}, LeftOut(booked) = {}
        PROVE  ledger = booked
    <3>1. booked = Books(List, cache)[Len(List)]
      BY <2>2 DEF SessionInv, LedgerInv, BooksStand
    <3>2. Len(<<>>) = 0
      OBVIOUS
    <3>3. Len(List) \in Nat
      BY RankedLists DEF SessionInv, LedgerInv, Listed, List
    <3>4. Done = Len(List)
      BY <2>2, <3>2, <3>3 DEF Done
    <3> QED
      BY <3>1, <3>4 DEF SessionInv, LedgerInv, BooksAnswers
  <2> QED
    BY <2>1, <2>2 DEF AnswersStand
<1>2. Spec => []SessionInv
  BY SessionSound
<1> QED
  BY <1>1, <1>2, PTL


(* A quote is what the contract earns: a run of a plan over pools that charge *)
(* what they are believed to succeeds where the walk of the ledger repays,   *)
(* and by as much (walk_quote_post against FlashArbExecutor.execute).        *)
THEOREM QuotesAreExecuted == Spec => []QuoteIsExecuted
<1>1. SessionInv => QuoteIsExecuted
  <2> SUFFICES ASSUME SessionInv, NEW o \in session, last.id = o.id, last.forked,
                      o.token = Native, TrueFees(o, last.pools)
               PROVE  LET w == WalkQuotePost(last.pools, o.path, o.token, o.input)
                      IN  /\ last.ok <=> (w.ok /\ w.amount > o.input)
                          /\ last.ok => last.gain = w.amount - o.input
    BY DEF QuoteIsExecuted
  <2>1. PICK e \in Opps :
           /\ last.id = e.id /\ Simulatable(e) /\ Plannable(e) /\ PoolsOk(last.pools)
           /\ last.ok = Execute(last.pools, Plan(e), Native).ok
           /\ last.gain = Execute(last.pools, Plan(e), Native).gain
    BY DEF SessionInv, LastRun
  <2>2. o \in Opps /\ o = e
    BY <2>1, OppsAssumption DEF SessionInv, LedgerInv, Listed
  <2> DEFINE w == WalkQuotePost(last.pools, o.path, o.token, o.input)
             r == Execute(last.pools, Plan(o), Native)
  <2>3. Quoted(r, w, o.input)
    BY <2>1, <2>2, ExecuteIsQuote
  <2>4. last.ok = r.ok /\ last.gain = r.gain
    BY <2>1, <2>2
  <2> HIDE DEF w, r
  <2>5. /\ last.ok <=> (w.ok /\ w.amount > o.input)
        /\ last.ok => last.gain = w.amount - o.input
    BY <2>3, <2>4 DEF Quoted
  <2> QED
    BY <2>5 DEF w
<1>2. Spec => []SessionInv
  BY SessionSound
<1> QED
  BY <1>1, <1>2, PTL


----------------------------------------------------------------------------
(* The three ledgers.                                                        *)

(* The assumed ledger is booked one by one.                                  *)
LEMMA AllAssumedIs ==
  ASSUME NEW list, Len(list) \in Nat
  PROVE  /\ DOMAIN AllAssumed(list) = 0 .. Len(list)
         /\ AllAssumed(list)[0] = NewLedger
         /\ \A i \in 1 .. Len(list) :
               AllAssumed(list)[i] = Assumed(AllAssumed(list)[i - 1], list[i])
<1> DEFINE Is(f, n) == f = [i \in 0 .. n |-> IF i = 0 THEN NewLedger ELSE Assumed(f[i - 1], list[i])]
           Bad == {n \in Nat : \A f : ~Is(f, n)}
<1>1. Bad = {}
  <2>1. SUFFICES ASSUME Bad # {} PROVE FALSE
    OBVIOUS
  <2>2. PICK n \in Bad : \A k \in Bad : n <= k
    <3>1. Bad \subseteq Nat
      OBVIOUS
    <3> HIDE DEF Bad
    <3> QED
      BY <2>1, <3>1, LeastExists
  <2>3. n \in Nat /\ \A f : ~Is(f, n)
    OBVIOUS
  <2>4. CASE n = 0
    <3> DEFINE f == [i \in 0 .. 0 |-> NewLedger]
    <3>1. Is(f, 0)
      OBVIOUS
    <3> QED
      BY <2>3, <2>4, <3>1
  <2>5. CASE n # 0
    <3>1. n - 1 \in Nat /\ ~(n <= n - 1)
      BY <2>3, <2>5
    <3>2. n - 1 \notin Bad
      <4> HIDE DEF Bad
      <4> QED
        BY <2>2, <3>1
    <3>3. PICK g : Is(g, n - 1)
      BY <3>1, <3>2
    <3> DEFINE f == [i \in 0 .. n |-> IF i = n THEN Assumed(g[n - 1], list[n]) ELSE g[i]]
    <3>4. \A i \in 0 .. n - 1 : f[i] = g[i] /\ g[i] = IF i = 0 THEN NewLedger ELSE Assumed(g[i - 1], list[i])
      BY <2>3, <3>1, <3>3
    <3>5. \A i \in 0 .. n : f[i] = IF i = 0 THEN NewLedger ELSE Assumed(f[i - 1], list[i])
      <4>1. \A i \in 1 .. n : f[i - 1] = g[i - 1]
        BY <2>3, <3>4
      <4>2. f[n] = Assumed(g[n - 1], list[n])
        BY <2>3
      <4> HIDE DEF f
      <4> QED
        BY <2>3, <2>5, <3>4, <4>1, <4>2
    <3>6. Is(f, n)
      <4>1. f = [i \in 0 .. n |-> f[i]]
        OBVIOUS
      <4> HIDE DEF f
      <4> QED
        BY <3>5, <4>1
    <3> QED
      BY <2>3, <3>6
  <2> QED
    BY <2>4, <2>5
<1>2. \E f : Is(f, Len(list))
  BY <1>1
<1>3. AllAssumed(list) = CHOOSE f : Is(f, Len(list))
  BY DEF AllAssumed
<1>4. Is(AllAssumed(list), Len(list))
  BY <1>2, <1>3
<1>5. \A i \in 0 .. Len(list) : AllAssumed(list)[i] = IF i = 0 THEN NewLedger ELSE Assumed(AllAssumed(list)[i - 1], list[i])
  BY <1>4
<1>6. DOMAIN AllAssumed(list) = 0 .. Len(list)
  BY <1>4
<1> HIDE DEF Bad, Is
<1> QED
  BY <1>5, <1>6

(* The simulated ledger is booked one by one, too.                           *)
LEMMA AllSimulatedIs ==
  ASSUME NEW list, Len(list) \in Nat
  PROVE  /\ DOMAIN AllSimulated(list) = 0 .. Len(list)
         /\ AllSimulated(list)[0] = NewLedger
         /\ \A i \in 1 .. Len(list) :
               AllSimulated(list)[i] = Simulated(AllSimulated(list)[i - 1], list[i])
<1> DEFINE Is(f, n) == f = [i \in 0 .. n |-> IF i = 0 THEN NewLedger ELSE Simulated(f[i - 1], list[i])]
           Bad == {n \in Nat : \A f : ~Is(f, n)}
<1>1. Bad = {}
  <2>1. SUFFICES ASSUME Bad # {} PROVE FALSE
    OBVIOUS
  <2>2. PICK n \in Bad : \A k \in Bad : n <= k
    <3>1. Bad \subseteq Nat
      OBVIOUS
    <3> HIDE DEF Bad
    <3> QED
      BY <2>1, <3>1, LeastExists
  <2>3. n \in Nat /\ \A f : ~Is(f, n)
    OBVIOUS
  <2>4. CASE n = 0
    <3> DEFINE f == [i \in 0 .. 0 |-> NewLedger]
    <3>1. Is(f, 0)
      OBVIOUS
    <3> QED
      BY <2>3, <2>4, <3>1
  <2>5. CASE n # 0
    <3>1. n - 1 \in Nat /\ ~(n <= n - 1)
      BY <2>3, <2>5
    <3>2. n - 1 \notin Bad
      <4> HIDE DEF Bad
      <4> QED
        BY <2>2, <3>1
    <3>3. PICK g : Is(g, n - 1)
      BY <3>1, <3>2
    <3> DEFINE f == [i \in 0 .. n |-> IF i = n THEN Simulated(g[n - 1], list[n]) ELSE g[i]]
    <3>4. \A i \in 0 .. n - 1 : f[i] = g[i] /\ g[i] = IF i = 0 THEN NewLedger ELSE Simulated(g[i - 1], list[i])
      BY <2>3, <3>1, <3>3
    <3>5. \A i \in 0 .. n : f[i] = IF i = 0 THEN NewLedger ELSE Simulated(f[i - 1], list[i])
      <4>1. \A i \in 1 .. n : f[i - 1] = g[i - 1]
        BY <2>3, <3>4
      <4>2. f[n] = Simulated(g[n - 1], list[n])
        BY <2>3
      <4> HIDE DEF f
      <4> QED
        BY <2>3, <2>5, <3>4, <4>1, <4>2
    <3>6. Is(f, n)
      <4>1. f = [i \in 0 .. n |-> f[i]]
        OBVIOUS
      <4> HIDE DEF f
      <4> QED
        BY <3>5, <4>1
    <3> QED
      BY <2>3, <3>6
  <2> QED
    BY <2>4, <2>5
<1>2. \E f : Is(f, Len(list))
  BY <1>1
<1>3. AllSimulated(list) = CHOOSE f : Is(f, Len(list))
  BY DEF AllSimulated
<1>4. Is(AllSimulated(list), Len(list))
  BY <1>2, <1>3
<1>5. \A i \in 0 .. Len(list) : AllSimulated(list)[i] = IF i = 0 THEN NewLedger ELSE Simulated(AllSimulated(list)[i - 1], list[i])
  BY <1>4
<1>6. DOMAIN AllSimulated(list) = 0 .. Len(list)
  BY <1>4
<1> HIDE DEF Bad, Is
<1> QED
  BY <1>5, <1>6

----------------------------------------------------------------------------
(* The assumed ledger.                                                       *)

(* A list goes from block to block.                                          *)
LEMMA RankedBlocks ==
  ASSUME NEW a \in Opps, NEW b \in Opps, RankedBefore(a, b)
  PROVE  a.block <= b.block
<1> DEFINE x == SortKey(a)
           y == SortKey(b)
<1>1. x[1] = a.block /\ y[1] = b.block
  BY DEF SortKey
<1>2. a.block \in Nat /\ b.block \in Nat
  BY OppsAssumption
<1>3. PICK i \in 1 .. 5 : x[i] < y[i] /\ \A j \in 1 .. i - 1 : x[j] = y[j]
  BY DEF RankedBefore
<1> HIDE DEF x, y
<1>4. i = 1 \/ 1 \in 1 .. i - 1
  OBVIOUS
<1>5. x[1] < y[1] \/ x[1] = y[1]
  BY <1>3, <1>4
<1> QED
  BY <1>1, <1>2, <1>5

(* What is kept for the block alone may change.                              *)
LEMMA BlockKeeps ==
  ASSUME NEW l, Solvent(l), NEW m, DOMAIN m = LedgerFields, m = [f \in LedgerFields |-> m[f]],
         \A f \in LedgerFields \ {"used", "overlay", "written"} : m[f] = l[f]
  PROVE  Solvent(m) /\ SameLists(m, l) /\ m.block = l.block
<1>1. /\ m.wallet = l.wallet /\ m.peak = l.peak /\ m.drawdown = l.drawdown
      /\ m.fills = l.fills /\ m.skips = l.skips
      /\ m.net = l.net /\ m.revertGas = l.revertGas /\ m.loss = l.loss /\ m.block = l.block
  BY DEF LedgerFields
<1>2. Accounted(m)
  BY <1>1 DEF Solvent, Accounted, Balance
<1> QED
  BY <1>1, <1>2 DEF Solvent, SameLists

(* The pools that a fill goes through; no two fills of a block share one.    *)
PathOf(id) == (CHOOSE o \in Opps : o.id = id).path
Apart(l) ==
    /\ \A i \in DOMAIN l.fills : l.fills[i].block <= l.block
    /\ \A i \in DOMAIN l.fills :
          l.fills[i].block = l.block => Range(PathOf(l.fills[i].id)) \subseteq l.used
    /\ \A i, j \in DOMAIN l.fills :
          (i # j /\ l.fills[i].block = l.fills[j].block) =>
              Range(PathOf(l.fills[i].id)) \intersect Range(PathOf(l.fills[j].id)) = {}

(* An opportunity is known by its id, and so is its path.                    *)
LEMMA PathOfIs ==
  ASSUME NEW o \in Opps
  PROVE  PathOf(o.id) = o.path
<1> DEFINE e == CHOOSE x \in Opps : x.id = o.id
<1>1. e \in Opps /\ e.id = o.id
  OBVIOUS
<1> HIDE DEF e
<1>2. e = o
  BY <1>1, OppsAssumption
<1> QED
  BY <1>2 DEF PathOf, e

(* A new block has used no pool, and no fill is of it yet.                   *)
LEMMA AtBlockApart ==
  ASSUME NEW l, Solvent(l), Apart(l), l.block \in Nat, NEW b \in Nat, l.block <= b
  PROVE  Apart(AtBlock(l, b))
<1> DEFINE k == AtBlock(l, b)
<1>1. /\ SameLists(k, l) /\ k.block = b
      /\ IF l.block = b THEN k = l ELSE k.used = {} /\ k.overlay = <<>>
  BY AtBlockIs
<1> HIDE DEF k
<1>2. CASE l.block = b
  BY <1>1, <1>2 DEF k
<1>3. CASE l.block # b
  <2>1. \A i \in DOMAIN l.fills : l.fills[i].block \in Nat /\ l.fills[i].block < b
    <3> TAKE i \in DOMAIN l.fills
    <3>1. l.fills[i] \in Fills
      BY DEF Solvent
    <3>2. l.fills[i].block \in Nat
      BY <3>1 DEF Fills
    <3>3. l.fills[i].block <= l.block
      BY DEF Apart
    <3> DEFINE x == l.fills[i].block
               y == l.block
    <3>4. x \in Nat /\ y \in Nat /\ x <= y /\ y <= b /\ y # b
      BY <1>3, <3>2, <3>3
    <3> HIDE DEF x, y
    <3>5. x < b
      BY <3>4
    <3> QED
      BY <3>2, <3>5 DEF x
  <2> DEFINE x(i) == k.fills[i].block
             P(i) == Range(PathOf(k.fills[i].id))
  <2>2. k.fills = l.fills
    BY <1>1 DEF SameLists
  <2>3. \A i \in DOMAIN k.fills : x(i) <= b /\ x(i) # b
    <3> TAKE i \in DOMAIN k.fills
    <3> DEFINE y == x(i)
    <3>1. y \in Nat /\ y < b
      BY <2>1, <2>2
    <3> HIDE DEF y
    <3>2. y <= b /\ y # b
      BY <3>1
    <3> QED
      BY <3>2 DEF y
  <2>4. \A i, j \in DOMAIN k.fills : (i # j /\ x(i) = x(j)) => P(i) \intersect P(j) = {}
    BY <2>2 DEF Apart
  <2> HIDE DEF x, P
  <2>5. /\ \A i \in DOMAIN k.fills : x(i) <= k.block
        /\ \A i \in DOMAIN k.fills : x(i) = k.block => P(i) \subseteq k.used
    BY <1>1, <2>3
  <2> QED
    BY <2>4, <2>5 DEF Apart, x, P, k
<1> QED
  BY <1>2, <1>3

(* One more opportunity of the assumed ledger.                               *)
LEMMA AssumedTakes ==
  ASSUME NEW l, Solvent(l), NEW o \in Opps
  PROVE  LET now == AtBlock(l, o.block)
             m == Assumed(l, o)
         IN  /\ Takes(l, o, m)
             /\ \/ m.fills = now.fills /\ m.used = now.used
                \/ \E f : /\ f.id = o.id /\ f.block = o.block /\ m.fills = Append(now.fills, f)
                          /\ Range(o.path) \intersect now.used = {}
                          /\ m.used = now.used \union Range(o.path)
<1> DEFINE now == AtBlock(l, o.block)
           m == Assumed(l, o)
           why == IF Gate(now, o) # "open" THEN Gate(now, o) ELSE "pool_conflict"
           net == NetWei(o)
           gas == o.gas
           drift == FALSE
           k == Filled(now, o, net, gas, drift)
           used == Range(o.path)
<1>1. o.id \in Nat /\ o.block \in Nat /\ gas \in Int /\ net \in Int
  <2>1. {o.id, o.block, o.tx, o.profit, o.gas} \subseteq Nat
    BY OppsAssumption
  <2>2. net \in Int
    BY <2>1, LedgerAssumption DEF NetWei, AsSigned, Lesser
  <2> QED
    BY <2>1, <2>2
<1>2. Solvent(now) /\ SameLists(now, l) /\ now.block = o.block
  BY AtBlockIs
<1>3. why \in Whys
  BY GateIs DEF Whys, Reasons
<1>4. \/ m = Skipped(now, o, why)
      \/ m = [k EXCEPT !.used = @ \union used] /\ used \intersect now.used = {}
  BY DEF Assumed
<1>5. drift \in BOOLEAN
  OBVIOUS
<1> HIDE DEF drift, now, m, why, net, gas, k, used
<1>6. CASE m = Skipped(now, o, why)
  <2>1. /\ Solvent(m) /\ SameBlock(m, now) /\ m.fills = now.fills
        /\ m.skips = Append(now.skips, [id |-> o.id, why |-> why])
    BY <1>1, <1>2, <1>3, <1>6, SkippedIs
  <2>2. Skips1(l, o, m, Whys)
    BY <1>2, <1>3, <2>1 DEF Skips1, SameLists
  <2>3. Takes(l, o, m) /\ m.used = now.used
    BY <1>2, <2>1, <2>2 DEF Takes, SameBlock
  <2> QED
    BY <2>1, <2>3 DEF m, now
<1>7. CASE m = [k EXCEPT !.used = @ \union used] /\ used \intersect now.used = {}
  <2> DEFINE f == [id |-> o.id, block |-> o.block, net |-> net, gross |-> net + gas, drift |-> drift]
  <2>1. k = Filled(now, o, net, gas, drift)
    BY DEF k
  <2>2. Solvent(k) /\ SameBlock(k, now) /\ k.skips = now.skips /\ k.fills = Append(now.fills, f)
    BY <1>1, <1>2, <1>5, <2>1, FilledIs
  <2>3. f \in Fills /\ f.id = o.id /\ f.block = o.block
    BY <1>1, <1>5 DEF Fills
  <2> HIDE DEF f
  <2>4. /\ DOMAIN m = LedgerFields /\ m = [x \in LedgerFields |-> m[x]]
        /\ \A x \in LedgerFields \ {"used", "overlay", "written"} : m[x] = k[x]
        /\ m.used = now.used \union used
    <3>1. k = [x \in LedgerFields |-> k[x]]
      BY <2>2 DEF Solvent
    <3>2. DOMAIN k = LedgerFields /\ k.used = now.used
      BY <2>2, <3>1 DEF SameBlock
    <3> QED
      BY <1>7, <3>2 DEF LedgerFields
  <2>5. Solvent(m) /\ SameLists(m, k) /\ m.block = k.block
    BY <2>2, <2>4, BlockKeeps
  <2>6. m.fills = Append(now.fills, f) /\ m.skips = now.skips /\ m.block = o.block
    BY <1>2, <2>2, <2>5 DEF SameLists, SameBlock
  <2>7. Fills1(l, o, m)
    BY <1>2, <2>3, <2>6 DEF Fills1, SameLists
  <2>8. Takes(l, o, m)
    BY <2>5, <2>6, <2>7 DEF Takes
  <2> QED
    BY <1>7, <2>3, <2>4, <2>6, <2>8 DEF m, now, used
<1> QED
  BY <1>4, <1>6, <1>7

(* A fill takes pools that no other fill of its block took.                  *)
LEMMA AssumedApart ==
  ASSUME NEW l, Solvent(l), Apart(l), l.block \in Nat, NEW o \in Opps, l.block <= o.block
  PROVE  Apart(Assumed(l, o))
<1> DEFINE now == AtBlock(l, o.block)
           m == Assumed(l, o)
<1>1. o.block \in Nat
  BY OppsAssumption
<1>2. Apart(now) /\ Solvent(now) /\ now.block = o.block
  BY <1>1, AtBlockApart, AtBlockIs
<1>3. /\ m.block = o.block
      /\ \/ m.fills = now.fills /\ m.used = now.used
         \/ \E f : /\ f.id = o.id /\ f.block = o.block /\ m.fills = Append(now.fills, f)
                   /\ Range(o.path) \intersect now.used = {}
                   /\ m.used = now.used \union Range(o.path)
  BY AssumedTakes DEF Takes
<1>4. PathOf(o.id) = o.path
  BY PathOfIs
<1> HIDE DEF now, m
<1>5. CASE m.fills = now.fills /\ m.used = now.used
  BY <1>2, <1>3, <1>5 DEF Apart, m
<1>6. CASE \E f : /\ f.id = o.id /\ f.block = o.block /\ m.fills = Append(now.fills, f)
                  /\ Range(o.path) \intersect now.used = {}
                  /\ m.used = now.used \union Range(o.path)
  <2>1. PICK f : /\ f.id = o.id /\ f.block = o.block /\ m.fills = Append(now.fills, f)
                 /\ Range(o.path) \intersect now.used = {}
                 /\ m.used = now.used \union Range(o.path)
    BY <1>6
  <2> DEFINE n == Len(now.fills)
             x(i) == m.fills[i]
             P(i) == Range(PathOf(m.fills[i].id))
  <2>2. /\ n \in Nat /\ DOMAIN m.fills = DOMAIN now.fills \union {n + 1} /\ n + 1 \notin DOMAIN now.fills
        /\ m.fills[n + 1] = f /\ \A i \in DOMAIN now.fills : m.fills[i] = now.fills[i]
    <3>1. now.fills \in Seq(Fills)
      BY <1>2 DEF Solvent
    <3> QED
      BY <2>1, <3>1
  <2>3. /\ x(n + 1).block = o.block /\ P(n + 1) = Range(o.path)
    BY <1>4, <2>1, <2>2
  <2>4. \A i \in DOMAIN now.fills :
           /\ x(i).block <= o.block
           /\ x(i).block = o.block => P(i) \subseteq now.used
           /\ \A j \in DOMAIN now.fills : (i # j /\ x(i).block = x(j).block) => P(i) \intersect P(j) = {}
    BY <1>2, <2>2 DEF Apart
  <2>5. o.block <= o.block
    BY <1>1
  <2> HIDE DEF n, x, P
  <2>6. /\ \A i \in DOMAIN m.fills : x(i).block <= m.block
        /\ \A i \in DOMAIN m.fills : x(i).block = m.block => P(i) \subseteq m.used
    BY <1>3, <2>1, <2>2, <2>3, <2>4, <2>5
  <2>7. \A i, j \in DOMAIN m.fills : (i # j /\ x(i).block = x(j).block) => P(i) \intersect P(j) = {}
    BY <2>1, <2>2, <2>3, <2>4
  <2> QED
    BY <2>6, <2>7 DEF Apart, x, P, m
<1> QED
  BY <1>3, <1>5, <1>6


(* A list takes a ledger from block to block.                                *)
LEMMA BlocksRise ==
  ASSUME NEW s \in SUBSET Opps, NEW b, BookedBy(Ranked(s), b), NEW n \in 1 .. Len(Ranked(s))
  PROVE  b[n - 1].block \in Nat /\ b[n - 1].block <= Ranked(s)[n].block
<1> DEFINE list == Ranked(s)
<1>1. /\ Len(list) \in Nat
      /\ \A i \in 1 .. Len(list) : list[i] \in Opps /\ list[i].block \in Nat
      /\ \A i, j \in 1 .. Len(list) : i < j => RankedBefore(list[i], list[j])
  <2>1. Len(list) = Cardinality(s)
    BY RankedLists
  <2> QED
    BY <2>1, RankedLists, ListIs
<1>2. BookedBy(list, b) /\ n \in 1 .. Len(list)
  OBVIOUS
<1> HIDE DEF list
<1>3. CASE n = 1
  <2>1. b[0].block = 0
    BY <1>2 DEF BookedBy, NewLedger
  <2>2. list[n].block \in Nat /\ n - 1 = 0
    BY <1>1, <1>2, <1>3
  <2> DEFINE x == list[n].block
  <2>3. 0 <= x
    <3>1. x \in Nat
      BY <2>2
    <3> HIDE DEF x
    <3> QED
      BY <3>1
  <2> QED
    BY <2>1, <2>2, <2>3 DEF list
<1>4. CASE n # 1
  <2>1. n - 1 \in 1 .. Len(list) /\ n - 1 < n
    BY <1>1, <1>2, <1>4
  <2>2. b[n - 1].block = list[n - 1].block
    BY <1>1, <1>2, <2>1, BookedSolvent DEF Takes
  <2>3. list[n - 1].block \in Nat /\ list[n - 1].block <= list[n].block
    BY <1>1, <1>2, <2>1, RankedBlocks
  <2> QED
    BY <2>2, <2>3 DEF list
<1> QED
  BY <1>3, <1>4

(* The assumed ledger of a session is booked one by one.                     *)
LEMMA AssumedBooked ==
  ASSUME NEW s \in SUBSET Opps
  PROVE  BookedBy(Ranked(s), AllAssumed(Ranked(s)))
<1> DEFINE list == Ranked(s)
           b == AllAssumed(list)
<1>1. Len(list) \in Nat /\ \A i \in 1 .. Len(list) : list[i] \in Opps
  BY ListIs
<1>2. b[0] = NewLedger /\ \A i \in 1 .. Len(list) : b[i] = Assumed(b[i - 1], list[i])
  BY <1>1, AllAssumedIs
<1> HIDE DEF list, b
<1>3. \A i \in 1 .. Len(list) : Solvent(b[i - 1]) => Takes(b[i - 1], list[i], b[i])
  BY <1>1, <1>2, AssumedTakes
<1> QED
  BY <1>2, <1>3 DEF BookedBy, list, b

(* It fills no pool twice in a block.                                        *)
LEMMA AssumedIsApart ==
  ASSUME NEW s \in SUBSET Opps
  PROVE  Apart(AllAssumed(Ranked(s))[Len(Ranked(s))])
<1> DEFINE list == Ranked(s)
           b == AllAssumed(list)
           Bad == {n \in Nat : n <= Len(list) /\ ~Apart(b[n])}
<1>1. Len(list) \in Nat /\ \A i \in 1 .. Len(list) : list[i] \in Opps
  BY ListIs
<1>2. b[0] = NewLedger /\ \A i \in 1 .. Len(list) : b[i] = Assumed(b[i - 1], list[i])
  BY <1>1, AllAssumedIs
<1>3. BookedBy(list, b)
  BY AssumedBooked
<1>4. \A n \in 1 .. Len(list) : b[n - 1].block \in Nat /\ b[n - 1].block <= list[n].block
  <2>1. BookedBy(Ranked(s), b)
    BY <1>3
  <2> HIDE DEF b
  <2> QED
    BY <2>1, BlocksRise
<1> HIDE DEF list, b
<1>5. \A n \in 1 .. Len(list) : Solvent(b[n - 1])
  BY <1>1, <1>3, BookedSolvent
<1>6. Bad = {}
  <2>1. SUFFICES ASSUME Bad # {} PROVE FALSE
    OBVIOUS
  <2>2. PICK n \in Bad : \A k \in Bad : n <= k
    <3>1. Bad \subseteq Nat
      OBVIOUS
    <3> HIDE DEF Bad
    <3> QED
      BY <2>1, <3>1, LeastExists
  <2>3. n \in Nat /\ n <= Len(list) /\ ~Apart(b[n])
    OBVIOUS
  <2>4. n # 0
    <3>1. b[0].fills = <<>>
      BY <1>2, NewLedgerIs
    <3>2. DOMAIN <<>> = {}
      OBVIOUS
    <3>3. Apart(b[0])
      BY <3>1, <3>2 DEF Apart
    <3> QED
      BY <2>3, <3>3
  <2>5. n - 1 \in Nat /\ n - 1 <= Len(list) /\ ~(n <= n - 1) /\ n \in 1 .. Len(list)
    BY <1>1, <2>3, <2>4
  <2>6. n - 1 \notin Bad
    <3> HIDE DEF Bad
    <3> QED
      BY <2>2, <2>5
  <2>7. Apart(b[n - 1])
    BY <2>5, <2>6
  <2> HIDE DEF Bad
  <2>8. b[n] = Assumed(b[n - 1], list[n]) /\ list[n] \in Opps /\ Solvent(b[n - 1])
    BY <1>1, <1>2, <1>5, <2>5
  <2>9. Apart(b[n])
    BY <1>4, <2>5, <2>7, <2>8, AssumedApart
  <2> QED
    BY <2>3, <2>9
<1>7. Apart(b[Len(list)])
  BY <1>1, <1>6
<1> QED
  BY <1>7 DEF list, b

----------------------------------------------------------------------------
(* The simulated ledger.                                                     *)

(* A pool that pays what is quoted keeps reserves.                           *)
LEMMA QuotedPair ==
  ASSUME NEW p, PairOk(p), p.r0 # 0, p.r1 # 0, NEW token, NEW amount \in Nat \ {0},
         Quote(p, token, amount) # 0
  PROVE  /\ Quote(p, token, amount) \in Nat
         /\ PairOk(AfterSwap(p, token, amount, Quote(p, token, amount)))
<1> DEFINE out == Quote(p, token, amount)
           q == AfterSwap(p, token, amount, out)
           bps == p.fee
           r0 == p.r0
           r1 == p.r1
<1>1. r0 \in Nat /\ r1 \in Nat /\ bps \in Bps /\ r0 # 0 /\ r1 # 0
  BY PairIs
<1>2. out = AmountOut(amount, IF p.t0 = token THEN <<r0, r1>> ELSE <<r1, r0>>, bps)
  BY QuoteIs DEF Reserves
<1>3. DOMAIN p = {"t0", "t1", "r0", "r1", "fee", "charged", "kind"}
  BY PairKind
<1>4. out # 0
  OBVIOUS
<1>5. q = IF p.t0 = token THEN [p EXCEPT !.r0 = r0 + amount, !.r1 = r1 - out]
          ELSE [p EXCEPT !.r0 = r0 - out, !.r1 = r1 + amount]
  BY DEF AfterSwap
<1> HIDE DEF out, q, bps, r0, r1
<1>6. /\ out \in Nat /\ r0 + amount \in Nat /\ r1 + amount \in Nat
      /\ p.t0 = token => r1 - out \in Nat
      /\ p.t0 # token => r0 - out \in Nat
  <2>1. CASE p.t0 = token
    <3>1. out = AmountOut(amount, <<r0, r1>>, bps)
      BY <1>2, <2>1
    <3>2. out \in Nat /\ (r0 > 0 /\ out > 0 => out < r1)
      BY <1>1, <3>1, PaidOut
    <3> QED
      BY <1>1, <1>4, <2>1, <3>2
  <2>2. CASE p.t0 # token
    <3>1. out = AmountOut(amount, <<r1, r0>>, bps)
      BY <1>2, <2>2
    <3>2. out \in Nat /\ (r1 > 0 /\ out > 0 => out < r0)
      BY <1>1, <3>1, PaidOut
    <3> QED
      BY <1>1, <1>4, <2>2, <3>2
  <2> QED
    BY <2>1, <2>2
<1>7. DOMAIN q = DOMAIN p /\ \A f \in Static : q[f] = p[f]
  BY <1>3, <1>5 DEF Static
<1>8. q.r0 \in Nat /\ q.r1 \in Nat
  <2>1. CASE p.t0 = token
    <3>1. q.r0 = r0 + amount /\ q.r1 = r1 - out
      BY <1>3, <1>5, <2>1
    <3> QED
      BY <1>6, <2>1, <3>1
  <2>2. CASE p.t0 # token
    <3>1. q.r0 = r0 - out /\ q.r1 = r1 + amount
      BY <1>3, <1>5, <2>2
    <3> QED
      BY <1>6, <2>2, <3>1
  <2> QED
    BY <2>1, <2>2
<1>9. PairOk(q)
  BY <1>7, <1>8, SamePair
<1> QED
  BY <1>6, <1>9 DEF out, q

(* The pools of a walk stay pairs, and it has an amount at every leg.        *)
Pairs(pools) == \A a \in DOMAIN pools : PairOk(pools[a])
Walks(q, D) == Walking(q) /\ q.amount \in Nat /\ DOMAIN q.pools = D /\ Pairs(q.pools)

(* A leg leaves pairs, and an amount.                                        *)
LEMMA LegWalks ==
  ASSUME NEW D, NEW q, Walks(q, D), NEW a \in D
  PROVE  Walks(Leg(q, a), D)
<1> DEFINE v == Leg(q, a)
           p == q.pools[a]
           token == q.token
           in == q.amount
           out == Quote(p, token, in)
           to == TokenOut(p, token)
           s == AfterSwap(p, token, in, out)
<1>1. v = IF Stops(q, a) THEN [q EXCEPT !.ok = FALSE]
          ELSE [q EXCEPT !.amount = out, !.token = to, !.pools[a] = s]
  BY DEF Leg, Stops
<1>2. Walking(v)
  BY LegIs DEF Walks
<1>3. PairOk(p) /\ in \in Nat
  BY DEF Walks, Pairs
<1>4. ~Stops(q, a) => in # 0 /\ p.r0 # 0 /\ p.r1 # 0 /\ out # 0
  BY DEF Stops
<1> HIDE DEF v, p, token, in, out, to, s
<1>5. CASE Stops(q, a)
  <2>1. v.amount = q.amount /\ v.pools = q.pools
    BY <1>1, <1>5 DEF Walks, Walking, WalkFields
  <2> QED
    BY <1>2, <2>1 DEF Walks, v
<1>6. CASE ~Stops(q, a)
  <2>1. in \in Nat \ {0}
    BY <1>3, <1>4, <1>6
  <2>2. out \in Nat /\ PairOk(s)
    BY <1>3, <1>4, <1>6, <2>1, QuotedPair DEF out, s
  <2>3. v.amount = out /\ v.pools = [q.pools EXCEPT ![a] = s]
    BY <1>1, <1>6 DEF Walks, Walking, WalkFields
  <2>4. DOMAIN v.pools = D /\ Pairs(v.pools)
    BY <2>2, <2>3 DEF Walks, Pairs
  <2> QED
    BY <1>2, <2>2, <2>3, <2>4 DEF Walks, v
<1> QED
  BY <1>5, <1>6

(* So a walk through pools that are there ends with an amount.               *)
LEMMA WalkIs ==
  ASSUME NEW pools, Pairs(pools), NEW path, Len(path) \in Nat,
         \A i \in 1 .. Len(path) : path[i] \in DOMAIN pools,
         NEW token, NEW amount \in Nat
  PROVE  Walks(WalkQuotePost(pools, path, token, amount), DOMAIN pools)
<1> DEFINE D == DOMAIN pools
           w == Walked(pools, path, token, amount)
           Bad == {n \in Nat : n <= Len(path) /\ ~Walks(w[n], D)}
<1>1. w[0] = AtStart(pools, token, amount) /\ \A i \in 1 .. Len(path) : w[i] = Leg(w[i - 1], path[i])
  BY WalkedIs
<1>2. \A i \in 1 .. Len(path) : path[i] \in D
  OBVIOUS
<1>3. Walks(AtStart(pools, token, amount), D)
  BY DEF Walks, Walking, WalkFields, AtStart
<1> HIDE DEF w, D
<1>4. Bad = {}
  <2>1. SUFFICES ASSUME Bad # {} PROVE FALSE
    OBVIOUS
  <2>2. PICK n \in Bad : \A k \in Bad : n <= k
    <3>1. Bad \subseteq Nat
      OBVIOUS
    <3> HIDE DEF Bad
    <3> QED
      BY <2>1, <3>1, LeastExists
  <2>3. n \in Nat /\ n <= Len(path) /\ ~Walks(w[n], D)
    OBVIOUS
  <2>4. n # 0
    BY <1>1, <1>3, <2>3
  <2>5. n - 1 \in Nat /\ n - 1 <= Len(path) /\ ~(n <= n - 1) /\ n \in 1 .. Len(path)
    BY <2>3, <2>4
  <2>6. n - 1 \notin Bad
    <3> HIDE DEF Bad
    <3> QED
      BY <2>2, <2>5
  <2>7. Walks(w[n - 1], D)
    BY <2>5, <2>6
  <2>8. Walks(w[n], D)
    BY <1>1, <1>2, <2>5, <2>7, LegWalks
  <2> QED
    BY <2>3, <2>8
<1>5. Walks(w[Len(path)], D)
  BY <1>4
<1> QED
  BY <1>5 DEF WalkQuotePost, w, D

(* What a candidate comes to: a reason, or a net over pools that stay pairs. *)
LEMMA OutcomeIs ==
  ASSUME NEW l, Pairs(l.overlay), NEW o \in Opps, Range(o.path) \subseteq DOMAIN l.overlay
  PROVE  /\ Outcome(l, o).why \in Whys \union {"filled"} /\ Outcome(l, o).net \in Int
         /\ Pairs(Outcome(l, o).pools)
<1> DEFINE D == Range(o.path)
           pools == Restrict(l.overlay, D)
           w == WalkQuotePost(pools, o.path, o.token, o.input)
           fee == FlashLoanFee(o.input)
           amount == w.amount
           gross == Less0(Less0(amount, o.input), fee)
           c == Outcome(l, o)
<1>1. o.input \in Nat /\ o.gas \in Nat /\ o.path \in Seq(D)
  BY OppsAssumption
<1>2. Len(o.path) \in Nat /\ \A i \in 1 .. Len(o.path) : o.path[i] \in D
  <2> HIDE DEF D
  <2> QED
    BY <1>1
<1>3. DOMAIN pools = D /\ Pairs(pools)
  BY DEF Restrict, Pairs
<1>4. /\ c.net = gross - o.gas /\ c.pools = w.pools
      /\ c.why \in {"sim_path_unavailable", "sim_repay_shortfall", "sim_price_consumed", "filled"}
  <2> HIDE DEF w, gross, fee
  <2> QED
    BY DEF Outcome, w, gross, fee, amount
<1> HIDE DEF D, pools
<1>5. Walks(w, D)
  BY <1>1, <1>2, <1>3, WalkIs
<1> HIDE DEF w
<1>6. amount \in Nat /\ Pairs(w.pools)
  BY <1>5 DEF Walks
<1>7. fee \in Nat
  <2> DEFINE n == o.input * FeeBps
             in == o.input
  <2>1. FeeBps \in Nat
    BY LedgerAssumption
  <2>2. in \in Nat
    BY <1>1
  <2>3. n = in * FeeBps
    OBVIOUS
  <2> HIDE DEF n, in
  <2>4. n \in Nat
    BY <2>1, <2>2, <2>3
  <2>5. n \div 10000 \in Nat
    BY <2>4
  <2> QED
    BY <2>5 DEF n, FlashLoanFee
<1> HIDE DEF amount, fee
<1>8. gross \in Nat
  <2> DEFINE in == o.input
             x == Less0(amount, in)
  <2>1. in \in Nat
    BY <1>1
  <2>2. gross = Less0(x, fee)
    OBVIOUS
  <2> HIDE DEF in
  <2>3. x \in Nat
    BY <1>6, <2>1 DEF Less0
  <2> HIDE DEF x
  <2> QED
    BY <1>7, <2>2, <2>3 DEF Less0
<1> HIDE DEF gross
<1>9. gross - o.gas \in Int
  <2> DEFINE gas == o.gas
  <2>1. gas \in Nat
    BY <1>1
  <2> HIDE DEF gas
  <2>2. gross - gas \in Int
    BY <1>8, <2>1
  <2> QED
    BY <2>2 DEF gas
<1> HIDE DEF c
<1>10. c.why \in Whys \union {"filled"}
  BY <1>4 DEF Whys
<1> QED
  BY <1>4, <1>6, <1>9, <1>10 DEF c

(* The seeds of a block are the pairs that were detected.                    *)
LEMMA SeedsArePairs ==
  ASSUME NEW l, Solvent(l), Pairs(l.overlay), NEW o, o.id \in DOMAIN Snapshot
  PROVE  LET m == WithSeeds(l, o)
         IN  Solvent(m) /\ SameLists(m, l) /\ m.block = l.block /\ Pairs(m.overlay)
<1> DEFINE m == WithSeeds(l, o)
           seen == Snapshot[o.id].pools
           lacking == {i \in DOMAIN o.path : o.path[i] \notin DOMAIN l.overlay \union DOMAIN seen}
           reached == {o.path[i] : i \in {j \in DOMAIN o.path : \A k \in lacking : j < k}}
           S == reached \intersect DOMAIN seen
           pools == Over(l.overlay, Restrict(seen, S))
<1>1. m = [l EXCEPT !.overlay = pools]
  <2> HIDE DEF pools, S
  <2> QED
    BY DEF WithSeeds, pools, S
<1>2. \A a \in DOMAIN seen : PairOk(seen[a])
  BY SnapshotAssumption
<1>3. S \subseteq DOMAIN seen
  OBVIOUS
<1> HIDE DEF S, seen, m
<1>4. Pairs(pools)
  BY <1>2, <1>3 DEF Pairs, Over, Restrict
<1> HIDE DEF pools
<1>5. l = [f \in LedgerFields |-> l[f]]
  BY DEF Solvent
<1>6. DOMAIN l = LedgerFields
  BY <1>5
<1>7. /\ DOMAIN m = LedgerFields /\ m = [f \in LedgerFields |-> m[f]]
      /\ \A f \in LedgerFields \ {"used", "overlay", "written"} : m[f] = l[f]
      /\ m.overlay = pools
  BY <1>1, <1>6 DEF LedgerFields
<1>8. Solvent(m) /\ SameLists(m, l) /\ m.block = l.block
  BY <1>7, BlockKeeps
<1> QED
  BY <1>4, <1>7, <1>8 DEF m

(* One more opportunity of the simulated ledger.                             *)
LEMMA SimulatedTakes ==
  ASSUME NEW l, Solvent(l), Pairs(l.overlay), NEW o \in Opps
  PROVE  Takes(l, o, Simulated(l, o)) /\ Pairs(Simulated(l, o).overlay)
<1> DEFINE now == AtBlock(l, o.block)
           seeded == WithSeeds(now, o)
           outcome == Outcome(seeded, o)
           drift == Drifted(now, o)
           k == Filled(seeded, o, outcome.net, o.gas, drift)
           m == Simulated(l, o)
           fits == Range(o.path) \subseteq DOMAIN seeded.overlay
<1>1. o.id \in Nat /\ o.block \in Nat /\ o.gas \in Int
  BY OppsAssumption
<1>2. Solvent(now) /\ SameLists(now, l) /\ now.block = o.block /\ Pairs(now.overlay)
  <2>1. /\ Solvent(now) /\ SameLists(now, l) /\ now.block = o.block
        /\ IF l.block = o.block THEN now = l ELSE now.used = {} /\ now.overlay = <<>>
    BY AtBlockIs
  <2> HIDE DEF now
  <2>2. DOMAIN <<>> = {}
    OBVIOUS
  <2>3. Pairs(now.overlay)
    BY <2>1, <2>2 DEF Pairs
  <2> QED
    BY <2>1, <2>3
<1>3. /\ Gate(now, o) \in Whys \union {"open"}
      /\ {"sim_strategy_unsupported", "sim_not_quotable", "sim_path_unavailable"} \subseteq Whys
  BY GateIs DEF Whys, Reasons
<1>4. Seeded(o) => Solvent(seeded) /\ SameLists(seeded, now) /\ seeded.block = now.block /\ Pairs(seeded.overlay)
  BY <1>2, SeedsArePairs DEF Seeded
<1>5. drift \in BOOLEAN
  BY DEF Drifted
<1>6. \/ \E why \in Whys : m = Skipped(now, o, why)
      \/ Seeded(o) /\ \E why \in Whys : m = Skipped(seeded, o, why)
      \/ Seeded(o) /\ fits /\ outcome.why \notin Whys \union {"filled"}
      \/ Seeded(o) /\ fits /\ m = Commit(k, o, outcome.pools)
  <2>1. m = IF Gate(now, o) # "open" THEN Skipped(now, o, Gate(now, o))
            ELSE IF ~Simulatable(o) THEN Skipped(now, o, "sim_strategy_unsupported")
            ELSE IF ~Seeded(o) THEN Skipped(now, o, "sim_not_quotable")
            ELSE IF ~fits \/ Cardinality(Range(o.path)) # Len(o.path) \/ o.input = 0
                 THEN Skipped(seeded, o, "sim_path_unavailable")
            ELSE IF outcome.why # "filled" THEN Skipped(seeded, o, outcome.why)
            ELSE Commit(k, o, outcome.pools)
    BY DEF Simulated
  <2> HIDE DEF now, seeded, outcome, drift, k, m, fits
  <2> QED
    BY <1>3, <2>1
<1>7. Seeded(o) /\ fits => /\ outcome.why \in Whys \union {"filled"} /\ outcome.net \in Int
                           /\ Pairs(outcome.pools)
  BY <1>4, OutcomeIs
<1> SUFFICES Takes(l, o, m) /\ Pairs(m.overlay)
  OBVIOUS
<1> HIDE DEF now, seeded, outcome, drift, m, fits
<1>8. ASSUME NEW r, Solvent(r), SameLists(r, l), r.block = o.block, Pairs(r.overlay), NEW why \in Whys,
             m = Skipped(r, o, why)
      PROVE  Takes(l, o, m) /\ Pairs(m.overlay)
  <2>1. /\ Solvent(m) /\ SameBlock(m, r) /\ m.fills = r.fills
        /\ m.skips = Append(r.skips, [id |-> o.id, why |-> why])
    BY <1>1, <1>8, SkippedIs
  <2> QED
    BY <1>8, <2>1 DEF Takes, Skips1, SameLists, SameBlock
<1>9. CASE \E why \in Whys : m = Skipped(now, o, why)
  BY <1>2, <1>8, <1>9
<1>10. CASE Seeded(o) /\ \E why \in Whys : m = Skipped(seeded, o, why)
  BY <1>2, <1>4, <1>8, <1>10 DEF SameLists
<1>11. CASE Seeded(o) /\ fits /\ m = Commit(k, o, outcome.pools)
  <2> DEFINE net == outcome.net
             gas == o.gas
             f == [id |-> o.id, block |-> o.block, net |-> net, gross |-> net + gas, drift |-> drift]
             pools == Over(outcome.pools, k.overlay)
             written == Over([a \in DOMAIN outcome.pools |-> o.tx], k.written)
  <2>1. net \in Int /\ gas \in Int /\ Pairs(outcome.pools)
    BY <1>1, <1>7, <1>11
  <2>2. k = Filled(seeded, o, net, gas, drift)
    OBVIOUS
  <2>3. m = [k EXCEPT !.overlay = pools, !.written = written]
    BY <1>11 DEF Commit
  <2> HIDE DEF net, gas, k
  <2>4. Solvent(k) /\ SameBlock(k, seeded) /\ k.skips = seeded.skips /\ k.fills = Append(seeded.fills, f)
    BY <1>1, <1>4, <1>5, <1>11, <2>1, <2>2, FilledIs
  <2>5. f \in Fills /\ f.id = o.id /\ f.block = o.block
    BY <1>1, <1>5, <2>1 DEF Fills
  <2> HIDE DEF f
  <2>6. Pairs(pools)
    <3>1. Pairs(k.overlay)
      BY <1>4, <1>11, <2>4 DEF SameBlock
    <3> QED
      BY <2>1, <3>1 DEF Pairs, Over
  <2> HIDE DEF pools, written
  <2>7. /\ DOMAIN m = LedgerFields /\ m = [x \in LedgerFields |-> m[x]]
        /\ \A x \in LedgerFields \ {"used", "overlay", "written"} : m[x] = k[x]
        /\ m.overlay = pools
    <3>1. k = [x \in LedgerFields |-> k[x]]
      BY <2>4 DEF Solvent
    <3>2. DOMAIN k = LedgerFields
      BY <3>1
    <3> QED
      BY <2>3, <3>2 DEF LedgerFields
  <2>8. Solvent(m) /\ SameLists(m, k) /\ m.block = k.block
    BY <2>4, <2>7, BlockKeeps
  <2>9. m.fills = Append(l.fills, f) /\ m.skips = l.skips /\ m.block = o.block
    BY <1>2, <1>4, <1>11, <2>4, <2>8 DEF SameLists, SameBlock
  <2>10. Takes(l, o, m)
    BY <2>5, <2>8, <2>9 DEF Takes, Fills1
  <2> QED
    BY <2>6, <2>7, <2>10
<1> QED
  BY <1>6, <1>7, <1>9, <1>10, <1>11

(* The simulated ledger of a session is booked one by one.                   *)
LEMMA SimulatedBooked ==
  ASSUME NEW s \in SUBSET Opps
  PROVE  BookedBy(Ranked(s), AllSimulated(Ranked(s)))
<1> DEFINE list == Ranked(s)
           b == AllSimulated(list)
           Good(n) == Solvent(b[n]) /\ Pairs(b[n].overlay)
           Bad == {n \in Nat : n <= Len(list) /\ ~Good(n)}
<1>1. Len(list) \in Nat /\ \A i \in 1 .. Len(list) : list[i] \in Opps
  BY ListIs
<1>2. b[0] = NewLedger /\ \A i \in 1 .. Len(list) : b[i] = Simulated(b[i - 1], list[i])
  BY <1>1, AllSimulatedIs
<1> HIDE DEF list, b
<1>3. \A n \in 1 .. Len(list) : Good(n - 1) => Takes(b[n - 1], list[n], b[n]) /\ Good(n)
  BY <1>1, <1>2, SimulatedTakes DEF Takes
<1>4. Good(0)
  <2>1. Solvent(b[0]) /\ b[0].overlay = <<>>
    BY <1>2, NewLedgerIs DEF NewLedger
  <2>2. DOMAIN <<>> = {}
    OBVIOUS
  <2> QED
    BY <2>1, <2>2 DEF Pairs
<1> HIDE DEF Good
<1>5. Bad = {}
  <2>1. SUFFICES ASSUME Bad # {} PROVE FALSE
    OBVIOUS
  <2>2. PICK n \in Bad : \A k \in Bad : n <= k
    <3>1. Bad \subseteq Nat
      OBVIOUS
    <3> HIDE DEF Bad
    <3> QED
      BY <2>1, <3>1, LeastExists
  <2>3. n \in Nat /\ n <= Len(list) /\ ~Good(n)
    OBVIOUS
  <2>4. n # 0
    BY <1>4, <2>3
  <2>5. n - 1 \in Nat /\ n - 1 <= Len(list) /\ ~(n <= n - 1) /\ n \in 1 .. Len(list)
    BY <1>1, <2>3, <2>4
  <2>6. n - 1 \notin Bad
    <3> HIDE DEF Bad
    <3> QED
      BY <2>2, <2>5
  <2> QED
    BY <1>3, <2>3, <2>5, <2>6
<1>6. \A n \in 1 .. Len(list) : Good(n - 1)
  <2>1. \A n \in 1 .. Len(list) : n - 1 \in Nat /\ n - 1 <= Len(list)
    BY <1>1
  <2> QED
    BY <1>5, <2>1
<1> QED
  BY <1>2, <1>3, <1>6 DEF BookedBy, list, b

----------------------------------------------------------------------------
(* What the executed ledger bears out.                                       *)

(* A fill, and a revert, of the executed ledger is what a backend answered.  *)
Answers(l, c) ==
    /\ FillIds(l) \subseteq DOMAIN c
    /\ \A i \in DOMAIN l.skips : l.skips[i].why = "exec_revert" => l.skips[i].id \in DOMAIN c

(* Without an answer an opportunity is neither filled nor reverted.          *)
LEMMA BookOneAnswers ==
  ASSUME NEW c, Kept(c), NEW l, Solvent(l), Answers(l, c), NEW o, o.id \in Nat, o.block \in Nat
  PROVE  Answers(BookOne(l, o, c), c)
<1> DEFINE m == BookOne(l, o, c)
<1>1. /\ Takes(l, o, m)
      /\ o.id \notin DOMAIN c => Skips1(l, o, m, Whys \ {"exec_revert"})
  BY BookOneTakes
<1>2. l.skips \in Seq(Skips) /\ l.fills \in Seq(Fills)
  BY DEF Solvent
<1> SUFFICES Answers(m, c)
  OBVIOUS
<1> HIDE DEF m
<1>3. ASSUME NEW why \in Whys, m.fills = l.fills, m.skips = Append(l.skips, [id |-> o.id, why |-> why]),
             o.id \notin DOMAIN c => why # "exec_revert"
      PROVE  Answers(m, c)
  <2> DEFINE e == [id |-> o.id, why |-> why]
  <2>1. e \in Skips /\ e.id = o.id /\ e.why = why /\ m.skips = Append(l.skips, e)
    BY <1>3 DEF Skips
  <2> HIDE DEF e
  <2> DEFINE n == Len(l.skips) + 1
  <2>2. /\ DOMAIN m.skips = DOMAIN l.skips \union {n}
        /\ m.skips[n] = e /\ \A i \in DOMAIN l.skips : m.skips[i] = l.skips[i]
    BY <1>2, <2>1
  <2> HIDE DEF n
  <2>3. FillIds(m) = FillIds(l)
    BY <1>3 DEF FillIds
  <2> QED
    BY <1>3, <2>1, <2>2, <2>3 DEF Answers
<1>4. CASE o.id \notin DOMAIN c
  <2>1. PICK why \in Whys \ {"exec_revert"} :
           m.skips = Append(l.skips, [id |-> o.id, why |-> why])
    BY <1>1, <1>4 DEF Skips1
  <2>2. m.fills = l.fills /\ why \in Whys /\ why # "exec_revert"
    BY <1>1, <1>4 DEF Skips1
  <2> QED
    BY <1>3, <2>1, <2>2
<1>5. CASE o.id \in DOMAIN c /\ Skips1(l, o, m, Whys)
  <2>1. PICK why \in Whys : m.skips = Append(l.skips, [id |-> o.id, why |-> why])
    BY <1>5 DEF Skips1
  <2>2. m.fills = l.fills
    BY <1>5 DEF Skips1
  <2> QED
    BY <1>3, <1>5, <2>1, <2>2
<1>6. CASE o.id \in DOMAIN c /\ Fills1(l, o, m)
  <2>1. PICK f \in Fills : f.id = o.id /\ m.fills = Append(l.fills, f)
    BY <1>6 DEF Fills1
  <2> DEFINE n == Len(l.fills) + 1
  <2>2. /\ DOMAIN m.fills = DOMAIN l.fills \union {n}
        /\ m.fills[n] = f /\ \A i \in DOMAIN l.fills : m.fills[i] = l.fills[i]
    BY <1>2, <2>1
  <2> HIDE DEF n
  <2>3. FillIds(m) = FillIds(l) \union {o.id}
    BY <2>1, <2>2 DEF FillIds
  <2>4. m.skips = l.skips
    BY <1>6 DEF Fills1
  <2>5. FillIds(m) \subseteq DOMAIN c
    BY <1>6, <2>3 DEF Answers
  <2> QED
    BY <2>4, <2>5 DEF Answers
<1>7. Takes(l, o, m) => Skips1(l, o, m, Whys) \/ Fills1(l, o, m)
  BY DEF Takes
<1> QED
  BY <1>1, <1>4, <1>5, <1>6, <1>7

(* So the executed ledger fills and reverts nothing that no backend ran.     *)
LEMMA BooksAnswered ==
  ASSUME NEW s \in SUBSET Opps, NEW c, Kept(c)
  PROVE  Answers(Books(Ranked(s), c)[Len(Ranked(s))], c)
<1> DEFINE list == Ranked(s)
           b == Books(list, c)
           Bad == {n \in Nat : n <= Len(list) /\ ~Answers(b[n], c)}
<1>1. Len(list) \in Nat /\ \A i \in 1 .. Len(list) : list[i].id \in Nat /\ list[i].block \in Nat
  BY ListIs
<1>2. b[0] = NewLedger /\ \A i \in 1 .. Len(list) : b[i] = BookOne(b[i - 1], list[i], c)
  BY <1>1, BooksIs
<1>3. BookedBy(list, b)
  BY BooksBooked
<1> HIDE DEF list, b
<1>4. \A n \in 1 .. Len(list) : Solvent(b[n - 1])
  BY <1>1, <1>3, BookedSolvent
<1>5. Bad = {}
  <2>1. SUFFICES ASSUME Bad # {} PROVE FALSE
    OBVIOUS
  <2>2. PICK n \in Bad : \A k \in Bad : n <= k
    <3>1. Bad \subseteq Nat
      OBVIOUS
    <3> HIDE DEF Bad
    <3> QED
      BY <2>1, <3>1, LeastExists
  <2>3. n \in Nat /\ n <= Len(list) /\ ~Answers(b[n], c)
    OBVIOUS
  <2>4. n # 0
    <3>1. b[0].skips = <<>> /\ b[0].fills = <<>>
      BY <1>2, NewLedgerIs
    <3>2. DOMAIN <<>> = {}
      OBVIOUS
    <3>3. Answers(b[0], c)
      BY <3>1, <3>2 DEF Answers, FillIds
    <3> QED
      BY <2>3, <3>3
  <2>5. n - 1 \in Nat /\ n - 1 <= Len(list) /\ ~(n <= n - 1) /\ n \in 1 .. Len(list)
    BY <1>1, <2>3, <2>4
  <2>6. n - 1 \notin Bad
    <3> HIDE DEF Bad
    <3> QED
      BY <2>2, <2>5
  <2>7. Answers(b[n - 1], c)
    BY <2>5, <2>6
  <2> HIDE DEF Bad
  <2>8. Answers(b[n], c)
    BY <1>1, <1>2, <1>4, <2>5, <2>7, BookOneAnswers
  <2> QED
    BY <2>3, <2>8
<1>6. Answers(b[Len(list)], c)
  BY <1>1, <1>5
<1> QED
  BY <1>6 DEF list, b

(* A fill that no backend ran has no verdict: there are as many verdicts, at *)
(* the most, as fills that have an answer.                                   *)
LEMMA VerdictsAnswered ==
  ASSUME NEW sim, Solvent(sim), NEW exec, NEW c, Answers(exec, c),
         \A i, j \in DOMAIN sim.fills : i # j => sim.fills[i].id # sim.fills[j].id
  PROVE  Reconcile(sim, exec).pass + Reconcile(sim, exec).fail
            <= Cardinality(FillIds(sim) \intersect DOMAIN c)
<1> DEFINE I == DOMAIN sim.fills
           v == [i \in I |-> FillVerdict(sim.fills[i], ExecutedFrom(exec))]
           P == {i \in I : v[i] = "pass"}
           F == {i \in I : v[i] = "fail"}
           T == FillIds(sim) \intersect DOMAIN c
           f == [i \in P \union F |-> sim.fills[i].id]
<1>1. Reconcile(sim, exec).pass = Cardinality(P) /\ Reconcile(sim, exec).fail = Cardinality(F)
  BY DEF Reconcile
<1>2. IsFiniteSet(I)
  <2>1. sim.fills \in Seq(Fills)
    BY DEF Solvent
  <2>2. I = 1 .. Len(sim.fills) /\ Len(sim.fills) \in Nat
    BY <2>1
  <2> QED
    BY <2>2, FS_Interval
<1>3. DOMAIN ExecutedFrom(exec) \subseteq DOMAIN c
  <2>1. {g.id : g \in Range(exec.fills)} \subseteq DOMAIN c
    BY DEF Answers, FillIds, Range
  <2>2. {s.id : s \in {t \in Range(exec.skips) : t.why = "exec_revert"}} \subseteq DOMAIN c
    BY DEF Answers, Range
  <2>3. DOMAIN ExecutedFrom(exec) = {g.id : g \in Range(exec.fills)}
                \union {s.id : s \in {t \in Range(exec.skips) : t.why = "exec_revert"}}
    BY DEF ExecutedFrom
  <2> QED
    BY <2>1, <2>2, <2>3
<1>4. \A i \in P \union F : sim.fills[i].id \in DOMAIN c
  <2>1. \A i \in I : sim.fills[i].id \notin DOMAIN ExecutedFrom(exec) => v[i] = "unverifiable"
    BY DEF FillVerdict
  <2> QED
    BY <1>3, <2>1
<1>5. P \subseteq I /\ F \subseteq I /\ P \intersect F = {}
  OBVIOUS
<1>6. T \subseteq FillIds(sim) /\ IsFiniteSet(FillIds(sim))
  <2>1. IsFiniteSet({sim.fills[i].id : i \in I})
    <3> DEFINE g == [i \in I |-> sim.fills[i].id]
               S == {sim.fills[i].id : i \in I}
    <3>1. g \in Surjection(I, S)
      BY DEF Surjection
    <3> HIDE DEF g, S
    <3>2. IsFiniteSet(S)
      BY <1>2, <3>1, FS_Surjection
    <3> QED
      BY <3>2 DEF S
  <2> QED
    BY <2>1 DEF FillIds
<1>7. f \in Injection(P \union F, T)
  <2>1. \A i \in P \union F : f[i] = sim.fills[i].id /\ f[i] \in T
    BY <1>4 DEF FillIds
  <2>2. f \in [P \union F -> T]
    BY <2>1
  <2>3. \A i, j \in P \union F : f[i] = f[j] => i = j
    BY <1>5
  <2> HIDE DEF f, P, F, T
  <2> QED
    BY <2>2, <2>3 DEF Injection, IsInjective
<1> HIDE DEF f, P, F, T, I, v
<1>8. IsFiniteSet(T) /\ IsFiniteSet(P) /\ IsFiniteSet(F)
  BY <1>2, <1>5, <1>6, FS_Subset
<1>9. Cardinality(P \union F) <= Cardinality(T)
  BY <1>7, <1>8, FS_Injection
<1>10. Cardinality(P \union F) = Cardinality(P) + Cardinality(F)
  <2>1. Cardinality(P \union F) = Cardinality(P) + Cardinality(F) - Cardinality(P \intersect F)
    BY <1>8, FS_Union
  <2>2. Cardinality(P \intersect F) = 0
    BY <1>5, FS_EmptySet
  <2>3. Cardinality(P) \in Nat /\ Cardinality(F) \in Nat
    BY <1>8, FS_CardinalityType
  <2> QED
    BY <2>1, <2>2, <2>3
<1> QED
  BY <1>1, <1>9, <1>10 DEF T

----------------------------------------------------------------------------
(* The three ledgers of a session.                                           *)

(* The entries of a ledger are its fills and then its skips.                 *)
LEMMA EntriesAre ==
  ASSUME NEW l, Solvent(l), NEW n, NEW ids, Entered(l, n, ids)
  PROVE  Len(Entries(l)) = n /\ Range(Entries(l)) = ids
<1> DEFINE f == [i \in DOMAIN l.fills |-> l.fills[i].id]
           g == [i \in DOMAIN l.skips |-> l.skips[i].id]
           m == Len(f)
           k == Len(g)
<1>1. l.fills \in Seq(Fills) /\ l.skips \in Seq(Skips)
  BY DEF Solvent
<1>2. f \in Seq(Nat) /\ DOMAIN f = DOMAIN l.fills /\ Len(f) = Len(l.fills)
  <2>1. \A i \in DOMAIN l.fills : l.fills[i].id \in Nat
    <3> TAKE i \in DOMAIN l.fills
    <3>1. l.fills[i] \in Fills
      BY <1>1
    <3> QED
      BY <3>1 DEF Fills
  <2>2. DOMAIN l.fills = 1 .. Len(l.fills) /\ Len(l.fills) \in Nat
    BY <1>1
  <2> QED
    BY <2>1, <2>2
<1>3. g \in Seq(Nat) /\ DOMAIN g = DOMAIN l.skips /\ Len(g) = Len(l.skips)
  <2>1. \A i \in DOMAIN l.skips : l.skips[i].id \in Nat
    <3> TAKE i \in DOMAIN l.skips
    <3>1. l.skips[i] \in Skips
      BY <1>1
    <3> QED
      BY <3>1 DEF Skips
  <2>2. DOMAIN l.skips = 1 .. Len(l.skips) /\ Len(l.skips) \in Nat
    BY <1>1
  <2> QED
    BY <2>1, <2>2
<1>4. Entries(l) = f \o g
  BY DEF Entries
<1>5. FillIds(l) = {f[i] : i \in DOMAIN f} /\ SkipIds(l) = {g[i] : i \in DOMAIN g}
  BY DEF FillIds, SkipIds
<1>6. Len(l.fills) + Len(l.skips) = n /\ FillIds(l) \union SkipIds(l) = ids
  BY DEF Entered
<1> HIDE DEF f, g
<1>7. /\ Len(f \o g) = m + k /\ m \in Nat /\ k \in Nat
      /\ DOMAIN f = 1 .. m /\ DOMAIN g = 1 .. k /\ DOMAIN (f \o g) = 1 .. m + k
      /\ \A i \in 1 .. m : (f \o g)[i] = f[i]
      /\ \A i \in m + 1 .. m + k : (f \o g)[i] = g[i - m]
  <2>1. f \in Seq(Nat) /\ g \in Seq(Nat)
    BY <1>2, <1>3
  <2>2. m \in Nat /\ k \in Nat /\ DOMAIN f = 1 .. m /\ DOMAIN g = 1 .. k
    BY <2>1
  <2>3. f \o g \in Seq(Nat) /\ Len(f \o g) = m + k
    BY <2>1
  <2>4. DOMAIN (f \o g) = 1 .. m + k
    BY <2>3
  <2>5. \A i \in 1 .. m + k : (f \o g)[i] = IF i <= m THEN f[i] ELSE g[i - m]
    BY <2>1
  <2> HIDE DEF m, k
  <2>6. \A i \in 1 .. m : i \in 1 .. m + k /\ i <= m
    BY <2>2
  <2>7. \A i \in m + 1 .. m + k : i \in 1 .. m + k /\ ~(i <= m)
    BY <2>2
  <2> QED
    BY <2>2, <2>3, <2>4, <2>5, <2>6, <2>7
<1> DEFINE h == f \o g
<1> HIDE DEF h, m, k
<1>8. Range(h) = {f[i] : i \in 1 .. m} \union {g[i] : i \in 1 .. k}
  <2>1. Range(h) = {h[i] : i \in 1 .. m + k}
    BY <1>7 DEF Range, h
  <2>2. \A i \in 1 .. m + k : h[i] \in {f[j] : j \in 1 .. m} \union {g[j] : j \in 1 .. k}
    <3> TAKE i \in 1 .. m + k
    <3>1. CASE i \in 1 .. m
      BY <1>7, <3>1 DEF h
    <3>2. CASE i \notin 1 .. m
      <4>1. i \in m + 1 .. m + k /\ i - m \in 1 .. k
        BY <1>7, <3>2
      <4>2. h[i] = g[i - m]
        BY <1>7, <4>1 DEF h
      <4> QED
        BY <4>1, <4>2
    <3> QED
      BY <3>1, <3>2
  <2>3. \A i \in 1 .. m : f[i] \in {h[j] : j \in 1 .. m + k}
    <3> TAKE i \in 1 .. m
    <3>1. i \in 1 .. m + k /\ h[i] = f[i]
      BY <1>7 DEF h
    <3> QED
      BY <3>1
  <2>4. \A i \in 1 .. k : g[i] \in {h[j] : j \in 1 .. m + k}
    <3> TAKE i \in 1 .. k
    <3>1. i + m \in m + 1 .. m + k /\ i + m \in 1 .. m + k /\ (i + m) - m = i
      BY <1>7
    <3>2. h[i + m] = g[i]
      BY <1>7, <3>1 DEF h
    <3> QED
      BY <3>1, <3>2
  <2> QED
    BY <2>1, <2>2, <2>3, <2>4
<1>9. Range(Entries(l)) = ids
  BY <1>4, <1>5, <1>6, <1>7, <1>8 DEF h
<1>10. Len(Entries(l)) = n
  BY <1>2, <1>3, <1>4, <1>6, <1>7 DEF m, k
<1> QED
  BY <1>9, <1>10

(* However it is booked, a session is accounted for, one entry for each.     *)
LEMMA SettledIs ==
  ASSUME NEW s \in SUBSET Opps, NEW b, BookedBy(Ranked(s), b),
         NEW l, l = b[Len(Ranked(s))]
  PROVE  /\ Solvent(l) /\ Accounted(l) /\ Entered(l, Cardinality(s), {o.id : o \in s})
         /\ Len(Entries(l)) = Cardinality(s) /\ Range(Entries(l)) = {o.id : o \in s}
<1> DEFINE list == Ranked(s)
           n == Len(list)
           ids == {o.id : o \in s}
<1>1. /\ n \in Nat /\ \A i \in 1 .. n : list[i].id \in Nat
      /\ \A i, j \in 1 .. n : i # j => list[i].id # list[j].id
      /\ {list[i].id : i \in 1 .. n} = ids
  BY ListIs
<1>2. n = Cardinality(s)
  BY RankedLists
<1>3. BookedBy(list, b) /\ l = b[n]
  OBVIOUS
<1> HIDE DEF list
<1>4. Solvent(l)
  <2>1. n \in 0 .. Len(list)
    BY <1>1
  <2> QED
    BY <1>1, <1>3, <2>1, BookedSolvent
<1>5. Entered(l, n, {list[i].id : i \in 1 .. n})
  <2>1. /\ Len(list) \in Nat
        /\ \A i \in 1 .. Len(list) : list[i].id \in Nat
        /\ \A i, j \in 1 .. Len(list) : i # j => list[i].id # list[j].id
    BY <1>1
  <2> HIDE DEF ids
  <2>2. Entered(b[Len(list)], Len(list), {list[i].id : i \in 1 .. Len(list)})
    BY <1>3, <2>1, BookedEntries
  <2> QED
    BY <1>3, <2>2
<1> HIDE DEF n, ids
<1>6. Entered(l, n, ids)
  BY <1>1, <1>5
<1>7. Len(Entries(l)) = n /\ Range(Entries(l)) = ids
  BY <1>4, <1>6, EntriesAre
<1> QED
  BY <1>2, <1>4, <1>6, <1>7 DEF Solvent, ids

(* Once a pass is booked, the assumed, the simulated and the executed ledger *)
(* have each booked or skipped every opportunity of the session once and     *)
(* account for their wallets; the assumed one has filled no pool twice in a  *)
(* block, and only fills that a backend answered have a verdict (apply,      *)
(* apply_simulated, apply_executed and reconcile).                           *)
THEOREM ModesAreSettled == Spec => []ModesSettle
<1>1. SessionInv => ModesSettle
  <2> DEFINE n == Len(List)
             a == AllAssumed(List)
             m == AllSimulated(List)
             b == Books(List, cache)
             assumed == Apply(session)
             simulated == ApplySimulated(session)
             Settled(l) == /\ Solvent(l) /\ Accounted(l)
                           /\ Entered(l, Cardinality(session), {o.id : o \in session})
                           /\ Len(Entries(l)) = Cardinality(session)
                           /\ Range(Entries(l)) = {o.id : o \in session}
  <2> SUFFICES ASSUME SessionInv, todo = <<>>
               PROVE  /\ \A l \in {ledger, assumed, simulated} :
                            /\ Accounted(l)
                            /\ Len(Entries(l)) = Cardinality(session)
                            /\ Range(Entries(l)) = {o.id : o \in session}
                      /\ \A i, j \in DOMAIN assumed.fills :
                            (i # j /\ assumed.fills[i].block = assumed.fills[j].block) =>
                                FillPools(assumed, i) \intersect FillPools(assumed, j) = {}
                      /\ Reconcile(simulated, ledger).pass + Reconcile(simulated, ledger).fail <=
                            Cardinality({f.id : f \in Range(simulated.fills)} \intersect DOMAIN cache)
    BY DEF ModesSettle
  <2>1. session \in SUBSET Opps /\ Kept(cache) /\ ledger = Books(List, cache)[Done]
    BY DEF SessionInv, LedgerInv, Listed, AnswersKept, BooksAnswers
  <2>2. n \in Nat /\ n = Cardinality(session)
    BY <2>1, RankedLists DEF List
  <2>3. ledger = b[n] /\ assumed = a[n] /\ simulated = m[n]
    <3>1. Len(<<>>) = 0
      OBVIOUS
    <3>2. Done = n
      BY <2>2, <3>1 DEF Done
    <3> QED
      BY <2>1, <2>2, <3>2 DEF Apply, ApplySimulated, List
  <2>4. BookedBy(List, b) /\ BookedBy(List, a) /\ BookedBy(List, m)
    BY <2>1, BooksBooked, AssumedBooked, SimulatedBooked DEF List
  <2>5. Apart(assumed)
    BY <2>1, <2>3, AssumedIsApart DEF List
  <2>6. Answers(ledger, cache)
    BY <2>1, <2>3, BooksAnswered DEF List
  <2> HIDE DEF a, m, b, assumed, simulated
  <2>7. Settled(ledger) /\ Settled(assumed) /\ Settled(simulated)
    BY <2>1, <2>3, <2>4, SettledIs DEF List
  <2>8. \A i, j \in DOMAIN assumed.fills :
           (i # j /\ assumed.fills[i].block = assumed.fills[j].block) =>
               FillPools(assumed, i) \intersect FillPools(assumed, j) = {}
    <3>1. ASSUME NEW i \in DOMAIN assumed.fills
          PROVE  FillPools(assumed, i) = Range(PathOf(assumed.fills[i].id))
      <4> DEFINE id == assumed.fills[i].id
                 o == CHOOSE e \in session : e.id = id
      <4>1. id \in {e.id : e \in session}
        BY <2>7, <3>1 DEF Entered, FillIds
      <4>2. \E e \in session : e.id = id
        BY <4>1
      <4>3. o \in session /\ o.id = id
        BY <4>2
      <4>4. FillPools(assumed, i) = Range(o.path)
        BY DEF FillPools
      <4> HIDE DEF id, o
      <4>5. PathOf(id) = o.path
        BY <2>1, <4>3, PathOfIs
      <4> QED
        BY <4>4, <4>5 DEF id
    <3> QED
      BY <2>5, <3>1 DEF Apart
  <2>9. Reconcile(simulated, ledger).pass + Reconcile(simulated, ledger).fail <=
           Cardinality({f.id : f \in Range(simulated.fills)} \intersect DOMAIN cache)
    <3>1. \A i, j \in DOMAIN simulated.fills : i # j => simulated.fills[i].id # simulated.fills[j].id
      BY <2>7 DEF Entered
    <3>2. FillIds(simulated) = {f.id : f \in Range(simulated.fills)}
      BY DEF FillIds, Range
    <3> QED
      BY <2>6, <2>7, <3>1, <3>2, VerdictsAnswered
  <2> QED
    BY <2>7, <2>8, <2>9
<1>2. Spec => []SessionInv
  BY SessionSound
<1> QED
  BY <1>1, <1>2, PTL
=============================================================================
