------------------------- MODULE BackfillStoresProofs --------------------------
(* Theorems about the historical backfill (BackfillPipeline), for every range,     *)
(* concurrency and chunk size, and about the two databases it writes               *)
(* (StoreSchemas), for every file, number of openers and order of their            *)
(* statements. The two models share no variable: the pipeline relies on stores     *)
(* that are open and complete, and the second half says that they are.             *)
EXTENDS BackfillPipeline, StoreSchemas, FiniteSetTheorems, WellFoundedInduction, TLAPS


Working == pc \in {"run", "facts", "jit"}

(* The request is one of Requests.                                         *)
RequestInv == request \in Requests /\ tip \in 0 .. MaxTip

(* RequestInv is an invariant.                                             *)
LEMMA RequestIsValid == Spec => []RequestInv
<1>1. Init => RequestInv
  BY RequestsAssumption DEF Init, RequestInv, RequestsAssumption
<1>2. RequestInv /\ [Next]_vars => RequestInv'
  BY DEF RequestInv, Next, Backfill, ReadHead, ListMissing, FetchOne, ChunkArrives,
         ChunkFails, Take, PriceFails, PersistFacts, PersistJit, Finish, Crash,
         Request, vars, runVars
<1> QED
  BY <1>1, <1>2, PTL DEF Spec

(* The clamped end of a range is a height.                                 *)
LEMMA EndIsNat ==
  ASSUME NEW r \in Requests, NEW t \in 0 .. MaxTip
  PROVE  Lesser(r.to, Monus(t, Confirmations)) \in Nat /\ r.from \in Nat
  BY RequestsAssumption DEF RequestsAssumption, Blocks, Lesser, Monus

(* While a run works, every block of its range is in the store, still to   *)
(* be persisted, or skipped; a block whose facts are in is in the store.   *)
CoverInv ==
    /\ Working \/ pc = "ending" => Asked \subseteq classified \cup left \cup skipped
    /\ pc = "jit" => Need \in classified
    /\ pc = "ending" => left = {}
    /\ NothingLost

(* CoverInv holds initially.                                               *)
LEMMA CoverInit == Init => CoverInv
  BY DEF Init, CoverInv, Working, NothingLost

(* Every step preserves CoverInv.                                          *)
LEMMA CoverStep == RequestInv' /\ CoverInv /\ [Next]_vars => CoverInv'
<1> SUFFICES ASSUME RequestInv', CoverInv, [Next]_vars PROVE CoverInv'
  OBVIOUS
<1> USE DEF CoverInv, Working, NothingLost, storeVars, runVars, fetchVars, workVars
<1>1. ASSUME NEW h \in 0 .. MaxTip, ReadHead(h) PROVE CoverInv'
  <2>1. CASE pc' = "done"
    <3>1. Lesser(request.to, Monus(h, Confirmations)) < request.from
      BY <1>1, <2>1 DEF ReadHead
    <3>2. End' < request'.from
      BY <1>1, <2>1, <3>1 DEF ReadHead, End
    <3>3. End' \in Nat /\ request'.from \in Nat
      BY EndIsNat DEF RequestInv, End
    <3> QED
      BY <2>1, <3>2, <3>3
  <2>2. CASE pc' # "done"
    BY <1>1, <2>2 DEF ReadHead
  <2> QED
    BY <2>1, <2>2
<1>2. CASE ListMissing
  <2>1. Asked' = Asked
    BY <1>2 DEF ListMissing, Asked, End
  <2> QED
    BY <1>2, <2>1 DEF ListMissing
<1>3. CASE FetchOne
  <2>1. Asked' = Asked
    BY <1>3 DEF FetchOne, Asked, End
  <2> QED
    BY <1>3, <2>1 DEF FetchOne
<1>4. ASSUME NEW c \in inflight, ChunkArrives(c) PROVE CoverInv'
  <2>1. Asked' = Asked
    BY <1>4 DEF ChunkArrives, Asked, End
  <2> QED
    BY <1>4, <2>1 DEF ChunkArrives, Waiting
<1>5. ASSUME NEW c \in inflight, ChunkFails(c) PROVE CoverInv'
  <2>1. Asked' = Asked
    BY <1>5 DEF ChunkFails, Asked, End
  <2> QED
    BY <1>5, <2>1 DEF ChunkFails, Waiting
<1>6. CASE Take
  <2>1. Asked' = Asked
    BY <1>6 DEF Take, Asked, End
  <2> QED
    BY <1>6, <2>1 DEF Take
<1>7. CASE PriceFails
  BY <1>7 DEF PriceFails
<1>8. CASE PersistFacts
  <2>1. Asked' = Asked
    BY <1>8 DEF PersistFacts, Asked, End
  <2>2. pc' = "jit" => Need' = Need
    BY <1>8 DEF PersistFacts, IndexFails, Need
  <2> QED
    BY <1>8, <2>1, <2>2 DEF PersistFacts, IndexFails
<1>9. CASE PersistJit
  <2>1. Asked' = Asked
    BY <1>9 DEF PersistJit, Asked, End
  <2> QED
    BY <1>9, <2>1 DEF PersistJit, IndexFails
<1>10. CASE Finish
  <2>1. Asked' = Asked
    BY <1>10 DEF Finish, Asked, End
  <2> QED
    BY <1>10, <2>1 DEF Finish
<1>11. CASE Crash
  BY <1>11 DEF Crash
<1>12. ASSUME NEW r \in Requests, Request(r) PROVE CoverInv'
  BY <1>12 DEF Request
<1>13. CASE UNCHANGED vars
  <2>1. Asked' = Asked /\ Need' = Need /\ End' = End
    BY <1>13 DEF vars, Asked, End, Need
  <2> QED
    BY <1>13, <2>1 DEF vars
<1> QED
  BY <1>1, <1>2, <1>3, <1>4, <1>5, <1>6, <1>7, <1>8, <1>9, <1>10, <1>11, <1>12,
     <1>13 DEF Next, Backfill

(* A run that ends as complete has every block of its range in the store   *)
(* or in skipped_blocks, whatever failed, in whatever order the chunks     *)
(* came, and however often runs were broken off (run_range).               *)
THEOREM NothingIsLost == Spec => []NothingLost
<1>1. CoverInv => NothingLost
  BY DEF CoverInv
<1> QED
  BY RequestIsValid, CoverInit, CoverStep, <1>1, PTL DEF Spec
-----------------------------------------------------------------------------
(* Need is the lowest block that is left.                                  *)
LEMMA NeedIsLowest ==
  ASSUME left \subseteq Nat, left # {}
  PROVE  Need \in left /\ \A c \in left : Need <= c
<1>1. PICK b \in left : \A c \in left : <<c, b>> \notin OpToRel(<, Nat)
  BY NatLessThanWellFounded, WFMin
<1>2. \A c \in left : ~(c < b)
  BY <1>1 DEF OpToRel
<1>3. \A c \in left : b <= c
  BY <1>2
<1> QED
  BY <1>3 DEF Need

(* What is left is above all that the run has persisted, except for the    *)
(* block that is being persisted.                                          *)
OrderInv ==
    /\ left \subseteq Nat /\ classified \subseteq Nat
    /\ pc \in {"facts", "jit"} => left # {}
    /\ Working =>
          \A b \in left : \A c \in missing \cap classified :
              c < b \/ (pc = "jit" /\ c = Need)

(* OrderInv holds initially.                                               *)
LEMMA OrderInit == Init => OrderInv
  BY RequestsAssumption DEF Init, OrderInv, Working, Blocks, RequestsAssumption

(* Every step preserves OrderInv, and persists nothing below what the run  *)
(* has persisted.                                                          *)
LEMMA OrderStep ==
  RequestInv /\ OrderInv /\ [Next]_vars =>
    /\ OrderInv'
    /\ \A b \in classified' \ classified : \A c \in missing \cap classified : c < b
<1> DEFINE Up == \A b \in classified' \ classified : \A c \in missing \cap classified : c < b
<1> SUFFICES ASSUME RequestInv, OrderInv, [Next]_vars PROVE OrderInv' /\ Up
  OBVIOUS
<1> USE DEF OrderInv, Working, storeVars, runVars, fetchVars, workVars
<1>1. ASSUME NEW h \in 0 .. MaxTip, ReadHead(h) PROVE OrderInv' /\ Up
  BY <1>1 DEF ReadHead
<1>2. CASE ListMissing
  <2>1. Asked \subseteq Nat
    BY EndIsNat DEF RequestInv, Asked, End
  <2> QED
    BY <1>2, <2>1 DEF ListMissing
<1>3. CASE FetchOne
  BY <1>3 DEF FetchOne
<1>4. ASSUME NEW c \in inflight, ChunkArrives(c) PROVE OrderInv' /\ Up
  BY <1>4 DEF ChunkArrives, Waiting
<1>5. ASSUME NEW c \in inflight, ChunkFails(c) PROVE OrderInv' /\ Up
  BY <1>5 DEF ChunkFails, Waiting
<1>6. CASE Take
  BY <1>6 DEF Take
<1>7. CASE PriceFails
  BY <1>7 DEF PriceFails
<1>8. CASE PersistFacts
  <2>1. Need \in left /\ \A c \in left : Need <= c
    BY <1>8, NeedIsLowest DEF PersistFacts
  <2>2. CASE classified' = classified \cup {Need} /\ pc' = "jit" /\ left' = left
    <3>1. Need' = Need
      BY <2>2 DEF Need
    <3> QED
      BY <1>8, <2>1, <2>2, <3>1 DEF PersistFacts
  <2>3. CASE IndexFails /\ UNCHANGED classified
    BY <1>8, <2>3 DEF PersistFacts, IndexFails
  <2> QED
    BY <1>8, <2>2, <2>3 DEF PersistFacts
<1>9. CASE PersistJit
  <2>1. Need \in left /\ \A c \in left : Need <= c
    BY <1>9, NeedIsLowest DEF PersistJit
  <2>2. UNCHANGED <<classified, missing>>
    BY <1>9 DEF PersistJit
  <2>3. CASE pc' = "run"
    <3>1. left' = left \ {Need}
      BY <1>9, <2>3 DEF PersistJit, IndexFails
    <3>2. \A b \in left' : Need < b
      BY <2>1, <3>1
    <3> QED
      BY <1>9, <2>2, <2>3, <3>1, <3>2 DEF PersistJit
  <2>4. CASE pc' = "failed"
    BY <1>9, <2>2, <2>4 DEF PersistJit, IndexFails
  <2> QED
    BY <1>9, <2>3, <2>4 DEF PersistJit, IndexFails
<1>10. CASE Finish
  BY <1>10 DEF Finish
<1>11. CASE Crash
  BY <1>11 DEF Crash
<1>12. ASSUME NEW r \in Requests, Request(r) PROVE OrderInv' /\ Up
  BY <1>12 DEF Request
<1>13. CASE UNCHANGED vars
  <2>1. Need' = Need
    BY <1>13 DEF vars, Need
  <2> QED
    BY <1>13, <2>1 DEF vars
<1> QED
  BY <1>1, <1>2, <1>3, <1>4, <1>5, <1>6, <1>7, <1>8, <1>9, <1>10, <1>11, <1>12,
     <1>13 DEF Next, Backfill

(* Blocks are persisted in ascending order, in whatever order their chunks *)
(* arrive or fail (run_range).                                             *)
THEOREM PersistsInOrder == Spec => Ascending
<1>1. RequestInv /\ OrderInv /\ [Next]_vars =>
        [\A b \in classified' \ classified : \A c \in missing \cap classified : c < b]_vars
  BY OrderStep
<1> QED
  BY RequestIsValid, OrderInit, OrderStep, <1>1, PTL DEF Spec, Ascending

(***************************************************************************)
(* A run that waits for a block is fetching it.                            *)
(***************************************************************************)

(* The blocks of the chunks in flight, of the ready ones and of those      *)
(* still to be asked for are apart, and the last are the highest.          *)
Apart ==
    /\ \A c \in inflight : c # {} /\ c \subseteq left /\ c \cap ready = {} /\ c \cap todo = {}
    /\ \A c, d \in inflight : c # d => c \cap d = {}
    /\ todo \subseteq left /\ todo \cap ready = {}
    /\ \A b \in missing \ todo, d \in todo : b < d

(* Each block that is left is in one of them, or is the one being          *)
(* persisted, and chunks are in flight while blocks are to be asked for.   *)
Accounted ==
    /\ \A b \in left : b \in ready \/ b \in todo \/ (pc # "run" /\ b = Need)
                        \/ \E c \in inflight : b \in c
    /\ pc # "run" => /\ left # {} /\ Need \notin ready /\ Need \notin todo
                     /\ \A c \in inflight : Need \notin c
    /\ todo # {} => inflight # {}

FlowInv ==
    /\ missing \subseteq Blocks /\ left \subseteq missing
    /\ pc \in {"head", "list"} => ready = {}
    /\ Working /\ Pipelined => Apart /\ Accounted


(* Division by the size of a chunk is monotone.                            *)
LEMMA DivMonotone ==
  ASSUME NEW a \in Nat, NEW b \in Nat, NEW s \in Nat \ {0}, a <= b
  PROVE  a \div s \in Nat /\ b \div s \in Nat /\ a \div s <= b \div s
  OBVIOUS

(* A block's rank counts those below it.                                   *)
LEMMA RankIsMonotone ==
  ASSUME NEW S, S \subseteq Nat, IsFiniteSet(S), NEW b \in S, NEW d \in S, d <= b
  PROVE  Rank(S, d) \in Nat /\ Rank(S, b) \in Nat /\ Rank(S, d) <= Rank(S, b)
<1> DEFINE lower(x) == {c \in S : c < x}
<1>1. lower(d) \subseteq lower(b) /\ lower(b) \subseteq S
  <2>1. \A c \in S : c \in Nat /\ (c < d => c < b)
    <3>1. b \in Nat /\ d \in Nat
      OBVIOUS
    <3> QED
      BY <3>1
  <2> QED
    BY <2>1
<1>2. IsFiniteSet(lower(b))
  BY <1>1, FS_Subset
<1>3. IsFiniteSet(lower(d)) /\ Cardinality(lower(d)) <= Cardinality(lower(b))
  BY <1>1, <1>2, FS_Subset
<1>4. Cardinality(lower(b)) \in Nat /\ Cardinality(lower(d)) \in Nat
  BY <1>2, <1>3, FS_CardinalityType
<1> QED
  BY <1>3, <1>4 DEF Rank

(* Chunks of S that are apart and are its lowest blocks.                   *)
LowestOf(S, spawned) ==
    /\ \A c \in spawned : c # {} /\ c \subseteq S
    /\ \A c, d \in spawned : c # d => c \cap d = {}
    /\ \A b \in UNION spawned, d \in S \ UNION spawned : b < d

(* The chunks that are spawned are the lowest, and the first of them is    *)
(* not empty.                                                              *)
LEMMA ChunksAreLowest ==
  ASSUME NEW S, S \subseteq Nat, IsFiniteSet(S), NEW size \in Nat \ {0}, NEW n \in Int
  PROVE  /\ LowestOf(S, Chunks(S, size, n))
         /\ n >= 1 /\ S # {} => Chunks(S, size, n) # {}
<1> DEFINE Nth(k) == {b \in S : Rank(S, b) \div size = k}
           spawned == Chunks(S, size, n)
<1>1. \A c : c \in spawned <=> c # {} /\ \E k \in 0 .. n - 1 : c = Nth(k)
  BY DEF Chunks
<1> HIDE DEF spawned
<1>2. \A c \in spawned : c # {} /\ c \subseteq S
  BY <1>1
<1>3. ASSUME NEW c \in spawned, NEW d \in spawned, c # d PROVE c \cap d = {}
  <2>1. PICK k \in 0 .. n - 1 : c = Nth(k)
    BY <1>1
  <2>2. PICK j \in 0 .. n - 1 : d = Nth(j)
    BY <1>1
  <2>3. k # j
    BY <1>3, <2>1, <2>2
  <2> QED
    BY <2>1, <2>2, <2>3
<1>4. ASSUME NEW b \in UNION spawned, NEW d \in S \ UNION spawned PROVE b < d
  <2>1. PICK k \in 0 .. n - 1 : b \in Nth(k)
    BY <1>1
  <2>2. b \in S /\ b \in Nat /\ d \in Nat /\ Rank(S, b) \div size = k
    BY <2>1
  <2> SUFFICES ASSUME d <= b PROVE FALSE
    BY <2>2
  <2>3. Rank(S, d) \in Nat /\ Rank(S, b) \in Nat /\ Rank(S, d) <= Rank(S, b)
    BY <2>2, RankIsMonotone
  <2>4. Rank(S, d) \div size \in Nat /\ Rank(S, d) \div size <= k
    BY <2>2, <2>3, DivMonotone
  <2>5. d \in Nth(Rank(S, d) \div size) /\ Rank(S, d) \div size \in 0 .. n - 1
    BY <2>4
  <2>6. Nth(Rank(S, d) \div size) \in spawned
    BY <1>1, <2>5
  <2> QED
    BY <2>5, <2>6
<1>5. ASSUME n >= 1, S # {} PROVE spawned # {}
  <2>1. PICK b \in S : \A c \in S : <<c, b>> \notin OpToRel(<, Nat)
    BY <1>5, NatLessThanWellFounded, WFMin
  <2>2. {c \in S : c < b} = {}
    BY <2>1 DEF OpToRel
  <2>3. Rank(S, b) = 0
    BY <2>2, FS_EmptySet DEF Rank
  <2>4. b \in Nth(0)
    BY <2>3
  <2>5. Nth(0) # {} /\ 0 \in 0 .. n - 1
    BY <1>5, <2>4
  <2>6. Nth(0) \in spawned
    BY <1>1, <2>5
  <2> QED
    BY <2>6
<1> QED
  BY <1>2, <1>3, <1>4, <1>5 DEF spawned, LowestOf

(* The size of a chunk and the number of posts of a pipelined run.         *)
LEMMA PostsArePositive ==
  ASSUME RequestInv, NEW S, S \subseteq Blocks, Cap(S) > 1
  PROVE  ChunkSize(S) \in Nat \ {0} /\ Posts(S) \in Nat \ {0} /\ IsFiniteSet(S)
<1>1. IsFiniteSet(S)
  <2>1. 0 \in Int /\ MaxHeight \in Int
    BY RequestsAssumption DEF RequestsAssumption
  <2>2. IsFiniteSet(Blocks)
    BY <2>1, FS_Interval DEF Blocks
  <2> QED
    BY <2>2, FS_Subset
<1>2. Cardinality(S) \in Nat
  BY <1>1, FS_CardinalityType
<1>3. request.concurrency \in Nat /\ request.batch \in Nat
  BY RequestsAssumption DEF RequestInv, RequestsAssumption
<1>4. Cap(S) \in Nat
  BY <1>2, <1>3 DEF Cap, Lesser, Greater
<1>5. ChunkSize(S) \in Nat \ {0}
  BY <1>3, <1>4 DEF ChunkSize, Lesser, Greater
<1>6. Cap(S) \div ChunkSize(S) \in Int
  BY <1>4, <1>5
<1> QED
  BY <1>1, <1>5, <1>6 DEF Posts, Greater


(* What filling the pipeline comes to.                                     *)
Filled(S, waiting, flying) ==
    /\ \A c \in inflight' : c # {} /\ c \cap todo' = {} /\ (c \in flying \/ c \subseteq waiting)
    /\ \A c, d \in inflight' : c # d => c \cap d = {}
    /\ todo' \subseteq waiting /\ flying \subseteq inflight'
    /\ \A b \in waiting : b \in todo' \/ \E c \in inflight' : b \in c
    /\ \A b \in S \ todo', d \in todo' : b < d
    /\ todo' # {} => inflight' # {}

(* Filling the pipeline keeps chunks in flight and waiting blocks apart,   *)
(* and leaves no block waiting while nothing is in flight.                 *)
LEMMA FillKeepsApart ==
  ASSUME RequestInv, NEW S, S \subseteq Blocks, Cap(S) > 1,
         NEW waiting, waiting \subseteq S, NEW flying,
         \A c \in flying : c # {} /\ c \subseteq S /\ c \cap waiting = {},
         \A c, d \in flying : c # d => c \cap d = {},
         \A b \in S \ waiting, d \in waiting : b < d,
         Fill(S, waiting, flying)
  PROVE  Filled(S, waiting, flying)
<1> DEFINE n == Posts(S) - Cardinality(flying)
           spawned == Chunks(waiting, ChunkSize(S), n)
<1>1. ChunkSize(S) \in Nat \ {0} /\ Posts(S) \in Nat \ {0} /\ IsFiniteSet(S)
  BY PostsArePositive
<1>2. waiting \subseteq Nat /\ IsFiniteSet(waiting)
  <2>1. Blocks \subseteq Nat
    BY RequestsAssumption DEF Blocks, RequestsAssumption
  <2> QED
    BY <1>1, <2>1, FS_Subset
<1>3. IsFiniteSet(flying)
  <2>1. flying \subseteq SUBSET S
    OBVIOUS
  <2> QED
    BY <1>1, <2>1, FS_SUBSET, FS_Subset
<1>4. n \in Int /\ (flying = {} => n >= 1)
  BY <1>1, <1>3, FS_CardinalityType, FS_EmptySet
<1>5. inflight' = flying \cup spawned /\ todo' = waiting \ UNION spawned
  BY DEF Fill
<1> HIDE DEF n
<1>6. LowestOf(waiting, spawned) /\ (n >= 1 /\ waiting # {} => spawned # {})
  BY <1>1, <1>2, <1>4, ChunksAreLowest
<1> HIDE DEF spawned
<1> USE DEF LowestOf
<1>7. \A c \in inflight' : c # {} /\ c \cap todo' = {} /\ (c \in flying \/ c \subseteq waiting)
  BY <1>5, <1>6
<1>8. \A c, d \in inflight' : c # d => c \cap d = {}
  <2> TAKE c, d \in inflight'
  <2>1. CASE c \in flying /\ d \in flying
    BY <2>1
  <2>2. CASE c \in spawned /\ d \in spawned
    BY <1>6, <2>2
  <2>3. CASE c \in flying /\ d \in spawned
    BY <1>6, <2>3
  <2>4. CASE c \in spawned /\ d \in flying
    BY <1>6, <2>4
  <2> QED
    BY <1>5, <2>1, <2>2, <2>3, <2>4
<1>9. flying \subseteq inflight' /\ \A b \in waiting : b \in todo' \/ \E c \in inflight' : b \in c
  BY <1>5
<1>10. \A b \in S \ todo', d \in todo' : b < d
  BY <1>5, <1>6
<1>11. todo' # {} => inflight' # {}
  BY <1>4, <1>5, <1>6
<1> QED
  BY <1>5, <1>7, <1>8, <1>9, <1>10, <1>11 DEF Filled

(* FlowInv holds initially.                                                *)
LEMMA FlowInit == Init => FlowInv
  BY DEF Init, FlowInv, Working

(* The steps that fill the pipeline preserve FlowInv.                      *)
LEMMA FlowFilled ==
  ASSUME RequestInv, RequestInv', FlowInv,
         ListMissing \/ PersistJit \/ \E c \in inflight : ChunkArrives(c) \/ ChunkFails(c)
  PROVE  FlowInv'
<1>1. CASE ListMissing
  <2> DEFINE found == Asked \ classified
  <2>1. found \subseteq Blocks
    <3>1. request.from \in Blocks /\ request.to \in Blocks /\ Monus(tip, Confirmations) \in Int
      BY RequestsAssumption DEF RequestInv, RequestsAssumption, Monus
    <3> QED
      BY <3>1, RequestsAssumption DEF Asked, End, Lesser, Blocks, RequestsAssumption
  <2>2. pc = "list" /\ ready = {} /\ ready' = {} /\ pc' \in {"ending", "run", "failed"}
    BY <1>1 DEF ListMissing, FlowInv
  <2>3. CASE pc' = "failed"
    BY <1>1, <2>2, <2>3 DEF ListMissing, FlowInv, Working
  <2>4. CASE pc' # "failed"
    <3>1. /\ missing' = found /\ left' = found /\ request' = request
          /\ Cap(found) > 1 => Fill(found, found, {})
      BY <1>1, <2>4 DEF ListMissing
    <3>2. Pipelined' <=> Cap(found) > 1
      BY <3>1 DEF Pipelined, Cap
    <3> HIDE DEF found
    <3>3. CASE pc' = "run" /\ Cap(found) > 1
      <4>1. Fill(found, found, {})
        BY <3>1, <3>3
      <4>2. Filled(found, found, {})
        BY <2>1, <3>3, <4>1, FillKeepsApart
      <4> QED
        BY <2>1, <2>2, <3>1, <3>3, <4>2 DEF Filled, FlowInv, Apart, Accounted
    <3> QED
      BY <2>1, <2>2, <2>4, <3>1, <3>2, <3>3 DEF FlowInv, Working
  <2> QED
    BY <2>3, <2>4
<1>2. ASSUME NEW c \in inflight, ChunkArrives(c) \/ ChunkFails(c) PROVE FlowInv'
  <2>1. /\ pc = "run" /\ pc' = "run" /\ Pipelined /\ UNCHANGED runVars
        /\ Fill(missing, todo, inflight \ {c})
    BY <1>2 DEF ChunkArrives, ChunkFails, Waiting
  <2>2. Apart /\ Accounted /\ missing \subseteq Blocks /\ left \subseteq missing
    BY <2>1 DEF FlowInv, Working
  <2>3. \/ ready' = ready \cup c /\ left' = left
        \/ ready' = ready /\ left' = left \ c
    BY <1>2 DEF ChunkArrives, ChunkFails
  <2>4. Cap(missing) > 1 /\ todo \subseteq missing
    BY <2>1, <2>2 DEF Pipelined, Apart
  <2>5. /\ \A d \in inflight \ {c} : d # {} /\ d \subseteq missing /\ d \cap todo = {}
        /\ \A d, e \in inflight \ {c} : d # e => d \cap e = {}
        /\ \A b \in missing \ todo, d \in todo : b < d
    BY <2>2 DEF Apart
  <2>6. Filled(missing, todo, inflight \ {c})
    BY <2>1, <2>2, <2>4, <2>5, FillKeepsApart
  <2>7. \A d \in inflight' : d \cap c = {} /\ d \subseteq left /\ d \cap ready = {}
    BY <2>2, <2>6 DEF Apart, Filled
  <2>8. c \cap todo = {} /\ c \subseteq left
    BY <2>2 DEF Apart
  <2>9. Apart'
    BY <2>1, <2>2, <2>3, <2>6, <2>7, <2>8 DEF Apart, Filled, runVars
  <2>10. \A b \in left : b \in ready \/ b \in c \/ b \in todo' \/ \E d \in inflight' : b \in d
    BY <2>1, <2>2, <2>6 DEF Accounted, Filled
  <2>11. Accounted'
    BY <2>1, <2>3, <2>6, <2>10 DEF Accounted, Filled
  <2> QED
    BY <2>1, <2>2, <2>3, <2>9, <2>11 DEF FlowInv, runVars
<1>3. CASE PersistJit
  <2>1. UNCHANGED <<missing, request, ready>> /\ pc = "jit" /\ (Pipelined' <=> Pipelined)
        /\ (left' = left \/ left' = left \ {Need}) /\ pc' \in {"run", "failed"}
    BY <1>3 DEF PersistJit, IndexFails, runVars, Pipelined, Cap
  <2>2. CASE ~Pipelined \/ pc' = "failed"
    BY <2>1, <2>2 DEF FlowInv, Working
  <2>3. CASE Pipelined /\ pc' # "failed"
    <3>1. left' = left \ {Need} /\ pc' = "run" /\ Fill(missing, todo, inflight)
      BY <1>3, <2>3 DEF PersistJit, IndexFails
    <3>2. Apart /\ Accounted /\ missing \subseteq Blocks /\ left \subseteq missing
      BY <2>1, <2>3 DEF FlowInv, Working
    <3>3. Cap(missing) > 1 /\ todo \subseteq missing
      BY <2>3, <3>2 DEF Pipelined, Apart
    <3>4. /\ \A d \in inflight : d # {} /\ d \subseteq missing /\ d \cap todo = {}
          /\ \A d, e \in inflight : d # e => d \cap e = {}
          /\ \A b \in missing \ todo, d \in todo : b < d
      BY <3>2 DEF Apart
    <3>5. Filled(missing, todo, inflight)
      BY <3>1, <3>2, <3>3, <3>4, FillKeepsApart
    <3>6. /\ Need \notin todo /\ \A d \in inflight : Need \notin d
          /\ \A b \in left \ {Need} : b \in ready \/ b \in todo \/ \E d \in inflight : b \in d
      BY <2>1, <3>2 DEF Accounted
    <3>7. Apart'
      BY <2>1, <3>1, <3>2, <3>5, <3>6 DEF Apart, Filled
    <3>8. Accounted'
      BY <2>1, <3>1, <3>5, <3>6 DEF Accounted, Filled
    <3> QED
      BY <2>1, <3>1, <3>2, <3>7, <3>8 DEF FlowInv
  <2> QED
    BY <2>2, <2>3
<1> QED
  BY <1>1, <1>2, <1>3

(* Every step preserves FlowInv.                                           *)
LEMMA FlowStep == RequestInv /\ RequestInv' /\ FlowInv /\ [Next]_vars => FlowInv'
<1> SUFFICES ASSUME RequestInv, RequestInv', FlowInv, [Next]_vars PROVE FlowInv'
  OBVIOUS
<1> USE DEF storeVars, runVars, fetchVars, workVars
<1>1. ASSUME NEW r \in Requests, Request(r) PROVE FlowInv'
  BY <1>1 DEF Request, FlowInv, Working
<1>2. ASSUME NEW h \in 0 .. MaxTip, ReadHead(h) PROVE FlowInv'
  BY <1>2 DEF ReadHead, FlowInv, Working
<1>3. CASE FetchOne
  <2>1. ~Pipelined'
    BY <1>3 DEF FetchOne, Pipelined, Cap
  <2> QED
    BY <1>3, <2>1 DEF FetchOne, FlowInv
<1>4. CASE Take
  <2>1. /\ pc = "run" /\ pc' = "facts" /\ ready' = ready \ {Need} /\ Need \in ready /\ left # {}
        /\ UNCHANGED <<missing, left, todo, inflight>> /\ Pipelined /\ Need' = Need
    BY <1>4 DEF Take, Need
  <2>2. Apart /\ Accounted
    BY <2>1 DEF FlowInv, Working
  <2>3. Apart'
    BY <2>1, <2>2 DEF Apart
  <2>4. Accounted'
    BY <2>1, <2>2 DEF Apart, Accounted
  <2> QED
    BY <2>1, <2>3, <2>4 DEF FlowInv
<1>5. CASE PersistFacts
  <2>1. /\ pc = "facts" /\ pc' \in {"jit", "run", "failed"}
        /\ UNCHANGED <<missing, todo, inflight, ready>> /\ (Pipelined' <=> Pipelined)
        /\ (left' = left \/ left' = left \ {Need})
        /\ (Pipelined /\ pc' # "failed" => left' = left /\ pc' = "jit")
    BY <1>5 DEF PersistFacts, IndexFails, Pipelined, Cap
  <2>2. CASE ~Pipelined \/ pc' = "failed"
    BY <2>1, <2>2 DEF FlowInv, Working
  <2>3. CASE Pipelined /\ pc' # "failed"
    <3>1. Need' = Need
      BY <2>1, <2>3 DEF Need
    <3> QED
      BY <2>1, <2>3, <3>1 DEF FlowInv, Working, Apart, Accounted
  <2> QED
    BY <2>2, <2>3
<1>6. CASE PriceFails \/ Finish \/ Crash
  BY <1>6 DEF PriceFails, Finish, Crash, FlowInv, Working
<1>7. CASE UNCHANGED vars
  <2>1. Need' = Need /\ (Pipelined' <=> Pipelined)
    BY <1>7 DEF vars, Need, Pipelined, Cap
  <2> QED
    BY <1>7, <2>1 DEF vars, FlowInv, Working, Apart, Accounted
<1> QED
  BY <1>1, <1>2, <1>3, <1>4, <1>5, <1>6, <1>7, FlowFilled DEF Next, Backfill

(* A run that waits for a block is fetching it, for every range, number of *)
(* posts and size of a chunk, and in whatever order chunks arrive or fail: *)
(* the bail of run_range on a stalled pipeline is not reached.             *)
THEOREM PipelineNeverStalls == Spec => []NeverStalls
<1>1. RequestInv /\ FlowInv => NeverStalls
  <2> SUFFICES ASSUME FlowInv, Waiting PROVE \E c \in inflight : Need \in c
    BY DEF NeverStalls
  <2>1. Apart /\ Accounted /\ left \subseteq Nat /\ left # {} /\ Need \notin ready /\ pc = "run"
    BY RequestsAssumption DEF Waiting, FlowInv, Working, Blocks, RequestsAssumption
  <2>2. Need \in left /\ \A c \in left : Need <= c
    BY <2>1, NeedIsLowest
  <2>3. Need \notin todo
    <3> SUFFICES ASSUME Need \in todo PROVE FALSE
      OBVIOUS
    <3>1. PICK c \in inflight : TRUE
      BY <2>1 DEF Accounted
    <3>2. PICK b \in c : b \in left /\ b \notin todo
      BY <2>1 DEF Apart
    <3>3. b < Need
      BY <2>1, <3>2 DEF Apart, FlowInv, Waiting, Working
    <3> QED
      BY <2>1, <2>2, <3>2, <3>3
  <2> QED
    BY <2>1, <2>2, <2>3 DEF Accounted
<1> QED
  BY RequestIsValid, FlowInit, FlowStep, <1>1, PTL DEF Spec

-----------------------------------------------------------------------------------
(* The databases. No migration loses an event: whoever opens the file, in whatever *)
(* order the statements of those that migrate it come, and wherever they are       *)
(* killed. And a database that was opened is complete, the explorer's or the cache.*)


(* Two rows hold the same event.                                               *)
Same(r, s) == r.key = s.key /\ r.copy = s.copy /\ r.tag = s.tag

(* The rows ops are those of bs, once each.                                    *)
Kept(ops, bs) ==
    /\ \A r \in ops : IsRow(r) /\ \E b \in bs : Same(r, b)
    /\ \A b \in bs : IsRow(b) /\ \E r \in ops : Same(r, b)
    /\ \A r, s \in ops : Same(r, s) => r = s
    /\ \A b, c \in bs : Same(b, c) => b = c

(* Each row goes by the name that the shape of the table gives it.             *)
Named(kinds, ops, bs) ==
    \A r \in ops, b \in bs : Same(r, b) =>
        IF "utility" \in kinds THEN r.kind = Renamed(b.kind) /\ r.sub = r.tag ELSE r.kind = b.kind

RejectsHeld ==
    /\ file.rejects \in [DOMAIN file.rejects -> Nat]
    /\ \A r \in DOMAIN file.rejects :
          /\ r \in born.rejects => file.rejects[r] >= 1
          /\ file.rejectKey => file.rejects[r] <= 1

(* A file without the table has no row, and none is rebuilt or given its key   *)
(* that has no table.                                                          *)
ShapeInv ==
    /\ file.version \in Nat
    /\ ~ Has(file, "ops") => file.ops = {} /\ ~ file.natural
    /\ "utility" \in file.kinds => file.kinds = UtilityKinds
    /\ \A o \in Openers :
          /\ opener[o].v \in Nat
          /\ opener[o].phase = "do" /\ opener[o].v + 1 \in {5, 7, 8} => Has(file, "ops")

RowsInv ==
    /\ DOMAIN file = {"version", "tables", "kinds", "cols", "paper", "natural", "rejectKey",
                      "ops", "rejects"}
    /\ DOMAIN born = {"ops", "rejects"}
    /\ DOMAIN opener = Openers
    /\ \A o \in Openers : DOMAIN opener[o] = {"phase", "v", "k"}
    /\ ShapeInv
    /\ IsFiniteSet(born.ops)
    /\ Kept(file.ops, born.ops)
    /\ Named(file.kinds, file.ops, born.ops)
    /\ RejectsHeld

-------------------------------------------------------------------------------
(* As many rows as were born: each is one of them, and the other way round.    *)
LEMMA KeptCount ==
    ASSUME NEW ops, NEW bs, IsFiniteSet(bs), Kept(ops, bs)
    PROVE  Cardinality(ops) = Cardinality(bs)
<1> DEFINE f == [b \in bs |-> CHOOSE r \in ops : Same(r, b)]
<1>1. \A b \in bs : f[b] \in ops /\ Same(f[b], b)
  BY DEF Kept
<1>2. f \in [bs -> ops]
  BY <1>1
<1>3. \A b, c \in bs : f[b] = f[c] => b = c
  <2> HIDE DEF f
  <2> QED  BY <1>1 DEF Kept, Same
<1>4. \A r \in ops : \E b \in bs : f[b] = r
  <2> HIDE DEF f
  <2>1. TAKE r \in ops
  <2>2. PICK b \in bs : Same(r, b)
    BY DEF Kept
  <2>3. f[b] \in ops /\ Same(f[b], b)
    BY <1>1
  <2>4. Same(f[b], r)
    BY <2>2, <2>3 DEF Same
  <2> QED  BY <2>3, <2>4 DEF Kept
<1>5. f \in Bijection(bs, ops)
  <2> HIDE DEF f
  <2>1. f \in Injection(bs, ops)
    BY <1>2, <1>3 DEF Injection, IsInjective
  <2>2. f \in Surjection(bs, ops)
    BY <1>2, <1>4 DEF Surjection
  <2> QED  BY <2>1, <2>2 DEF Bijection
<1>6. ExistsBijection(bs, ops)
  <2> HIDE DEF f
  <2> QED  BY <1>5 DEF ExistsBijection
<1> QED  BY <1>6, FS_Bijection

(* The invariant says what is to be shown.                                     *)
LEMMA RowsInvSuffices == RowsInv => RowsSurvive
<1> SUFFICES ASSUME RowsInv PROVE RowsSurvive
  OBVIOUS
<1>1. \A r \in file.ops, b \in born.ops : Same(r, b) <=> Known(r) = Known(b)
  BY DEF Same, Known
<1>2. {Known(r) : r \in file.ops} = {Known(r) : r \in born.ops}
  BY <1>1 DEF RowsInv, Kept
<1>3. Cardinality(file.ops) = Cardinality(born.ops)
  BY KeptCount DEF RowsInv
<1>4. \A r \in file.ops, b \in born.ops : Known(r) = Known(b) =>
          IF "utility" \in file.kinds THEN r.kind = Renamed(b.kind) /\ r.sub = r.tag
          ELSE r.kind = b.kind
  BY <1>1 DEF RowsInv, Named
<1> QED  BY <1>2, <1>3, <1>4 DEF RowsSurvive, RowsInv, RejectsHeld

-------------------------------------------------------------------------------
(* Rows that are rewritten one by one are the same events.                     *)
LEMMA CarriedOver ==
    ASSUME NEW ops, NEW bs, Kept(ops, bs), NEW f, \A r \in ops : IsRow(f[r]) /\ Same(f[r], r)
    PROVE  Kept({f[r] : r \in ops}, bs)
<1> DEFINE new == {f[r] : r \in ops}
<1>1. \A r \in ops : f[r] \in new
  OBVIOUS
<1>2. \A n \in new : IsRow(n) /\ \E r \in ops : n = f[r] /\ Same(n, r)
  OBVIOUS
<1> HIDE DEF new
<1>3. \A n \in new : \E b \in bs : Same(n, b)
  BY <1>2 DEF Kept, Same
<1>4. \A b \in bs : \E n \in new : Same(n, b)
  BY <1>1 DEF Kept, Same
<1>5. \A m, n \in new : Same(m, n) => m = n
  <2> SUFFICES ASSUME NEW m \in new, NEW n \in new, Same(m, n) PROVE m = n
    OBVIOUS
  <2>1. PICK r \in ops : m = f[r] /\ Same(m, r)
    BY <1>2
  <2>2. PICK s \in ops : n = f[s] /\ Same(n, s)
    BY <1>2
  <2>3. Same(r, s)
    BY <2>1, <2>2 DEF Same
  <2> QED  BY <2>1, <2>2, <2>3 DEF Kept
<1>6. Kept(new, bs)
  BY <1>2, <1>3, <1>4, <1>5 DEF Kept
<1> QED  BY <1>6 DEF new

(* A rebuild for the skim kind carries each row over, without a subkind; that  *)
(* all of them fit means that none goes by a name of a later version.          *)
LEMMA SkimKeeps ==
    ASSUME NEW ops, NEW bs, NEW kinds, Kept(ops, bs), Named(kinds, ops, bs),
           NEW new, new = {[r EXCEPT !.sub = "none"] : r \in ops},
           \A r \in new : r.kind \in SkimKinds
    PROVE  Kept(new, bs) /\ Named(SkimKinds, new, bs)
<1> DEFINE f == [r \in ops |-> [r EXCEPT !.sub = "none"]]
<1>1. \A r \in ops : IsRow(f[r]) /\ Same(f[r], r) /\ f[r].kind = r.kind
  BY DEF Kept, IsRow, Same
<1>2. new = {f[r] : r \in ops}
  OBVIOUS
<1> HIDE DEF f
<1>3. Kept(new, bs)
  BY <1>1, <1>2, CarriedOver
<1>4. Named(SkimKinds, new, bs)
  <2> SUFFICES ASSUME NEW n \in new, NEW b \in bs, Same(n, b)
               PROVE  n.kind = b.kind
    BY DEF Named, SkimKinds
  <2>1. PICK r \in ops : Same(n, r) /\ n.kind = r.kind
    BY <1>1, <1>2
  <2>2. Same(r, b)
    BY <2>1 DEF Same
  <2>3. r.kind = b.kind \/ r.kind = Renamed(b.kind)
    BY <2>2 DEF Named
  <2>4. n.kind \in SkimKinds
    OBVIOUS
  <2> QED  BY <2>1, <2>3, <2>4 DEF Renamed, SkimKinds
<1> QED  BY <1>3, <1>4

(* The one of V8 gives each row the name of its version, once and for all.     *)
AsUtility(ops) == {[r EXCEPT !.kind = Renamed(r.kind), !.sub = r.tag] : r \in ops}

LEMMA UtilityKeeps ==
    ASSUME NEW ops, NEW bs, NEW kinds, Kept(ops, bs), Named(kinds, ops, bs)
    PROVE  Kept(AsUtility(ops), bs) /\ Named(UtilityKinds, AsUtility(ops), bs)
<1> DEFINE f == [r \in ops |-> [r EXCEPT !.kind = Renamed(r.kind), !.sub = r.tag]]
<1>1. \A r \in ops : IsRow(f[r]) /\ Same(f[r], r)
  BY DEF Kept, IsRow, Same
<1>5. \A r \in ops : f[r].kind = Renamed(r.kind) /\ f[r].sub = f[r].tag
  BY DEF Kept, IsRow, Same
<1> DEFINE new == {f[r] : r \in ops}
<1>2. AsUtility(ops) = new
  BY DEF AsUtility
<1> HIDE DEF f
<1>3. Kept(new, bs)
  BY <1>1, CarriedOver
<1>4. Named(UtilityKinds, new, bs)
  <2> SUFFICES ASSUME NEW n \in new, NEW b \in bs, Same(n, b)
               PROVE  n.kind = Renamed(b.kind) /\ n.sub = n.tag
    BY DEF Named, UtilityKinds
  <2>1. PICK r \in ops : Same(n, r) /\ n.kind = Renamed(r.kind) /\ n.sub = n.tag
    BY <1>1, <1>5
  <2>2. Same(r, b)
    BY <2>1 DEF Same
  <2>3. r.kind = b.kind \/ r.kind = Renamed(b.kind)
    BY <2>2 DEF Named
  <2>4. \A k : Renamed(Renamed(k)) = Renamed(k)
    BY DEF Renamed
  <2> QED  BY <2>1, <2>3, <2>4
<1> HIDE DEF new
<1> QED  BY <1>2, <1>3, <1>4

(* A row with a key of its own is one more.                                    *)
LEMMA NewRowKeeps ==
    ASSUME NEW ops, NEW bs, NEW kinds, Kept(ops, bs), Named(kinds, ops, bs),
           "utility" \in kinds => kinds = UtilityKinds,
           NEW r, IsRow(r), r.kind \in kinds, \A s \in ops : s.key # r.key
    PROVE  LET new == [r EXCEPT !.sub = r.tag]
           IN  /\ Kept(ops \cup {new}, bs \cup {r})
               /\ Named(kinds, ops \cup {new}, bs \cup {r})
<1> DEFINE n == [r EXCEPT !.sub = r.tag]
<1>1. IsRow(n) /\ Same(n, r) /\ n.kind = r.kind /\ n.sub = n.tag
  BY DEF IsRow, Same
<1> HIDE DEF n
<1>2. \A b \in bs : b.key # r.key
  BY DEF Kept, Same
<1>3. Kept(ops \cup {n}, bs \cup {r})
  BY <1>1, <1>2 DEF Kept, Same
<1>4. Named(kinds, ops \cup {n}, bs \cup {r})
  <2>1. "utility" \in kinds => r.kind = Renamed(r.kind)
    BY DEF UtilityKinds, Renamed
  <2> QED  BY <1>1, <1>2, <2>1 DEF Named, Same
<1> QED  BY <1>3, <1>4 DEF n

-------------------------------------------------------------------------------
LEMMA RowsInvInit == SchemaInit => RowsInv
<1> SUFFICES ASSUME SchemaInit PROVE RowsInv
  OBVIOUS
<1> USE FilesAssumption DEF FilesAssumption, SchemaInit
<1>1. file \in Files /\ born.ops = file.ops
  OBVIOUS
<1>2. \A r, s \in file.ops : Same(r, s) <=> Known(r) = Known(s)
  BY DEF Same, Known
<1>3. Kept(file.ops, born.ops)
  BY <1>1, <1>2 DEF Kept, Same
<1>4. Named(file.kinds, file.ops, born.ops)
  BY <1>1, <1>2 DEF Named, Fits, UtilityKinds, Renamed
<1>5. RejectsHeld
  BY <1>1 DEF RejectsHeld, DuplicateRejects
<1>6. ShapeInv
  BY <1>1 DEF ShapeInv, Idle
<1> QED  BY <1>1, <1>3, <1>4, <1>5, <1>6 DEF RowsInv, Idle

(* A step that touches neither rows nor rejects nor the shape they are in: an  *)
(* opener goes on, the version is marked, a column is added.                   *)
Untouched ==
    /\ DOMAIN file' = DOMAIN file
    /\ file'.ops = file.ops /\ file'.rejects = file.rejects /\ file'.rejectKey = file.rejectKey
    /\ file'.kinds = file.kinds /\ file'.natural = file.natural
    /\ Has(file, "ops") => Has(file', "ops")
    /\ born' = born

(* What an opener may be next: it does a step only where there is a table.     *)
OpenersFollow ==
    /\ DOMAIN opener' = Openers
    /\ \A o \in Openers :
          /\ DOMAIN opener'[o] = {"phase", "v", "k"} /\ opener'[o].v \in Nat
          /\ opener'[o].phase = "do" /\ opener'[o].v + 1 \in {5, 7, 8} =>
                opener'[o] = opener[o] \/ Has(file, "ops")

LEMMA UntouchedKeeps ==
    RowsInv /\ Untouched /\ OpenersFollow /\ file'.version \in Nat => RowsInv'
<1> SUFFICES ASSUME RowsInv, Untouched, OpenersFollow, file'.version \in Nat PROVE RowsInv'
  OBVIOUS
<1>1. Kept(file.ops, born.ops)' /\ Named(file.kinds, file.ops, born.ops)' /\ RejectsHeld'
  BY DEF RowsInv, Untouched, RejectsHeld, Kept, Named
<1>2. ShapeInv'
  BY DEF RowsInv, ShapeInv, Untouched, OpenersFollow, Has
<1> QED  BY <1>1, <1>2 DEF RowsInv, Untouched, OpenersFollow

(* An opener moves to another phase, and no others do.                         *)
LEMMA GoFollows ==
    ASSUME RowsInv, NEW o \in Openers, NEW phase, Go(o, phase),
           phase = "do" /\ opener[o].v + 1 \in {5, 7, 8} => Has(file, "ops")
    PROVE  OpenersFollow
  BY DEF RowsInv, ShapeInv, Go, OpenersFollow

-------------------------------------------------------------------------------
LEMMA OpenFileKeeps ==
    ASSUME RowsInv, NEW o \in Openers,
           OpenFile(o) \/ LookForTables(o) \/ StampLegacy(o) \/ MarkVersion(o) \/ CloseFile(o) \/ Die(o)
    PROVE  RowsInv'
<1>1. OpenersFollow /\ Untouched /\ file'.version \in Nat
  <2> USE DEF RowsInv, ShapeInv, Untouched, Has, OpenersFollow, Reached
  <2>1. CASE OpenFile(o)
    BY <2>1 DEF OpenFile
  <2>2. CASE LookForTables(o)
    BY <2>2 DEF LookForTables, Go
  <2>3. CASE StampLegacy(o)
    BY <2>3 DEF StampLegacy
  <2>4. CASE MarkVersion(o)
    BY <2>4 DEF MarkVersion, SchemaHead
  <2>5. CASE CloseFile(o)
    BY <2>5 DEF CloseFile, Idle
  <2>6. CASE Die(o)
    BY <2>6 DEF Die, Idle
  <2> QED  BY <2>1, <2>2, <2>3, <2>4, <2>5, <2>6
<1> QED  BY <1>1, UntouchedKeeps

(* A table of ops that is created is empty, as there was none.                 *)
LEMMA CreateTableKeeps ==
    ASSUME RowsInv, NEW o \in Openers, CreateTable(o) PROVE RowsInv'
<1> DEFINE t == V1Tables[opener[o].k]
<1>1. file' = Created(file, t) /\ born' = born
  BY DEF CreateTable
<1>2. OpenersFollow
  BY DEF CreateTable, RowsInv, ShapeInv, OpenersFollow
<1> HIDE DEF t
<1>3. CASE Has(file, t) \/ t # "ops"
  <2>1. Untouched /\ file'.version \in Nat
    BY <1>1, <1>3 DEF Created, Untouched, RowsInv, ShapeInv, Has
  <2> QED  BY <1>2, <2>1, UntouchedKeeps
<1>4. CASE ~ Has(file, t) /\ t = "ops"
  <2>1. /\ DOMAIN file' = DOMAIN file /\ file'.version = file.version
        /\ file'.ops = file.ops /\ file'.rejects = file.rejects
        /\ file'.rejectKey = file.rejectKey /\ file'.natural = file.natural
        /\ file'.kinds = SkimKinds /\ Has(file', "ops")
    BY <1>1, <1>4 DEF Created, RowsInv, Has
  <2>2. file.ops = {} /\ born.ops = {}
    BY <1>4 DEF RowsInv, ShapeInv, Kept
  <2>3. Kept(file.ops, born.ops)' /\ Named(file.kinds, file.ops, born.ops)' /\ RejectsHeld'
    BY <1>1, <2>1, <2>2 DEF RowsInv, RejectsHeld, Kept, Named
  <2>4. ShapeInv'
    BY <1>2, <2>1 DEF RowsInv, ShapeInv, OpenersFollow, SkimKinds
  <2> QED  BY <1>1, <1>2, <2>1, <2>3, <2>4 DEF RowsInv, OpenersFollow
<1> QED  BY <1>3, <1>4

LEMMA LookAtStepKeeps ==
    ASSUME RowsInv, NEW o \in Openers, LookAtStep(o) PROVE RowsInv'
<1>1. Untouched /\ file'.version \in Nat
  BY DEF LookAtStep, Fail, Leave, Untouched, RowsInv, ShapeInv
<1>2. OpenersFollow
  <2> DEFINE v == opener[o].v + 1
  <2>1. Go(o, "failed") \/ Go(o, "mark") \/ (Go(o, "do") /\ Needed(file, v))
    BY DEF LookAtStep, Fail, Leave
  <2>2. v \in {5, 7, 8} => v \notin DOMAIN Added
    BY DEF Added
  <2>3. v \in {5, 7, 8} /\ Needed(file, v) => Has(file, "ops")
    BY <2>2 DEF Needed
  <2> QED  BY <2>1, <2>3, GoFollows
<1> QED  BY <1>1, <1>2, UntouchedKeeps

(* The index of the rejects is there only on rejects that are held once.       *)
LEMMA IndexRejectsKeeps ==
    ASSUME RowsInv, NEW o \in Openers, IndexRejects(o) PROVE RowsInv'
<1>1. opener[o].v = 5
  BY DEF IndexRejects
<1>2. CASE ~ DuplicateRejects(file) /\ Leave(o, [file EXCEPT !.rejectKey = TRUE], "mark")
  <2>1. OpenersFollow
    BY <1>2, GoFollows DEF Leave
  <2>2. /\ DOMAIN file' = DOMAIN file /\ file'.version = file.version
        /\ file'.ops = file.ops /\ file'.rejects = file.rejects
        /\ file'.natural = file.natural /\ file'.kinds = file.kinds
        /\ file'.tables = file.tables /\ born' = born
    BY <1>2 DEF Leave, RowsInv, IndexRejects
  <2>3. RejectsHeld'
    BY <1>2, <2>2 DEF RowsInv, RejectsHeld, DuplicateRejects
  <2>4. Kept(file.ops, born.ops)' /\ Named(file.kinds, file.ops, born.ops)'
    BY <2>2 DEF RowsInv, Kept, Named
  <2>5. ShapeInv'
    BY <2>1, <2>2 DEF RowsInv, ShapeInv, OpenersFollow, Has
  <2> QED  BY <2>1, <2>2, <2>3, <2>4, <2>5 DEF RowsInv, OpenersFollow
<1>3. CASE Leave(o, file, "do") \/ Fail(o)
  <2>1. OpenersFollow
    BY <1>1, <1>3, GoFollows DEF Leave, Fail
  <2>2. Untouched /\ file'.version \in Nat
    BY <1>3 DEF Leave, Fail, IndexRejects, Untouched, RowsInv, ShapeInv
  <2> QED  BY <2>1, <2>2, UntouchedKeeps
<1> QED  BY <1>2, <1>3 DEF IndexRejects

(* Rejects held more than once are held once, and none is let go.              *)
LEMMA CollapseRejectsKeeps ==
    ASSUME RowsInv, NEW o \in Openers, CollapseRejects(o) PROVE RowsInv'
<1>1. OpenersFollow
  BY GoFollows DEF CollapseRejects, Leave
<1>2. /\ DOMAIN file' = DOMAIN file /\ file'.version = file.version
      /\ file'.ops = file.ops /\ file'.rejects = Collapsed(file.rejects)
      /\ file'.rejectKey = file.rejectKey /\ file'.natural = file.natural
      /\ file'.kinds = file.kinds /\ file'.tables = file.tables /\ born' = born
  BY DEF CollapseRejects, Leave, RowsInv
<1>3. RejectsHeld'
  BY <1>2 DEF RowsInv, RejectsHeld, Collapsed
<1>4. Kept(file.ops, born.ops)' /\ Named(file.kinds, file.ops, born.ops)'
  BY <1>2 DEF RowsInv, Kept, Named
<1>5. ShapeInv'
  BY <1>1, <1>2 DEF RowsInv, ShapeInv, OpenersFollow, Has
<1> QED  BY <1>1, <1>2, <1>3, <1>4, <1>5 DEF RowsInv, OpenersFollow

LEMMA RebuildKeeps ==
    ASSUME RowsInv, OpenersFollow, NEW v \in {5, 8}, RebuildHolds(file, v), Has(file, "ops"),
           file' = Rebuilt(file, v), born' = born
    PROVE  RowsInv'
<1>1. /\ DOMAIN file' = DOMAIN file /\ file'.version = file.version
      /\ file'.rejects = file.rejects /\ file'.rejectKey = file.rejectKey
      /\ file'.tables = file.tables
  BY DEF Rebuilt, SkimRebuild, UtilityRebuild, RowsInv
<1>2. RejectsHeld'
  BY <1>1 DEF RowsInv, RejectsHeld
<1>3. CASE v = 5
  <2>1. /\ file'.ops = {[r EXCEPT !.sub = "none"] : r \in file.ops}
        /\ file'.kinds = SkimKinds
    BY <1>3 DEF Rebuilt, SkimRebuild, RowsInv
  <2>2. \A r \in file'.ops : r.kind \in SkimKinds
    BY <1>3, <2>1 DEF RebuildHolds, Fits
  <2>3. Kept(file.ops, born.ops)' /\ Named(file.kinds, file.ops, born.ops)'
    BY <2>1, <2>2, SkimKeeps DEF RowsInv
  <2>4. ShapeInv'
    BY <1>1, <2>1 DEF RowsInv, ShapeInv, OpenersFollow, Has, SkimKinds
  <2> QED  BY <1>1, <1>2, <2>3, <2>4 DEF RowsInv, OpenersFollow
<1>4. CASE v = 8
  <2>1. file'.ops = AsUtility(file.ops) /\ file'.kinds = UtilityKinds
    BY <1>4 DEF Rebuilt, UtilityRebuild, AsUtility, RowsInv
  <2>2. Kept(file.ops, born.ops)' /\ Named(file.kinds, file.ops, born.ops)'
    BY <2>1, UtilityKeeps DEF RowsInv
  <2>3. ShapeInv'
    BY <1>1, <2>1 DEF RowsInv, ShapeInv, OpenersFollow, Has, UtilityKinds
  <2> QED  BY <1>1, <1>2, <2>2, <2>3 DEF RowsInv, OpenersFollow
<1> QED  BY <1>3, <1>4

-------------------------------------------------------------------------------
(* A step that is done late fails, or is done to a table that is there.        *)
LEMMA DoStepKeeps ==
    ASSUME RowsInv, NEW o \in Openers, DoStep(o) PROVE RowsInv'
<1> DEFINE v == opener[o].v + 1
<1>1. opener[o].phase = "do" /\ born' = born /\ v # 6
  BY DEF DoStep
<1>2. v \in {5, 7, 8} => Has(file, "ops")
  BY <1>1 DEF RowsInv, ShapeInv
<1>3. OpenersFollow
  <2>1. Go(o, "failed") \/ Go(o, "mark")
    BY DEF DoStep, Fail, Leave
  <2> QED  BY <2>1, GoFollows
<1>4. CASE Fail(o)
  <2>1. Untouched /\ file'.version \in Nat
    BY <1>1, <1>4 DEF Fail, Untouched, RowsInv, ShapeInv
  <2> QED  BY <1>3, <2>1, UntouchedKeeps
<1>5. CASE \E t, c : file' = WithColumn(file, t, c)
  <2>1. Untouched /\ file'.version \in Nat
    BY <1>1, <1>5 DEF WithColumn, Untouched, RowsInv, ShapeInv, Has
  <2> QED  BY <1>3, <2>1, UntouchedKeeps
<1>6. CASE v = 7 /\ file' = [file EXCEPT !.natural = TRUE]
  <2>1. /\ DOMAIN file' = DOMAIN file /\ file'.version = file.version
        /\ file'.ops = file.ops /\ file'.rejects = file.rejects
        /\ file'.rejectKey = file.rejectKey /\ file'.kinds = file.kinds
        /\ file'.tables = file.tables
    BY <1>6 DEF RowsInv
  <2>2. Kept(file.ops, born.ops)' /\ Named(file.kinds, file.ops, born.ops)' /\ RejectsHeld'
    BY <1>1, <2>1 DEF RowsInv, RejectsHeld, Kept, Named
  <2>3. ShapeInv'
    BY <1>2, <1>3, <1>6, <2>1 DEF RowsInv, ShapeInv, OpenersFollow, Has
  <2> QED  BY <1>1, <1>3, <2>1, <2>2, <2>3 DEF RowsInv, OpenersFollow
<1>7. CASE v \in {5, 8} /\ RebuildHolds(file, v) /\ file' = Rebuilt(file, v)
  BY <1>1, <1>2, <1>3, <1>7, RebuildKeeps
<1>8. CASE /\ v \in DOMAIN Added
           /\ LET t == Added[v][1] c == Added[v][2]
              IN  IF c \in Columns(file, t) THEN Fail(o)
                  ELSE Leave(o, WithColumn(file, t, c), "mark")
  <2>1. Fail(o) \/ file' = WithColumn(file, Added[v][1], Added[v][2])
    BY <1>8 DEF Leave
  <2> QED  BY <2>1, <1>4, <1>5
<1> QED  BY <1>4, <1>6, <1>7, <1>8 DEF DoStep, Leave

-------------------------------------------------------------------------------
(* The statements of an open file.                                             *)
LEMMA WriteOpKeeps ==
    ASSUME RowsInv, NEW o \in Openers, WriteOp(o) PROVE RowsInv'
<1>1. PICK r \in NewOps :
        /\ r.kind \in file.kinds /\ \A s \in file.ops : s.key # r.key
        /\ file' = [file EXCEPT !.ops = @ \cup {[r EXCEPT !.sub = r.tag]}]
        /\ born' = [born EXCEPT !.ops = @ \cup {r}]
  BY DEF WriteOp
<1>2. IsRow(r)
  BY FilesAssumption DEF FilesAssumption
<1>3. /\ file'.ops = file.ops \cup {[r EXCEPT !.sub = r.tag]}
      /\ born'.ops = born.ops \cup {r} /\ born'.rejects = born.rejects
      /\ DOMAIN born' = DOMAIN born /\ DOMAIN file' = DOMAIN file
      /\ file'.version = file.version /\ file'.rejects = file.rejects
      /\ file'.rejectKey = file.rejectKey /\ file'.kinds = file.kinds
      /\ file'.tables = file.tables /\ file'.natural = file.natural
  BY <1>1 DEF RowsInv
<1>4. Kept(file.ops, born.ops)' /\ Named(file.kinds, file.ops, born.ops)'
  BY <1>1, <1>2, <1>3, NewRowKeeps DEF RowsInv, ShapeInv
<1>5. IsFiniteSet(born'.ops)
  BY <1>3, FS_AddElement DEF RowsInv
<1>6. RejectsHeld'
  BY <1>3 DEF RowsInv, RejectsHeld
<1>7. ShapeInv'
  BY <1>3 DEF WriteOp, RowsInv, ShapeInv, Has
<1> QED  BY <1>3, <1>4, <1>5, <1>6, <1>7 DEF RowsInv, WriteOp

LEMMA WriteRejectKeeps ==
    ASSUME RowsInv, NEW o \in Openers, WriteReject(o) PROVE RowsInv'
<1>1. PICK r \in DOMAIN file.rejects :
        /\ file.rejects[r] < (IF file.rejectKey THEN 1 ELSE 2)
        /\ file' = [file EXCEPT !.rejects[r] = @ + 1]
        /\ born' = [born EXCEPT !.rejects = @ \cup {r}]
  BY DEF WriteReject
<1>2. /\ file'.ops = file.ops /\ born'.ops = born.ops
      /\ born'.rejects = born.rejects \cup {r}
      /\ DOMAIN born' = DOMAIN born /\ DOMAIN file' = DOMAIN file
      /\ file'.version = file.version
      /\ file'.rejects = [file.rejects EXCEPT ![r] = @ + 1]
      /\ file'.rejectKey = file.rejectKey /\ file'.kinds = file.kinds
      /\ file'.tables = file.tables /\ file'.natural = file.natural
  BY <1>1 DEF RowsInv
<1>3. RejectsHeld'
  BY <1>1, <1>2 DEF RowsInv, RejectsHeld
<1>4. Kept(file.ops, born.ops)' /\ Named(file.kinds, file.ops, born.ops)'
  BY <1>2 DEF RowsInv, Kept, Named
<1>5. ShapeInv'
  BY <1>2 DEF WriteReject, RowsInv, ShapeInv, Has
<1> QED  BY <1>2, <1>3, <1>4, <1>5 DEF RowsInv, WriteReject

LEMMA EnsurePaperTablesKeeps ==
    ASSUME RowsInv, NEW o \in Openers, EnsurePaperTables(o) PROVE RowsInv'
<1>1. Untouched /\ file'.version \in Nat
  BY DEF EnsurePaperTables, Untouched, RowsInv, ShapeInv, Has
<1>2. OpenersFollow
  BY DEF EnsurePaperTables, OpenersFollow, RowsInv, ShapeInv
<1> QED  BY <1>1, <1>2, UntouchedKeeps

-------------------------------------------------------------------------------
LEMMA RowsInvNext == RowsInv /\ [SchemaNext]_schemaVars => RowsInv'
<1> SUFFICES ASSUME RowsInv, [SchemaNext]_schemaVars PROVE RowsInv'
  OBVIOUS
<1>1. CASE SchemaNext
  BY <1>1, OpenFileKeeps, CreateTableKeeps, LookAtStepKeeps, IndexRejectsKeeps,
     CollapseRejectsKeeps, DoStepKeeps, WriteOpKeeps, WriteRejectKeeps,
     EnsurePaperTablesKeeps DEF SchemaNext
<1>2. CASE UNCHANGED schemaVars
  BY <1>2 DEF schemaVars, RowsInv, ShapeInv, Kept, Named, RejectsHeld, Has
<1> QED  BY <1>1, <1>2

(* RowsSurvive: no migration, rebuild or collapse loses an event, of whatever  *)
(* version the file is that is opened, however many openers migrate it at once *)
(* and wherever they die (migrate, migrate_v8_utility_subkind,                 *)
(* ensure_rejected_candidates_unique, insert_block_facts).                     *)
THEOREM EventsAreKept == SchemaSpec => []RowsSurvive
<1>1. SchemaSpec => []RowsInv
  BY RowsInvInit, RowsInvNext, PTL DEF SchemaSpec
<1> QED  BY <1>1, RowsInvSuffices, PTL

-------------------------------------------------------------------------------
(* What a file of version n or later has behind it, whoever is still at it.    *)
HasKinds(f) == \A r \in f.ops : Renamed(r.kind) \in UtilityKinds
Behind(f, n) ==
    /\ n >= 1 => Has(f, "ops") /\ Has(f, "classified")
    /\ n >= 2 => "fee" \in f.cols
    /\ n >= 3 => "volume" \in f.cols
    /\ n >= 4 => "excluded" \in f.cols
    /\ n >= 5 => "skim" \in f.kinds
    /\ n >= 6 => f.rejectKey /\ Has(f, "rejects")
    /\ n >= 7 => ~ DuplicateOps(f)
    /\ n >= 8 => HasKinds(f)

(* What a rebuild to an older shape, or a late mark of a version, takes back.  *)
Steps == {7, 8, 10, 11, 12, 13, 14}
Due(u) == IF u = 14 THEN 13 ELSE u
Done(f, u) ==
    /\ u = 7 => f.natural
    /\ u = 8 => "utility" \in f.kinds /\ "subkind" \in f.cols
    /\ u = 10 => "flags" \in f.cols
    /\ u = 11 /\ Has(f, "paper") => "fill" \in f.paper
    /\ u = 12 /\ Has(f, "paper") => "exec" \in f.paper
    /\ u = 13 /\ Has(f, "paper") => "cost" \in f.paper
    /\ u = 14 => f.version = SchemaHead

(* The version an opener has reached or is about to mark. One that has looked  *)
(* may find its column there and fail; one that will not covers, that is does  *)
(* again, the steps above its own.                                             *)
At(c) == IF c.phase = "mark" THEN c.v + 1 ELSE c.v
Live(c) == c.phase # "off" /\ c.phase # "failed"
Busy(c) == Live(c) /\ c.phase # "open"
Taken(f, v) ==
    \/ v = 5
    \/ v = 2 /\ "fee" \in f.cols
    \/ v = 3 /\ "volume" \in f.cols
    \/ v = 4 /\ "excluded" \in f.cols
    \/ v = 10 /\ "flags" \in f.cols
    \/ v = 11 /\ "fill" \in f.paper
    \/ v = 12 /\ "exec" \in f.paper
    \/ v = 13 /\ "cost" \in f.paper
Doomed(c, f) == c.phase = "do" /\ Taken(f, c.v + 1)
Covers(c, f, u) == Busy(c) /\ At(c) < u /\ ~ Doomed(c, f)

Reaches(f, os, n) == f.version >= n \/ \E o \in Openers : Live(os[o]) /\ At(os[o]) >= n
AllBehind(f, os) == \A n \in 0..13 : Reaches(f, os, n) => Behind(f, n)
Covered(f, os, u) == \E o \in Openers : Covers(os[o], f, u)
AllDone(f, os) == \A u \in Steps : Reaches(f, os, Due(u)) => Done(f, u) \/ Covered(f, os, u)

FileOK(f) ==
    /\ f.version \in 0..13
    /\ Has(f, "classified") => Has(f, "ops")
    /\ f.cols \subseteq OpColumns /\ f.paper \subseteq PaperColumns
    /\ "subkind" \in f.cols => "utility" \in f.kinds
    /\ "utility" \in f.kinds => Fits(f)

Phases == {"off", "legacy", "stamp", "create", "look", "do", "again", "mark", "open", "failed"}
OpenerOK(f, c) ==
    /\ c.phase \in Phases /\ c.v \in 0..13 /\ c.k \in 1..5
    /\ c.phase \in {"legacy", "stamp", "create"} => c.v = 0
    /\ c.phase = "stamp" => Has(f, "classified")
    /\ c.phase = "legacy" => c.k = 1
    /\ c.phase = "create" => /\ c.k # 5
                             /\ c.k > 1 => Has(f, "ops")
                             /\ c.k > 2 => Has(f, "classified")
    /\ c.phase \in {"look", "do"} => c.v \in 1..12
    /\ c.phase = "mark" => c.v \in 0..12
    /\ c.phase = "again" => c.v = 5
    /\ c.phase = "open" => c.v = 13
    /\ c.phase = "do" => c.v # 8 /\ (c.v \in 10..12 => Has(f, "paper"))

HeadInv ==
    /\ FileOK(file)
    /\ opener = [o \in Openers |-> opener[o]]
    /\ \A o \in Openers : OpenerOK(file, opener[o])
    /\ AllBehind(file, opener)
    /\ torn \in BOOLEAN
    /\ ~ torn => AllDone(file, opener)

LEMMA BehindBelow ==
    ASSUME NEW f, NEW n \in 0..13, NEW m \in 0..13, m <= n, Behind(f, n)
    PROVE  Behind(f, m)
  BY DEF Behind

(* An opener goes on, as c, and the file with it, as g: what is behind those   *)
(* that have reached a version stays behind them.                              *)
LEMMA BehindKept ==
    ASSUME NEW f, NEW g, NEW os, DOMAIN os = Openers, NEW o \in Openers, NEW c,
           AllBehind(f, os), f.version \in 0..13, g.version \in 0..13,
           \A p \in Openers : OpenerOK(f, os[p]),
           At(c) \in 0..13,
           g.version = f.version \/ (Live(c) /\ g.version <= At(c)),
           \A n \in 0..13 : Behind(f, n) => Behind(g, n),
           Live(c) => Behind(g, At(c))
    PROVE  AllBehind(g, [os EXCEPT ![o] = c])
<1> DEFINE oz == [os EXCEPT ![o] = c]
<1>1. oz[o] = c /\ \A p \in Openers : p # o => oz[p] = os[p]
  OBVIOUS
<1> HIDE DEF oz
<1> SUFFICES ASSUME NEW n \in 0..13, Reaches(g, oz, n) PROVE Behind(g, n)
  BY DEF AllBehind, oz
<1>2. CASE Live(c) /\ At(c) >= n
  BY <1>2, BehindBelow
<1>3. CASE Reaches(f, os, n)
  BY <1>3 DEF AllBehind
<1>4. Reaches(f, os, n) \/ (Live(c) /\ At(c) >= n)
  <2>1. CASE g.version >= n
    BY <2>1 DEF Reaches
  <2>2. ASSUME NEW p \in Openers, Live(oz[p]) /\ At(oz[p]) >= n
        PROVE  Reaches(f, os, n) \/ (Live(c) /\ At(c) >= n)
    BY <1>1, <2>2 DEF Reaches
  <2> QED  BY <2>1, <2>2 DEF Reaches
<1> QED  BY <1>2, <1>3, <1>4

(* What the step of that opener does to the step u of the list: it is there,   *)
(* or covered by it, or nothing that stood for it is taken away.               *)
Settles(f, g, os, o, c, u) ==
    \/ Covers(c, g, u) \/ Done(g, u)
    \/ /\ Live(c) /\ At(c) >= Due(u) => Reaches(f, os, Due(u))
       /\ Reaches(f, os, Due(u)) =>
             /\ ~ Done(f, u) /\ ~ Covers(os[o], f, u)
             /\ \A p \in Openers \ {o} : Covers(os[p], f, u) => Covers(os[p], g, u)

LEMMA DoneKept ==
    ASSUME NEW f, NEW g, NEW os, DOMAIN os = Openers, NEW o \in Openers, NEW c,
           AllDone(f, os), f.version \in 0..13, g.version \in 0..13,
           At(c) \in 0..13,
           g.version = f.version \/ (Live(c) /\ g.version <= At(c)),
           \A u \in Steps : Settles(f, g, os, o, c, u)
    PROVE  AllDone(g, [os EXCEPT ![o] = c])
<1> DEFINE oz == [os EXCEPT ![o] = c]
<1>1. oz[o] = c /\ \A p \in Openers : p # o => oz[p] = os[p]
  OBVIOUS
<1> HIDE DEF oz
<1> SUFFICES ASSUME NEW u \in Steps, Reaches(g, oz, Due(u)), ~ Done(g, u), ~ Covers(c, g, u)
             PROVE  Covered(g, oz, u)
  BY <1>1 DEF AllDone, Covered, oz
<1>2. Due(u) \in 0..13
  BY DEF Steps, Due
<1>3. Reaches(f, os, Due(u)) \/ (Live(c) /\ At(c) >= Due(u))
  <2> DEFINE n == Due(u)
  <2> HIDE DEF n
  <2> SUFFICES Reaches(f, os, n) \/ (Live(c) /\ At(c) >= n)
    BY DEF n
  <2>0. Reaches(g, oz, n) /\ n \in 0..13
    BY <1>2 DEF n
  <2>1. CASE g.version >= n
    BY <2>0, <2>1 DEF Reaches
  <2>2. ASSUME NEW p \in Openers, Live(oz[p]) /\ At(oz[p]) >= n
        PROVE  Reaches(f, os, n) \/ (Live(c) /\ At(c) >= n)
    BY <1>1, <2>2 DEF Reaches
  <2> QED  BY <2>0, <2>1, <2>2 DEF Reaches
<1>4. /\ Reaches(f, os, Due(u)) /\ ~ Done(f, u) /\ ~ Covers(os[o], f, u)
      /\ \A p \in Openers \ {o} : Covers(os[p], f, u) => Covers(os[p], g, u)
  BY <1>3 DEF Settles
<1>5. PICK p \in Openers : Covers(os[p], f, u)
  BY <1>4 DEF AllDone, Covered
<1>6. p # o /\ Covers(oz[p], g, u)
  BY <1>1, <1>4, <1>5
<1> QED  BY <1>6 DEF Covered

LEMMA HeadStep ==
    ASSUME RowsInv, HeadInv, NEW o \in Openers, NEW c, opener' = [opener EXCEPT ![o] = c],
           torn' = torn, FileOK(file'), file.tables \subseteq file'.tables,
           OpenerOK(file', c),
           file'.version = file.version \/ (Live(c) /\ file'.version <= At(c)),
           \A n \in 0..13 : Behind(file, n) => Behind(file', n),
           Live(c) => Behind(file', At(c)),
           ~ torn => \A u \in Steps : Settles(file, file', opener, o, c, u)
    PROVE  HeadInv'
<1>1. DOMAIN opener = Openers
  BY DEF RowsInv
<1>2. file.version \in 0..13 /\ file'.version \in 0..13
  BY DEF HeadInv, FileOK
<1>3. At(c) \in 0..13
  BY DEF OpenerOK, At
<1>4. AllBehind(file', opener')
  BY <1>1, <1>2, <1>3, BehindKept DEF HeadInv
<1>5. ~ torn' => AllDone(file', opener')
  BY <1>1, <1>2, <1>3, DoneKept DEF HeadInv
<1>6. ASSUME NEW p \in Openers PROVE OpenerOK(file', opener'[p])
  <2>1. CASE p = o
    BY <1>1, <2>1
  <2>2. CASE p # o
    <3>1. opener'[p] = opener[p] /\ OpenerOK(file, opener[p])
      BY <1>1, <2>2 DEF HeadInv
    <3> QED  BY <3>1 DEF OpenerOK, Has
  <2> QED  BY <2>1, <2>2
<1>7. opener' = [p \in Openers |-> opener'[p]]
  BY <1>1
<1> QED  BY <1>4, <1>5, <1>6, <1>7 DEF HeadInv

(* A step that leaves the shape of the file as it was.                         *)
SameShape(f, g) ==
    /\ g.tables = f.tables /\ g.kinds = f.kinds /\ g.cols = f.cols /\ g.paper = f.paper
    /\ g.natural = f.natural /\ g.rejectKey = f.rejectKey /\ g.ops = f.ops

LEMMA SameShapeKeeps ==
    ASSUME NEW f, NEW g, SameShape(f, g)
    PROVE  /\ \A n \in 0..13 : Behind(g, n) <=> Behind(f, n)
           /\ \A u \in Steps : u # 14 \/ g.version = f.version => (Done(g, u) <=> Done(f, u))
           /\ \A c, u : Covers(c, g, u) <=> Covers(c, f, u)
           /\ FileOK(f) /\ g.version \in 0..13 => FileOK(g)
<1> USE DEF SameShape, Has
<1>1. \A n \in 0..13 : Behind(g, n) <=> Behind(f, n)
  BY DEF Behind, DuplicateOps, HasKinds
<1>2. \A u \in Steps : u # 14 \/ g.version = f.version => (Done(g, u) <=> Done(f, u))
  BY DEF Steps, Done
<1>3. \A c, u : Covers(c, g, u) <=> Covers(c, f, u)
  BY DEF Covers, Doomed, Taken
<1>4. FileOK(f) /\ g.version \in 0..13 => FileOK(g)
  BY DEF FileOK, Fits
<1> QED  BY <1>1, <1>2, <1>3, <1>4

(* Such a step of an opener that has reached no more than before, or covers    *)
(* what it had not reached.                                                    *)
LEMMA SameShapeStep ==
    ASSUME RowsInv, HeadInv, NEW o \in Openers, NEW c, opener' = [opener EXCEPT ![o] = c],
           torn' = torn, SameShape(file, file'), file'.version \in 0..13,
           OpenerOK(file, c),
           file'.version = file.version \/ (Live(c) /\ file'.version <= At(c)),
           Live(c) => Behind(file, At(c)),
           \A u \in Steps :
              \/ Covers(c, file, u) \/ Done(file', u)
              \/ /\ Live(c) /\ At(c) >= Due(u) => Reaches(file, opener, Due(u))
                 /\ u # 14 \/ file'.version = file.version
                 /\ Reaches(file, opener, Due(u)) => ~ Covers(opener[o], file, u)
    PROVE  HeadInv'
<1>1. /\ \A n \in 0..13 : Behind(file', n) <=> Behind(file, n)
      /\ \A u \in Steps : u # 14 \/ file'.version = file.version => (Done(file', u) <=> Done(file, u))
      /\ \A d, u : Covers(d, file', u) <=> Covers(d, file, u)
      /\ FileOK(file')
  BY SameShapeKeeps DEF HeadInv
<1>2. OpenerOK(file', c) /\ file.tables \subseteq file'.tables
  BY DEF SameShape, OpenerOK, Has
<1>3. At(c) \in 0..13
  BY DEF OpenerOK, At
<1>4. ASSUME NEW u \in Steps PROVE Settles(file, file', opener, o, c, u)
  BY <1>1 DEF Settles
<1> QED  BY <1>1, <1>2, <1>3, <1>4, HeadStep
-------------------------------------------------------------------------------
LEMMA OpenFileHead ==
    ASSUME RowsInv, HeadInv, NEW o \in Openers, OpenFile(o) PROVE HeadInv'
<1> DEFINE n == file.version
           c == [phase |-> IF n = 0 THEN "legacy" ELSE Reached(n), v |-> n, k |-> 1]
<1>1. opener' = [opener EXCEPT ![o] = c] /\ UNCHANGED <<file, torn>> /\ opener[o].phase = "off"
  BY DEF OpenFile
<1>2. n \in 0..13
  BY DEF HeadInv, FileOK
<1>3. OpenerOK(file, c) /\ Live(c) /\ At(c) = n
  <2>1. CASE n = 0
    BY <2>1 DEF OpenerOK, Live, At, Phases
  <2>2. CASE n = 13
    BY <2>2 DEF OpenerOK, Live, At, Phases, Reached, SchemaHead
  <2>3. CASE n \in 1..12
    BY <2>3 DEF OpenerOK, Live, At, Phases, Reached, SchemaHead
  <2> QED  BY <1>2, <2>1, <2>2, <2>3
<1> HIDE DEF c
<1>4. Reaches(file, opener, n)
  BY <1>2 DEF Reaches
<1>5. Behind(file, n)
  BY <1>2, <1>4 DEF HeadInv, AllBehind
<1>6. \A u : ~ Covers(opener[o], file, u)
  BY <1>1 DEF Covers, Busy, Live
<1>7. \A u \in Steps : At(c) >= Due(u) => Reaches(file, opener, Due(u))
  BY <1>2, <1>3 DEF Reaches, Steps, Due
<1>8. SameShape(file, file')
  BY <1>1 DEF SameShape
<1> QED  BY <1>1, <1>2, <1>3, <1>5, <1>6, <1>7, <1>8, SameShapeStep

(* An opener of a file without a version covers every step.                    *)
LEMMA EarlyCovers ==
    ASSUME NEW c, NEW f, c.phase \in {"legacy", "stamp", "create", "look", "again", "mark"}, c.v \in 0..5
    PROVE  \A u \in Steps : Covers(c, f, u)
  BY DEF Covers, Steps, Busy, Live, At, Doomed

LEMMA GoIs ==
    ASSUME RowsInv, HeadInv, NEW o \in Openers, NEW phase, Go(o, phase)
    PROVE  \E c : /\ opener' = [opener EXCEPT ![o] = c]
                  /\ c.phase = phase /\ c.v = opener[o].v /\ c.k = opener[o].k
<1> DEFINE c == [opener[o] EXCEPT !.phase = phase]
<1>1. opener' = [opener EXCEPT ![o] = c]
  BY DEF Go, RowsInv
<1>2. c.phase = phase /\ c.v = opener[o].v /\ c.k = opener[o].k
  BY DEF RowsInv
<1> HIDE DEF c
<1> QED  BY <1>1, <1>2

LEMMA LookForTablesHead ==
    ASSUME RowsInv, HeadInv, NEW o \in Openers, LookForTables(o) PROVE HeadInv'
<1>1. PICK phase \in {"stamp", "create"} :
         /\ Go(o, phase)
         /\ phase = "stamp" => Has(file, "classified")
  BY DEF LookForTables
<1>2. PICK c : /\ opener' = [opener EXCEPT ![o] = c]
               /\ c.phase = phase /\ c.v = opener[o].v /\ c.k = opener[o].k
  BY <1>1, GoIs
<1>3. opener[o].phase = "legacy" /\ UNCHANGED <<file, torn>> /\ OpenerOK(file, opener[o])
  BY DEF LookForTables, HeadInv
<1>4. OpenerOK(file, c) /\ c.v = 0
  BY <1>1, <1>2, <1>3 DEF OpenerOK, Phases
<1>5. \A u \in Steps : Covers(c, file, u)
  BY <1>1, <1>2, <1>4, EarlyCovers
<1>6. Behind(file, At(c))
  BY <1>1, <1>2, <1>4 DEF At, Behind
<1>7. SameShape(file, file') /\ file'.version \in 0..13
  BY <1>3 DEF SameShape, HeadInv, FileOK
<1> QED  BY <1>2, <1>3, <1>4, <1>5, <1>6, <1>7, SameShapeStep

LEMMA StampLegacyHead ==
    ASSUME RowsInv, HeadInv, NEW o \in Openers, StampLegacy(o) PROVE HeadInv'
<1> DEFINE c == [opener[o] EXCEPT !.phase = "look", !.v = 1]
<1>1. opener' = [opener EXCEPT ![o] = c]
  BY DEF StampLegacy, RowsInv
<1>2. c.phase = "look" /\ c.v = 1 /\ c.k = opener[o].k
  BY DEF RowsInv
<1> HIDE DEF c
<1>3. opener[o].phase = "stamp" /\ UNCHANGED torn /\ OpenerOK(file, opener[o]) /\ FileOK(file)
  BY DEF StampLegacy, HeadInv
<1>4. SameShape(file, file') /\ file'.version = 1
  BY DEF SameShape, StampLegacy, RowsInv
<1>5. OpenerOK(file, c) /\ Live(c) /\ At(c) = 1
  BY <1>2, <1>3 DEF OpenerOK, Phases, Live, At
<1>6. \A u \in Steps : Covers(c, file, u)
  BY <1>2, EarlyCovers
<1>7. Behind(file, At(c))
  <2>1. Has(file, "ops") /\ Has(file, "classified")
    BY <1>3 DEF OpenerOK, FileOK
  <2> QED  BY <1>5, <2>1 DEF Behind
<1>8. file'.version \in 0..13 /\ file'.version <= At(c)
  BY <1>4, <1>5
<1> QED  BY <1>1, <1>3, <1>4, <1>5, <1>6, <1>7, <1>8, SameShapeStep

(* The opener of a file without a version goes on while it creates the tables. *)
LEMMA CreatedKeeps ==
    ASSUME NEW f, NEW t \in {"ops", "classified", "rejects", "paper"}, FileOK(f),
           DOMAIN f = {"version", "tables", "kinds", "cols", "paper", "natural", "rejectKey",
                       "ops", "rejects"},
           t = "classified" => Has(f, "ops")
    PROVE  /\ Created(f, t).version = f.version
           /\ Created(f, t).tables = f.tables \cup {t}
           /\ FileOK(Created(f, t))
           /\ \A n \in 0..13 : Behind(f, n) => Behind(Created(f, t), n)
<1> DEFINE g == Created(f, t)
<1> SUFFICES ASSUME ~ Has(f, t)
             PROVE  /\ g.version = f.version /\ g.tables = f.tables \cup {t}
                    /\ FileOK(g)
                    /\ \A n \in 0..13 : Behind(f, n) => Behind(g, n)
  BY DEF Created, Has
<1>1. /\ g.version = f.version /\ g.tables = f.tables \cup {t}
      /\ g.rejectKey = f.rejectKey /\ g.ops = f.ops
  BY DEF Created
<1>2. t = "ops" => g.kinds = SkimKinds /\ g.cols = V1Columns /\ g.paper = f.paper
  BY DEF Created
<1>3. t = "paper" => g.kinds = f.kinds /\ g.cols = f.cols /\ g.paper = {"fill"}
  BY DEF Created
<1>4. t \in {"classified", "rejects"} => g.kinds = f.kinds /\ g.cols = f.cols /\ g.paper = f.paper
  BY DEF Created
<1> HIDE DEF g
<1>5. FileOK(g)
  <2> USE DEF FileOK, Has, Fits
  <2>1. CASE t = "ops"
    BY <1>1, <1>2, <2>1 DEF SkimKinds, V1Columns, OpColumns
  <2>2. CASE t = "paper"
    BY <1>1, <1>3, <2>2 DEF PaperColumns
  <2>3. CASE t \in {"classified", "rejects"}
    BY <1>1, <1>4, <2>3
  <2> QED  BY <2>1, <2>2, <2>3
<1>6. ASSUME NEW n \in 0..13, Behind(f, n) PROVE Behind(g, n)
  <2>1. CASE t = "ops"
    BY <1>1, <1>6, <2>1 DEF Behind, Has
  <2>2. CASE t # "ops"
    BY <1>1, <1>3, <1>4, <1>6, <2>2 DEF Behind, Has, DuplicateOps, HasKinds
  <2> QED  BY <2>1, <2>2
<1> QED  BY <1>1, <1>5, <1>6

LEMMA CreateTableHead ==
    ASSUME RowsInv, HeadInv, NEW o \in Openers, CreateTable(o) PROVE HeadInv'
<1> DEFINE k == opener[o].k
           t == V1Tables[k]
           phase == IF k = 4 THEN "mark" ELSE "create"
           c == [opener[o] EXCEPT !.k = k + 1, !.phase = phase]
<1>1. opener' = [opener EXCEPT ![o] = c]
  BY DEF CreateTable, RowsInv, V1Tables
<1>2. c.phase = phase /\ c.v = opener[o].v /\ c.k = k + 1
  BY DEF RowsInv
<1> HIDE DEF c
<1>3. /\ opener[o].phase = "create" /\ UNCHANGED torn /\ OpenerOK(file, opener[o]) /\ FileOK(file)
      /\ file' = Created(file, t)
  BY DEF CreateTable, HeadInv
<1>4. /\ k \in 1..4 /\ opener[o].v = 0
      /\ k > 1 => Has(file, "ops")
      /\ k > 2 => Has(file, "classified")
  BY <1>3 DEF OpenerOK
<1>5. /\ t \in {"ops", "classified", "rejects", "paper"}
      /\ k = 1 => t = "ops"
      /\ k = 2 => t = "classified"
      /\ t = "classified" => k = 2
  BY <1>4 DEF V1Tables
<1> HIDE DEF t
<1>6. /\ file'.version = file.version /\ file'.tables = file.tables \cup {t}
      /\ FileOK(file') /\ \A n \in 0..13 : Behind(file, n) => Behind(file', n)
  <2>1. t = "classified" => Has(file, "ops")
    BY <1>4, <1>5
  <2> QED  BY <1>3, <1>5, <2>1, CreatedKeeps DEF RowsInv
<1>7. OpenerOK(file', c)
  BY <1>2, <1>4, <1>5, <1>6 DEF OpenerOK, Phases, Has
<1>8. Behind(file', At(c))
  BY <1>2, <1>4, <1>5, <1>6 DEF At, Behind, Has
<1>9. \A u \in Steps : Settles(file, file', opener, o, c, u)
  BY <1>2, <1>4, EarlyCovers DEF Settles
<1> QED  BY <1>1, <1>3, <1>6, <1>7, <1>8, <1>9, HeadStep

-------------------------------------------------------------------------------
LEMMA AddedIs ==
    /\ DOMAIN Added = {2, 3, 4, 10, 11, 12, 13}
    /\ Added[2] = <<"ops", "fee">> /\ Added[3] = <<"ops", "volume">>
    /\ Added[4] = <<"ops", "excluded">> /\ Added[10] = <<"ops", "flags">>
    /\ Added[11] = <<"paper", "fill">> /\ Added[12] = <<"paper", "exec">>
    /\ Added[13] = <<"paper", "cost">>
  BY DEF Added

LEMMA NeededIs ==
    ASSUME NEW f, NEW v \in 2..13
    PROVE  /\ v \in {2, 3, 4, 10} => (Needed(f, v) <=> Has(f, "ops") /\ ~ Taken(f, v))
           /\ v \in {11, 12, 13} => (Needed(f, v) <=> Has(f, "paper") /\ ~ Taken(f, v))
           /\ v = 5 => (Needed(f, v) <=> Has(f, "ops") /\ "skim" \notin f.kinds)
           /\ v = 7 => (Needed(f, v) <=> Has(f, "ops"))
           /\ v = 8 => (Needed(f, v) <=> Has(f, "ops") /\ ("utility" \notin f.kinds \/ "subkind" \notin f.cols))
           /\ v = 9 => ~ Needed(f, v)
<1>1. CASE v \in DOMAIN Added
  BY <1>1, AddedIs DEF Needed, Columns, Taken
<1>2. CASE v \notin DOMAIN Added
  BY <1>2, AddedIs DEF Needed
<1> QED  BY <1>1, <1>2

(* One that is refused, by what no one who is behind version n would find.     *)
LEMMA RefusedHead ==
    ASSUME RowsInv, HeadInv, NEW o \in Openers, NEW n \in 6..8, Go(o, "failed"),
           UNCHANGED <<file, torn>>, ~ Behind(file, n),
           At(opener[o]) = n - 1
    PROVE  HeadInv'
<1>1. PICK c : /\ opener' = [opener EXCEPT ![o] = c]
               /\ c.phase = "failed" /\ c.v = opener[o].v /\ c.k = opener[o].k
  BY GoIs
<1>2. OpenerOK(file, c) /\ ~ Live(c)
  BY <1>1 DEF HeadInv, OpenerOK, Phases, Live
<1>3. ~ Reaches(file, opener, n)
  BY DEF HeadInv, AllBehind
<1>4. ASSUME NEW u \in Steps, Reaches(file, opener, Due(u)) PROVE ~ Covers(opener[o], file, u)
  <2>1. u < n
    <3> SUFFICES ASSUME u >= n PROVE FALSE
      BY DEF Steps
    <3>1. Due(u) >= n /\ Due(u) \in 0..13
      BY DEF Due, Steps
    <3>2. \A p \in Openers : At(opener[p]) \in 0..13
      BY DEF HeadInv, OpenerOK, At
    <3>3. file.version \in 0..13
      BY DEF HeadInv, FileOK
    <3> QED  BY <1>3, <1>4, <3>1, <3>2, <3>3 DEF Reaches
  <2> QED  BY <2>1 DEF Covers, Steps
<1>5. SameShape(file, file') /\ file'.version \in 0..13
  BY DEF SameShape, HeadInv, FileOK
<1> QED  BY <1>1, <1>2, <1>4, <1>5, SameShapeStep

(* One that finds its step done marks it.                                      *)
LEMMA FoundHead ==
    ASSUME RowsInv, HeadInv, NEW o \in Openers, Go(o, "mark"), UNCHANGED <<file, torn>>,
           opener[o].phase = "look", opener[o].v + 1 # 6, ~ Needed(file, opener[o].v + 1)
    PROVE  HeadInv'
<1> DEFINE v == opener[o].v + 1
<1>1. PICK c : /\ opener' = [opener EXCEPT ![o] = c]
               /\ c.phase = "mark" /\ c.v = opener[o].v /\ c.k = opener[o].k
  BY GoIs
<1>2. OpenerOK(file, opener[o]) /\ FileOK(file)
  BY DEF HeadInv
<1>3. v \in 2..13 /\ opener[o].v \in 1..12
  BY <1>2 DEF OpenerOK
<1>4. OpenerOK(file, c) /\ Live(c) /\ At(c) = v /\ Busy(c) /\ ~ Doomed(c, file)
  BY <1>1, <1>2, <1>3 DEF OpenerOK, Phases, Live, At, Busy, Doomed
<1>5. Live(opener[o]) /\ At(opener[o]) = opener[o].v
  BY DEF Live, At
<1> HIDE DEF v
<1>6. Behind(file, opener[o].v)
  BY <1>3, <1>5 DEF Reaches, HeadInv, AllBehind
<1>7. Has(file, "ops")
  BY <1>3, <1>6 DEF Behind
<1>8. /\ v \in {2, 3, 4, 10} => Taken(file, v)
      /\ v \in {11, 12, 13} => ~ Has(file, "paper") \/ Taken(file, v)
      /\ v = 5 => "skim" \in file.kinds
      /\ v # 7
      /\ v = 8 => "utility" \in file.kinds /\ "subkind" \in file.cols
  BY <1>3, <1>7, NeededIs DEF v
<1>9. Behind(file, v)
  <2>1. v = 8 => HasKinds(file)
    BY <1>2, <1>8 DEF RowsInv, ShapeInv, FileOK, Fits, HasKinds, Renamed, UtilityKinds
  <2>2. v = opener[o].v + 1 /\ v # 6
    BY DEF v
  <2> QED  BY <1>3, <1>6, <1>8, <2>1, <2>2 DEF Behind, Taken
<1>10. ASSUME NEW u \in Steps
       PROVE  \/ Covers(c, file, u) \/ Done(file, u)
              \/ /\ At(c) >= Due(u) => Reaches(file, opener, Due(u))
                 /\ ~ Covers(opener[o], file, u)
  <2>1. CASE u > v
    BY <1>4, <2>1 DEF Covers, Steps
  <2>2. CASE u = v
    BY <1>8, <2>2, <1>3 DEF Done, Taken, Steps
  <2>3. CASE u < v
    <3>1. opener[o].v >= u /\ Due(u) = u
      BY <1>3, <2>3 DEF v, Steps, Due
    <3> QED  BY <1>3, <1>5, <3>1 DEF Reaches, Covers, Steps
  <2> QED  BY <1>3, <2>1, <2>2, <2>3 DEF Steps
<1>11. SameShape(file, file') /\ file'.version = file.version /\ file'.version \in 0..13
  BY DEF SameShape, HeadInv, FileOK
<1> QED  BY <1>1, <1>4, <1>9, <1>10, <1>11, SameShapeStep

(* One that finds it missing goes and does it; of the first rebuild, nobody    *)
(* that is ahead would find it missing.                                        *)
LEMMA MissingHead ==
    ASSUME RowsInv, HeadInv, NEW o \in Openers, Go(o, "do"), UNCHANGED <<file, torn>>,
           opener[o].phase = "look", opener[o].v + 1 # 6, Needed(file, opener[o].v + 1)
    PROVE  HeadInv'
<1> DEFINE v == opener[o].v + 1
<1>1. PICK c : /\ opener' = [opener EXCEPT ![o] = c]
               /\ c.phase = "do" /\ c.v = opener[o].v /\ c.k = opener[o].k
  BY GoIs
<1>2. OpenerOK(file, opener[o]) /\ FileOK(file)
  BY DEF HeadInv
<1>3. v \in 2..13 /\ opener[o].v \in 1..12 /\ opener[o].v = v - 1
  BY <1>2 DEF OpenerOK
<1>5. Live(opener[o]) /\ At(opener[o]) = opener[o].v
  BY DEF Live, At
<1> HIDE DEF v
<1>6. /\ v \in {2, 3, 4, 10} => ~ Taken(file, v)
      /\ v \in {11, 12, 13} => Has(file, "paper") /\ ~ Taken(file, v)
      /\ v = 5 => "skim" \notin file.kinds
      /\ v # 9
  BY <1>3, NeededIs DEF v
<1>4. OpenerOK(file, c) /\ Live(c) /\ At(c) = v - 1 /\ Busy(c)
  BY <1>1, <1>2, <1>3, <1>6 DEF OpenerOK, Phases, Live, At, Busy
<1>7. Behind(file, v - 1)
  BY <1>3, <1>5 DEF Reaches, HeadInv, AllBehind
<1>8. ASSUME NEW u \in Steps
      PROVE  \/ Covers(c, file, u)
             \/ /\ At(c) >= Due(u) => Reaches(file, opener, Due(u))
                /\ Reaches(file, opener, Due(u)) => ~ Covers(opener[o], file, u)
  <2>1. CASE u < v
    <3>1. opener[o].v >= u /\ Due(u) = u
      BY <1>3, <2>1 DEF v, Steps, Due
    <3> QED  BY <1>3, <1>5, <3>1 DEF Reaches, Covers, Steps
  <2>2. CASE u >= v /\ v # 5
    <3>1. ~ Taken(file, v)
      BY <1>3, <1>6, <2>2 DEF Taken, v
    <3> QED  BY <1>1, <1>3, <1>4, <2>2, <3>1 DEF Covers, Doomed, Steps
  <2>3. CASE v = 5
    <3>1. ~ Behind(file, Due(u)) /\ Due(u) \in 0..13 /\ Due(u) > 5
      BY <1>6, <2>3 DEF Behind, Due, Steps
    <3> QED  BY <1>3, <1>4, <2>3, <3>1 DEF HeadInv, AllBehind
  <2> QED  BY <1>3, <2>1, <2>2, <2>3 DEF Steps
<1>9. SameShape(file, file') /\ file'.version = file.version /\ file'.version \in 0..13
  BY DEF SameShape, HeadInv, FileOK
<1> QED  BY <1>1, <1>4, <1>7, <1>8, <1>9, SameShapeStep

LEMMA LookAtStepHead ==
    ASSUME RowsInv, HeadInv, NEW o \in Openers, LookAtStep(o) PROVE HeadInv'
<1> DEFINE v == opener[o].v + 1
<1>1. opener[o].phase = "look" /\ v # 6
  BY DEF LookAtStep
<1>2. CASE v = 7 /\ DuplicateOps(file) /\ Fail(o)
  <2>1. At(opener[o]) = 6
    BY <1>1, <1>2 DEF At, HeadInv, OpenerOK
  <2>2. ~ Behind(file, 7)
    BY <1>2 DEF Behind
  <2> QED  BY <1>2, <2>1, <2>2, RefusedHead DEF Fail
<1>3. CASE Leave(o, file, IF Needed(file, v) THEN "do" ELSE "mark")
  <2>1. CASE Needed(file, v)
    BY <1>1, <1>3, <2>1, MissingHead DEF Leave
  <2>2. CASE ~ Needed(file, v)
    BY <1>1, <1>3, <2>2, FoundHead DEF Leave
  <2> QED  BY <2>1, <2>2
<1> QED  BY <1>2, <1>3 DEF LookAtStep

(* The unique index of the rejects is there for all that have passed it.       *)
LEMMA IndexRejectsHead ==
    ASSUME RowsInv, HeadInv, NEW o \in Openers, IndexRejects(o) PROVE HeadInv'
<1>1. /\ opener[o].v = 5 /\ opener[o].phase \in {"look", "again"}
      /\ OpenerOK(file, opener[o]) /\ FileOK(file)
  BY DEF IndexRejects, HeadInv
<1>2. At(opener[o]) = 5 /\ Live(opener[o])
  BY <1>1 DEF At, Live
<1>3. Behind(file, 5)
  BY <1>2 DEF Reaches, HeadInv, AllBehind
<1>4. CASE /\ Has(file, "rejects") /\ ~ DuplicateRejects(file)
           /\ Leave(o, [file EXCEPT !.rejectKey = TRUE], "mark")
  <2>1. PICK c : /\ opener' = [opener EXCEPT ![o] = c]
                 /\ c.phase = "mark" /\ c.v = opener[o].v /\ c.k = opener[o].k
    BY <1>4, GoIs DEF Leave
  <2>2. /\ file'.version = file.version /\ file'.tables = file.tables /\ file'.kinds = file.kinds
        /\ file'.cols = file.cols /\ file'.paper = file.paper /\ file'.ops = file.ops
        /\ file'.rejectKey = TRUE /\ torn' = torn
    BY <1>4 DEF Leave, RowsInv
  <2>3. OpenerOK(file', c) /\ At(c) = 6
    BY <1>1, <2>1, <2>2 DEF OpenerOK, Phases, At, Has
  <2>4. FileOK(file')
    BY <1>1, <2>2 DEF FileOK, Has, Fits
  <2>5. \A n \in 0..13 : Behind(file, n) => Behind(file', n)
    BY <2>2 DEF Behind, Has, DuplicateOps, HasKinds
  <2>6. Behind(file', 6)
    BY <1>3, <1>4, <2>2 DEF Behind, Has
  <2>7. \A u \in Steps : Settles(file, file', opener, o, c, u)
    BY <1>1, <2>1, EarlyCovers DEF Settles
  <2> QED  BY <2>1, <2>2, <2>3, <2>4, <2>5, <2>6, <2>7, HeadStep
<1>5. CASE Leave(o, file, "do")
  <2>1. PICK c : /\ opener' = [opener EXCEPT ![o] = c]
                 /\ c.phase = "do" /\ c.v = opener[o].v /\ c.k = opener[o].k
    BY <1>5, GoIs DEF Leave
  <2>2. OpenerOK(file, c) /\ At(c) = 5
    BY <1>1, <2>1 DEF OpenerOK, Phases, At
  <2>3. \A u \in Steps : Covers(c, file, u)
    BY <1>1, <2>1, <2>2 DEF Covers, Busy, Live, Doomed, Taken, Steps
  <2>4. SameShape(file, file') /\ file'.version = file.version /\ file'.version \in 0..13 /\ torn' = torn
    BY <1>1, <1>5 DEF SameShape, Leave, FileOK
  <2> QED  BY <1>3, <2>1, <2>2, <2>3, <2>4, SameShapeStep
<1>6. CASE Fail(o) /\ (DuplicateRejects(file) \/ ~ Has(file, "rejects"))
  <2>1. DuplicateRejects(file) => ~ file.rejectKey
    BY DEF DuplicateRejects, RowsInv, RejectsHeld
  <2>2. ~ Behind(file, 6)
    BY <1>6, <2>1 DEF Behind
  <2> QED  BY <1>2, <1>6, <2>2, RefusedHead DEF Fail
<1> QED  BY <1>4, <1>5, <1>6 DEF IndexRejects

LEMMA CollapseRejectsHead ==
    ASSUME RowsInv, HeadInv, NEW o \in Openers, CollapseRejects(o) PROVE HeadInv'
<1>1. /\ opener[o].v = 5 /\ opener[o].phase = "do" /\ torn' = torn
      /\ OpenerOK(file, opener[o]) /\ FileOK(file)
  BY DEF CollapseRejects, HeadInv, Leave
<1>2. PICK c : /\ opener' = [opener EXCEPT ![o] = c]
               /\ c.phase = "again" /\ c.v = opener[o].v /\ c.k = opener[o].k
  BY GoIs DEF CollapseRejects, Leave
<1>3. At(opener[o]) = 5 /\ Live(opener[o])
  BY <1>1 DEF At, Live
<1>4. Behind(file, 5)
  BY <1>3 DEF Reaches, HeadInv, AllBehind
<1>5. OpenerOK(file, c) /\ At(c) = 5
  BY <1>1, <1>2 DEF OpenerOK, Phases, At
<1>6. \A u \in Steps : Covers(c, file, u)
  BY <1>1, <1>2, EarlyCovers
<1>7. SameShape(file, file') /\ file'.version = file.version /\ file'.version \in 0..13
  BY <1>1 DEF SameShape, CollapseRejects, Leave, RowsInv, FileOK
<1> QED  BY <1>1, <1>2, <1>4, <1>5, <1>6, <1>7, SameShapeStep

-------------------------------------------------------------------------------
(* A step is done and its opener goes on to mark it: what it was about is      *)
(* there, what comes later is covered, and what came earlier is not touched.   *)
LEMMA DidHead ==
    ASSUME RowsInv, HeadInv, NEW o \in Openers, Go(o, "mark"), torn' = torn,
           opener[o].phase = "do", FileOK(file'), file'.version = file.version,
           file'.tables = file.tables,
           \A n \in 0..13 : Behind(file, n) => Behind(file', n),
           Behind(file, opener[o].v) => Behind(file', opener[o].v + 1),
           opener[o].v + 1 \in Steps => Done(file', opener[o].v + 1),
           \A u \in Steps : u < opener[o].v + 1 =>
              /\ Done(file, u) => Done(file', u)
              /\ \A p \in Openers : Covers(opener[p], file, u) => Covers(opener[p], file', u) \/ Done(file', u)
    PROVE  HeadInv'
<1> DEFINE v == opener[o].v + 1
<1>1. PICK c : /\ opener' = [opener EXCEPT ![o] = c]
               /\ c.phase = "mark" /\ c.v = opener[o].v /\ c.k = opener[o].k
  BY GoIs
<1>2. OpenerOK(file, opener[o])
  BY DEF HeadInv
<1>3. v \in 2..13 /\ opener[o].v \in 1..12 /\ opener[o].v = v - 1
  BY <1>2 DEF OpenerOK
<1>4. Live(opener[o]) /\ At(opener[o]) = opener[o].v
  BY DEF Live, At
<1>5. OpenerOK(file', c) /\ Live(c) /\ At(c) = v /\ Busy(c) /\ ~ Doomed(c, file')
  BY <1>1, <1>2, <1>3 DEF OpenerOK, Phases, Live, At, Busy, Doomed
<1>6. Behind(file, opener[o].v)
  BY <1>3, <1>4 DEF Reaches, HeadInv, AllBehind
<1>7. ASSUME NEW u \in Steps PROVE Settles(file, file', opener, o, c, u)
  <2>1. CASE u > v
    BY <1>3, <1>5, <2>1 DEF Settles, Covers, Steps
  <2>2. CASE u = v
    BY <2>2 DEF Settles
  <2>3. CASE u < v
    <3>1. opener[o].v >= u /\ Due(u) = u
      BY <1>3, <2>3 DEF Steps, Due
    <3>2. ~ Covers(opener[o], file, u)
      BY <1>3, <1>4, <3>1 DEF Covers, Steps
    <3>3. Reaches(file, opener, Due(u))
      BY <1>4, <3>1 DEF Reaches
    <3> QED  BY <2>3, <3>2, <3>3 DEF Settles
  <2> HIDE DEF v
  <2> QED  BY <1>3, <2>1, <2>2, <2>3 DEF Steps
<1>8. Behind(file', At(c)) /\ file.tables \subseteq file'.tables
  BY <1>5, <1>6
<1> QED  BY <1>1, <1>5, <1>7, <1>8, HeadStep

(* A column that is added is one that another looked for, and will find there: *)
(* but it is no further than this opener.                                      *)
LEMMA AddColumnHead ==
    ASSUME RowsInv, HeadInv, NEW o \in Openers, NEW v, v = opener[o].v + 1, v \in DOMAIN Added,
           opener[o].phase = "do", ~ Taken(file, v),
           Leave(o, WithColumn(file, Added[v][1], Added[v][2]), "mark")
    PROVE  HeadInv'
<1>1. v \in {2, 3, 4, 10, 11, 12, 13}
  BY AddedIs
<1>2. OpenerOK(file, opener[o]) /\ FileOK(file)
  BY DEF HeadInv
<1>3. /\ file'.version = file.version /\ file'.tables = file.tables /\ file'.kinds = file.kinds
      /\ file'.natural = file.natural /\ file'.rejectKey = file.rejectKey /\ file'.ops = file.ops
      /\ Go(o, "mark") /\ torn' = torn
  BY DEF Leave, WithColumn, RowsInv
<1>4. /\ v \in {2, 3, 4, 10} => file'.cols = file.cols \cup {Added[v][2]} /\ file'.paper = file.paper
      /\ v \in {11, 12, 13} => file'.cols = file.cols /\ file'.paper = file.paper \cup {Added[v][2]}
  BY <1>1, AddedIs DEF Leave, WithColumn, RowsInv
<1>5. FileOK(file')
  <2>1. Added[v][2] \in OpColumns \ {"subkind"} \/ v \in {11, 12, 13}
    BY <1>1, AddedIs DEF OpColumns, V1Columns
  <2>2. Added[v][2] \in PaperColumns \/ v \in {2, 3, 4, 10}
    BY <1>1, AddedIs DEF PaperColumns
  <2> QED  BY <1>1, <1>2, <1>3, <1>4, <2>1, <2>2 DEF FileOK, Has, Fits
<1>6. \A n \in 0..13 : Behind(file, n) => Behind(file', n)
  BY <1>1, <1>3, <1>4 DEF Behind, Has, DuplicateOps, HasKinds
<1>7. Behind(file, opener[o].v) => Behind(file', opener[o].v + 1)
  <2>1. opener[o].v = v - 1
    BY <1>1, <1>2 DEF OpenerOK
  <2> QED  BY <1>1, <1>3, <1>4, <2>1, AddedIs DEF Behind, Has, DuplicateOps, HasKinds
<1>8. v \in Steps => Done(file', v)
  BY <1>1, <1>3, <1>4, AddedIs DEF Steps, Done
<1>9. ASSUME NEW u \in Steps, u < v
      PROVE  /\ Done(file, u) => Done(file', u)
             /\ \A p \in Openers : Covers(opener[p], file, u) => Covers(opener[p], file', u)
  <2>1. Done(file, u) => Done(file', u)
    BY <1>1, <1>3, <1>4 DEF Done, Steps, Has
  <2>2. ASSUME NEW p \in Openers, Covers(opener[p], file, u) PROVE Covers(opener[p], file', u)
    <3>1. opener[p].phase = "do" => opener[p].v + 1 < v + 1 /\ opener[p].v \in 1..12
      BY <1>1, <1>9, <2>2 DEF Covers, At, Steps, HeadInv, OpenerOK
    <3>2. ASSUME opener[p].phase = "do", ~ Taken(file, opener[p].v + 1)
          PROVE  ~ Taken(file', opener[p].v + 1)
      <4>1. opener[p].v + 1 # v
        BY <1>1, <1>9, <2>2, <3>2 DEF Covers, At, Steps, HeadInv, OpenerOK
      <4> QED  BY <1>1, <1>3, <1>4, <3>1, <3>2, <4>1, AddedIs DEF Taken
    <3> QED  BY <2>2, <3>2 DEF Covers, Doomed
  <2> QED  BY <2>1, <2>2
<1> QED  BY <1>3, <1>5, <1>6, <1>7, <1>8, <1>9, DidHead

(* Whether a key is held twice, and whether version 8 has a name for each      *)
(* kind, is decided by the rows that were born.                                *)
LEMMA BornDecides ==
    ASSUME RowsInv, RowsInv', born' = born
    PROVE  /\ DuplicateOps(file') => DuplicateOps(file)
           /\ HasKinds(file) => HasKinds(file')
<1>1. ASSUME NEW r \in file'.ops
      PROVE  \E s \in file.ops : Same(r, s) /\ Renamed(s.kind) = Renamed(r.kind)
  <2>1. PICK b \in born.ops : Same(r, b)
    BY DEF RowsInv, Kept
  <2>2. PICK s \in file.ops : Same(s, b)
    BY DEF RowsInv, Kept
  <2>3. r.kind = b.kind \/ r.kind = Renamed(b.kind)
    BY <2>1 DEF RowsInv, Named
  <2>4. s.kind = b.kind \/ s.kind = Renamed(b.kind)
    BY <2>1, <2>2 DEF RowsInv, Named
  <2>5. Renamed(s.kind) = Renamed(r.kind)
    BY <2>3, <2>4 DEF Renamed
  <2> QED  BY <2>1, <2>2, <2>5 DEF Same
<1>2. HasKinds(file) => HasKinds(file')
  BY <1>1 DEF HasKinds
<1>3. ASSUME NEW r \in file'.ops, NEW s \in file'.ops, r # s, r.key = s.key
      PROVE  DuplicateOps(file)
  <2>1. PICK q \in file.ops : Same(r, q)
    BY <1>1
  <2>2. PICK t \in file.ops : Same(s, t)
    BY <1>1
  <2>3. q # t
    BY <1>3, <2>1, <2>2 DEF RowsInv, Kept, Same
  <2>4. q.key = t.key
    BY <1>3, <2>1, <2>2 DEF Same
  <2> QED  BY <2>3, <2>4 DEF DuplicateOps
<1>4. DuplicateOps(file') => DuplicateOps(file)
  BY <1>3 DEF DuplicateOps
<1> QED  BY <1>2, <1>4

(* The two rebuilds: the first falls back to the columns of version 1, which   *)
(* its opener then adds again.                                                 *)
LEMMA RebuildHead ==
    ASSUME RowsInv, RowsInv', HeadInv, NEW o \in Openers, NEW v \in {5, 8}, opener[o].v + 1 = v,
           opener[o].phase = "do", RebuildHolds(file, v), Leave(o, Rebuilt(file, v), "mark"),
           born' = born
    PROVE  HeadInv'
<1>0. file' = Rebuilt(file, v) /\ torn' = torn /\ Go(o, "mark") /\ FileOK(file)
  BY DEF Leave, HeadInv
<1>1. /\ file'.version = file.version /\ file'.tables = file.tables /\ file'.paper = file.paper
      /\ file'.rejectKey = file.rejectKey
  BY <1>0 DEF Rebuilt, SkimRebuild, UtilityRebuild, RowsInv
<1>2. v = 5 => file'.kinds = SkimKinds /\ file'.cols = V1Columns
  BY <1>0 DEF Rebuilt, SkimRebuild, RowsInv
<1>3. v = 8 => /\ file'.kinds = UtilityKinds /\ file'.cols = V1Columns \cup {"subkind"}
               /\ file'.natural = TRUE
  <2>1. DOMAIN file = {"version", "tables", "kinds", "cols", "paper", "natural", "rejectKey",
                       "ops", "rejects"}
    BY DEF RowsInv
  <2>2. v = 8 => file' = UtilityRebuild(file)
    BY <1>0 DEF Rebuilt
  <2> QED  BY <2>1, <2>2 DEF UtilityRebuild
<1>4. Fits(file')
  BY <1>0 DEF RebuildHolds
<1>5. FileOK(file')
  <2>1. file'.cols \subseteq OpColumns
    BY <1>2, <1>3 DEF OpColumns
  <2>2. "subkind" \in file'.cols => "utility" \in file'.kinds
    BY <1>2, <1>3 DEF V1Columns, UtilityKinds
  <2> QED  BY <1>0, <1>1, <1>4, <2>1, <2>2 DEF FileOK, Has
<1>6. "fee" \in file'.cols /\ "volume" \in file'.cols /\ "excluded" \in file'.cols /\ "skim" \in file'.kinds
  BY <1>2, <1>3 DEF V1Columns, UtilityKinds, SkimKinds
<1>7. \A n \in 0..13 : Behind(file, n) => Behind(file', n)
  BY <1>1, <1>6, BornDecides DEF Behind, Has
<1>8. v = 8 => HasKinds(file')
  BY <1>3, <1>4 DEF Fits, HasKinds, Renamed, UtilityKinds
<1>9. opener[o].v = v - 1 /\ v - 1 \in 0..13
  BY DEF HeadInv, OpenerOK
<1>10. Behind(file, v - 1) => Behind(file', v)
  BY <1>6, <1>7, <1>8, <1>9 DEF Behind
<1>11. v \in Steps => Done(file', v)
  BY <1>3 DEF Steps, Done, UtilityKinds
<1>12. \A u \in Steps : u < v => Done(file', u)
  BY <1>3 DEF Steps, Done
<1> QED  BY <1>0, <1>1, <1>5, <1>7, <1>9, <1>10, <1>11, <1>12, DidHead

(* A late opener that finds its column there, or the first rebuild refused,    *)
(* covered nothing.                                                            *)
LEMMA LateHead ==
    ASSUME RowsInv, HeadInv, NEW o \in Openers, Go(o, "failed"), UNCHANGED <<file, torn>>,
           Doomed(opener[o], file)
    PROVE  HeadInv'
<1>1. PICK c : /\ opener' = [opener EXCEPT ![o] = c]
               /\ c.phase = "failed" /\ c.v = opener[o].v /\ c.k = opener[o].k
  BY GoIs
<1>2. OpenerOK(file, c) /\ ~ Live(c)
  BY <1>1 DEF HeadInv, OpenerOK, Phases, Live
<1>3. \A u : ~ Covers(opener[o], file, u)
  BY DEF Covers
<1>4. SameShape(file, file') /\ file'.version \in 0..13
  BY DEF SameShape, HeadInv, FileOK
<1> QED  BY <1>1, <1>2, <1>3, <1>4, SameShapeStep

LEMMA DoStepHead ==
    ASSUME RowsInv, RowsInv', HeadInv, NEW o \in Openers, DoStep(o) PROVE HeadInv'
<1> DEFINE v == opener[o].v + 1
<1>1. opener[o].phase = "do" /\ v # 6 /\ born' = born /\ OpenerOK(file, opener[o]) /\ FileOK(file)
  BY DEF DoStep, HeadInv
<1>2. v \in 2..13 /\ opener[o].v = v - 1 /\ At(opener[o]) = v - 1 /\ Live(opener[o])
  BY <1>1 DEF OpenerOK, At, Live
<1>3. Behind(file, v - 1)
  BY <1>2 DEF Reaches, HeadInv, AllBehind
<1> HIDE DEF v
<1>4. CASE /\ v \in DOMAIN Added
           /\ LET t == Added[v][1] c == Added[v][2]
              IN  IF c \in Columns(file, t) THEN Fail(o)
                  ELSE Leave(o, WithColumn(file, t, c), "mark")
  <2>1. Added[v][2] \in Columns(file, Added[v][1]) <=> Taken(file, v)
    BY <1>4, AddedIs DEF Columns, Taken
  <2>2. CASE Fail(o) /\ Taken(file, v)
    BY <1>1, <2>2, LateHead DEF Doomed, Fail, v
  <2>3. CASE ~ Taken(file, v) /\ Leave(o, WithColumn(file, Added[v][1], Added[v][2]), "mark")
    BY <1>1, <1>4, <2>3, AddColumnHead DEF v
  <2> QED  BY <1>4, <2>1, <2>2, <2>3
<1>5. CASE v = 7 /\ DuplicateOps(file) /\ Fail(o)
  <2>1. ~ Behind(file, 7)
    BY <1>5 DEF Behind
  <2> QED  BY <1>2, <1>5, <2>1, RefusedHead DEF Fail
<1>6. CASE v = 7 /\ ~ DuplicateOps(file) /\ Leave(o, [file EXCEPT !.natural = TRUE], "mark")
  <2>1. /\ file'.version = file.version /\ file'.tables = file.tables /\ file'.kinds = file.kinds
        /\ file'.cols = file.cols /\ file'.paper = file.paper /\ file'.ops = file.ops
        /\ file'.rejectKey = file.rejectKey /\ file'.natural = TRUE /\ torn' = torn
    BY <1>6 DEF Leave, RowsInv
  <2>2. FileOK(file')
    BY <1>1, <2>1 DEF FileOK, Has, Fits
  <2>3. \A n \in 0..13 : Behind(file, n) => Behind(file', n)
    BY <2>1 DEF Behind, Has, DuplicateOps, HasKinds
  <2>4. Behind(file, 6) => Behind(file', 7)
    BY <1>6, <2>1 DEF Behind, Has, DuplicateOps
  <2>5. Done(file', 7)
    BY <2>1 DEF Done
  <2>6. \A u \in Steps : ~ (u < 7)
    BY DEF Steps
  <2>7. Go(o, "mark") /\ opener[o].v + 1 = 7 /\ opener[o].v = 6
    BY <1>2, <1>6 DEF Leave, v
  <2> QED  BY <1>1, <2>1, <2>2, <2>3, <2>4, <2>5, <2>6, <2>7, DidHead
<1>7. CASE v \in {5, 8} /\ RebuildHolds(file, v) /\ Leave(o, Rebuilt(file, v), "mark")
  BY <1>1, <1>7, RebuildHead DEF v
<1>8. CASE v = 5 /\ Fail(o)
  BY <1>1, <1>8, LateHead DEF Doomed, Taken, Fail, v
<1>9. CASE v = 8 /\ ~ RebuildHolds(file, v) /\ Fail(o)
  <2>1. V1Columns \subseteq file.cols /\ ~ DuplicateOps(file)
    BY <1>3, <1>9 DEF Behind, V1Columns
  <2>2. ~ Fits(Rebuilt(file, 8))
    BY <1>9, <2>1 DEF RebuildHolds
  <2>3. /\ Rebuilt(file, 8).ops = AsUtility(file.ops)
        /\ Rebuilt(file, 8).kinds = UtilityKinds
    BY DEF Rebuilt, UtilityRebuild, AsUtility, RowsInv
  <2>4. PICK s \in AsUtility(file.ops) : s.kind \notin UtilityKinds
    BY <2>2, <2>3 DEF Fits
  <2>5. PICK r \in file.ops : s = [r EXCEPT !.kind = Renamed(r.kind), !.sub = r.tag]
    BY <2>4 DEF AsUtility
  <2>6. DOMAIN r = {"key", "copy", "kind", "tag", "sub"}
    BY DEF RowsInv, Kept, IsRow
  <2>7. s.kind = Renamed(r.kind)
    BY <2>5, <2>6
  <2>8. ~ HasKinds(file)
    BY <2>4, <2>7 DEF HasKinds
  <2>9. ~ Behind(file, 8)
    BY <2>8 DEF Behind
  <2> QED  BY <1>2, <1>9, <2>9, RefusedHead DEF Fail
<1> QED  BY <1>1, <1>4, <1>5, <1>6, <1>7, <1>8, <1>9 DEF DoStep, v

-------------------------------------------------------------------------------
(* A late mark lowers the version, and the one that set it covers the rest.    *)
LEMMA MarkVersionHead ==
    ASSUME RowsInv, HeadInv, NEW o \in Openers, MarkVersion(o) PROVE HeadInv'
<1> DEFINE v == opener[o].v + 1
           c == [opener[o] EXCEPT !.v = v, !.phase = Reached(v)]
<1>1. opener' = [opener EXCEPT ![o] = c]
  BY DEF MarkVersion, RowsInv
<1>2. c.phase = Reached(v) /\ c.v = v /\ c.k = opener[o].k
  BY DEF RowsInv
<1> HIDE DEF c
<1>3. opener[o].phase = "mark" /\ torn' = torn /\ OpenerOK(file, opener[o]) /\ FileOK(file)
  BY DEF MarkVersion, HeadInv
<1>4. v \in 1..13 /\ At(opener[o]) = v /\ Live(opener[o])
  BY <1>3 DEF OpenerOK, At, Live
<1>5. SameShape(file, file') /\ file'.version = v
  BY DEF SameShape, MarkVersion, RowsInv
<1> HIDE DEF v
<1>6. /\ v = 13 => c.phase = "open"
      /\ v # 13 => c.phase = "look"
  BY <1>2 DEF Reached, SchemaHead
<1>7. OpenerOK(file, c) /\ Live(c) /\ At(c) = v
  BY <1>2, <1>3, <1>4, <1>6 DEF OpenerOK, Phases, Live, At
<1>8. Behind(file, At(c))
  BY <1>4, <1>7 DEF Reaches, HeadInv, AllBehind
<1>9. ASSUME NEW u \in Steps
      PROVE  \/ Covers(c, file, u) \/ Done(file', u)
             \/ /\ At(c) >= Due(u) => Reaches(file, opener, Due(u))
                /\ u # 14
                /\ ~ Covers(opener[o], file, u)
  <2>1. CASE u > v /\ v # 13
    BY <1>4, <1>6, <1>7, <2>1 DEF Covers, Busy, Doomed, Steps
  <2>2. CASE u = 14 /\ v = 13
    BY <1>5, <2>2 DEF Done, SchemaHead
  <2>3. CASE u <= v
    <3>1. ~ Covers(opener[o], file, u)
      BY <1>4, <2>3 DEF Covers, Steps
    <3>2. Due(u) = u /\ u # 14
      BY <1>4, <2>3 DEF Due, Steps
    <3>3. Reaches(file, opener, Due(u))
      BY <1>4, <2>3, <3>2 DEF Reaches
    <3> QED  BY <3>1, <3>2, <3>3
  <2> QED  BY <1>4, <2>1, <2>2, <2>3 DEF Steps
<1>10. file'.version \in 0..13 /\ file'.version <= At(c)
  BY <1>4, <1>5, <1>7
<1> QED  BY <1>1, <1>3, <1>5, <1>7, <1>8, <1>9, <1>10, SameShapeStep

LEMMA IdleOK == \A f : OpenerOK(f, Idle) /\ ~ Live(Idle) /\ At(Idle) = 0
  BY DEF OpenerOK, Idle, Phases, Live, At

LEMMA CloseFileHead ==
    ASSUME RowsInv, HeadInv, NEW o \in Openers, CloseFile(o) PROVE HeadInv'
<1>1. /\ opener' = [opener EXCEPT ![o] = Idle] /\ UNCHANGED <<file, torn>>
      /\ opener[o].phase \in {"open", "failed"}
  BY DEF CloseFile
<1>2. \A u : ~ Covers(opener[o], file, u)
  BY <1>1 DEF Covers, Busy, Live
<1>3. SameShape(file, file') /\ file'.version \in 0..13
  BY <1>1 DEF SameShape, HeadInv, FileOK
<1> QED  BY <1>1, <1>2, <1>3, IdleOK, SameShapeStep

(* One that is killed while nobody is ahead of it leaves what it had reached,  *)
(* and has taken nothing back above that.                                      *)
LEMMA DieHead ==
    ASSUME RowsInv, HeadInv, NEW o \in Openers, Die(o) PROVE HeadInv'
<1>1. opener' = [opener EXCEPT ![o] = Idle] /\ file' = file /\ torn' = (torn \/ Ahead(o))
  BY DEF Die
<1>2. DOMAIN opener = Openers /\ opener'[o] = Idle /\ \A p \in Openers : p # o => opener'[p] = opener[p]
  BY <1>1 DEF RowsInv
<1>3. file.version \in 0..13 /\ \A p \in Openers : OpenerOK(file, opener[p])
  BY DEF HeadInv, FileOK
<1>4. AllBehind(file', opener')
  <2>1. AllBehind(file, [opener EXCEPT ![o] = Idle])
    <3>1. AllBehind(file, opener) /\ At(Idle) \in 0..13 /\ ~ Live(Idle)
      BY IdleOK DEF HeadInv
    <3> QED  BY <1>2, <1>3, <3>1, BehindKept
  <2> QED  BY <1>1, <2>1
<1>5. \A p \in Openers : OpenerOK(file', opener'[p])
  BY <1>1, <1>2, <1>3, IdleOK
<1>6. ASSUME ~ torn' PROVE AllDone(file', opener')
  <2>0. ~ torn /\ ~ Ahead(o)
    BY <1>1, <1>6
  <2>1. opener[o].v >= file.version /\ \A p \in Openers : p # o => opener[p].phase = "off"
    BY <1>3, <2>0 DEF Ahead, OpenerOK
  <2>2. \A p \in Openers : ~ Live(opener'[p])
    BY <1>2, <2>1, IdleOK DEF Live
  <2>3. ASSUME NEW u \in Steps, Reaches(file, opener', Due(u)) PROVE Done(file, u)
    <3>1. file.version >= Due(u)
      BY <2>2, <2>3 DEF Reaches
    <3>2. CASE Done(file, u)
      BY <3>2
    <3>3. ASSUME NEW p \in Openers, Covers(opener[p], file, u) PROVE Done(file, u)
      <4>1. p = o
        BY <2>1, <3>3 DEF Covers, Busy, Live
      <4>2. At(opener[o]) >= opener[o].v /\ At(opener[o]) < u /\ opener[o].v \in 0..13
        BY <1>3, <3>3, <4>1 DEF Covers, At, OpenerOK
      <4>3. u = 14 /\ file.version = 13
        BY <1>3, <2>1, <3>1, <4>2 DEF Due, Steps, OpenerOK, At
      <4> QED  BY <4>3 DEF Done, SchemaHead
    <3>4. Reaches(file, opener, Due(u))
      BY <3>1 DEF Reaches
    <3> QED  BY <2>0, <3>2, <3>3, <3>4 DEF HeadInv, AllDone, Covered
  <2> QED  BY <1>1, <2>3 DEF AllDone
<1>7. opener' = [p \in Openers |-> opener'[p]]
  BY <1>1 DEF RowsInv
<1> QED  BY <1>1, <1>4, <1>5, <1>6, <1>7 DEF HeadInv

-------------------------------------------------------------------------------
(* A statement of an open file.                                                *)
LEMMA OpenHead ==
    ASSUME RowsInv, HeadInv, NEW o \in Openers, opener[o].phase = "open",
           UNCHANGED <<opener, torn>>, FileOK(file'), file'.version = file.version,
           file.tables \subseteq file'.tables,
           \A n \in 0..13 : Behind(file, n) => Behind(file', n),
           \A u \in Steps : Done(file, u) => Done(file', u),
           \A u \in Steps : \A p \in Openers : Covers(opener[p], file, u) => Covers(opener[p], file', u)
    PROVE  HeadInv'
<1>1. opener' = [opener EXCEPT ![o] = opener[o]]
  BY DEF HeadInv
<1>2. Live(opener[o]) /\ \A u : ~ Covers(opener[o], file, u)
  BY DEF Live, Covers, Busy
<1>3. Reaches(file, opener, At(opener[o])) /\ At(opener[o]) \in 0..13
  BY <1>2 DEF Reaches, HeadInv, OpenerOK, At
<1>4. Behind(file', At(opener[o]))
  BY <1>3 DEF HeadInv, AllBehind
<1>5. OpenerOK(file', opener[o])
  BY DEF HeadInv, OpenerOK, Has
<1>6. ASSUME NEW u \in Steps PROVE Settles(file, file', opener, o, opener[o], u)
  <2>1. At(opener[o]) >= Due(u) => Reaches(file, opener, Due(u))
    BY <1>2 DEF Reaches
  <2> QED  BY <1>2, <2>1 DEF Settles
<1> QED  BY <1>1, <1>4, <1>5, <1>6, HeadStep

LEMMA WriteOpHead ==
    ASSUME RowsInv, RowsInv', HeadInv, NEW o \in Openers, WriteOp(o) PROVE HeadInv'
<1>1. PICK r \in NewOps :
        /\ r.kind \in file.kinds /\ \A s \in file.ops : s.key # r.key
        /\ file' = [file EXCEPT !.ops = @ \cup {[r EXCEPT !.sub = r.tag]}]
  BY DEF WriteOp
<1>2. DOMAIN r = {"key", "copy", "kind", "tag", "sub"}
  BY FilesAssumption DEF FilesAssumption, IsRow
<1>3. PICK q : q = [r EXCEPT !.sub = r.tag]
  OBVIOUS
<1>4. q.key = r.key /\ q.kind = r.kind
  BY <1>2, <1>3
<1>5. /\ file'.ops = file.ops \cup {q} /\ file'.version = file.version
      /\ file'.tables = file.tables /\ file'.kinds = file.kinds /\ file'.cols = file.cols
      /\ file'.paper = file.paper /\ file'.natural = file.natural /\ file'.rejectKey = file.rejectKey
  BY <1>1, <1>3 DEF RowsInv
<1>6. file.kinds = UtilityKinds /\ FileOK(file)
  BY DEF WriteOp, OpColumns, HeadInv, FileOK, RowsInv, ShapeInv
<1>7. FileOK(file')
  BY <1>1, <1>4, <1>5, <1>6 DEF FileOK, Has, Fits
<1>8. DuplicateOps(file') => DuplicateOps(file)
  BY <1>1, <1>4, <1>5 DEF DuplicateOps
<1>9. HasKinds(file) => HasKinds(file')
  BY <1>1, <1>4, <1>5, <1>6 DEF HasKinds, Renamed, UtilityKinds
<1>10. \A n \in 0..13 : Behind(file, n) => Behind(file', n)
  BY <1>5, <1>8, <1>9 DEF Behind, Has
<1>11. \A u \in Steps : Done(file, u) => Done(file', u)
  BY <1>5 DEF Done, Has
<1>12. \A u \in Steps : \A p \in Openers : Covers(opener[p], file, u) => Covers(opener[p], file', u)
  BY <1>5 DEF Covers, Doomed, Taken
<1> QED  BY <1>5, <1>7, <1>10, <1>11, <1>12, OpenHead DEF WriteOp

LEMMA WriteRejectHead ==
    ASSUME RowsInv, HeadInv, NEW o \in Openers, WriteReject(o) PROVE HeadInv'
<1>1. SameShape(file, file') /\ file'.version = file.version
  BY DEF WriteReject, SameShape, RowsInv
<1>2. FileOK(file') /\ file.tables \subseteq file'.tables
  BY <1>1, SameShapeKeeps DEF HeadInv, FileOK, SameShape
<1> QED  BY <1>1, <1>2, SameShapeKeeps, OpenHead DEF WriteReject

LEMMA EnsurePaperTablesHead ==
    ASSUME RowsInv, HeadInv, NEW o \in Openers, EnsurePaperTables(o) PROVE HeadInv'
<1>1. ~ Has(file, "paper") /\ FileOK(file) /\ \A p \in Openers : OpenerOK(file, opener[p])
  BY DEF EnsurePaperTables, HeadInv
<1>2. /\ file'.ops = file.ops /\ file'.version = file.version
      /\ file'.tables = file.tables \cup {"paper"} /\ file'.kinds = file.kinds
      /\ file'.cols = file.cols /\ file'.paper = PaperColumns
      /\ file'.natural = file.natural /\ file'.rejectKey = file.rejectKey
  BY DEF EnsurePaperTables, RowsInv
<1>3. FileOK(file')
  BY <1>1, <1>2 DEF FileOK, Has, Fits
<1>4. \A n \in 0..13 : Behind(file, n) => Behind(file', n)
  BY <1>2 DEF Behind, Has, DuplicateOps, HasKinds
<1>5. \A u \in Steps : Done(file, u) => Done(file', u)
  BY <1>2 DEF Done, PaperColumns
<1>6. ASSUME NEW u \in Steps, NEW p \in Openers, Covers(opener[p], file, u)
      PROVE  Covers(opener[p], file', u)
  <2>1. opener[p].phase = "do" => opener[p].v \in 1..12 /\ opener[p].v \notin 10..12
    BY <1>1 DEF OpenerOK
  <2> QED  BY <1>2, <1>6, <2>1 DEF Covers, Doomed, Taken
<1> QED  BY <1>2, <1>3, <1>4, <1>5, <1>6, OpenHead DEF EnsurePaperTables

-------------------------------------------------------------------------------
LEMMA HeadInvNext == RowsInv /\ HeadInv /\ [SchemaNext]_schemaVars => HeadInv'
<1> SUFFICES ASSUME RowsInv, HeadInv, [SchemaNext]_schemaVars PROVE HeadInv'
  OBVIOUS
<1>1. RowsInv'
  BY RowsInvNext
<1>2. CASE SchemaNext
  BY <1>1, <1>2, OpenFileHead, LookForTablesHead, StampLegacyHead, CreateTableHead,
     LookAtStepHead, DoStepHead, IndexRejectsHead, CollapseRejectsHead, MarkVersionHead,
     CloseFileHead, DieHead, WriteOpHead, WriteRejectHead, EnsurePaperTablesHead DEF SchemaNext
<1>3. CASE UNCHANGED schemaVars
  <2>1. UNCHANGED <<file, opener, torn>>
    BY <1>3 DEF schemaVars
  <2> QED  BY <2>1 DEF HeadInv
<1> QED  BY <1>2, <1>3

(* A file as these openers leave it when none is killed behind another: of     *)
(* whatever version it is, it has what that version says.                      *)
Whole(f) ==
    /\ FileOK(f) /\ Behind(f, f.version)
    /\ \A u \in Steps : u <= f.version => Done(f, u)
LeftWhole == (\A o \in Openers : opener[o].phase = "off") /\ ~ torn => Whole(file)

LEMMA HeadInvInit == SchemaInit /\ Whole(file) => HeadInv
<1> SUFFICES ASSUME SchemaInit, Whole(file) PROVE HeadInv
  OBVIOUS
<1>1. FileOK(file) /\ file.version \in 0..13 /\ torn = FALSE
  BY DEF Whole, FileOK, SchemaInit
<1>2. \A o \in Openers : opener[o] = Idle
  BY DEF SchemaInit
<1>3. \A n \in 0..13 : Reaches(file, opener, n) => n <= file.version
  BY <1>1, <1>2, IdleOK DEF Reaches
<1>4. AllBehind(file, opener)
  BY <1>1, <1>3, BehindBelow DEF AllBehind, Whole
<1>5. ASSUME NEW u \in Steps, Reaches(file, opener, Due(u)) PROVE Done(file, u)
  <2>1. Due(u) <= file.version
    BY <1>3, <1>5 DEF Due, Steps
  <2>2. CASE u = 14
    BY <1>1, <2>1, <2>2 DEF Due, Done, SchemaHead
  <2>3. CASE u # 14
    BY <2>1, <2>3 DEF Due, Whole
  <2> QED  BY <2>2, <2>3
<1>6. AllDone(file, opener)
  BY <1>5 DEF AllDone
<1>7. \A o \in Openers : OpenerOK(file, opener[o])
  BY <1>2, IdleOK
<1>8. opener = [o \in Openers |-> opener[o]]
  BY DEF SchemaInit
<1> QED  BY <1>1, <1>4, <1>6, <1>7, <1>8 DEF HeadInv

LEMMA HeadInvLeavesWhole == HeadInv => LeftWhole
<1> SUFFICES ASSUME HeadInv, \A o \in Openers : opener[o].phase = "off", ~ torn PROVE Whole(file)
  BY DEF LeftWhole
<1>1. FileOK(file) /\ file.version \in 0..13
  BY DEF HeadInv, FileOK
<1>2. Behind(file, file.version)
  BY <1>1 DEF HeadInv, AllBehind, Reaches
<1>3. ASSUME NEW u \in Steps, u <= file.version PROVE Done(file, u)
  <2>1. Due(u) = u
    BY <1>1, <1>3 DEF Due, Steps
  <2>2. Reaches(file, opener, Due(u))
    BY <1>3, <2>1 DEF Reaches
  <2>3. ~ Covered(file, opener, u)
    BY DEF Covered, Covers, Busy, Live
  <2> QED  BY <2>2, <2>3 DEF HeadInv, AllDone
<1> QED  BY <1>1, <1>2, <1>3 DEF Whole

LEMMA HeadInvSuffices == RowsInv /\ HeadInv => OpenIsHead
<1> SUFFICES ASSUME RowsInv, HeadInv, NEW o \in Openers, opener[o].phase = "open",
                    \A p \in Openers : ~ Migrating(p), ~ torn
             PROVE  AtHead(file)
  BY DEF OpenIsHead
<1>1. Live(opener[o]) /\ At(opener[o]) = 13
  BY DEF Live, At, HeadInv, OpenerOK
<1>2. \A n \in 0..13 : Reaches(file, opener, n)
  BY <1>1 DEF Reaches
<1>3. Behind(file, 13)
  BY <1>2 DEF HeadInv, AllBehind
<1>4. \A u \in Steps : Done(file, u)
  <2>1. \A u : ~ Covered(file, opener, u)
    BY DEF Covered, Covers, Busy, Live, Migrating
  <2>2. \A u \in Steps : Due(u) \in 0..13
    BY DEF Steps, Due
  <2> QED  BY <1>2, <2>1, <2>2 DEF HeadInv, AllDone
<1>5. /\ Done(file, 7) /\ Done(file, 8) /\ Done(file, 10) /\ Done(file, 11)
      /\ Done(file, 12) /\ Done(file, 13) /\ Done(file, 14)
  BY <1>4 DEF Steps
<1>6. /\ file.natural /\ "utility" \in file.kinds /\ "subkind" \in file.cols /\ "flags" \in file.cols
      /\ file.version = SchemaHead
      /\ Has(file, "paper") => "fill" \in file.paper /\ "exec" \in file.paper /\ "cost" \in file.paper
  BY <1>5 DEF Done
<1>7. file.kinds = UtilityKinds
  BY <1>6 DEF RowsInv, ShapeInv
<1>8. file.cols = OpColumns /\ (Has(file, "paper") => file.paper = PaperColumns)
  BY <1>3, <1>6 DEF HeadInv, FileOK, Behind, OpColumns, V1Columns, PaperColumns
<1> QED  BY <1>3, <1>6, <1>7, <1>8 DEF AtHead, Behind, Has

LEMMA HeadInvHolds == SchemaSpec /\ Whole(file) => [](RowsInv /\ HeadInv)
  BY RowsInvInit, RowsInvNext, HeadInvInit, HeadInvNext, PTL DEF SchemaSpec

(* A file that is whole when it is first opened is whole whenever nobody has   *)
(* it open, until an opener is killed behind another: so what the next theorem *)
(* asks of the file is true of it again when it is opened later (migrate).     *)
THEOREM StaysWhole == SchemaSpec /\ Whole(file) => []LeftWhole
  BY HeadInvHolds, HeadInvLeavesWhole, PTL

(* OpenIsHead: however many openers migrate a file at once and in whatever     *)
(* order their statements come, when they are through the file has the shape   *)
(* that the statements of the head version are written for, unless one was     *)
(* killed behind another (migrate, ensure_mev_ops_kind_skim,                   *)
(* migrate_v8_utility_subkind).                                                *)
THEOREM OpenedIsHead == SchemaSpec /\ Whole(file) => []OpenIsHead
  BY HeadInvHolds, HeadInvSuffices, PTL

-------------------------------------------------------------------------------
(* The block cache. As no version is recorded, an opener goes through the list *)
(* from its first entry, and has behind it the columns of those it has passed. *)
Passed(c, n) == c.from = 0 /\ c.next = n /\ n \in 1..Entries

CacherOK(c, there, cols) ==
    /\ DOMAIN c = {"phase", "from", "next"}
    /\ c.phase \in {"shut", "version", "entry", "update", "ready"}
    /\ c.phase # "shut" => there
    /\ c.phase = "entry" => Passed(c, c.next) /\ \A i \in 1..Entries : i < c.next => i \in cols
    /\ c.phase = "update" => Passed(c, c.next) /\ \A i \in 1..Entries : i <= c.next => i \in cols
    /\ c.phase = "ready" => cols = 1..Entries

CacheInv ==
    /\ recorded = {} /\ tables \in BOOLEAN /\ columns \subseteq 1..Entries
    /\ cacher = [o \in CacheOpeners |-> cacher[o]]
    /\ \A o \in CacheOpeners : CacherOK(cacher[o], tables, columns)

LEMMA CreateTablesKeeps ==
    ASSUME CacheInv, NEW o \in CacheOpeners, CreateTables(o)
    PROVE  CacheInv'
<1>1. columns' \subseteq 1..Entries /\ tables' = TRUE /\ recorded' = {}
  BY CacheAssumption DEF CreateTables, CacheInv, CacheAssumption
<1>2. ASSUME NEW p \in CacheOpeners, p # o PROVE CacherOK(cacher'[p], tables', columns')
  <2>1. CacherOK(cacher[p], tables, columns) /\ cacher'[p] = cacher[p]
    BY <1>2 DEF CreateTables, CacheInv
  <2>2. CASE tables
    BY <1>1, <2>1, <2>2 DEF CreateTables, CacherOK, Passed
  <2>3. CASE ~tables
    BY <1>1, <2>1, <2>3 DEF CacherOK
  <2> QED  BY <2>2, <2>3
<1>3. CacherOK(cacher'[o], tables', columns')
  BY <1>1 DEF CreateTables, CacheInv, CacherOK
<1>4. cacher' = [p \in CacheOpeners |-> cacher'[p]]
  BY DEF CreateTables, CacheInv
<1> QED  BY <1>1, <1>2, <1>3, <1>4 DEF CacheInv

(* The other steps only add columns, and each opener's are its own.            *)
LEMMA StepKeeps ==
    ASSUME CacheInv, NEW o \in CacheOpeners,
           columns \subseteq columns', columns' \subseteq 1..Entries,
           tables' = tables, recorded' = {},
           NEW c, cacher' = [cacher EXCEPT ![o] = c], CacherOK(c, tables', columns')
    PROVE  CacheInv'
<1>1. \A p \in CacheOpeners : p # o => cacher'[p] = cacher[p]
  BY DEF CacheInv
<1>2. cacher'[o] = c
  BY DEF CacheInv
<1>3. ASSUME NEW p \in CacheOpeners PROVE CacherOK(cacher'[p], tables', columns')
  <2>1. CASE p = o
    BY <1>2, <2>1
  <2>2. CASE p # o
    <3>1. CacherOK(cacher[p], tables, columns)
      BY DEF CacheInv
    <3> QED  BY <1>1, <2>2, <3>1 DEF CacherOK, Passed
  <2> QED  BY <2>1, <2>2
<1>4. cacher' = [p \in CacheOpeners |-> cacher'[p]]
  BY DEF CacheInv
<1> QED  BY <1>3, <1>4 DEF CacheInv

LEMMA CacheNextKeeps == CacheInv /\ [CacheNext]_cacheVars => CacheInv'
<1> SUFFICES ASSUME CacheInv, [CacheNext]_cacheVars PROVE CacheInv'
  OBVIOUS
<1> USE DEF CacheInv
<1>1. ASSUME NEW o \in CacheOpeners, ReadVersion(o) PROVE CacheInv'
  <2>1. MaxRecorded = 0 /\ 0 < CacheVersion /\ 1 \in 1..Entries
    BY CacheAssumption DEF MaxRecorded, CacheAssumption
  <2> DEFINE c == [phase |-> "entry", from |-> 0, next |-> 1]
  <2>2. cacher' = [cacher EXCEPT ![o] = c] /\ UNCHANGED <<columns, tables, recorded>>
    <3>1. ~(1 > Entries) /\ 0 + 1 = 1
      BY <2>1, CacheAssumption DEF CacheAssumption
    <3>2. Entered(MaxRecorded, MaxRecorded + 1) = c
      BY <2>1, <3>1 DEF Entered
    <3>3. MaxRecorded < CacheVersion
      BY <2>1
    <3> HIDE DEF c
    <3> QED  BY <1>1, <3>2, <3>3 DEF ReadVersion
  <2>3. CacherOK(cacher[o], tables, columns) /\ cacher[o].phase = "version"
    BY <1>1 DEF ReadVersion
  <2>4. CacherOK(c, tables', columns')
    BY <2>1, <2>2, <2>3 DEF CacherOK, Passed
  <2> HIDE DEF c
  <2> QED  BY <2>2, <2>4, StepKeeps
<1>2. ASSUME NEW o \in CacheOpeners, RunEntry(o) PROVE CacheInv'
  <2> DEFINE n == cacher[o].next
             c == [cacher[o] EXCEPT !.phase = "update"]
  <2>1. /\ cacher' = [cacher EXCEPT ![o] = c] /\ columns' = columns \cup {n}
        /\ UNCHANGED <<tables, recorded>>
    BY <1>2 DEF RunEntry
  <2>2. CacherOK(cacher[o], tables, columns) /\ cacher[o].phase = "entry"
    BY <1>2 DEF RunEntry
  <2>3. /\ c.phase = "update" /\ c.from = 0 /\ c.next = n /\ n \in 1..Entries
        /\ DOMAIN c = {"phase", "from", "next"} /\ tables
        /\ \A i \in 1..Entries : i < n => i \in columns
    BY <2>2 DEF CacherOK, Passed
  <2> HIDE DEF c, n
  <2>4. \A i \in 1..Entries : i <= n => i \in columns'
    BY <2>1, <2>3, CacheAssumption DEF CacheAssumption
  <2>5. CacherOK(c, tables', columns')
    BY <2>1, <2>3, <2>4 DEF CacherOK, Passed
  <2> QED  BY <2>1, <2>3, <2>5, StepKeeps
<1>3. ASSUME NEW o \in CacheOpeners, UpdateVersion(o) PROVE CacheInv'
  <2> DEFINE n == cacher[o].next
             c == Entered(cacher[o].from, n + 1)
  <2>1. CacherOK(cacher[o], tables, columns) /\ cacher[o].phase = "update"
    BY <1>3 DEF UpdateVersion
  <2>2. /\ cacher' = [cacher EXCEPT ![o] = c] /\ UNCHANGED <<columns, tables>>
        /\ recorded' = {}
    BY <1>3 DEF UpdateVersion
  <2>3. /\ n \in 1..Entries /\ cacher[o].from = 0 /\ tables
        /\ \A i \in 1..Entries : i <= n => i \in columns
    BY <2>1 DEF CacherOK, Passed
  <2> HIDE DEF n
  <2>4. CASE n + 1 > Entries
    <3>1. c = [phase |-> "ready", from |-> 0, next |-> n + 1]
      BY <2>3, <2>4 DEF Entered
    <3>2. columns = 1..Entries
      <4>1. \A i \in 1..Entries : i <= n
        BY <2>3, <2>4, CacheAssumption DEF CacheAssumption
      <4> QED  BY <2>3, <4>1
    <3> HIDE DEF c
    <3>3. CacherOK(c, tables', columns')
      BY <2>2, <2>3, <3>1, <3>2 DEF CacherOK
    <3> QED  BY <2>2, <3>3, StepKeeps
  <2>5. CASE ~(n + 1 > Entries)
    <3>1. c = [phase |-> "entry", from |-> 0, next |-> n + 1]
      BY <2>3, <2>5 DEF Entered
    <3>2. n + 1 \in 1..Entries /\ \A i \in 1..Entries : i < n + 1 => i \in columns
      BY <2>3, <2>5, CacheAssumption DEF CacheAssumption
    <3> HIDE DEF c
    <3>3. CacherOK(c, tables', columns')
      BY <2>2, <2>3, <3>1, <3>2 DEF CacherOK, Passed
    <3> QED  BY <2>2, <3>3, StepKeeps
  <2> QED  BY <2>4, <2>5
<1>4. ASSUME NEW o \in CacheOpeners, Shuts(o) PROVE CacheInv'
  <2> DEFINE c == Shut
  <2>1. cacher' = [cacher EXCEPT ![o] = c] /\ UNCHANGED <<columns, tables, recorded>>
    BY <1>4 DEF Shuts
  <2>2. CacherOK(c, tables', columns')
    BY DEF CacherOK, Shut
  <2> HIDE DEF c
  <2> QED  BY <2>1, <2>2, StepKeeps
<1>5. CASE UNCHANGED cacheVars
  BY <1>5 DEF cacheVars, CacherOK, Passed
<1> QED  BY <1>1, <1>2, <1>3, <1>4, <1>5, CreateTablesKeeps DEF CacheNext

(* ReadyIsComplete: a cache that was opened has every column that its queries  *)
(* name, however many openers run the list at once and wherever they die       *)
(* (SqliteStore::open, run_migrations).                                        *)
THEOREM CachesAreComplete == CacheSpec => []ReadyIsComplete
<1>1. CacheInit => CacheInv
  <2> SUFFICES ASSUME CacheInit PROVE CacheInv
    OBVIOUS
  <2>1. columns \subseteq 1..Entries /\ tables \in BOOLEAN
    BY CacheAssumption DEF CacheInit, CacheAssumption
  <2>2. CacherOK(Shut, tables, columns)
    BY DEF CacherOK, Shut
  <2> QED  BY <2>1, <2>2 DEF CacheInit, CacheInv
<1>2. CacheInv => ReadyIsComplete
  BY DEF CacheInv, CacherOK, ReadyIsComplete
<1> QED  BY <1>1, <1>2, CacheNextKeeps, PTL DEF CacheSpec

(* OpenedIsComplete: whichever of the two databases was opened, it has what    *)
(* its statements name (ExplorerStore::open, SqliteStore::open).               *)
THEOREM StoresAreComplete == SchemaSpec /\ Whole(file) /\ CacheSpec => []OpenedIsComplete
<1>1. OpenIsHead /\ ReadyIsComplete => OpenedIsComplete
  BY DEF OpenedIsComplete
<1> QED  BY <1>1, OpenedIsHead, CachesAreComplete, PTL
===================================================================================
