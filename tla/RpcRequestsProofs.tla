---------------------------- MODULE RpcRequestsProofs ----------------------------
(***************************************************************************)
(* QuotaKept and RowsAreTheBlocks for any providers, rates, blocks, tasks  *)
(* and bounds. The first invariant relates a bucket to what the configured *)
(* rate would still admit: what is in the bucket, with what it would be    *)
(* credited at the full rate for the time it was left alone, never exceeds *)
(* it. The full rate, because that time is credited at whatever rate holds *)
(* when somebody looks. The second says of an operation that takes blocks  *)
(* that its rows are the first it wanted and that the parts it has still   *)
(* to ask for lie between consecutive cuts of the others.                  *)
(***************************************************************************)
EXTENDS RpcRequests, SequenceTheorems, FiniteSetTheorems, WellFoundedInduction, TLAPS

-----------------------------------------------------------------------------------
(* The quota.                                                              *)


Full(p) == More(One, Rps[p])

Fields == {"weight", "alive", "cool", "fails", "capable", "tokens", "age", "rate", "burst"}

(* A bucket and the weight it follows, within what a provider may have.    *)
Within(s, p) ==
    /\ s = [f \in Fields |-> s[f]]
    /\ s.weight \in Nat /\ s.weight <= Rps[p]
    /\ s.rate \in Nat /\ s.rate <= Rps[p]
    /\ s.burst \in Nat /\ s.burst <= Full(p)
    /\ s.tokens \in Nat /\ s.age \in Nat

(* What a bucket may give out without the time that is still to pass.      *)
Reach(s, p) == Less(Full(p), s.tokens + s.age * Rps[p])

(* What a provider may still get, with what the check at the start took.   *)
Admitted(p) == allowance[p] + One * opening[p]

QuotaInv ==
    /\ provider = [p \in Providers |-> provider[p]]
    /\ allowance \in [Providers -> Int] /\ opening \in [Providers -> Nat]
    /\ task = [t \in Tasks |-> task[t]] /\ \A t \in Tasks : DOMAIN task[t] = DOMAIN Idle
    /\ \A p \in Providers : Within(provider[p], p)
    /\ \A p \in Providers : Limited(p) => Reach(provider[p], p) <= Admitted(p)

(* Credit at a rate below the configured one is below the credit at that.  *)
LEMMA Credit ==
  ASSUME NEW a \in Nat, NEW r \in Nat, NEW R \in Nat, r <= R
  PROVE  a * r \in Nat /\ a * R \in Nat /\ a * r <= a * R
<1>1. R = r + (R - r) /\ R - r \in Nat
  OBVIOUS
<1>2. \A d \in Nat : a * (r + d) = a * r + a * d /\ a * d \in Nat /\ a * r \in Nat
  OBVIOUS
<1> QED
  BY <1>1, <1>2

(* A second more is the rate more.                                         *)
LEMMA OneMore == \A a \in Nat, R \in Nat : (a + 1) * R = a * R + R
  OBVIOUS

(* A configured rate is a number.                                          *)
LEMMA RateIsNat == \A p \in Providers : Rps[p] \in Nat
  BY RequestsAssumption DEF RequestsAssumption

(* A weight stays between nothing and the configured rate.                 *)
LEMMA ReducedIsBelow ==
  ASSUME NEW p \in Providers, NEW w \in Nat, w <= Rps[p]
  PROVE  Reduced(w, p) \in Nat /\ Reduced(w, p) <= Rps[p]
  BY RequestsAssumption DEF RequestsAssumption, Reduced, Limited, More

(* What a bucket can reach is a number.                                    *)
LEMMA ReachIsNat ==
  ASSUME NEW p \in Providers, NEW s, Within(s, p)
  PROVE  Reach(s, p) \in Nat
<1>1. Rps[p] \in Nat /\ Full(p) \in Nat /\ s.age \in Nat /\ s.tokens \in Nat
  BY RequestsAssumption DEF RequestsAssumption, Full, More, One, Within
<1>2. s.age * Rps[p] \in Nat
  BY <1>1, Credit
<1> QED
  BY <1>1, <1>2 DEF Reach, Less

(* An answer, a failure and a throttled request leave the tokens and their *)
(* age alone and keep the bucket within its limits.                        *)
LEMMA RatedIsWithin ==
  ASSUME NEW p \in Providers, NEW s, Within(s, p),
         NEW w \in Nat, w <= Rps[p],
         NEW n, n = [f \in Fields |-> n[f]], n.tokens = s.tokens, n.age = s.age, n.weight = w,
         \/ n.rate = s.rate /\ n.burst = s.burst
         \/ n.rate = w /\ n.burst = More(One, w)
  PROVE  Within(n, p) /\ Reach(n, p) = Reach(s, p)
<1>1. n.rate \in Nat /\ n.rate <= Rps[p]
  BY DEF Within
<1>2. n.burst \in Nat /\ n.burst <= Full(p)
  BY RateIsNat DEF Within, Full, More, One
<1>3. Within(n, p)
  BY <1>1, <1>2 DEF Within
<1>4. Reach(n, p) = Reach(s, p)
  BY DEF Reach
<1> QED
  BY <1>3, <1>4

LEMMA HealthMovesWeight ==
  ASSUME NEW p \in Providers, NEW s, Within(s, p),
         NEW n \in {Succeeded(p, s), Failed(p, s), Throttled(p, s), Dead(p, s),
                    [s EXCEPT !.capable = FALSE]}
  PROVE  Within(n, p) /\ Reach(n, p) = Reach(s, p)
<1>1. s = [f \in Fields |-> s[f]] /\ s.weight \in Nat /\ s.weight <= Rps[p] /\ Rps[p] \in Nat
  BY RequestsAssumption DEF RequestsAssumption, Within
<1>2. CASE n = Succeeded(p, s)
  <2> DEFINE w == Less(Rps[p], (3 * s.weight + 1) \div 2)
  <2>2. w \in Nat /\ w <= Rps[p]
    BY <1>1 DEF Less
  <2> HIDE DEF w
  <2>3. /\ n = [f \in Fields |-> n[f]] /\ n.tokens = s.tokens /\ n.age = s.age /\ n.weight = w
        /\ n.rate = w /\ n.burst = More(One, w)
    BY <1>1, <1>2 DEF Succeeded, Rated, Fields, w
  <2> QED
    BY <2>2, <2>3, RatedIsWithin
<1>3. CASE n = Failed(p, s)
  <2> DEFINE w == Reduced(s.weight \div 2, p)
  <2>1. s.weight \div 2 \in Nat /\ s.weight \div 2 <= Rps[p]
    BY <1>1
  <2>2. w \in Nat /\ w <= Rps[p]
    BY <2>1, ReducedIsBelow
  <2> HIDE DEF w
  <2>3. /\ n = [f \in Fields |-> n[f]] /\ n.tokens = s.tokens /\ n.age = s.age /\ n.weight = w
        /\ n.rate = w /\ n.burst = More(One, w)
    BY <1>1, <1>3 DEF Failed, Rated, Fields, w
  <2> QED
    BY <2>2, <2>3, RatedIsWithin
<1>4. CASE n = Throttled(p, s)
  <2> DEFINE w == Reduced((7 * s.weight) \div 10, p)
  <2>1. (7 * s.weight) \div 10 \in Nat /\ (7 * s.weight) \div 10 <= Rps[p]
    BY <1>1
  <2>2. w \in Nat /\ w <= Rps[p]
    BY <2>1, ReducedIsBelow
  <2> HIDE DEF w
  <2>3. /\ n = [f \in Fields |-> n[f]] /\ n.tokens = s.tokens /\ n.age = s.age /\ n.weight = w
        /\ n.rate = w /\ n.burst = More(One, w)
    BY <1>1, <1>4 DEF Throttled, Rated, Fields, w
  <2> QED
    BY <2>2, <2>3, RatedIsWithin
<1>5. CASE n = Dead(p, s)
  <2>1. s.weight \div 2 \in Nat /\ s.weight \div 2 <= Rps[p]
    BY <1>1
  <2> QED
    BY <1>1, <1>5, <2>1, ReducedIsBelow, RatedIsWithin DEF Dead, Fields
<1>6. CASE n = [s EXCEPT !.capable = FALSE]
  BY <1>1, <1>6, RatedIsWithin DEF Fields
<1> QED
  BY <1>2, <1>3, <1>4, <1>5, <1>6

(* Looking at a bucket never gives it more than it could reach.            *)
LEMMA RefillIsWithin ==
  ASSUME NEW p \in Providers, NEW s, Within(s, p)
  PROVE  LET r == Refilled(s) IN
         /\ Within(r, p) /\ Reach(r, p) <= Reach(s, p)
         /\ r.age = 0 /\ r.tokens <= Full(p) /\ r.tokens <= Reach(s, p)
<1> DEFINE r == Refilled(s)
<1>1. /\ s = [f \in Fields |-> s[f]] /\ s.tokens \in Nat /\ s.age \in Nat
      /\ s.rate \in Nat /\ s.rate <= Rps[p] /\ s.burst \in Nat /\ s.burst <= Full(p)
      /\ Rps[p] \in Nat /\ Full(p) \in Nat
  BY RequestsAssumption DEF RequestsAssumption, Within, Full, More, One
<1>2. /\ s.age * s.rate \in Nat /\ s.age * Rps[p] \in Nat
      /\ s.age * s.rate <= s.age * Rps[p]
  BY <1>1, Credit
<1>3. r = [s EXCEPT !.tokens = Less(s.burst, s.tokens + s.age * s.rate), !.age = 0]
  BY <1>1 DEF Refilled, Fields
<1>4. /\ r = [f \in Fields |-> r[f]] /\ r.age = 0
      /\ r.tokens = Less(s.burst, s.tokens + s.age * s.rate)
      /\ r.weight = s.weight /\ r.rate = s.rate /\ r.burst = s.burst
  BY <1>1, <1>3 DEF Fields
<1> HIDE DEF r
<1>5. /\ r.tokens \in Nat /\ r.tokens <= Full(p) /\ r.tokens <= s.tokens + s.age * Rps[p]
  BY <1>1, <1>2, <1>4 DEF Less
<1>6. Reach(s, p) \in Int /\ r.tokens <= Reach(s, p)
  BY <1>1, <1>2, <1>5 DEF Reach, Less
<1>7. r.age * Rps[p] = 0
  BY <1>1, <1>4
<1>8. Reach(r, p) = r.tokens
  BY <1>1, <1>5, <1>7 DEF Reach, Less
<1>9. Within(r, p)
  BY <1>4, <1>5 DEF Within
<1> QED
  BY <1>4, <1>5, <1>6, <1>8, <1>9 DEF r

(* A second more is at most the rate more.                                 *)
LEMMA AgeingIsWithin ==
  ASSUME NEW p \in Providers, NEW s, Within(s, p), NEW c, NEW a \in Nat, a <= s.age + 1
  PROVE  LET n == [s EXCEPT !.cool = c, !.age = a] IN
         Within(n, p) /\ Reach(n, p) <= Less(Full(p), Reach(s, p) + Rps[p])
<1> DEFINE n == [s EXCEPT !.cool = c, !.age = a]
<1>1. /\ s = [f \in Fields |-> s[f]] /\ s.tokens \in Nat /\ s.age \in Nat
      /\ Rps[p] \in Nat /\ Full(p) \in Nat
  BY RequestsAssumption DEF RequestsAssumption, Within, Full, More, One
<1>2. n = [f \in Fields |-> n[f]] /\ n.age = a /\ n.tokens = s.tokens
      /\ n.weight = s.weight /\ n.rate = s.rate /\ n.burst = s.burst
  BY <1>1 DEF Fields
<1> HIDE DEF n
<1>3. Within(n, p)
  BY <1>2 DEF Within
<1>4. (s.age + 1) * Rps[p] = s.age * Rps[p] + Rps[p] /\ s.age * Rps[p] \in Nat
  <2>1. s.age \in Nat /\ Rps[p] \in Nat /\ Rps[p] <= Rps[p]
    BY <1>1
  <2> QED
    BY <2>1, OneMore, Credit
<1>5. a * Rps[p] \in Nat /\ a * Rps[p] <= s.age * Rps[p] + Rps[p]
  <2>1. \A x, y, R \in Nat : x <= y => x * R \in Nat /\ x * R <= y * R
    <3> TAKE x, y, R \in Nat
    <3>1. R * x = x * R /\ R * y = y * R
      OBVIOUS
    <3> QED
      BY <3>1, Credit
  <2>2. s.age + 1 \in Nat
    BY <1>1
  <2> QED
    BY <1>1, <1>4, <2>1, <2>2
<1>6. Reach(n, p) <= Less(Full(p), Reach(s, p) + Rps[p])
  <2>1. \A f, k, R, u \in Nat, v \in Nat : v <= u + R =>
            Less(f, k + v) <= Less(f, Less(f, k + u) + R)
    BY DEF Less
  <2>2. Less(Full(p), s.tokens + a * Rps[p])
          <= Less(Full(p), Less(Full(p), s.tokens + s.age * Rps[p]) + Rps[p])
    BY <1>1, <1>4, <1>5, <2>1
  <2> QED
    BY <1>2, <2>2 DEF Reach
<1> QED
  BY <1>3, <1>6 DEF n

(* Back in its operation, a call asks for another list or is done.         *)
LEMMA AfterIsNotSent ==
  ASSUME NEW x, DOMAIN x = DOMAIN Idle, NEW ok
  PROVE  DOMAIN After(x, ok) = DOMAIN Idle /\ After(x, ok).pc \in {"list", "done"}
<1>1. \A y, ask : DOMAIN y = DOMAIN Idle =>
         DOMAIN Calling(y, ask) = DOMAIN Idle /\ Calling(y, ask).pc = "list"
  BY DEF Calling, Idle
<1>2. \A y, b : DOMAIN Done(y, b) = DOMAIN Idle /\ Done(y, b).pc = "done"
  BY DEF Done, Idle
<1>3. \A y : DOMAIN y = DOMAIN Idle =>
         DOMAIN Searching(y) = DOMAIN Idle /\ Searching(y).pc \in {"list", "done"}
  BY <1>1, <1>2 DEF Searching
<1>4. DOMAIN BlocksAfter(x, ok) = DOMAIN Idle /\ BlocksAfter(x, ok).pc \in {"list", "done"}
  BY <1>1, <1>2 DEF BlocksAfter
<1>5. DOMAIN HorizonAfter(x, ok) = DOMAIN Idle /\ HorizonAfter(x, ok).pc \in {"list", "done"}
  BY <1>2, <1>3 DEF HorizonAfter, Narrowed
<1> QED
  BY <1>2, <1>4, <1>5 DEF After

(* Whoever turns to a limited provider waits for a token first.            *)
LEMMA TurnsAreNotSent ==
  ASSUME NEW x, DOMAIN x = DOMAIN Idle, NEW y \in Turns(x)
  PROVE  DOMAIN y = DOMAIN Idle /\ ~(y.pc = "sent" /\ Limited(y.at))
<1>1. CASE MoreToTry(x)
  BY <1>1 DEF Turns, Idle
<1>2. CASE ~MoreToTry(x)
  BY <1>2, AfterIsNotSent DEF Turns, Idle
<1> QED
  BY <1>1, <1>2


(* A task that goes on without a token leaves the allowances as they are.  *)
LEMMA TaskMoves ==
  ASSUME QuotaInv, NEW t \in Tasks, NEW x, DOMAIN x = DOMAIN Idle,
         ~(x.pc = "sent" /\ Limited(x.at)), At(t, x)
  PROVE  /\ allowance' = allowance
         /\ task' = [u \in Tasks |-> task'[u]] /\ \A u \in Tasks : DOMAIN task'[u] = DOMAIN Idle
<1>1. allowance' = allowance /\ task' = [task EXCEPT ![t] = x]
  BY DEF At
<1> QED
  BY <1>1 DEF QuotaInv

(* A step that moves a task without a token, and at most the health of one *)
(* provider, preserves QuotaInv.                                           *)
LEMMA HealthStep ==
  ASSUME QuotaInv, NEW p, allowance' = allowance, opening' = opening,
         task' = [u \in Tasks |-> task'[u]] /\ \A u \in Tasks : DOMAIN task'[u] = DOMAIN Idle,
         \/ provider' = provider
         \/ \E n \in {Succeeded(p, provider[p]), Failed(p, provider[p]),
                       Throttled(p, provider[p]), Dead(p, provider[p]),
                       [provider[p] EXCEPT !.capable = FALSE]} :
                provider' = [provider EXCEPT ![p] = n]
  PROVE  QuotaInv'
<1>1. \A q \in Providers : Within(provider'[q], q) /\ Reach(provider'[q], q) = Reach(provider[q], q)
  <2> TAKE q \in Providers
  <2>0. Within(provider[q], q)
    BY DEF QuotaInv
  <2>1. CASE provider' = provider
    BY <2>0, <2>1
  <2>2. CASE provider' # provider
    <3>1. PICK n \in {Succeeded(p, provider[p]), Failed(p, provider[p]),
                      Throttled(p, provider[p]), Dead(p, provider[p]),
                      [provider[p] EXCEPT !.capable = FALSE]} :
                  provider' = [provider EXCEPT ![p] = n]
      BY <2>2
    <3>2. CASE q = p
      <4>1. provider'[q] = n
        BY <3>1, <3>2 DEF QuotaInv
      <4>2. n \in {Succeeded(q, provider[q]), Failed(q, provider[q]),
                    Throttled(q, provider[q]), Dead(q, provider[q]),
                    [provider[q] EXCEPT !.capable = FALSE]}
        BY <3>2
      <4> DEFINE b == provider[q]
      <4>3. Within(b, q)
        BY <2>0
      <4> HIDE DEF b
      <4>4. \A m \in {Succeeded(q, b), Failed(q, b), Throttled(q, b), Dead(q, b),
                      [b EXCEPT !.capable = FALSE]} :
               Within(m, q) /\ Reach(m, q) = Reach(b, q)
        BY <4>3, HealthMovesWeight
      <4> QED
        BY <4>1, <4>2, <4>4 DEF b
    <3>3. CASE q # p
      <4>1. provider'[q] = provider[q]
        BY <3>1, <3>3 DEF QuotaInv
      <4> QED
        BY <2>0, <4>1
    <3> QED
      BY <3>2, <3>3
  <2> QED
    BY <2>1, <2>2
<1>2. provider' = [q \in Providers |-> provider'[q]]
  BY DEF QuotaInv
<1> QED
  BY <1>1, <1>2 DEF QuotaInv, Admitted

(* QuotaInv holds initially.                                               *)
LEMMA QuotaInit == Init => QuotaInv
<1> SUFFICES ASSUME Init PROVE QuotaInv
  OBVIOUS
<1>1. ASSUME NEW p \in Providers
      PROVE  Within(provider[p], p) /\ Reach(provider[p], p) <= Admitted(p)
             /\ allowance[p] \in Int
  <2>1. Rps[p] \in Nat
    BY RequestsAssumption DEF RequestsAssumption
  <2> QED
    BY <1>1, <2>1 DEF Init, Within, Reach, Fields, Full, More, Less, One, Admitted
<1>2. provider = [p \in Providers |-> provider[p]] /\ task = [t \in Tasks |-> task[t]]
  BY DEF Init
<1>3. \A t \in Tasks : DOMAIN task[t] = DOMAIN Idle
  BY DEF Init, Idle
<1>4. allowance \in [Providers -> Int] /\ opening \in [Providers -> Nat]
  BY <1>1, RequestsAssumption DEF Init, RequestsAssumption
<1> QED
  BY <1>1, <1>2, <1>3, <1>4 DEF QuotaInv

(* Every step preserves QuotaInv.                                          *)
LEMMA QuotaStep == QuotaInv /\ [Next]_vars => QuotaInv'
<1> SUFFICES ASSUME QuotaInv, [Next]_vars PROVE QuotaInv'
  OBVIOUS
<1>1. CASE Tick
  <2>1. ASSUME NEW p \in Providers
        PROVE  /\ Within(provider'[p], p) /\ allowance'[p] \in Int
               /\ Limited(p) => Reach(provider'[p], p) <= Admitted(p)'
    <3> DEFINE c == More(0, provider[p].cool - 1)
               a == IF Limited(p) THEN Less(MaxAge, provider[p].age + 1) ELSE 0
    <3>1. /\ provider'[p] = [provider[p] EXCEPT !.cool = c, !.age = a]
          /\ allowance'[p] = Less(Full(p), allowance[p] + Rps[p])
      <4>1. \E f : provider[p] = [g \in Fields |-> f[g]]
        BY DEF QuotaInv, Within
      <4> QED
        BY <1>1, <4>1 DEF Tick, Full, Fields
    <3>2. Within(provider[p], p) /\ (Limited(p) => Reach(provider[p], p) <= Admitted(p))
          /\ allowance[p] \in Int /\ opening[p] \in Nat /\ opening' = opening /\ Rps[p] \in Nat /\ Full(p) \in Nat
      BY <1>1, RequestsAssumption DEF Tick, RequestsAssumption, QuotaInv, Full, More, One
    <3>3. a \in Nat /\ a <= provider[p].age + 1
      <4>1. MaxAge \in Nat
        BY RequestsAssumption DEF RequestsAssumption
      <4>2. provider[p].age \in Nat
        BY <3>2 DEF Within
      <4> QED
        BY <4>1, <4>2 DEF Less
    <3> HIDE DEF c, a
    <3> DEFINE n == [provider[p] EXCEPT !.cool = c, !.age = a]
    <3>4. Within(n, p) /\ Reach(n, p) <= Less(Full(p), Reach(provider[p], p) + Rps[p])
      BY <3>2, <3>3, AgeingIsWithin
    <3> HIDE DEF n
    <3>5. Reach(provider[p], p) \in Nat /\ Reach(n, p) \in Nat
      BY <3>2, <3>4, ReachIsNat
    <3>6. provider'[p] = n
      BY <3>1 DEF n
    <3>7. Limited(p) => Reach(n, p) <= Less(Full(p), allowance[p] + Rps[p]) + One * opening[p]
      BY <3>2, <3>4, <3>5 DEF Less, Admitted, One
    <3>8. Less(Full(p), allowance[p] + Rps[p]) \in Int
      BY <3>2 DEF Less
    <3> QED
      BY <3>1, <3>2, <3>4, <3>6, <3>7, <3>8 DEF Admitted
  <2>2. /\ provider' = [p \in Providers |-> provider'[p]]
        /\ allowance' = [p \in Providers |-> allowance'[p]] /\ task' = task /\ opening' = opening
    BY <1>1 DEF Tick
  <2> QED
    BY <2>1, <2>2 DEF QuotaInv
<1>2. ASSUME NEW p \in Providers, Flip(p) PROVE QuotaInv'
  BY <1>2 DEF Flip, QuotaInv, Admitted
<1>3. CASE Connect
  <2>1. /\ provider' = [p \in Providers |-> provider'[p]] /\ task' = [t \in Tasks |-> task'[t]]
        /\ \A t \in Tasks : task'[t] = Idle
        /\ \A p \in Providers : provider'[p] \in {provider[p], Dead(p, provider[p])}
    BY <1>3 DEF Connect
  <2>2. \A p \in Providers : Within(provider[p], p)
    BY DEF QuotaInv
  <2>3. \A p \in Providers : Within(provider'[p], p)
                             /\ Reach(provider'[p], p) = Reach(provider[p], p)
    BY <2>1, <2>2, HealthMovesWeight
  <2>4. PICK sent \in [Providers -> 0 .. Attempts] :
           /\ opening' = [p \in Providers |-> opening[p] + sent[p]]
           /\ allowance' = [p \in Providers |-> allowance[p] - One * sent[p]]
    BY <1>3 DEF Connect
  <2>5. /\ allowance \in [Providers -> Int] /\ opening \in [Providers -> Nat]
        /\ Attempts \in Nat
    BY RequestsAssumption DEF RequestsAssumption, QuotaInv
  <2>6. ASSUME NEW p \in Providers
        PROVE  /\ opening'[p] \in Nat /\ allowance'[p] \in Int
               /\ Admitted(p)' = Admitted(p)
    <3>1. sent[p] \in Nat /\ allowance[p] \in Int /\ opening[p] \in Nat
      BY <2>5
    <3> QED
      BY <2>4, <3>1 DEF Admitted, One
  <2>7. opening' \in [Providers -> Nat] /\ allowance' \in [Providers -> Int]
    BY <2>4, <2>6
  <2> QED
    BY <2>1, <2>3, <2>6, <2>7 DEF QuotaInv
<1>4. ASSUME NEW t \in Tasks, Start(t) PROVE QuotaInv'
  <2>9. opening' = opening
    BY <1>4 DEF Start
  <2>1. PICK x : At(t, x) /\ (DetectHorizon = x \/ \E b \in Batches : x = GetBlocks(b))
    BY <1>4 DEF Start
  <2>2. DOMAIN x = DOMAIN Idle /\ x.pc = "list"
    BY <2>1 DEF DetectHorizon, GetBlocks, Calling, Idle
  <2>3. provider' = provider
    BY <1>4 DEF Start
  <2> QED
    BY <2>1, <2>2, <2>3, TaskMoves, HealthStep, <2>9
<1>5. ASSUME NEW t \in Tasks, StartStrict(t) PROVE QuotaInv'
  <2>9. opening' = opening
    BY <1>5 DEF StartStrict
  <2>1. PICK op \in {"code", "logs"}, p \in Awake :
           At(t, [Idle EXCEPT !.op = op, !.pc = IF Limited(p) THEN "permit" ELSE "sent",
                              !.at = p, !.ask = <<Tip>>])
    BY <1>5 DEF StartStrict, BestForCode, Capable
  <2> DEFINE x == [Idle EXCEPT !.op = op, !.pc = IF Limited(p) THEN "permit" ELSE "sent",
                              !.at = p, !.ask = <<Tip>>]
  <2>2. DOMAIN x = DOMAIN Idle /\ ~(x.pc = "sent" /\ Limited(x.at))
    BY DEF Idle
  <2> HIDE DEF x
  <2>3. provider' = provider /\ At(t, x)
    BY <1>5, <2>1 DEF StartStrict, x
  <2> QED
    BY <2>2, <2>3, TaskMoves, HealthStep, <2>9
<1>6. ASSUME NEW t \in Tasks, List(t) PROVE QuotaInv'
  <2>9. opening' = opening
    BY <1>6 DEF List
  <2> DEFINE x == [task[t] EXCEPT !.groups = Groups(task[t]), !.first = FALSE, !.found = FALSE]
  <2>1. DOMAIN x = DOMAIN Idle
    BY DEF QuotaInv
  <2>2. Turn(t, x) /\ provider' = provider
    BY <1>6 DEF List
  <2> HIDE DEF x
  <2>3. PICK y \in Turns(x) : At(t, y)
    BY <2>2 DEF Turn
  <2>4. DOMAIN y = DOMAIN Idle /\ ~(y.pc = "sent" /\ Limited(y.at))
    BY <2>1, TurnsAreNotSent
  <2> QED
    BY <2>2, <2>3, <2>4, TaskMoves, HealthStep, <2>9
<1>7. ASSUME NEW t \in Tasks, Acquire(t) PROVE QuotaInv'
  <2>9. opening' = opening
    BY <1>7 DEF Acquire
  <2> DEFINE p == task[t].at
             s == Refilled(provider[p])
             y == [task[t] EXCEPT !.pc = "sent"]
  <2>1. p \in Providers => /\ Within(s, p) /\ Reach(s, p) <= Reach(provider[p], p) /\ s.age = 0
                           /\ s.tokens <= Full(p) /\ s.tokens <= Reach(provider[p], p)
    BY RefillIsWithin DEF QuotaInv
  <2>2. \A q \in Providers : Rps[q] \in Nat /\ Full(q) \in Nat /\ allowance[q] \in Int
                             /\ opening[q] \in Nat /\ Within(provider[q], q)
                             /\ (Limited(q) => Reach(provider[q], q) <= Admitted(q))
    BY RequestsAssumption DEF RequestsAssumption, Full, More, One, QuotaInv
  <2>3. \A q \in Providers : \A b : Within(b, q) => Reach(b, q) \in Int
    BY ReachIsNat
  <2>4. CASE s.tokens < One
    <3>1. provider' = [provider EXCEPT ![p] = s] /\ UNCHANGED <<task, allowance>>
      BY <1>7, <2>4 DEF Acquire
    <3> HIDE DEF s, p
    <3>2. \A q \in Providers : provider'[q] = IF q = p THEN s ELSE provider[q]
      BY <3>1 DEF QuotaInv
    <3>3. \A q \in Providers : Within(provider'[q], q)
                               /\ (Limited(q) => Reach(provider'[q], q) <= Admitted(q)')
      <4> TAKE q \in Providers
      <4>1. Admitted(q)' = Admitted(q) /\ Admitted(q) \in Int
        BY <2>2, <2>9, <3>1 DEF Admitted, One
      <4>2. CASE q = p
        <5>1. Reach(s, p) \in Int /\ Reach(provider[p], p) \in Int
          BY <2>1, <2>2, <2>3, <4>2
        <5> QED
          BY <2>1, <2>2, <3>2, <4>1, <4>2, <5>1
      <4>3. CASE q # p
        BY <2>2, <3>2, <4>1, <4>3
      <4> QED
        BY <4>2, <4>3
    <3> QED
      BY <2>9, <3>1, <3>3 DEF QuotaInv
  <2>5. CASE ~(s.tokens < One)
    <3> DEFINE n == [s EXCEPT !.tokens = s.tokens - One]
    <3>1. provider' = [provider EXCEPT ![p] = [s EXCEPT !.tokens = @ - One]] /\ At(t, y)
      BY <1>7, <2>5 DEF Acquire
    <3>2. DOMAIN y = DOMAIN Idle /\ y.pc = "sent" /\ y.at = p
      BY DEF QuotaInv, Idle
    <3> HIDE DEF s, p, y
    <3>3. /\ task' = [task EXCEPT ![t] = y]
          /\ allowance' = IF Limited(p) THEN [allowance EXCEPT ![p] = @ - One] ELSE allowance
      BY <3>1, <3>2 DEF At
    <3>4. \A q \in Providers :
             /\ provider'[q] = IF q = p THEN n ELSE provider[q]
             /\ allowance'[q] = IF q = p /\ Limited(q) THEN allowance[q] - One ELSE allowance[q]
      BY <3>1, <3>3 DEF QuotaInv
    <3>5. p \in Providers => Within(n, p) /\ Reach(n, p) = s.tokens - One
      <4> SUFFICES ASSUME p \in Providers PROVE Within(n, p) /\ Reach(n, p) = s.tokens - One
        OBVIOUS
      <4>1. Within(s, p) /\ s.age = 0 /\ s.tokens <= Full(p) /\ s.tokens \in Nat
        BY <2>1 DEF Within
      <4>2. n = [f \in Fields |-> n[f]] /\ n.tokens = s.tokens - One /\ n.age = 0
            /\ n.weight = s.weight /\ n.rate = s.rate /\ n.burst = s.burst
        BY <4>1 DEF Within, Fields
      <4>3. s.tokens - One \in Nat
        BY <2>5, <4>1 DEF One
      <4>4. Within(n, p)
        BY <4>1, <4>2, <4>3 DEF Within
      <4>5. n.age * Rps[p] = 0
        BY <2>2, <4>2
      <4> QED
        BY <2>2, <4>1, <4>2, <4>3, <4>4, <4>5 DEF Reach, Less, One
    <3> HIDE DEF n
    <3>6. \A q \in Providers : Within(provider'[q], q) /\ allowance'[q] \in Int
                               /\ (Limited(q) => Reach(provider'[q], q) <= Admitted(q)')
      <4> TAKE q \in Providers
      <4>1. CASE q = p
        <5>1. s.tokens <= Reach(provider[p], p) /\ Reach(provider[p], p) \in Int
          BY <2>1, <2>2, <2>3, <4>1
        <5>2. s.tokens \in Int
          BY <2>1, <4>1 DEF Within
        <5> QED
          BY <2>2, <2>9, <3>4, <3>5, <4>1, <5>1, <5>2 DEF One, Admitted
      <4>2. CASE q # p
        BY <2>2, <2>9, <3>4, <4>2 DEF Admitted
      <4> QED
        BY <4>1, <4>2
    <3>7. provider' = [q \in Providers |-> provider'[q]]
          /\ allowance' = [q \in Providers |-> allowance'[q]]
          /\ task' = [u \in Tasks |-> task'[u]] /\ \A u \in Tasks : DOMAIN task'[u] = DOMAIN Idle
      BY <3>1, <3>2, <3>3 DEF QuotaInv
    <3> QED
      BY <2>9, <3>6, <3>7 DEF QuotaInv
  <2> QED
    BY <2>4, <2>5
<1>8. ASSUME NEW t \in Tasks, Answered(t) PROVE QuotaInv'
  <2>9. opening' = opening
    BY <1>8 DEF Answered
  <2> DEFINE x == task[t]
  <2>1. DOMAIN x = DOMAIN Idle
    BY DEF QuotaInv
  <2>2. DOMAIN After(x, TRUE) = DOMAIN Idle /\ After(x, TRUE).pc \in {"list", "done"}
    BY <2>1, AfterIsNotSent
  <2>3. At(t, After(x, TRUE))
        /\ \/ provider' = provider
           \/ provider' = [provider EXCEPT ![x.at] = Succeeded(x.at, provider[x.at])]
    BY <1>8 DEF Answered, Recorded
  <2> HIDE DEF x
  <2> QED
    BY <2>2, <2>3, TaskMoves, HealthStep, <2>9
<1>9. ASSUME NEW t \in Tasks, Repeat(t) PROVE QuotaInv'
  <2>9. opening' = opening
    BY <1>9 DEF Repeat
  <2>1. DOMAIN Retry(task[t]) = DOMAIN Idle
        /\ ~(Retry(task[t]).pc = "sent" /\ Limited(Retry(task[t]).at))
    BY DEF QuotaInv, Retry, Idle
  <2>2. At(t, Retry(task[t])) /\ provider' = provider
    BY <1>9 DEF Repeat
  <2> QED
    BY <2>1, <2>2, TaskMoves, HealthStep, <2>9
<1>10. ASSUME NEW t \in Tasks, GivesUpOn(t) \/ Declines(t) PROVE QuotaInv'
  <2>9. opening' = opening
    BY <1>10 DEF GivesUpOn, Declines
  <2> DEFINE x == task[t]
  <2>1. DOMAIN x = DOMAIN Idle
    BY DEF QuotaInv
  <2>2. Turn(t, x)
        /\ \E n \in {Succeeded(x.at, provider[x.at]), Failed(x.at, provider[x.at]),
                     Throttled(x.at, provider[x.at]), Dead(x.at, provider[x.at]),
                     [provider[x.at] EXCEPT !.capable = FALSE]} :
               provider' = [provider EXCEPT ![x.at] = n]
    BY <1>10 DEF GivesUpOn, Declines, Recorded
  <2> HIDE DEF x
  <2>3. PICK y \in Turns(x) : At(t, y)
    BY <2>2 DEF Turn
  <2>4. DOMAIN y = DOMAIN Idle /\ ~(y.pc = "sent" /\ Limited(y.at))
    BY <2>1, TurnsAreNotSent
  <2> QED
    BY <2>2, <2>3, <2>4, TaskMoves, HealthStep, <2>9
<1>11. ASSUME NEW t \in Tasks, StrictFails(t) PROVE QuotaInv'
  <2>9. opening' = opening
    BY <1>11 DEF StrictFails
  <2>1. DOMAIN Done(task[t], FALSE) = DOMAIN Idle /\ Done(task[t], FALSE).pc = "done"
    BY DEF Done, Idle
  <2>2. At(t, Done(task[t], FALSE)) /\ provider' = provider
    BY <1>11 DEF StrictFails
  <2> QED
    BY <2>1, <2>2, TaskMoves, HealthStep, <2>9
<1>12. CASE UNCHANGED vars
  BY <1>12 DEF vars, QuotaInv, Admitted
<1> QED
  BY <1>1, <1>2, <1>3, <1>4, <1>5, <1>6, <1>7, <1>8, <1>9, <1>10, <1>11, <1>12
  DEF Next, Proceed

(* No provider is ever asked more than its configured burst and rate admit *)
(* and the check at the start has asked it, however many tasks share the   *)
(* client, whatever is repeated, and however its weight moves the rate of  *)
(* its bucket (acquire, set_rate, retry_call_impl,                         *)
(* check_provider_connectivity).                                           *)
THEOREM QuotaIsKept == Spec => []QuotaKept
<1>1. QuotaInv => QuotaKept
  <2> SUFFICES ASSUME QuotaInv, NEW p \in Providers, Limited(p) PROVE Admitted(p) >= 0
    BY DEF QuotaKept, Admitted
  <2>1. /\ Reach(provider[p], p) <= Admitted(p) /\ Admitted(p) \in Int /\ Rps[p] \in Nat
        /\ Full(p) \in Nat /\ provider[p].tokens \in Nat /\ provider[p].age \in Nat
    BY RequestsAssumption DEF RequestsAssumption, QuotaInv, Within, Full, More, One, Admitted
  <2>2. provider[p].age * Rps[p] \in Nat
    BY <2>1, Credit
  <2>3. Reach(provider[p], p) \in Nat
    BY <2>1, <2>2 DEF Reach, Less
  <2> QED
    BY <2>1, <2>3
<1> QED
  BY QuotaInit, QuotaStep, <1>1, PTL DEF Spec

-----------------------------------------------------------------------------------
(* The rows of a batch.                                                    *)

(* A nonempty set of numbers has a least element.                          *)
LEMMA LeastExists ==
  ASSUME NEW S, S \subseteq Nat, S # {}
  PROVE  \E x \in S : \A y \in S : x <= y
<1>1. PICK x \in S : \A y \in S : ~ (<<y, x>> \in OpToRel(<, Nat))
  BY NatLessThanWellFounded, WFMin
<1>2. \A y \in S : ~ (y < x)
  BY <1>1 DEF OpToRel
<1> QED
  BY <1>2

(* There is one way to put the numbers from 1 to n in order.               *)
LEMMA OrderIsCounting ==
  ASSUME NEW n \in Nat, NEW s \in [1..n -> 1..n],
         \A i, j \in 1..n : i < j => s[i] < s[j]
  PROVE  \A k \in 1..n : s[k] = k
<1>1. ASSUME NEW k \in 1..n, s[k] < k PROVE FALSE
  <2> DEFINE low == {i \in 1..n : s[i] < i}
  <2>0. low \subseteq Nat /\ low # {}
    BY <1>1
  <2>1. PICK i \in low : \A j \in low : i <= j
    <3> HIDE DEF low
    <3> QED
      BY <2>0, LeastExists
  <2>2. s[i] \in 1..n /\ s[i] < i
    BY <2>1
  <2>3. s[s[i]] < s[i]
    BY <2>1, <2>2
  <2> QED
    BY <2>1, <2>2, <2>3
<1>2. ASSUME NEW k \in 1..n, s[k] > k PROVE FALSE
  <2> DEFINE high == {d \in 0..n : n - d \in 1..n /\ s[n - d] > n - d}
  <2>1. n - k \in high
    BY <1>2
  <2>0. high \subseteq Nat
    OBVIOUS
  <2>2. PICK d \in high : \A e \in high : d <= e
    <3> HIDE DEF high
    <3> QED
      BY <2>0, <2>1, LeastExists
  <2> DEFINE i == n - d
  <2>3. i \in 1..n /\ s[i] \in 1..n /\ s[i] > i /\ s[s[i]] \in 1..n
    BY <2>2
  <2>4. s[i] < s[s[i]]
    BY <2>3
  <2>5. n - s[i] \in high
    BY <2>3, <2>4
  <2> QED
    BY <2>2, <2>3, <2>5
<1> QED
  BY <1>1, <1>2

(* The transactions that are left of a block are a sequence of numbers, and *)
(* the numbers from 1 when those that were dropped stood behind them.       *)
LEMMA StandardIsFinite ==
  ASSUME NEW b \in Blocks
  PROVE  /\ IsFiniteSet(Standard(b)) /\ Cardinality(Standard(b)) \in Nat
         /\ Standard(b) \subseteq Nat
<1>1. DOMAIN Txs[b] = 1..Len(Txs[b]) /\ Len(Txs[b]) \in Nat
  BY RequestsAssumption DEF RequestsAssumption
<1>2. IsFiniteSet(1..Len(Txs[b]))
  BY <1>1, FS_Interval
<1>3. Standard(b) \subseteq 1..Len(Txs[b])
  BY <1>1 DEF Standard
<1> QED
  BY <1>1, <1>2, <1>3, FS_Subset, FS_CardinalityType

LEMMA LeftCounts ==
  ASSUME NEW b \in Blocks, Standard(b) = 1 .. Cardinality(Standard(b))
  PROVE  \E n \in Nat : DOMAIN Left(b) = 1..n /\ \A k \in 1..n : Left(b)[k] = k
<1> DEFINE n == Cardinality(Standard(b))
           Rising(s) == \A i, j \in DOMAIN s : i < j => s[i] < s[j]
<1>1. n \in Nat
  BY StandardIsFinite
<1>2. [k \in 1..n |-> k] \in [1..n -> Standard(b)] /\ Rising([k \in 1..n |-> k])
  BY <1>1
<1>3. Left(b) \in [1..n -> Standard(b)] /\ Rising(Left(b))
  BY <1>2 DEF Left
<1> HIDE DEF n
<1>4. Left(b) \in [1..n -> 1..n] /\ \A i, j \in 1..n : i < j => Left(b)[i] < Left(b)[j]
  BY <1>3 DEF n
<1>5. \A k \in 1..n : Left(b)[k] = k
  BY <1>1, <1>4, OrderIsCounting
<1> QED
  BY <1>1, <1>4, <1>5

(* What a row pairs.                                                       *)
RowIsTrue(b) ==
    LET row == Row(b) IN
    /\ row.number = b
    /\ LET trailing == Standard(row.number) = 1 .. Cardinality(Standard(row.number)) IN
       \A pair \in ByPlace(row) \cup (IF trailing THEN ByIndex(row) ELSE {}) :
           pair[1].hash = pair[2].hash

LEMMA RowsAreTrue == \A b \in Blocks : RowIsTrue(b)
<1> SUFFICES ASSUME NEW b \in Blocks PROVE RowIsTrue(b)
  OBVIOUS
<1> DEFINE row == Row(b)
           txs == [k \in DOMAIN Left(b) |-> [hash |-> Left(b)[k], index |-> k - 1]]
           receipts == [k \in DOMAIN Left(b) |-> [hash |-> Left(b)[k], index |-> Left(b)[k] - 1]]
<1>1. row.number = b /\ row.txs = txs /\ row.receipts = receipts
  BY DEF Row
<1> HIDE DEF row
<1>2. ASSUME NEW pair \in ByPlace(row) PROVE pair[1].hash = pair[2].hash
  <2>1. PICK k \in DOMAIN Left(b) : pair = <<txs[k], receipts[k]>>
    BY <1>1, <1>2 DEF ByPlace
  <2> QED
    BY <2>1
<1>3. ASSUME Standard(b) = 1 .. Cardinality(Standard(b)), NEW pair \in ByIndex(row)
      PROVE  pair[1].hash = pair[2].hash
  <2>1. PICK n \in Nat : DOMAIN Left(b) = 1..n /\ \A k \in 1..n : Left(b)[k] = k
    BY <1>3, LeftCounts
  <2>2. PICK k \in 1..n, j \in 1..n : pair[1] = txs[k] /\ pair[2] = receipts[j]
    BY <1>1, <1>3, <2>1 DEF ByIndex, Range
  <2>3. pair[1].index = pair[2].index
    BY <1>3 DEF ByIndex
  <2>4. txs[k].index = k - 1 /\ receipts[j].index = j - 1 /\ txs[k].hash = k /\ receipts[j].hash = j
    BY <2>1
  <2> HIDE DEF txs, receipts
  <2> QED
    BY <2>2, <2>3, <2>4
<1> QED
  BY <1>1, <1>2, <1>3 DEF RowIsTrue, row

(* The parts of a list that are still to be asked for, after n of its      *)
(* blocks: the list is cut at some places, and each part lies between two. *)
Cuts(wanted, n, work) ==
    \E c \in [1 .. Len(work) + 1 -> 0 .. Len(wanted)] :
        /\ c[1] = n /\ c[Len(work) + 1] = Len(wanted)
        /\ \A i \in 1 .. Len(work) :
              c[i] < c[i + 1] /\ work[i] = SubSeq(wanted, c[i] + 1, c[i + 1])

Lists == Seq(Blocks)

(* The first part follows what was answered, and the others follow it.     *)
LEMMA FirstPart ==
  ASSUME NEW wanted \in Lists, NEW work \in Seq(Lists), work # <<>>, NEW n \in Nat,
         Cuts(wanted, n, work)
  PROVE  LET ask == Head(work) IN
         /\ ask \in Lists /\ Len(ask) \in Nat \ {0} /\ n + Len(ask) <= Len(wanted)
         /\ \A k \in 1 .. Len(ask) : ask[k] = wanted[n + k]
         /\ ask = SubSeq(wanted, n + 1, n + Len(ask))
         /\ Tail(work) \in Seq(Lists) /\ Cuts(wanted, n + Len(ask), Tail(work))
<1> DEFINE ask == Head(work)
           rest == Tail(work)
           m == Len(work)
           e == Len(wanted)
<1>1. /\ m \in Nat \ {0} /\ e \in Nat /\ ask = work[1] /\ rest \in Seq(Lists) /\ Len(rest) = m - 1
      /\ \A i \in 1 .. m - 1 : rest[i] = work[i + 1]
      /\ \A i \in 1 .. e : wanted[i] \in Blocks
  BY EmptySeq, LenProperties, HeadTailProperties DEF Lists
<1>2. PICK c \in [1 .. m + 1 -> 0 .. e] :
          /\ c[1] = n /\ c[m + 1] = e
          /\ \A i \in 1 .. m : c[i] < c[i + 1] /\ work[i] = SubSeq(wanted, c[i] + 1, c[i + 1])
  BY DEF Cuts
<1> HIDE DEF m, e, rest, ask
<1>3. /\ c[2] \in Nat /\ n < c[2] /\ c[2] <= e /\ ask = SubSeq(wanted, n + 1, c[2])
  <2>1. 1 \in 1 .. m /\ 2 \in 1 .. m + 1 /\ 1 + 1 = 2
    BY <1>1
  <2>2. c[2] \in 0 .. e
    BY <1>2, <2>1
  <2>3. c[1] < c[1 + 1] /\ work[1] = SubSeq(wanted, c[1] + 1, c[1 + 1])
    BY <1>2, <2>1
  <2>4. n < c[2] /\ ask = SubSeq(wanted, n + 1, c[2])
    BY <1>1, <1>2, <2>1, <2>3
  <2> QED
    BY <1>1, <2>2, <2>4
<1>4. /\ ask \in Lists /\ Len(ask) = c[2] - n
      /\ \A k \in 1 .. c[2] - n : ask[k] = wanted[n + k]
  <2>1. \A i \in n + 1 .. c[2] : wanted[i] \in Blocks
    BY <1>1, <1>3
  <2>2. /\ ask \in Seq(Blocks) /\ Len(ask) = c[2] - n
        /\ \A k \in 1 .. c[2] - (n + 1) + 1 : ask[k] = wanted[n + 1 + k - 1]
    BY <1>3, <2>1, SubSeqProperties
  <2>3. ASSUME NEW k \in 1 .. c[2] - n PROVE ask[k] = wanted[n + k]
    <3>1. k \in 1 .. c[2] - (n + 1) + 1 /\ n + 1 + k - 1 = n + k
      BY <1>3
    <3> QED
      BY <2>2, <3>1
  <2> QED
    BY <2>2, <2>3 DEF Lists
<1>5. n + Len(ask) = c[2] /\ Len(ask) \in Nat \ {0}
  <2>1. Len(ask) = c[2] - n
    BY <1>4
  <2> QED
    BY <1>3, <2>1
<1>6. Cuts(wanted, c[2], rest)
  <2> DEFINE d == [i \in 1 .. Len(rest) + 1 |-> c[i + 1]]
  <2>1. d \in [1 .. Len(rest) + 1 -> 0 .. Len(wanted)] /\ d[1] = c[2] /\ d[Len(rest) + 1] = Len(wanted)
    <3>1. Len(rest) + 1 = m
      BY <1>1
    <3>2. \A i \in 1 .. m : i + 1 \in 1 .. m + 1
      BY <1>1
    <3>3. \A i \in 1 .. m : c[i + 1] \in 0 .. e
      BY <1>2, <3>2
    <3>4. d \in [1 .. m -> 0 .. e]
      BY <3>1, <3>3
    <3>5. d[1] = c[1 + 1] /\ d[m] = c[m + 1] /\ 1 + 1 = 2
      BY <1>1, <3>1
    <3> QED
      BY <1>2, <3>1, <3>4, <3>5 DEF e
  <2>2. ASSUME NEW i \in 1 .. Len(rest)
        PROVE  d[i] < d[i + 1] /\ rest[i] = SubSeq(wanted, d[i] + 1, d[i + 1])
    <3>1. i + 1 \in 1 .. m /\ i \in 1 .. m - 1
      BY <1>1
    <3>2. d[i] = c[i + 1] /\ d[i + 1] = c[i + 1 + 1]
      BY <3>1, <1>1
    <3>3. rest[i] = work[i + 1]
      BY <1>1, <3>1
    <3> HIDE DEF d
    <3> QED
      BY <1>2, <3>1, <3>2, <3>3
  <2> HIDE DEF d
  <2> QED
    BY <2>1, <2>2 DEF Cuts
<1>7. /\ ask \in Lists /\ Len(ask) \in Nat \ {0} /\ n + Len(ask) <= e
      /\ \A k \in 1 .. Len(ask) : ask[k] = wanted[n + k]
      /\ ask = SubSeq(wanted, n + 1, n + Len(ask))
  <2>1. Len(ask) = c[2] - n
    BY <1>4
  <2>2. \A k \in 1 .. Len(ask) : ask[k] = wanted[n + k]
    BY <1>4, <2>1
  <2> QED
    BY <1>3, <1>4, <1>5, <2>2
<1> QED
  BY <1>1, <1>5, <1>6, <1>7 DEF ask, rest, e

(* A part of a part of a list is a part of the list.                       *)
LEMMA PartOfPart ==
  ASSUME NEW s \in Lists, NEW i \in 1 .. Len(s), NEW j \in 1 .. Len(s),
         NEW a \in 1 .. j - i + 1, NEW b \in 1 .. j - i + 1
  PROVE  SubSeq(SubSeq(s, i, j), a, b) = SubSeq(s, i + a - 1, i + b - 1)
  BY SubSeqOfSubSeq DEF Lists

(* A part that is halved still covers what it did.                         *)
LEMMA HalvedPart ==
  ASSUME NEW wanted \in Lists, NEW work \in Seq(Lists), work # <<>>, NEW n \in Nat,
         Cuts(wanted, n, work), Len(Head(work)) # 1
  PROVE  LET parts == Halves(Head(work)) \o Tail(work) IN
         parts \in Seq(Lists) /\ parts # <<>> /\ Cuts(wanted, n, parts)
<1> DEFINE ask == Head(work)
           rest == Tail(work)
           h == Len(ask) \div 2
           l == Len(ask)
           low == SubSeq(ask, 1, h)
           high == SubSeq(ask, h + 1, l)
           parts == <<low, high>> \o rest
<1>1. /\ ask \in Lists /\ l \in Nat \ {0} /\ n + l <= Len(wanted)
      /\ ask = SubSeq(wanted, n + 1, n + l)
      /\ rest \in Seq(Lists) /\ Cuts(wanted, n + l, rest)
  BY FirstPart
<1>2. h \in Nat /\ 0 < h /\ h < l
  <2>0. l # 1
    OBVIOUS
  <2>3. l \in Nat \ {0}
    BY <1>1
  <2> HIDE DEF l
  <2>1. l \in Nat /\ l > 1
    BY <2>0, <2>3
  <2>2. l \div 2 \in Nat /\ 0 < l \div 2 /\ l \div 2 < l
    BY <2>1
  <2> QED
    BY <2>2 DEF l
<1>0. Len(wanted) \in Nat
  BY LenProperties DEF Lists
<1> HIDE DEF l
<1>3. \A i \in 1 .. l : ask[i] \in Blocks
  BY <1>1, LenProperties DEF Lists, l
<1> HIDE DEF h, ask
<1>4. low \in Lists /\ high \in Lists
  <2>1. low \in Seq(Blocks)
    <3>1. \A i \in 1 .. h : ask[i] \in Blocks
      BY <1>1, <1>2, <1>3
    <3> QED
      BY <1>2, <3>1, SubSeqProperties
  <2>2. high \in Seq(Blocks)
    <3>1. \A i \in h + 1 .. l : ask[i] \in Blocks
      BY <1>1, <1>2, <1>3
    <3> QED
      BY <1>1, <1>2, <3>1, SubSeqProperties
  <2> QED
    BY <2>1, <2>2 DEF Lists
<1>5. low = SubSeq(wanted, n + 1, n + h) /\ high = SubSeq(wanted, n + h + 1, n + l)
  <2> DEFINE i == n + 1
             j == n + l
  <2>1. /\ i \in 1 .. Len(wanted) /\ j \in 1 .. Len(wanted) /\ j - i + 1 = l
        /\ 1 \in 1 .. l /\ h \in 1 .. l /\ h + 1 \in 1 .. l /\ l \in 1 .. l
        /\ i + 1 - 1 = n + 1 /\ i + h - 1 = n + h /\ i + (h + 1) - 1 = n + h + 1 /\ i + l - 1 = n + l
    BY <1>0, <1>1, <1>2
  <2>2. ask = SubSeq(wanted, i, j) /\ wanted \in Seq(Blocks)
    BY <1>1 DEF Lists
  <2> HIDE DEF i, j
  <2>3. SubSeq(SubSeq(wanted, i, j), 1, h) = SubSeq(wanted, i + 1 - 1, i + h - 1)
    BY <2>1, <2>2, SubSeqOfSubSeq
  <2> DEFINE g == h + 1
  <2>5. g \in 1 .. j - i + 1 /\ l \in 1 .. j - i + 1
    BY <2>1
  <2> HIDE DEF g
  <2>4. SubSeq(SubSeq(wanted, i, j), g, l) = SubSeq(wanted, i + g - 1, i + l - 1)
    BY <2>1, <2>5, PartOfPart
  <2> QED
    BY <2>1, <2>2, <2>3, <2>4 DEF g
<1> HIDE DEF low, high, rest
<1>6. /\ parts \in Seq(Lists) /\ Len(parts) = Len(rest) + 2 /\ Len(rest) \in Nat
      /\ parts[1] = low /\ parts[2] = high /\ \A i \in 1 .. Len(rest) : parts[i + 2] = rest[i]
  <2>1. <<low, high>> \in Seq(Lists) /\ Len(<<low, high>>) = 2
    BY <1>4
  <2>2. Len(rest) \in Nat
    BY <1>1, LenProperties
  <2> DEFINE two == <<low, high>>
  <2>3. two \in Seq(Lists) /\ Len(two) = 2 /\ two[1] = low /\ two[2] = high
    BY <2>1
  <2> HIDE DEF two
  <2>4. /\ two \o rest \in Seq(Lists) /\ Len(two \o rest) = 2 + Len(rest)
        /\ \A i \in 1 .. 2 + Len(rest) :
              (two \o rest)[i] = IF i <= 2 THEN two[i] ELSE rest[i - 2]
    <3>1. /\ two \o rest \in Seq(Lists) /\ Len(two \o rest) = Len(two) + Len(rest)
          /\ \A i \in 1 .. Len(two) + Len(rest) :
                (two \o rest)[i] = IF i <= Len(two) THEN two[i] ELSE rest[i - Len(two)]
      BY <1>1, <2>3, ConcatProperties, Zenon
    <3> QED
      BY <2>3, <3>1, Zenon
  <2>5. parts = two \o rest
    BY DEF two
  <2> HIDE DEF parts
  <2> QED
    <3>1. parts[1] = low /\ parts[2] = high
      BY <2>2, <2>3, <2>4, <2>5
    <3>2. ASSUME NEW i \in 1 .. Len(rest) PROVE parts[i + 2] = rest[i]
      <4>1. i + 2 \in 1 .. 2 + Len(rest) /\ i + 2 - 2 = i /\ ~(i + 2 <= 2)
        BY <2>2
      <4>2. (two \o rest)[i + 2] = rest[i + 2 - 2]
        BY <2>4, <4>1
      <4> QED
        BY <2>5, <4>1, <4>2
    <3>3. Len(parts) = Len(rest) + 2
      BY <2>2, <2>4, <2>5
    <3> QED
      BY <2>2, <2>4, <2>5, <3>1, <3>2, <3>3
<1> HIDE DEF parts
<1>7. parts # <<>>
  BY <1>6, EmptySeq
<1>8. Cuts(wanted, n, parts)
  <2>1. PICK c \in [1 .. Len(rest) + 1 -> 0 .. Len(wanted)] :
            /\ c[1] = n + l /\ c[Len(rest) + 1] = Len(wanted)
            /\ \A i \in 1 .. Len(rest) :
                  c[i] < c[i + 1] /\ rest[i] = SubSeq(wanted, c[i] + 1, c[i + 1])
    BY <1>1 DEF Cuts
  <2> DEFINE d == [i \in 1 .. Len(parts) + 1 |->
                      IF i = 1 THEN n ELSE IF i = 2 THEN n + h ELSE c[i - 2]]
  <2>2. d \in [1 .. Len(parts) + 1 -> 0 .. Len(wanted)]
    BY <1>0, <1>1, <1>2, <1>6, <2>1
  <2>3. d[1] = n /\ d[2] = n + h /\ d[3] = n + l /\ d[Len(parts) + 1] = Len(wanted)
    BY <1>6, <2>1
  <2>4. ASSUME NEW i \in 1 .. Len(parts)
        PROVE  d[i] < d[i + 1] /\ parts[i] = SubSeq(wanted, d[i] + 1, d[i + 1])
    <3>1. CASE i = 1
      <4>1. d[i] = n /\ d[i + 1] = n + h /\ parts[i] = low
        BY <1>6, <2>3, <3>1
      <4> HIDE DEF d
      <4>2. n < n + h
        BY <1>1, <1>2
      <4>3. parts[i] = SubSeq(wanted, n + 1, n + h)
        BY <1>5, <4>1
      <4> QED
        BY <4>1, <4>2, <4>3
    <3>2. CASE i = 2
      <4>1. d[i] = n + h /\ d[i + 1] = n + l /\ parts[i] = high
        BY <1>6, <2>3, <3>2
      <4> HIDE DEF d
      <4>2. n + h < n + l
        BY <1>1, <1>2
      <4>3. parts[i] = SubSeq(wanted, n + h + 1, n + l)
        BY <1>5, <4>1
      <4> QED
        BY <4>1, <4>2, <4>3
    <3>3. CASE i > 2
      <4>1. i - 2 \in 1 .. Len(rest) /\ d[i] = c[i - 2] /\ d[i + 1] = c[i - 2 + 1]
        BY <1>6, <3>3
      <4>2. parts[i] = rest[i - 2]
        <5> DEFINE k == i - 2
        <5>1. k \in 1 .. Len(rest) /\ k + 2 = i
          BY <1>6, <4>1
        <5> HIDE DEF k
        <5>2. parts[k + 2] = rest[k]
          BY <1>6, <5>1
        <5> QED
          BY <5>1, <5>2 DEF k
      <4> QED
        BY <2>1, <4>1, <4>2
    <3>4. i = 1 \/ i = 2 \/ i > 2
      BY <1>6
    <3> QED
      BY <3>1, <3>2, <3>3, <3>4
  <2> HIDE DEF d
  <2> QED
    BY <2>2, <2>3, <2>4 DEF Cuts
<1> QED
  BY <1>6, <1>7, <1>8 DEF Halves, parts, low, high, ask, rest, h, l

(* An operation that takes blocks has answered the first of them, and what *)
(* it still has to ask for covers the others.                              *)
BlockRows == {Row(b) : b \in Blocks}

Answers(x) ==
    /\ x.wanted \in Lists /\ x.rows \in Seq(BlockRows) /\ Len(x.rows) <= Len(x.wanted)
    /\ \A k \in 1 .. Len(x.rows) : x.rows[k] = Row(x.wanted[k])

Pending(x) ==
    /\ x.work \in Seq(Lists) /\ x.work # <<>> /\ x.ask = Head(x.work)
    /\ Cuts(x.wanted, Len(x.rows), x.work)

BatchOK(x) ==
    x.op = "blocks" =>
        /\ Answers(x)
        /\ x.pc = "done" /\ x.ok => Len(x.rows) = Len(x.wanted)
        /\ x.pc # "done" => Pending(x)

BatchInv ==
    /\ task = [t \in Tasks |-> task[t]]
    /\ \A t \in Tasks : DOMAIN task[t] = DOMAIN Idle /\ BatchOK(task[t])

(* What a call does on its way leaves its blocks alone.                    *)
LEMMA CallMoves ==
  ASSUME NEW x, NEW y, BatchOK(x), x.pc # "done",
         y.op = x.op, y.wanted = x.wanted, y.rows = x.rows, y.work = x.work, y.ask = x.ask,
         y.pc # "done"
  PROVE  BatchOK(y)
<1>1. Answers(x) => Answers(y)
  BY DEF Answers
<1>2. Pending(x) => Pending(y)
  BY DEF Pending
<1> QED
  BY <1>1, <1>2 DEF BatchOK

(* The rows of a part come behind those of the parts before it.            *)
LEMMA RowsFollow ==
  ASSUME NEW wanted \in Lists, NEW rows \in Seq(BlockRows), NEW ask \in Lists,
         Len(rows) + Len(ask) <= Len(wanted),
         \A k \in 1 .. Len(rows) : rows[k] = Row(wanted[k]),
         \A k \in 1 .. Len(ask) : ask[k] = wanted[Len(rows) + k]
  PROVE  LET more == rows \o [k \in DOMAIN ask |-> Row(ask[k])] IN
         /\ more \in Seq(BlockRows) /\ Len(more) = Len(rows) + Len(ask)
         /\ \A k \in 1 .. Len(more) : more[k] = Row(wanted[k])
<1> DEFINE new == [k \in DOMAIN ask |-> Row(ask[k])]
           more == rows \o new
<1>1. DOMAIN ask = 1 .. Len(ask) /\ Len(ask) \in Nat /\ Len(rows) \in Nat
      /\ \A k \in 1 .. Len(ask) : ask[k] \in Blocks
  BY LenProperties DEF Lists
<1>2. new \in Seq(BlockRows) /\ Len(new) = Len(ask) /\ \A k \in 1 .. Len(ask) : new[k] = Row(ask[k])
  <2>1. new = [k \in 1 .. Len(ask) |-> Row(ask[k])] /\ \A k \in 1 .. Len(ask) : Row(ask[k]) \in BlockRows
    BY <1>1 DEF BlockRows
  <2> HIDE DEF new
  <2>2. new \in [1 .. Len(ask) -> BlockRows]
    BY <2>1
  <2> QED
    BY <1>1, <2>1, <2>2
<1> HIDE DEF new
<1>3. /\ more \in Seq(BlockRows) /\ Len(more) = Len(rows) + Len(new)
      /\ \A k \in 1 .. Len(rows) + Len(new) :
            more[k] = IF k <= Len(rows) THEN rows[k] ELSE new[k - Len(rows)]
  <2>1. /\ rows \o new \in Seq(BlockRows) /\ Len(rows \o new) = Len(rows) + Len(new)
        /\ \A k \in 1 .. Len(rows) + Len(new) :
              (rows \o new)[k] = IF k <= Len(rows) THEN rows[k] ELSE new[k - Len(rows)]
    <3>1. new \in Seq(BlockRows)
      BY <1>2
    <3> QED
      BY <3>1, ConcatProperties, Zenon
  <2> QED
    BY <2>1, Zenon
<1> HIDE DEF more
<1>4. ASSUME NEW k \in 1 .. Len(more) PROVE more[k] = Row(wanted[k])
  <2>1. CASE k <= Len(rows)
    <3>1. k \in 1 .. Len(rows) /\ k \in 1 .. Len(rows) + Len(new)
      BY <1>1, <1>2, <1>3, <2>1
    <3> QED
      BY <1>3, <2>1, <3>1
  <2>2. CASE ~(k <= Len(rows))
    <3> DEFINE j == k - Len(rows)
    <3>1. j \in 1 .. Len(ask) /\ Len(rows) + j = k /\ k \in 1 .. Len(rows) + Len(new)
      BY <1>1, <1>2, <1>3, <2>2
    <3>2. more[k] = new[j]
      BY <1>3, <2>2, <3>1
    <3> HIDE DEF j
    <3>3. new[j] = Row(ask[j]) /\ ask[j] = wanted[Len(rows) + j]
      BY <1>2, <3>1
    <3> QED
      BY <3>1, <3>2, <3>3
  <2> QED
    BY <2>1, <2>2
<1> QED
  BY <1>2, <1>3, <1>4 DEF more, new

(* A part that was answered or failed leaves the operation as it should.   *)
LEMMA BlocksGoOn ==
  ASSUME NEW x, DOMAIN x = DOMAIN Idle, x.op = "blocks", BatchOK(x), x.pc # "done", NEW ok \in BOOLEAN
  PROVE  BatchOK(BlocksAfter(x, ok))
<1> DEFINE w == x.wanted
           n == Len(x.rows)
           ask == x.ask
           rest == IF ok THEN Tail(x.work) ELSE Halves(ask) \o Tail(x.work)
           rows == IF ok THEN x.rows \o [k \in DOMAIN ask |-> Row(ask[k])] ELSE x.rows
           y == [x EXCEPT !.work = rest,
                          !.rows = IF ok THEN @ \o [k \in DOMAIN x.ask |-> Row(x.ask[k])] ELSE @]
<1>1. /\ Answers(x) /\ x.work \in Seq(Lists) /\ x.work # <<>> /\ ask = Head(x.work)
      /\ Cuts(w, n, x.work) /\ w \in Lists /\ n \in Nat
  <2>1. Answers(x) /\ Pending(x)
    BY DEF BatchOK
  <2> QED
    BY <2>1, LenProperties DEF Answers, Pending
<1>2. /\ ask \in Lists /\ Len(ask) \in Nat \ {0} /\ n + Len(ask) <= Len(w)
      /\ \A k \in 1 .. Len(ask) : ask[k] = w[n + k]
      /\ Tail(x.work) \in Seq(Lists) /\ Cuts(w, n + Len(ask), Tail(x.work))
  <2> DEFINE work == x.work
  <2>1. /\ work \in Seq(Lists) /\ work # <<>> /\ ask = Head(work) /\ Cuts(w, n, work)
        /\ w \in Lists /\ n \in Nat
    BY <1>1
  <2> HIDE DEF work, w, n, ask
  <2>2. /\ ask \in Lists /\ Len(ask) \in Nat \ {0} /\ n + Len(ask) <= Len(w)
        /\ \A k \in 1 .. Len(ask) : ask[k] = w[n + k]
        /\ Tail(work) \in Seq(Lists) /\ Cuts(w, n + Len(ask), Tail(work))
    BY <2>1, FirstPart
  <2> QED
    BY <2>2 DEF work
<1>3. /\ DOMAIN y = DOMAIN Idle /\ y.op = "blocks" /\ y.wanted = w /\ y.rows = rows /\ y.work = rest
      /\ y.pc = x.pc
  BY DEF Idle
<1>4. BlocksAfter(x, ok) =
          IF ~ok /\ Len(ask) = 1 THEN Done(x, FALSE)
          ELSE IF rest = <<>> THEN Done(y, TRUE)
          ELSE Calling(y, Head(rest))
  BY DEF BlocksAfter
<1> HIDE DEF y, rest
<1>5. \A z, b : DOMAIN z = DOMAIN Idle =>
         /\ Done(z, b).op = z.op /\ Done(z, b).pc = "done" /\ Done(z, b).ok = b
         /\ Done(z, b).wanted = z.wanted /\ Done(z, b).rows = z.rows
  BY DEF Done, Idle
<1>6. \A z, a : DOMAIN z = DOMAIN Idle =>
         /\ Calling(z, a).op = z.op /\ Calling(z, a).pc = "list" /\ Calling(z, a).ask = a
         /\ Calling(z, a).wanted = z.wanted /\ Calling(z, a).rows = z.rows
         /\ Calling(z, a).work = z.work
  BY DEF Calling, Idle
<1>7. \A z, v : z.wanted = v.wanted /\ z.rows = v.rows /\ Answers(v) => Answers(z)
  BY DEF Answers
<1>8. CASE ~ok /\ Len(ask) = 1
  <2> DEFINE z == Done(x, FALSE)
  <2>1. z.op = "blocks" /\ z.pc = "done" /\ z.ok = FALSE /\ z.wanted = x.wanted /\ z.rows = x.rows
    BY <1>5
  <2> HIDE DEF z
  <2>2. BatchOK(z)
    BY <1>1, <1>7, <2>1 DEF BatchOK
  <2> QED
    BY <1>4, <1>8, <2>2 DEF z
<1>9. CASE ok \/ Len(ask) # 1
  <2>1. /\ Answers(y) /\ rest \in Seq(Lists) /\ Cuts(w, Len(y.rows), rest)
    <3>1. CASE ok
      <4>1. rest = Tail(x.work) /\ rows = x.rows \o [k \in DOMAIN ask |-> Row(ask[k])]
        BY <3>1 DEF rest
      <4>2. x.rows \in Seq(BlockRows) /\ \A k \in 1 .. n : x.rows[k] = Row(w[k])
        BY <1>1 DEF Answers
      <4> HIDE DEF rows, ask, w
      <4> DEFINE more == x.rows \o [k \in DOMAIN ask |-> Row(ask[k])]
      <4>3. /\ more \in Seq(BlockRows) /\ Len(more) = n + Len(ask)
            /\ \A k \in 1 .. Len(more) : more[k] = Row(w[k])
        BY <1>1, <1>2, <4>2, RowsFollow
      <4>4. y.rows = more
        BY <1>3, <4>1
      <4> HIDE DEF more
      <4>5. Answers(y)
        BY <1>1, <1>2, <1>3, <4>3, <4>4 DEF Answers
      <4> QED
        BY <1>2, <4>1, <4>3, <4>4, <4>5
    <3>2. CASE ~ok
      <4>1. rest = Halves(ask) \o Tail(x.work) /\ rows = x.rows /\ Len(ask) # 1
        BY <1>9, <3>2 DEF rest
      <4>2. rest \in Seq(Lists) /\ Cuts(w, n, rest)
        BY <1>1, <4>1, HalvedPart
      <4>3. Answers(y)
        BY <1>1, <1>3, <1>7, <4>1
      <4> QED
        BY <1>3, <4>1, <4>2, <4>3
    <3> QED
      BY <3>1, <3>2
  <2>2. CASE rest = <<>>
    <3>1. Len(y.rows) = Len(w)
      BY <2>1, <2>2, EmptySeq DEF Cuts
    <3> DEFINE z == Done(y, TRUE)
    <3>2. z.op = "blocks" /\ z.pc = "done" /\ z.ok = TRUE /\ z.wanted = y.wanted /\ z.rows = y.rows
      BY <1>3, <1>5
    <3>3. BlocksAfter(x, ok) = z
      BY <1>4, <1>9, <2>2
    <3> HIDE DEF z
    <3>4. BatchOK(z)
      BY <1>3, <1>7, <2>1, <3>1, <3>2 DEF BatchOK
    <3> QED
      BY <3>3, <3>4
  <2>3. CASE rest # <<>>
    <3> DEFINE z == Calling(y, Head(rest))
    <3>1. /\ z.op = "blocks" /\ z.pc = "list" /\ z.ask = Head(rest) /\ z.wanted = y.wanted
          /\ z.rows = y.rows /\ z.work = rest
      BY <1>3, <1>6
    <3>2. BlocksAfter(x, ok) = z
      BY <1>4, <1>9, <2>3
    <3> HIDE DEF z
    <3>3. Answers(z)
      BY <1>7, <2>1, <3>1
    <3>4. Pending(z)
      BY <1>3, <2>1, <2>3, <3>1 DEF Pending
    <3> QED
      BY <3>1, <3>2, <3>3, <3>4 DEF BatchOK
  <2> QED
    BY <2>2, <2>3
<1> QED
  BY <1>8, <1>9

(* Whatever the operation, what follows a call keeps its blocks in order.  *)
LEMMA AfterIsOK ==
  ASSUME NEW x, DOMAIN x = DOMAIN Idle, BatchOK(x), x.pc # "done", NEW ok \in BOOLEAN
  PROVE  BatchOK(After(x, ok)) /\ DOMAIN After(x, ok) = DOMAIN Idle
<1>1. \A y, ask : DOMAIN y = DOMAIN Idle =>
         DOMAIN Calling(y, ask) = DOMAIN Idle /\ Calling(y, ask).op = y.op
  BY DEF Calling, Idle
<1>2. \A y, b : DOMAIN y = DOMAIN Idle => DOMAIN Done(y, b) = DOMAIN Idle /\ Done(y, b).op = y.op
  BY DEF Done, Idle
<1>3. \A y : DOMAIN y = DOMAIN Idle =>
         DOMAIN Searching(y) = DOMAIN Idle /\ Searching(y).op = "search"
  <2> TAKE y
  <2> SUFFICES ASSUME DOMAIN y = DOMAIN Idle
               PROVE  DOMAIN Searching(y) = DOMAIN Idle /\ Searching(y).op = "search"
    OBVIOUS
  <2> DEFINE z == [y EXCEPT !.op = "search"]
  <2>1. DOMAIN z = DOMAIN Idle /\ z.op = "search"
    BY DEF Idle
  <2> DEFINE ask == <<y.lo + (y.hi - y.lo) \div 2>>
  <2>2. Searching(y) = Calling(z, ask) \/ Searching(y) = Done(z, TRUE)
    BY Zenon DEF Searching
  <2> HIDE DEF z, ask
  <2>3. /\ DOMAIN Calling(z, ask) = DOMAIN Idle /\ Calling(z, ask).op = "search"
        /\ DOMAIN Done(z, TRUE) = DOMAIN Idle /\ Done(z, TRUE).op = "search"
    BY <1>1, <1>2, <2>1, Zenon
  <2> QED
    BY <2>2, <2>3, Zenon
<1>4. CASE x.op = "blocks"
  <2>1. After(x, ok) = BlocksAfter(x, ok)
    BY <1>4 DEF After
  <2>2. DOMAIN BlocksAfter(x, ok) = DOMAIN Idle
    BY <1>1, <1>2 DEF BlocksAfter
  <2> QED
    BY <1>4, <2>1, <2>2, BlocksGoOn
<1>5. CASE x.op \in {"smoke", "search"}
  <2>1. After(x, ok) = HorizonAfter(x, ok)
    BY <1>5 DEF After
  <2>2. DOMAIN Narrowed(x, ok) = DOMAIN Idle
    BY DEF Narrowed
  <2> DEFINE z == [x EXCEPT !.lo = More(0, Tip - Fallback)]
  <2>3. DOMAIN z = DOMAIN Idle /\ z.op = x.op
    BY DEF Idle
  <2>4. HorizonAfter(x, ok) \in {Searching(Narrowed(x, ok)), Searching(x), Done(z, FALSE)}
    BY Zenon DEF HorizonAfter
  <2> HIDE DEF z
  <2>5. DOMAIN HorizonAfter(x, ok) = DOMAIN Idle /\ HorizonAfter(x, ok).op \in {"smoke", "search"}
    BY <1>2, <1>3, <1>5, <2>2, <2>3, <2>4
  <2> QED
    BY <2>1, <2>5 DEF BatchOK
<1>6. CASE x.op \notin {"blocks", "smoke", "search"}
  <2>1. After(x, ok) = Done(x, ok)
    BY <1>6 DEF After
  <2> QED
    BY <1>2, <1>6, <2>1 DEF BatchOK
<1> QED
  BY <1>4, <1>5, <1>6

LEMMA TurnsAreOK ==
  ASSUME NEW x, DOMAIN x = DOMAIN Idle, BatchOK(x), x.pc # "done", NEW y \in Turns(x)
  PROVE  BatchOK(y) /\ DOMAIN y = DOMAIN Idle
<1>1. CASE MoreToTry(x)
  <2>1. PICK p : y = [x EXCEPT !.pc = IF Limited(p) THEN "permit" ELSE "sent", !.tried = @ \cup {p},
                               !.found = TRUE, !.at = p, !.tries = 1]
    BY <1>1 DEF Turns
  <2>2. /\ DOMAIN y = DOMAIN Idle /\ y.op = x.op /\ y.wanted = x.wanted /\ y.rows = x.rows
        /\ y.work = x.work /\ y.ask = x.ask /\ y.pc # "done"
    BY <2>1 DEF Idle
  <2> QED
    BY <2>2, CallMoves
<1>2. CASE ~MoreToTry(x) /\ x.found
  <2>1. y = [x EXCEPT !.pc = "list"]
    BY <1>2 DEF Turns
  <2>2. /\ DOMAIN y = DOMAIN Idle /\ y.op = x.op /\ y.wanted = x.wanted /\ y.rows = x.rows
        /\ y.work = x.work /\ y.ask = x.ask /\ y.pc # "done"
    BY <2>1 DEF Idle
  <2> QED
    BY <2>2, CallMoves
<1>3. CASE ~MoreToTry(x) /\ ~x.found
  <2>1. y = After(x, FALSE)
    BY <1>3 DEF Turns
  <2> QED
    BY <2>1, AfterIsOK
<1> QED
  BY <1>1, <1>2, <1>3

(* A step that moves one task to where its blocks are in order keeps        *)
(* BatchInv.                                                               *)
LEMMA OneMoves ==
  ASSUME BatchInv, NEW t \in Tasks, NEW x, DOMAIN x = DOMAIN Idle, BatchOK(x), At(t, x)
  PROVE  BatchInv'
<1>1. task' = [task EXCEPT ![t] = x]
  BY DEF At
<1>2. task' = [u \in Tasks |-> task'[u]] /\ \A u \in Tasks : task'[u] = IF u = t THEN x ELSE task[u]
  BY <1>1 DEF BatchInv
<1>3. \A u \in Tasks : DOMAIN task'[u] = DOMAIN Idle /\ BatchOK(task'[u])
  BY <1>2 DEF BatchInv
<1> QED
  BY <1>2, <1>3 DEF BatchInv

LEMMA BatchInit == Init => BatchInv
<1> SUFFICES ASSUME Init PROVE BatchInv
  OBVIOUS
<1>1. task = [t \in Tasks |-> [Idle EXCEPT !.pc = "off"]]
  BY DEF Init
<1>2. \A t \in Tasks : DOMAIN task[t] = DOMAIN Idle /\ task[t].op = "none"
  BY <1>1 DEF Idle
<1> QED
  BY <1>1, <1>2 DEF BatchInv, BatchOK

(* Every step preserves BatchInv.                                          *)
LEMMA BatchStep == BatchInv /\ [Next]_vars => BatchInv'
<1> SUFFICES ASSUME BatchInv, [Next]_vars PROVE BatchInv'
  OBVIOUS
<1>0. \A t \in Tasks : DOMAIN task[t] = DOMAIN Idle /\ BatchOK(task[t])
  BY DEF BatchInv
<1>1. ASSUME task' = task PROVE BatchInv'
  BY <1>1 DEF BatchInv
<1>2. CASE Tick
  BY <1>1, <1>2 DEF Tick
<1>3. ASSUME NEW p \in Providers, Flip(p) PROVE BatchInv'
  BY <1>1, <1>3 DEF Flip
<1>4. CASE Connect
  <2>1. task' = [t \in Tasks |-> Idle]
    BY <1>4 DEF Connect
  <2>2. Idle.op = "none"
    BY DEF Idle
  <2> QED
    BY <2>1, <2>2 DEF BatchInv, BatchOK
<1>5. ASSUME NEW t \in Tasks, Start(t) PROVE BatchInv'
  <2>1. PICK x : At(t, x) /\ (x = DetectHorizon \/ \E b \in Batches : x = GetBlocks(b))
    BY <1>5 DEF Start
  <2>2. CASE x = DetectHorizon
    <3>1. DOMAIN x = DOMAIN Idle /\ x.op = "smoke"
      BY <2>2 DEF DetectHorizon, Calling, Idle
    <3> QED
      BY <2>1, <3>1, OneMoves DEF BatchOK
  <2>3. CASE \E b \in Batches : x = GetBlocks(b)
    <3>1. PICK b \in Batches : x = GetBlocks(b)
      BY <2>3
    <3>2. /\ DOMAIN x = DOMAIN Idle /\ x.op = "blocks" /\ x.pc = "list" /\ x.wanted = b
          /\ x.rows = <<>> /\ x.work = <<b>> /\ x.ask = b
      BY <3>1 DEF GetBlocks, Calling, Idle
    <3>3. b \in Lists /\ Len(b) \in Nat \ {0}
      BY EmptySeq, RequestsAssumption DEF RequestsAssumption, Lists
    <3>4. Answers(x)
      BY <3>2, <3>3, EmptySeq DEF Answers
    <3>5. Cuts(b, 0, <<b>>)
      <4> DEFINE c == [i \in 1 .. 2 |-> IF i = 1 THEN 0 ELSE Len(b)]
      <4>1. c \in [1 .. 2 -> 0 .. Len(b)] /\ c[1] = 0 /\ c[2] = Len(b)
        BY <3>3
      <4>2. SubSeq(b, 1, Len(b)) = b
        BY <3>3, SubSeqFull DEF Lists
      <4> HIDE DEF c
      <4> DEFINE work == <<b>>
      <4>3. Len(work) = 1 /\ work[1] = b
        OBVIOUS
      <4> HIDE DEF work
      <4>4. Cuts(b, 0, work)
        BY <3>3, <4>1, <4>2, <4>3 DEF Cuts
      <4> QED
        BY <4>4 DEF work
    <3>6. Pending(x)
      BY <3>2, <3>3, <3>5 DEF Pending
    <3> QED
      BY <2>1, <3>2, <3>4, <3>6, OneMoves DEF BatchOK
  <2> QED
    BY <2>1, <2>2, <2>3
<1>6. ASSUME NEW t \in Tasks, StartStrict(t) PROVE BatchInv'
  <2>1. PICK op \in {"code", "logs"}, p \in Providers :
           At(t, [Idle EXCEPT !.op = op, !.pc = IF Limited(p) THEN "permit" ELSE "sent",
                              !.at = p, !.ask = <<Tip>>])
    BY <1>6 DEF StartStrict, BestForCode, Capable, Awake
  <2> DEFINE x == [Idle EXCEPT !.op = op, !.pc = IF Limited(p) THEN "permit" ELSE "sent",
                              !.at = p, !.ask = <<Tip>>]
  <2>2. DOMAIN x = DOMAIN Idle /\ x.op = op
    BY DEF Idle
  <2>3. At(t, x)
    BY <2>1
  <2> HIDE DEF x
  <2>4. BatchOK(x)
    BY <2>2 DEF BatchOK
  <2> QED
    BY <2>2, <2>3, <2>4, OneMoves
<1>7. ASSUME NEW t \in Tasks, List(t) PROVE BatchInv'
  <2> DEFINE x == [task[t] EXCEPT !.groups = Groups(task[t]), !.first = FALSE, !.found = FALSE]
  <2>1. task[t].pc = "list" /\ \E y \in Turns(x) : At(t, y)
    BY <1>7 DEF List, Turn
  <2>2. /\ DOMAIN x = DOMAIN Idle /\ x.op = task[t].op /\ x.wanted = task[t].wanted
        /\ x.rows = task[t].rows /\ x.work = task[t].work /\ x.ask = task[t].ask
        /\ x.pc = task[t].pc
    BY <1>0 DEF Idle
  <2> HIDE DEF x
  <2>3. BatchOK(x)
    BY <1>0, <2>1, <2>2, CallMoves
  <2> QED
    BY <2>1, <2>2, <2>3, TurnsAreOK, OneMoves
<1>8. ASSUME NEW t \in Tasks, Acquire(t) PROVE BatchInv'
  <2> DEFINE x == [task[t] EXCEPT !.pc = "sent"]
  <2>1. task[t].pc = "permit" /\ (task' = task \/ At(t, x))
    BY <1>8 DEF Acquire
  <2>2. /\ DOMAIN x = DOMAIN Idle /\ x.op = task[t].op /\ x.wanted = task[t].wanted
        /\ x.rows = task[t].rows /\ x.work = task[t].work /\ x.ask = task[t].ask
        /\ x.pc = "sent"
    BY <1>0 DEF Idle
  <2> HIDE DEF x
  <2>3. BatchOK(x)
    BY <1>0, <2>1, <2>2, CallMoves
  <2> QED
    BY <1>1, <2>1, <2>2, <2>3, OneMoves
<1>9. ASSUME NEW t \in Tasks, Answered(t) PROVE BatchInv'
  <2>1. task[t].pc = "sent" /\ At(t, After(task[t], TRUE))
    BY <1>9 DEF Answered
  <2>2. BatchOK(After(task[t], TRUE)) /\ DOMAIN After(task[t], TRUE) = DOMAIN Idle
    BY <1>0, <2>1, AfterIsOK
  <2> QED
    BY <2>1, <2>2, OneMoves
<1>10. ASSUME NEW t \in Tasks, Repeat(t) PROVE BatchInv'
  <2> DEFINE x == Retry(task[t])
  <2>1. task[t].pc = "sent" /\ At(t, x)
    BY <1>10 DEF Repeat
  <2>2. /\ DOMAIN x = DOMAIN Idle /\ x.op = task[t].op /\ x.wanted = task[t].wanted
        /\ x.rows = task[t].rows /\ x.work = task[t].work /\ x.ask = task[t].ask
        /\ x.pc # "done"
    BY <1>0 DEF Idle, Retry
  <2> HIDE DEF x
  <2>3. BatchOK(x)
    BY <1>0, <2>1, <2>2, CallMoves
  <2> QED
    BY <2>1, <2>2, <2>3, OneMoves
<1>11. ASSUME NEW t \in Tasks, GivesUpOn(t) \/ Declines(t) PROVE BatchInv'
  <2>1. task[t].pc = "sent" /\ \E y \in Turns(task[t]) : At(t, y)
    BY <1>11 DEF GivesUpOn, Declines, Turn
  <2> QED
    BY <1>0, <2>1, TurnsAreOK, OneMoves
<1>12. ASSUME NEW t \in Tasks, StrictFails(t) PROVE BatchInv'
  <2> DEFINE x == Done(task[t], FALSE)
  <2>1. task[t].op \in {"code", "logs"} /\ At(t, x)
    BY <1>12 DEF StrictFails, Strict
  <2>2. DOMAIN x = DOMAIN Idle /\ x.op = task[t].op
    BY <1>0 DEF Done, Idle
  <2> HIDE DEF x
  <2>3. BatchOK(x)
    BY <2>1, <2>2 DEF BatchOK
  <2> QED
    BY <2>1, <2>2, <2>3, OneMoves
<1>13. CASE UNCHANGED vars
  BY <1>1, <1>13 DEF vars
<1> QED
  BY <1>2, <1>3, <1>4, <1>5, <1>6, <1>7, <1>8, <1>9, <1>10, <1>11, <1>12, <1>13 DEF Next, Proceed

(* A batch that was split, any number of times, returns the blocks that    *)
(* were asked for, in their order, and their transactions go with their    *)
(* own receipts (get_blocks_and_receipts_batch, decode_block_and_receipts),*)
(* for any blocks, providers, tasks and failures.                          *)
THEOREM BatchesAreTheBlocks == Spec => []RowsAreTheBlocks
<1>1. BatchInv => RowsAreTheBlocks
  <2> SUFFICES ASSUME BatchInv, NEW t \in Tasks, task[t].op = "blocks"
               PROVE  LET x == task[t] IN
                      /\ [k \in DOMAIN x.rows |-> x.rows[k].number] = SubSeq(x.wanted, 1, Len(x.rows))
                      /\ x.pc = "done" /\ x.ok => Len(x.rows) = Len(x.wanted)
                      /\ \A row \in Range(x.rows) :
                            LET trailing == Standard(row.number) = 1 .. Cardinality(Standard(row.number)) IN
                            \A pair \in ByPlace(row) \cup (IF trailing THEN ByIndex(row) ELSE {}) :
                                pair[1].hash = pair[2].hash
    BY Zenon DEF RowsAreTheBlocks
  <2> DEFINE rows == task[t].rows
             wanted == task[t].wanted
  <2>1. /\ wanted \in Lists /\ rows \in Seq(BlockRows) /\ Len(rows) <= Len(wanted)
        /\ \A k \in 1 .. Len(rows) : rows[k] = Row(wanted[k])
        /\ task[t].pc = "done" /\ task[t].ok => Len(rows) = Len(wanted)
    BY DEF BatchInv, BatchOK, Answers
  <2> HIDE DEF rows, wanted
  <2>2. /\ DOMAIN rows = 1 .. Len(rows) /\ Len(rows) \in Nat /\ Len(wanted) \in Nat
        /\ \A k \in 1 .. Len(wanted) : wanted[k] \in Blocks
    BY <2>1, LenProperties DEF Lists
  <2>3. \A k \in 1 .. Len(rows) : wanted[k] \in Blocks /\ rows[k] = Row(wanted[k])
    BY <2>1, <2>2
  <2>4. \A k \in 1 .. Len(rows) : rows[k].number = wanted[k]
    BY <2>3, RowsAreTrue DEF RowIsTrue
  <2>5. [k \in DOMAIN rows |-> rows[k].number] = SubSeq(wanted, 1, Len(rows))
    <3>1. [k \in DOMAIN rows |-> rows[k].number] = [k \in 1 .. Len(rows) |-> wanted[k]]
      BY <2>2, <2>4
    <3>2. SubSeq(wanted, 1, Len(rows)) = [k \in 1 .. Len(rows) |-> wanted[k]]
      BY <2>1, <2>2 DEF Lists
    <3> QED
      BY <3>1, <3>2
  <2>6. ASSUME NEW row \in Range(rows),
               NEW pair \in ByPlace(row)
                     \cup (IF Standard(row.number) = 1 .. Cardinality(Standard(row.number))
                           THEN ByIndex(row) ELSE {})
        PROVE  pair[1].hash = pair[2].hash
    <3>1. PICK k \in 1 .. Len(rows) : row = rows[k]
      BY <2>2, <2>6 DEF Range
    <3>2. PICK b \in Blocks : row = Row(b)
      BY <2>3, <3>1
    <3> QED
      BY <2>6, <3>2, RowsAreTrue, Zenon DEF RowIsTrue
  <2> QED
    BY <2>1, <2>5, <2>6 DEF rows, wanted
<1> QED
  BY BatchInit, BatchStep, <1>1, PTL DEF Spec
==================================================================================
