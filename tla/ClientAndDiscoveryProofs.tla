------------------------ MODULE ClientAndDiscoveryProofs -----------------------
(***************************************************************************)
(* The discovery of pools and the client its requests go through. Of the   *)
(* client (RpcProviders), for any providers and calls: which providers a   *)
(* call that fails has asked, and which are put into cooldown. Of the      *)
(* discovery, CoveredIsFound and KnowledgeKept for any pools, chain,       *)
(* range, providers and faults: what a row says of a pool's creation is    *)
(* true, or later than it, what a run holds of a pool never puts it later  *)
(* than the row does, but where a lookup of the row has failed, so nothing *)
(* a run writes takes anything back; and a block of the range under way    *)
(* is, for every pool, found, given up, dropped with a warning, or still   *)
(* to be asked about in some shard, so nothing of the range is missing     *)
(* when it is noted.                                                       *)
(***************************************************************************)
EXTENDS PoolDiscovery, RpcProviders, FiniteSetTheorems, NaturalsInduction, WellFoundedInduction, TLAPS

-----------------------------------------------------------------------------
(* The client.                                                             *)

(* ClientTypeOK is inductive with this: whom a call is waiting for is a          *)
(* provider.                                                               *)
AskedOK == \A c \in Calls : pc[c] \in {"asking", "pinned"} => asked[c] \in Providers

TypeInv == ClientTypeOK /\ AskedOK

(* TypeInv holds initially.                                                *)
LEMMA TypeInit == ClientInit => TypeInv
  BY PoolAssumption
  DEF ClientInit, PoolAssumption, TypeInv, ClientTypeOK, CallTypeOK, WorldTypeOK, AskedOK, Scopes

(* What a call may use is a set of providers.                              *)
LEMMA ListType ==
  ASSUME TypeInv, NEW sc, NEW b \in BOOLEAN
  PROVE  ProvidersFor(sc, b) \subseteq Providers
  BY DEF ProvidersFor, Available, TypeInv, ClientTypeOK, WorldTypeOK

(* Every step preserves TypeInv.                                           *)
LEMMA TypeStep == TypeInv /\ [ClientNext]_clientVars => TypeInv'
<1> SUFFICES ASSUME TypeInv, [ClientNext]_clientVars PROVE TypeInv'
  OBVIOUS
<1> USE PoolAssumption
    DEF PoolAssumption, TypeInv, ClientTypeOK, CallTypeOK, WorldTypeOK, AskedOK, Scopes,
        healthVars, worldVars, callVars
<1>1. ASSUME NEW p \in Providers, Flip(p) PROVE TypeInv'
  BY <1>1 DEF Flip
<1>7. ASSUME NEW p \in Providers, Lag(p) PROVE TypeInv'
  BY <1>7 DEF Lag
<1>2. ASSUME NEW p \in Providers, CooldownEnds(p) PROVE TypeInv'
  BY <1>2 DEF CooldownEnds
<1>3. CASE ValidateAll
  BY <1>3 DEF ValidateAll
<1>4. ASSUME NEW c \in Calls, Proceed(c) PROVE TypeInv'
  <2>1. ASSUME NEW p \in Providers, Ask(c, p) PROVE TypeInv'
    BY <2>1 DEF Ask
  <2>2. CASE Serves(c)
    BY <2>2 DEF Serves, Served, Return
  <2>3. CASE Fails(c)
    BY <2>3 DEF Fails, Refused
  <2>4. CASE StateUnavailable(c)
    BY <2>4 DEF StateUnavailable, Refused, Declined
  <2>5. CASE Reverts(c)
    BY <2>5 DEF Reverts, Refused, Declined
  <2>6. CASE NextPass(c)
    BY <2>6, ListType DEF NextPass
  <2>7. CASE StartWait(c)
    BY <2>7 DEF StartWait, MayWait
  <2>8. CASE EndWait(c)
    BY <2>8 DEF EndWait, Available
  <2>9. CASE GiveUp(c)
    BY <2>9 DEF GiveUp
  <2>10. CASE PinnedServes(c)
    BY <2>10 DEF PinnedServes, Served, Return
  <2>11. CASE PinnedFails(c)
    BY <2>11 DEF PinnedFails, Refused
  <2>12. CASE FallBack(c)
    BY <2>12, ListType DEF FallBack
  <2> QED
    BY <1>4, <2>1, <2>2, <2>3, <2>4, <2>5, <2>6, <2>7, <2>8, <2>9, <2>10, <2>11,
       <2>12 DEF Proceed
<1>5. ASSUME NEW c \in Calls, Call(c) PROVE TypeInv'
  <2>1. ASSUME NEW sc \in Scopes, Begin(c, sc) PROVE TypeInv'
    BY <2>1, ListType DEF Begin
  <2>2. ASSUME NEW p \in Providers, BeginPinned(c, p) PROVE TypeInv'
    BY <2>2 DEF BeginPinned
  <2>3. CASE GetError(c)
    BY <2>3 DEF GetError, Return
  <2> QED
    BY <1>5, <2>1, <2>2, <2>3 DEF Call
<1>6. CASE UNCHANGED clientVars
  BY <1>6 DEF clientVars
<1> QED
  BY <1>1, <1>2, <1>3, <1>4, <1>5, <1>6, <1>7 DEF ClientNext

(* The pool and its calls stay well typed: in particular no call waits for *)
(* a cooldown more often than MAX_COOLDOWN_WAITS.                          *)
THEOREM TypeCorrect == ClientSpec => []ClientTypeOK
<1>1. ClientInit => TypeInv
  BY TypeInit
<1>2. TypeInv /\ [ClientNext]_clientVars => TypeInv'
  BY TypeStep
<1>3. TypeInv => ClientTypeOK
  BY DEF TypeInv
<1> QED
  BY <1>1, <1>2, <1>3, PTL DEF ClientSpec
-----------------------------------------------------------------------------
(* The first pass of a call is over the providers it was offered.  Each    *)
(* one it tried has refused it or is in R; until it has tried them all it  *)
(* goes on with the pass.                                                  *)
FirstPass(c, R) ==
    /\ sorted[c] = offered[c] /\ tried[c] \subseteq sorted[c]
    /\ tried[c] \subseteq R
    /\ found[c] = TRUE \/ tried[c] = {}

Covered(c, R) == offered[c] \subseteq R

CallInv(c) ==
    /\ pc[c] \in {"start", "idle", "pinned", "fallback"} =>
           tried[c] = {} /\ found[c] = FALSE /\ offered[c] = {}
    /\ pc[c] \in {"start", "idle"} => refused[c] = {}
    /\ pc[c] = "pass" => Covered(c, refused[c]) \/ FirstPass(c, refused[c])
    /\ pc[c] = "asking" =>
           \/ Covered(c, refused[c] \cup {asked[c]})
           \/ FirstPass(c, refused[c] \cup {asked[c]}) /\ found[c] = TRUE
    /\ pc[c] \in {"waiting", "failed"} => Covered(c, refused[c])

AllCalls == \A c \in Calls : CallInv(c)

(* The test of the loop, tried.len() >= sorted.len(), ends a first pass    *)
(* only when every provider of the list was tried.                         *)
LEMMA PassComplete ==
  ASSUME TypeInv, NEW c \in Calls, FirstPass(c, refused[c]), ~MoreToTry(c)
  PROVE  tried[c] = sorted[c]
<1>1. IsFiniteSet(sorted[c]) /\ IsFiniteSet(tried[c])
  BY PoolAssumption, FS_Subset DEF PoolAssumption, TypeInv, ClientTypeOK, CallTypeOK
<1>2. CASE sorted[c] \ tried[c] = {}
  BY <1>2 DEF FirstPass
<1>3. CASE ~(Cardinality(tried[c]) < Cardinality(sorted[c]))
  <2>1. Cardinality(tried[c]) \in Nat /\ Cardinality(sorted[c]) \in Nat
    BY <1>1, FS_CardinalityType
  <2>2. tried[c] \in SUBSET sorted[c]
    BY DEF FirstPass
  <2>3. Cardinality(tried[c]) <= Cardinality(sorted[c])
    BY <1>1, <2>2, FS_Subset
  <2>4. Cardinality(tried[c]) = Cardinality(sorted[c])
    BY <1>3, <2>1, <2>3
  <2> QED
    BY <1>1, <2>2, <2>4, FS_Subset
<1> QED
  BY <1>2, <1>3 DEF MoreToTry

(* A step that leaves what CallInv reads of d alone preserves it.          *)
LEMMA Untouched ==
  ASSUME NEW d \in Calls, CallInv(d),
         pc'[d] = pc[d], sorted'[d] = sorted[d], tried'[d] = tried[d],
         found'[d] = found[d], asked'[d] = asked[d], offered'[d] = offered[d],
         refused'[d] = refused[d]
  PROVE  CallInv(d)'
  BY DEF CallInv, Covered, FirstPass

(* A refusal while the answer is awaited.                                  *)
LEMMA RefusedStep ==
  ASSUME TypeInv, NEW c \in Calls, CallInv(c), pc[c] = "asking", Refused(c, "pass")
  PROVE  CallInv(c)'
  BY DEF CallInv, Covered, FirstPass, Refused, TypeInv, ClientTypeOK, CallTypeOK

(* A step of call c preserves the invariant of c.                          *)
LEMMA OwnStep ==
  ASSUME TypeInv, NEW c \in Calls, CallInv(c), Proceed(c) \/ Call(c)
  PROVE  CallInv(c)'
<1> USE DEF TypeInv, ClientTypeOK, CallTypeOK, worldVars, healthVars
<1>1. ASSUME NEW p \in Providers, Ask(c, p) PROVE CallInv(c)'
  BY <1>1 DEF Ask, CallInv, Covered, FirstPass
<1>2. CASE Serves(c)
  BY <1>2 DEF Serves, Served, Return, CallInv
<1>3. CASE Fails(c)
  BY <1>3, RefusedStep DEF Fails
<1>4. CASE StateUnavailable(c)
  BY <1>4, RefusedStep DEF StateUnavailable
<1>5. CASE Reverts(c)
  BY <1>5, RefusedStep DEF Reverts
<1>6. CASE NextPass(c)
  <2>1. Covered(c, refused[c])
    BY <1>6, PassComplete DEF NextPass, CallInv, Covered, FirstPass
  <2> QED
    BY <1>6, <2>1 DEF NextPass, CallInv, Covered
<1>7. CASE StartWait(c)
  <2>1. Covered(c, refused[c])
    BY <1>7, PassComplete DEF StartWait, CallInv, Covered, FirstPass
  <2> QED
    BY <1>7, <2>1 DEF StartWait, CallInv, Covered
<1>8. CASE EndWait(c)
  BY <1>8 DEF EndWait, CallInv, Covered
<1>9. CASE GiveUp(c)
  <2>1. Covered(c, refused[c])
    BY <1>9, PassComplete DEF GiveUp, CallInv, Covered, FirstPass
  <2> QED
    BY <1>9, <2>1 DEF GiveUp, CallInv, Covered
<1>10. CASE PinnedServes(c)
  BY <1>10 DEF PinnedServes, Served, Return, CallInv
<1>11. CASE PinnedFails(c)
  BY <1>11 DEF PinnedFails, Refused, CallInv, Covered
<1>12. CASE FallBack(c)
  BY <1>12 DEF FallBack, CallInv, Covered, FirstPass
<1>13. ASSUME NEW sc \in Scopes, Begin(c, sc) PROVE CallInv(c)'
  BY <1>13 DEF Begin, CallInv, Covered, FirstPass
<1>14. ASSUME NEW p \in Providers, BeginPinned(c, p) PROVE CallInv(c)'
  BY <1>14 DEF BeginPinned, CallInv
<1>15. CASE GetError(c)
  BY <1>15 DEF GetError, Return, CallInv
<1> QED
  BY <1>1, <1>2, <1>3, <1>4, <1>5, <1>6, <1>7, <1>8, <1>9, <1>10, <1>11, <1>12,
     <1>13, <1>14, <1>15 DEF Proceed, Call

(* A step of call c leaves the variables of the other calls alone.         *)
LEMMA OtherStep ==
  ASSUME TypeInv, NEW c \in Calls, NEW d \in Calls, c # d, Proceed(c) \/ Call(c)
  PROVE  /\ pc'[d] = pc[d] /\ sorted'[d] = sorted[d] /\ tried'[d] = tried[d]
         /\ found'[d] = found[d] /\ asked'[d] = asked[d]
         /\ offered'[d] = offered[d] /\ refused'[d] = refused[d]
         /\ declined'[d] = declined[d] /\ scope'[d] = scope[d]
  BY DEF Proceed, Call, Ask, Serves, Served, Fails, StateUnavailable, Reverts, NextPass,
         StartWait, EndWait, GiveUp, PinnedServes, PinnedFails, FallBack, Begin,
         BeginPinned, GetError, Return, Refused, Declined, TypeInv, ClientTypeOK, CallTypeOK

(* Every step preserves what is known of the calls.                        *)
LEMMA CallsStep == TypeInv /\ AllCalls /\ [ClientNext]_clientVars => AllCalls'
<1> SUFFICES ASSUME TypeInv, AllCalls, [ClientNext]_clientVars, NEW d \in Calls
             PROVE  CallInv(d)'
  BY DEF AllCalls
<1>1. CallInv(d)
  BY DEF AllCalls
<1>2. ASSUME NEW p \in Providers, Flip(p) \/ Lag(p) \/ CooldownEnds(p) PROVE CallInv(d)'
  BY <1>1, <1>2, Untouched DEF Flip, Lag, CooldownEnds, callVars
<1>3. CASE ValidateAll
  BY <1>1, <1>3 DEF ValidateAll, CallInv
<1>4. ASSUME NEW c \in Calls, Proceed(c) \/ Call(c) PROVE CallInv(d)'
  BY <1>1, <1>4, OwnStep, OtherStep, Untouched
<1>5. CASE UNCHANGED clientVars
  BY <1>1, <1>5, Untouched DEF clientVars, callVars
<1> QED
  BY <1>2, <1>3, <1>4, <1>5 DEF ClientNext

(* A call that fails was refused by every provider that was available when *)
(* it began (retry_call_impl).                                             *)
THEOREM NoProviderLeftOut == ClientSpec => []FailedAfterAll
<1>1. ClientInit => AllCalls
  BY DEF ClientInit, AllCalls, CallInv
<1>2. AllCalls => FailedAfterAll
  BY DEF AllCalls, CallInv, Covered, FailedAfterAll
<1>3. ClientSpec => []TypeInv
  BY TypeInit, TypeStep, PTL DEF ClientSpec
<1> QED
  BY <1>1, <1>2, <1>3, CallsStep, PTL DEF ClientSpec

(* A provider that has been well since validate_all answers in full, is    *)
(* available, and has kept its state capability if it has the state; and   *)
(* what a call was refused by such a provider was no fault of it.          *)
SteadyOK ==
    /\ steady \subseteq up \ partial
    /\ steady \subseteq Available
    /\ steady \ Pruned \subseteq capable

NoneLostYet == (\A c \in Calls : pc[c] = "start") => capable = Providers

AbleOK(c) ==
    /\ steady \cap refused[c] \subseteq declined[c]
    /\ pc[c] \in {"pass", "asking", "waiting", "failed"} => Able(c) \subseteq offered[c]

AbleInv == SteadyOK /\ NoneLostYet /\ \A c \in Calls : AbleOK(c)

(* A step of a call begins it, and never brings back the time before       *)
(* validate_all.                                                           *)
LEMMA BegunStep ==
  ASSUME TypeInv, NEW c \in Calls, Proceed(c) \/ Call(c)
  PROVE  pc'[c] # "start"
  BY DEF Proceed, Call, Ask, Serves, Served, Fails, StateUnavailable, Reverts, NextPass,
         StartWait, EndWait, GiveUp, PinnedServes, PinnedFails, FallBack, Begin,
         BeginPinned, GetError, Return, Refused, Declined, TypeInv, ClientTypeOK, CallTypeOK

(* No step takes a steady provider out of what a call may use.             *)
LEMMA SteadyStep ==
  ASSUME TypeInv, AbleInv, ClientNext
  PROVE  SteadyOK' /\ NoneLostYet'
<1> USE DEF AbleInv, SteadyOK, NoneLostYet, Available, TypeInv, ClientTypeOK, CallTypeOK,
            WorldTypeOK, AskedOK, healthVars, worldVars
<1>1. ASSUME NEW p \in Providers, Flip(p) \/ Lag(p) PROVE SteadyOK' /\ NoneLostYet'
  BY <1>1 DEF Flip, Lag, callVars
<1>2. ASSUME NEW p \in Providers, CooldownEnds(p) PROVE SteadyOK' /\ NoneLostYet'
  BY <1>2 DEF CooldownEnds, callVars
<1>3. CASE ValidateAll
  BY <1>3 DEF ValidateAll
<1>4. ASSUME NEW c \in Calls, Proceed(c) \/ Call(c) PROVE SteadyOK' /\ NoneLostYet'
  <2>1. NoneLostYet'
    BY <1>4, BegunStep
  <2>2. CASE Fails(c) \/ PinnedFails(c)
    BY <2>1, <2>2 DEF Fails, PinnedFails, CanFail, Refused
  <2>3. CASE StateUnavailable(c)
    BY <2>1, <2>3 DEF StateUnavailable, LacksState, Refused
  <2>4. CASE Serves(c) \/ PinnedServes(c)
    BY <2>1, <2>4 DEF Serves, PinnedServes, Served, Return
  <2>5. CASE \/ \E p \in Providers : Ask(c, p) \/ BeginPinned(c, p)
             \/ \E sc \in Scopes : Begin(c, sc)
             \/ Reverts(c) \/ NextPass(c) \/ StartWait(c)
             \/ EndWait(c) \/ GiveUp(c) \/ FallBack(c) \/ GetError(c)
    <3>1. UNCHANGED <<worldVars, healthVars>>
      BY <2>5 DEF Ask, BeginPinned, Begin, Reverts, NextPass, StartWait, EndWait, GiveUp,
                  FallBack, GetError, Return, Refused
    <3> QED
      BY <2>1, <3>1
  <2> QED
    BY <1>4, <2>2, <2>3, <2>4, <2>5 DEF Proceed, Call
<1> QED
  BY <1>1, <1>2, <1>3, <1>4 DEF ClientNext

(* What a call is offered has every provider that could serve it.          *)
LEMMA OfferedAble ==
  ASSUME TypeInv, SteadyOK, NEW sc \in Scopes
  PROVE  /\ sc = "any" => steady \subseteq ProvidersFor(sc, TRUE)
         /\ sc = "archive" => (steady \cap Archives) \ Pruned \subseteq ProvidersFor(sc, TRUE)
         /\ sc = "state" => steady \ Pruned \subseteq ProvidersFor(sc, TRUE)
<1>1. /\ steady \subseteq Available \cap InScope("any")
      /\ (steady \cap Archives) \ Pruned \subseteq Available \cap InScope("archive")
      /\ steady \ Pruned \subseteq Available \cap InScope("state")
  BY DEF SteadyOK, InScope, TypeInv, ClientTypeOK, WorldTypeOK
<1>2. Available \cap InScope(sc) \subseteq ProvidersFor(sc, TRUE)
  BY DEF ProvidersFor
<1> QED
  BY <1>1, <1>2

(* Only validate_all makes a provider steady.                              *)
LEMMA SteadyShrinks ==
  ASSUME TypeInv, ClientNext, ~ValidateAll
  PROVE  steady' \subseteq steady
  BY DEF ClientNext, Flip, Lag, CooldownEnds, Proceed, Call, Ask, Serves, Served, Fails,
         StateUnavailable, Reverts, NextPass, StartWait, EndWait, GiveUp, PinnedServes,
         PinnedFails, FallBack, Begin, BeginPinned, GetError, Return, Refused, Declined, worldVars

(* A step of call c keeps what AbleOK says of c.                           *)
LEMMA AbleStep ==
  ASSUME TypeInv, AbleInv, NEW c \in Calls, CallInv(c), Proceed(c) \/ Call(c)
  PROVE  AbleOK(c)'
<1> USE DEF AbleInv, AbleOK, TypeInv, ClientTypeOK, CallTypeOK, AskedOK, worldVars, healthVars
<1>1. ASSUME NEW p \in Providers, Ask(c, p) PROVE AbleOK(c)'
  BY <1>1 DEF Ask, Able
<1>2. CASE Serves(c) \/ PinnedServes(c) \/ GetError(c)
  BY <1>2 DEF Serves, PinnedServes, GetError, Served, Return
<1>3. CASE Fails(c)
  BY <1>3 DEF Fails, CanFail, SteadyOK, Refused, Able
<1>4. CASE PinnedFails(c)
  BY <1>4 DEF PinnedFails, CanFail, SteadyOK, Refused
<1>5. CASE StateUnavailable(c) \/ Reverts(c)
  <2>1. /\ steady' = steady /\ scope' = scope /\ offered'[c] = offered[c]
        /\ refused'[c] = refused[c] \cup {asked[c]}
        /\ declined'[c] = declined[c] \cup {asked[c]}
        /\ pc[c] = "asking"
    BY <1>5 DEF StateUnavailable, Reverts, Refused, Declined
  <2>2. Able(c)' = Able(c)
    BY <2>1 DEF Able
  <2> QED
    BY <2>1, <2>2
<1>6. CASE NextPass(c) \/ StartWait(c) \/ EndWait(c) \/ GiveUp(c)
  BY <1>6 DEF NextPass, StartWait, EndWait, GiveUp, Able
<1>7. CASE FallBack(c)
  <2>1. steady \subseteq ProvidersFor("any", TRUE)
    BY OfferedAble DEF Scopes
  <2>2. Able(c)' \subseteq steady
    BY <1>7 DEF FallBack, Able, Scopes
  <2> QED
    BY <1>7, <2>1, <2>2 DEF FallBack
<1>8. ASSUME NEW sc \in Scopes, Begin(c, sc) PROVE AbleOK(c)'
  <2>1. scope'[c] = sc /\ offered'[c] = ProvidersFor(sc, TRUE) /\ steady' = steady
    BY <1>8 DEF Begin
  <2>2. Able(c)' \subseteq offered'[c]
    BY <2>1, OfferedAble DEF Able, Scopes
  <2>3. refused'[c] = {}
    BY <1>8 DEF Begin, CallInv
  <2> QED
    BY <2>2, <2>3
<1>9. ASSUME NEW p \in Providers, BeginPinned(c, p) PROVE AbleOK(c)'
  BY <1>9 DEF BeginPinned
<1> QED
  BY <1>1, <1>2, <1>3, <1>4, <1>5, <1>6, <1>7, <1>8, <1>9 DEF Proceed, Call

(* A step that leaves call d alone, while no provider becomes steady.      *)
LEMMA AbleUntouched ==
  ASSUME NEW d \in Calls, AbleOK(d), steady' \subseteq steady, scope[d] \in Scopes,
         pc'[d] = pc[d], scope'[d] = scope[d], offered'[d] = offered[d],
         refused'[d] = refused[d], declined'[d] = declined[d]
  PROVE  AbleOK(d)'
<1>1. Able(d)' \subseteq Able(d)
  BY DEF Able, Scopes
<1> QED
  BY <1>1 DEF AbleOK

(* A call that fails was declined, for want of the state or by a revert,   *)
(* by every provider that could have served it all along: no call's record *)
(* of another one's failures hides such a provider (retry_call_impl).      *)
THEOREM AbleAreAsked == ClientSpec => []AbleIsAsked
<1>1. ClientInit => AllCalls /\ AbleInv
  BY DEF ClientInit, AllCalls, CallInv, AbleInv, SteadyOK, NoneLostYet, AbleOK, Available
<1>2. TypeInv /\ AllCalls /\ AbleInv /\ [ClientNext]_clientVars => AbleInv'
  <2> SUFFICES ASSUME TypeInv, AllCalls, AbleInv, [ClientNext]_clientVars PROVE AbleInv'
    OBVIOUS
  <2>1. CASE UNCHANGED clientVars
    BY <2>1 DEF clientVars, worldVars, healthVars, callVars, AbleInv, SteadyOK, NoneLostYet,
                AbleOK, Able, Available
  <2>2. CASE ClientNext
    <3>1. SteadyOK' /\ NoneLostYet'
      BY <2>2, SteadyStep
    <3>2. ASSUME NEW d \in Calls PROVE AbleOK(d)'
      <4>1. AbleOK(d) /\ CallInv(d) /\ scope[d] \in Scopes
        BY DEF AbleInv, AllCalls, TypeInv, ClientTypeOK, CallTypeOK
      <4>2. CASE ValidateAll
        BY <4>1, <4>2 DEF ValidateAll, CallInv, AbleOK, TypeInv, ClientTypeOK, CallTypeOK
      <4>3. CASE ~ValidateAll
        <5>1. steady' \subseteq steady
          BY <2>2, <4>3, SteadyShrinks
        <5>2. ASSUME NEW p \in Providers, Flip(p) \/ Lag(p) \/ CooldownEnds(p) PROVE AbleOK(d)'
          BY <4>1, <5>1, <5>2, AbleUntouched DEF Flip, Lag, CooldownEnds, callVars
        <5>3. ASSUME NEW c \in Calls, Proceed(c) \/ Call(c) PROVE AbleOK(d)'
          BY <4>1, <5>1, <5>3, AbleUntouched, AbleStep, OtherStep
        <5> QED
          BY <2>2, <4>3, <5>2, <5>3 DEF ClientNext
      <4> QED
        BY <4>2, <4>3
    <3> QED
      BY <3>1, <3>2 DEF AbleInv
  <2> QED
    BY <2>1, <2>2
<1>3. TypeInv /\ AllCalls /\ AbleInv => AbleIsAsked
  <2> SUFFICES ASSUME TypeInv, AllCalls, AbleInv, NEW c \in Calls, pc[c] = "failed"
               PROVE  Able(c) \subseteq declined[c]
    BY DEF AbleIsAsked
  <2>1. Able(c) \subseteq offered[c] /\ offered[c] \subseteq refused[c]
    BY DEF AbleInv, AbleOK, AllCalls, CallInv, Covered
  <2>2. Able(c) \subseteq steady
    BY DEF Able, TypeInv, ClientTypeOK, CallTypeOK, Scopes
  <2> QED
    BY <2>1, <2>2 DEF AbleInv, AbleOK
<1>4. ClientSpec => []TypeInv
  BY TypeInit, TypeStep, PTL DEF ClientSpec
<1>5. ClientSpec => []AllCalls
  BY <1>1, <1>4, CallsStep, PTL DEF ClientSpec
<1> QED
  BY <1>1, <1>2, <1>3, <1>4, <1>5, PTL DEF ClientSpec

-----------------------------------------------------------------------------
(* The discovery.                                                          *)

(* A nonempty set of numbers has a least element.                          *)
LEMMA LeastExists ==
  ASSUME NEW S, S \subseteq Nat, S # {}
  PROVE  \E x \in S : \A y \in S : x <= y
<1>1. PICK x \in S : \A y \in S : ~ (<<y, x>> \in OpToRel(<, Nat))
  BY NatLessThanWellFounded, WFMin
<1>2. \A y \in S : ~ (y < x)
  BY <1>1 DEF OpToRel
<1> QED
  BY <1>2

(* The lowest of some numbers is one of them.                              *)
LEMMA LowestIsIn ==
  ASSUME NEW S, S \subseteq Nat, S # {}
  PROVE  Lowest(S) \in S
  BY LeastExists DEF Lowest

(* The windows of a range lie in it, and every block of it is in one.      *)
LEMMA WindowsLie ==
  ASSUME NEW from \in Int, NEW to \in Int, NEW n \in Nat \ {0}, NEW w \in BlockWindows(from, to, n)
  PROVE  w = <<w[1], w[2]>> /\ w[1] \in from..to /\ w[2] \in from..to
  BY DEF BlockWindows, Starts, Least

LEMMA WindowsTile ==
  ASSUME NEW from \in Int, NEW to \in Int, NEW n \in Nat \ {0}, NEW b \in from..to
  PROVE  \E w \in BlockWindows(from, to, n) : w[1] <= b /\ b <= w[2]
<1> DEFINE In(c) == \E w \in BlockWindows(from, to, n) : w[1] <= c /\ c <= w[2]
           out == {d \in Nat : from + d <= to /\ ~In(from + d)}
<1>1. SUFFICES ASSUME out # {} PROVE FALSE
  <2>1. b - from \in Nat /\ from + (b - from) = b
    OBVIOUS
  <2>2. b - from \notin out => In(b)
    BY <2>1
  <2> QED
    BY <2>2
<1>2. PICK d \in out : \A e \in out : d <= e
  <2> HIDE DEF out
  <2>1. out \subseteq Nat
    BY DEF out
  <2> QED
    BY <1>1, <2>1, LeastExists
<1>3. CASE d = 0
  <2>1. 0 \in 0..(to - from) /\ from = from + 0 * n
    BY <1>2
  <2>2. from \in Starts(from, to, n)
    BY <2>1, <1>2 DEF Starts
  <2>3. <<from, Least(from + n - 1, to)>> \in BlockWindows(from, to, n)
    BY <2>2 DEF BlockWindows
  <2>4. from <= Least(from + n - 1, to)
    BY DEF Least
  <2> QED
    BY <1>2, <1>3, <2>3, <2>4
<1>4. CASE d # 0
  <2>1. d - 1 \in Nat /\ d - 1 \notin out /\ from + (d - 1) <= to
    BY <1>2, <1>4
  <2>2. In(from + (d - 1))
    BY <2>1
  <2>3. PICK x \in Starts(from, to, n) : x <= from + (d - 1) /\ from + (d - 1) <= Least(x + n - 1, to)
    BY <2>2 DEF BlockWindows
  <2>4. PICK k \in 0..(to - from) : x = from + k * n
    BY DEF Starts
  <2>5. x \in from..to /\ k \in Nat /\ k * n \in Nat
    BY <2>4 DEF Starts
  <2>6. ~ (from + d <= Least(x + n - 1, to))
    <3>1. <<x, Least(x + n - 1, to)>> \in BlockWindows(from, to, n)
      BY DEF BlockWindows
    <3> QED
      BY <1>2, <2>3, <2>5, <3>1
  <2>7. x + n = from + d
    BY <1>2, <2>3, <2>5, <2>6 DEF Least
  <2>8. x + n = from + (k + 1) * n
    BY <2>4, <2>5
  <2>9. k <= k * n
    BY <2>5
  <2>10. k + 1 \in 0..(to - from)
    BY <1>2, <2>4, <2>5, <2>7, <2>9
  <2>11. from + d \in Starts(from, to, n)
    <3>1. PICK j \in 0..(to - from) : from + d = from + j * n
      BY <2>7, <2>8, <2>10
    <3>2. from + d \in from..to
      BY <1>2
    <3> QED
      BY <3>1, <3>2 DEF Starts
  <2>12. <<from + d, Least(from + d + n - 1, to)>> \in BlockWindows(from, to, n)
    BY <2>11 DEF BlockWindows
  <2>13. from + d <= Least(from + d + n - 1, to)
    BY <1>2 DEF Least
  <2> QED
    BY <1>2, <2>12, <2>13
<1> QED
  BY <1>3, <1>4

RowSet == [created : 0..MaxBlock, factory : BOOLEAN, kind : {"none", "guess", "labelled", "exact"},
           tokens : BOOLEAN]

(* What is said of a pool's creation is never before it.                   *)
True(p, x) ==
    /\ x \in RowSet
    /\ x.created # 0 => Created[p] <= x.created
    /\ x # None => x.kind # "none"

(* y knows of a pool at least what x does.                                 *)
Keeps(x, y) ==
    x # None =>
        /\ y # None
        /\ x.factory => y.factory
        /\ x.created # 0 => y.created \in 1..x.created

(* x does not put a pool's creation later than y does.                     *)
NoLater(x, y) == x.created = 0 \/ y.created = 0 \/ x.created <= y.created

Scanning == job.pc \in {"range", "scan", "write"}
This == Head(job.ranges)

ShapeInv ==
    /\ tip \in Blocks
    /\ rows \in [Pools -> RowSet]
    /\ job = [pc |-> job.pc, runs |-> job.runs, source |-> job.source, cancelled |-> job.cancelled,
              ranges |-> job.ranges, out |-> job.out, pools |-> job.pools, todo |-> job.todo,
              misread |-> job.misread]
    /\ job.pc \in {"idle", "range", "scan", "write", "remote", "metadata", "health", "persist"}
    /\ job.out \in [Pools -> RowSet] /\ job.pools \in [Pools -> RowSet] /\ job.misread \subseteq Pools
    /\ mark \in (0..MaxBlock) \X (0..MaxBlock)

(* The ranges of a run are of the chain, and one lies above the other.     *)
RangesInv ==
    /\ job.ranges \in Seq(Blocks \X Blocks)
    /\ Scanning => job.ranges # <<>>
    /\ \A i \in DOMAIN job.ranges : job.ranges[i][1] <= job.ranges[i][2]
    /\ \A i, j \in DOMAIN job.ranges : i < j => job.ranges[i][2] < job.ranges[j][1]

RowsTrue == \A p \in Pools : True(p, rows[p]) /\ True(p, job.out[p]) /\ True(p, job.pools[p])

(* What the run holds of a pool does not put its creation later than the   *)
(* row does, unless a lookup of the row has failed; and the ranges that    *)
(* are left hold no creation of it, nor, while it has no row, anything     *)
(* earlier.                                                                *)
PoolsFit ==
    \A p \in Pools : job.pools[p] # None =>
        /\ p \notin job.misread => NoLater(job.pools[p], rows[p])
        /\ Scanning => \A i \in DOMAIN job.ranges :
               /\ Created[p] < job.ranges[i][1]
               /\ rows[p] = None => job.pools[p].created < job.ranges[i][1]

(* What this range tells of a pool takes nothing from its row, unless the  *)
(* lookup of the row has failed; once it is written, or dropped, that is   *)
(* on record.                                                              *)
Fits(p, x, row, r) ==
    /\ Created[p] <= r[2]
    /\ row = None => x.created <= r[2]
Takes(x, row, told) == Keeps(row, x) /\ NoLater(told, x)
OutInv ==
    \A p \in Pools : job.out[p] # None =>
        /\ job.pc \in {"scan", "write"}
        /\ Fits(p, job.out[p], rows[p], This)
        /\ p \notin job.misread => Takes(job.out[p], rows[p], job.pools[p])
        /\ job.pc = "write" /\ p \notin job.todo => rows[p] # None \/ {p} \X (This[1]..This[2]) \subseteq dropped

TodoInv ==
    /\ job.pc = "write" => job.todo \subseteq Known(job.out)
    /\ job.pc = "persist" => job.todo \subseteq Known(job.pools)

WindowEnd(shard) == Least(shard.from + FactoryStep - 1, shard.to)

(* A shard keeps to its range.                                             *)
ShardOK(shard, r) ==
    /\ shard = [from |-> shard.from, to |-> shard.to, todo |-> shard.todo, hits |-> shard.hits,
                fact |-> shard.fact, phase |-> shard.phase]
    /\ shard.from \in Int /\ shard.to \in Int
    /\ shard.phase \in {"activity", "factory", "resolve", "merged"}
    /\ shard.hits \in [Pools -> Nat] /\ shard.fact \subseteq Pools
    /\ shard.todo \subseteq Blocks \X Blocks /\ \A w \in shard.todo : r[1] <= w[1] /\ w[2] <= r[2]
    /\ shard.phase = "factory" => shard.todo = {}
    /\ shard.phase # "merged" => r[1] <= shard.from /\ shard.from <= shard.to /\ shard.to <= r[2]
    /\ \A p \in Pools : shard.hits[p] # 0 =>
           shard.hits[p] \in Active[p] /\ r[1] <= shard.hits[p] /\ shard.hits[p] <= r[2]
    /\ \A p \in shard.fact : r[1] <= Created[p] /\ Created[p] <= r[2]

ShardsInv ==
    /\ shards = [s \in DOMAIN shards |-> shards[s]]
    /\ job.pc # "scan" => shards = <<>>
    /\ \A s \in DOMAIN shards : ShardOK(shards[s], This)

Open(shard) == shard.phase \in {"activity", "factory"}

(* An open shard has still to ask for the activity of a block.             *)
ToAsk(shard, b) ==
    /\ Open(shard)
    /\ \/ \E w \in shard.todo : w[1] <= b /\ b <= w[2]
       \/ WindowEnd(shard) < b /\ b <= shard.to

SeenIn(shard, p, b) == shard.phase # "merged" /\ (shard.hits[p] # 0 \/ ToAsk(shard, b))
BornIn(shard, p, b) ==
    shard.phase # "merged" /\ (p \in shard.fact \/ (Open(shard) /\ shard.from <= b /\ b <= shard.to))

(* A block of the range under way is found, given up, or still to come.    *)
SeenOK(p, b) ==
    b \in Active[p] /\ <<"activity", b>> \notin lost =>
        \/ job.out[p] # None \/ <<p, b>> \in dropped
        \/ \E s \in DOMAIN shards : SeenIn(shards[s], p, b)
BornOK(p, b) ==
    b = Created[p] /\ <<"factory", b>> \notin lost =>
        \/ job.out[p] # None \/ <<p, b>> \in dropped
        \/ \E s \in DOMAIN shards : BornIn(shards[s], p, b)
ScanInv ==
    job.pc \in {"scan", "write"} =>
        \A b \in This[1]..This[2], p \in Pools : SeenOK(p, b) /\ BornOK(p, b)

SpanInv ==
    /\ scanned \subseteq Blocks
    /\ mark = Unscanned => scanned = {}
    /\ mark # Unscanned => 1 <= mark[1] /\ mark[1] <= mark[2]

DiscoverInv ==
    /\ ShapeInv /\ RangesInv /\ RowsTrue /\ PoolsFit /\ OutInv /\ TodoInv /\ ShardsInv
    /\ ScanInv /\ SpanInv /\ CoveredIsFound

-------------------------------------------------------------------------------
LEMMA Constants ==
  /\ MaxBlock \in Nat \ {0} /\ Batch \in Nat \ {0} /\ FactoryStep \in Nat \ {0}
  /\ Lookback \in Nat \ {0}
  /\ \A p \in Pools : /\ Created[p] \in 0..MaxBlock
                       /\ Active[p] \subseteq Blocks
                       /\ \A b \in Active[p] : Created[p] < b
  BY DiscoveryAssumption DEF DiscoveryAssumption, Blocks

LEMMA NoneIsTrue ==
  /\ None \in RowSet /\ NoPools \in [Pools -> RowSet] /\ Known(NoPools) = {}
  /\ \A p \in Pools : NoPools[p] = None /\ True(p, None)
  /\ \A x : NoLater(None, x) /\ Keeps(None, x)
  BY Constants DEF None, NoPools, Known, RowSet, True, NoLater, Keeps

LEMMA KeepsSelf == \A p \in Pools : \A x : True(p, x) => Keeps(x, x)
  BY Constants DEF True, RowSet, Keeps, None

(* A run that ends, in whatever way, leaves nothing half done that matters. *)
LEMMA QuitKeeps ==
  ASSUME DiscoverInv, job' = EndRun, shards' = <<>>, lost \subseteq lost',
         UNCHANGED <<tip, rows, mark, scanned, dropped>>
  PROVE  DiscoverInv'
<1>1. /\ job'.pc = "idle" /\ job'.ranges = <<>> /\ job'.out = NoPools /\ job'.pools = NoPools
      /\ job'.todo = {} /\ job'.misread = {}
      /\ job' = [pc |-> job'.pc, runs |-> job'.runs, source |-> job'.source, cancelled |-> job'.cancelled,
                 ranges |-> job'.ranges, out |-> job'.out, pools |-> job'.pools, todo |-> job'.todo,
                 misread |-> job'.misread]
  BY DEF EndRun, IdleJob
<1>2. ShapeInv'
  BY <1>1, NoneIsTrue DEF DiscoverInv, ShapeInv
<1>3. RangesInv'
  BY <1>1 DEF RangesInv, Scanning
<1>4. RowsTrue' /\ PoolsFit' /\ OutInv' /\ TodoInv'
  BY <1>1, NoneIsTrue DEF DiscoverInv, RowsTrue, PoolsFit, OutInv, TodoInv
<1>5. ShardsInv' /\ ScanInv'
  BY <1>1 DEF ShardsInv, ScanInv
<1>6. SpanInv' /\ CoveredIsFound'
  BY DEF DiscoverInv, SpanInv, CoveredIsFound, FoundAt
<1> QED
  BY <1>2, <1>3, <1>4, <1>5, <1>6 DEF DiscoverInv

LEMMA InitHolds == Init => DiscoverInv
<1> SUFFICES ASSUME Init PROVE DiscoverInv
  OBVIOUS
<1>1. /\ job.pc = "idle" /\ job.ranges = <<>> /\ job.out = NoPools /\ job.pools = NoPools
      /\ job.todo = {} /\ job.misread = {}
      /\ job = [pc |-> job.pc, runs |-> job.runs, source |-> job.source, cancelled |-> job.cancelled,
                ranges |-> job.ranges, out |-> job.out, pools |-> job.pools, todo |-> job.todo,
                misread |-> job.misread]
  BY DEF Init, IdleJob
<1>2. ShapeInv
  BY <1>1, NoneIsTrue, Constants DEF Init, ShapeInv, Unscanned, Blocks
<1>3. RangesInv
  BY <1>1 DEF RangesInv, Scanning
<1>4. RowsTrue /\ PoolsFit /\ OutInv /\ TodoInv
  BY <1>1, NoneIsTrue DEF Init, RowsTrue, PoolsFit, OutInv, TodoInv
<1>5. ShardsInv /\ ScanInv
  BY <1>1 DEF Init, ShardsInv, ScanInv
<1>6. SpanInv /\ CoveredIsFound
  BY DEF Init, SpanInv, CoveredIsFound
<1> QED
  BY <1>2, <1>3, <1>4, <1>5, <1>6 DEF DiscoverInv

(* Ranges of which each is of the chain and the second lies above the      *)
(* first.                                                                  *)
Ordered(q) ==
    /\ q \in Seq(Blocks \X Blocks)
    /\ \A i \in DOMAIN q : q[i][1] <= q[i][2]
    /\ \A i, j \in DOMAIN q : i < j => q[i][2] < q[j][1]

LEMMA MineKeeps == DiscoverInv /\ Mine => DiscoverInv'
<1> SUFFICES ASSUME DiscoverInv, Mine PROVE DiscoverInv'
  OBVIOUS
<1>1. ShapeInv'
  BY Constants DEF DiscoverInv, Mine, ShapeInv, Blocks
<1>2. RangesInv' /\ RowsTrue' /\ PoolsFit' /\ OutInv' /\ TodoInv'
  BY DEF DiscoverInv, Mine, RangesInv, Scanning, RowsTrue, PoolsFit, OutInv, TodoInv, This
<1>3. ShardsInv' /\ ScanInv' /\ SpanInv' /\ CoveredIsFound'
  BY DEF DiscoverInv, Mine, ShardsInv, ScanInv, SpanInv, CoveredIsFound, FoundAt
<1> QED
  BY <1>1, <1>2, <1>3 DEF DiscoverInv

LEMMA CancelKeeps == DiscoverInv /\ Cancel => DiscoverInv'
<1> SUFFICES ASSUME DiscoverInv, Cancel PROVE DiscoverInv'
  OBVIOUS
<1>1. /\ ShapeInv' /\ job'.pc = job.pc /\ job'.ranges = job.ranges /\ job'.out = job.out
      /\ job'.pools = job.pools /\ job'.todo = job.todo
  BY DEF DiscoverInv, Cancel, ShapeInv
<1>2. RangesInv' /\ RowsTrue' /\ PoolsFit' /\ OutInv' /\ TodoInv'
  BY <1>1 DEF DiscoverInv, Cancel, RangesInv, Scanning, RowsTrue, PoolsFit, OutInv, TodoInv, This
<1>3. ShardsInv'
  BY <1>1 DEF DiscoverInv, Cancel, ShardsInv, ShardOK, This
<1>4. ScanInv'
  BY <1>1 DEF DiscoverInv, Cancel, ScanInv, SeenOK, BornOK, This
<1>5. SpanInv' /\ CoveredIsFound'
  BY DEF DiscoverInv, Cancel, SpanInv, CoveredIsFound, FoundAt
<1> QED
  BY <1>1, <1>2, <1>3, <1>4, <1>5 DEF DiscoverInv

(* What lies below and above the span is of the range, in that order.      *)
LEMMA GapsAreOrdered ==
  ASSUME DiscoverInv, NEW from \in Blocks, NEW to \in Blocks, from <= to
  PROVE  Ordered(LookbackScanRanges(from, to))
<1>1. Ordered(<<<<from, to>>>>)
  BY DEF Ordered
<1>2. ASSUME mark # Unscanned PROVE Ordered(LookbackScanRanges(from, to))
  <2> DEFINE below == <<from, Least(mark[1] - 1, to)>>
             above == <<Largest(mark[2] + 1, from), to>>
             q == WithGap(<<>>, below)
  <2>1. 1 <= mark[1] /\ mark[1] <= mark[2] /\ mark[1] \in Int /\ mark[2] \in Int
    BY <1>2 DEF DiscoverInv, SpanInv, ShapeInv
  <2>2. /\ below[1] <= below[2] => below \in Blocks \X Blocks
        /\ above[1] <= above[2] => above \in Blocks \X Blocks
        /\ below[2] < above[1]
    BY <2>1, Constants DEF Blocks, Least, Largest
  <2>3. LookbackScanRanges(from, to) = WithGap(q, above)
    BY <1>2 DEF LookbackScanRanges
  <2> HIDE DEF below, above
  <2>4. Ordered(q) /\ Len(q) \in {0, 1} /\ \A i \in DOMAIN q : q[i][2] < above[1]
    BY <2>2 DEF Ordered, WithGap
  <2> HIDE DEF q
  <2>5. ASSUME above[1] <= above[2] PROVE Ordered(Append(q, above))
    BY <2>2, <2>4, <2>5 DEF Ordered
  <2> QED
    BY <2>3, <2>4, <2>5 DEF WithGap
<1> QED
  BY <1>1, <1>2 DEF LookbackScanRanges

(* The highest creation block that a row tells is one.                     *)
LEMMA MaxCreationIsBlock == DiscoverInv => MaxCreationBlock \in 0..MaxBlock
<1> SUFFICES ASSUME DiscoverInv PROVE MaxCreationBlock \in 0..MaxBlock
  OBVIOUS
<1> DEFINE bounds == {b \in 0..MaxBlock : \A p \in Pools : rows[p].created <= b}
<1>1. \A p \in Pools : rows[p].created \in 0..MaxBlock
  BY DEF DiscoverInv, ShapeInv, RowSet
<1>2. MaxBlock \in bounds
  BY <1>1, Constants
<1>3. PICK b \in bounds : \A c \in bounds : b <= c
  <2>1. bounds \subseteq Nat /\ bounds # {}
    BY <1>2
  <2> HIDE DEF bounds
  <2> QED
    BY <2>1, LeastExists
<1>4. b \in 0..MaxBlock /\ \A p \in Pools : rows[p].created <= b
  OBVIOUS
<1>5. b = 0 \/ \E p \in Pools : rows[p].created = b
  <2> SUFFICES ASSUME b # 0, \A p \in Pools : rows[p].created # b PROVE FALSE
    OBVIOUS
  <2>1. b - 1 \in 0..MaxBlock /\ ~(b <= b - 1)
    BY <1>4, Constants
  <2>2. \A p \in Pools : rows[p].created <= b - 1
    BY <1>1, <1>4, Constants
  <2>3. b - 1 \in bounds
    BY <2>1, <2>2
  <2> QED
    BY <1>3, <2>1, <2>3
<1> QED
  BY <1>4, <1>5 DEF MaxCreationBlock

(* The ranges of a run.                                                    *)
LEMMA RangesAreOrdered ==
  ASSUME DiscoverInv, NEW mode \in Modes, NEW w \in ScanWindow(mode), NEW read
  PROVE  Ordered(ScanRanges(read, w[1], w[2]))
<1>1. w[1] \in Blocks /\ w[2] \in Blocks /\ w[1] <= w[2]
  BY Constants DEF ScanWindow, DiscoverInv, ShapeInv, Blocks, Largest
<1>2. Ordered(LookbackScanRanges(w[1], w[2]))
  BY <1>1, GapsAreOrdered
<1>3. Ordered(<<>>) /\ Ordered(<<<<w[1], w[2]>>>>)
  BY <1>1 DEF Ordered
<1>4. ASSUME ~(MaxCreationBlock + 1 > w[2]) PROVE Ordered(<<<<MaxCreationBlock + 1, w[2]>>>>)
  <2> DEFINE m == MaxCreationBlock + 1
  <2>1. m \in Blocks /\ m <= w[2]
    BY <1>1, <1>4, MaxCreationIsBlock, Constants DEF Blocks
  <2> HIDE DEF m
  <2>2. Ordered(<<<<m, w[2]>>>>)
    BY <1>1, <2>1 DEF Ordered
  <2> QED
    BY <2>2 DEF m
<1> HIDE DEF MaxCreationBlock
<1> QED
  BY <1>2, <1>3, <1>4 DEF ScanRanges

LEMMA StartRunKeeps == DiscoverInv /\ StartRun => DiscoverInv'
<1> SUFFICES ASSUME DiscoverInv, StartRun PROVE DiscoverInv'
  OBVIOUS
<1> DEFINE Ranges(source, read, w) == IF source = "remote" THEN <<>> ELSE ScanRanges(read, w[1], w[2])
           Started(source, ranges) ==
               job' = [IdleJob EXCEPT !.pc = IF ranges # <<>> THEN "range"
                                             ELSE IF source = "onchain" THEN "idle" ELSE "remote",
                                      !.runs = job.runs + 1, !.source = source, !.ranges = ranges]
<1>1. \E source \in Sources, mode \in Modes : \E w \in ScanWindow(mode), read \in Reads(mode) :
          Started(source, Ranges(source, read, w))
  BY Zenon DEF StartRun
<1> HIDE DEF Started, Ranges
<1>2. PICK source \in Sources, mode \in Modes :
          \E w \in ScanWindow(mode), read \in Reads(mode) : Started(source, Ranges(source, read, w))
  BY <1>1
<1>3. PICK w \in ScanWindow(mode), read \in Reads(mode) : Started(source, Ranges(source, read, w))
  BY <1>2
<1> DEFINE ranges == Ranges(source, read, w)
<1>4. Ordered(ranges)
  <2>1. Ordered(<<>>)
    BY DEF Ordered
  <2>2. Ordered(ScanRanges(read, w[1], w[2]))
    BY RangesAreOrdered
  <2> QED
    BY <2>1, <2>2 DEF Ranges
<1> HIDE DEF ranges
<1>5. job' = [IdleJob EXCEPT !.pc = IF ranges # <<>> THEN "range"
                                    ELSE IF source = "onchain" THEN "idle" ELSE "remote",
                             !.runs = job.runs + 1, !.source = source, !.ranges = ranges]
  BY <1>3 DEF ranges, Started
<1>6. /\ job'.pc \in {"idle", "range", "remote"} /\ job'.ranges = ranges /\ job'.out = NoPools
      /\ job'.pc = "range" <=> ranges # <<>>
      /\ job'.pools = NoPools /\ job'.todo = {} /\ job'.misread = {}
      /\ job' = [pc |-> job'.pc, runs |-> job'.runs, source |-> job'.source, cancelled |-> job'.cancelled,
                 ranges |-> job'.ranges, out |-> job'.out, pools |-> job'.pools, todo |-> job'.todo,
                 misread |-> job'.misread]
  BY <1>5 DEF IdleJob
<1>7. shards = <<>> /\ UNCHANGED <<tip, rows, mark, shards, scanned, lost, dropped>>
  BY DEF StartRun, DiscoverInv, ShardsInv
<1>8. ShapeInv'
  BY <1>6, <1>7, NoneIsTrue DEF DiscoverInv, ShapeInv
<1>9. RangesInv'
  BY <1>4, <1>6 DEF RangesInv, Scanning, Ordered
<1>10. RowsTrue' /\ PoolsFit' /\ OutInv' /\ TodoInv'
  BY <1>6, <1>7, NoneIsTrue DEF DiscoverInv, RowsTrue, PoolsFit, OutInv, TodoInv
<1>11. ShardsInv' /\ ScanInv'
  BY <1>6, <1>7 DEF ShardsInv, ScanInv
<1>12. SpanInv' /\ CoveredIsFound'
  BY <1>7 DEF DiscoverInv, SpanInv, CoveredIsFound, FoundAt
<1> QED
  BY <1>8, <1>9, <1>10, <1>11, <1>12 DEF DiscoverInv

(* A shard that begins, with what its earlier windows have told.           *)
Begun(from, to, hits, fact) ==
    [from |-> from, to |-> to, todo |-> BlockWindows(from, Least(from + FactoryStep - 1, to), Batch),
     hits |-> hits, fact |-> fact, phase |-> "activity"]

LEMMA BegunIsOK ==
  ASSUME NEW r \in Blocks \X Blocks,
         NEW from \in Int, NEW to \in Int, r[1] <= from, from <= to, to <= r[2],
         NEW hits \in [Pools -> Nat], NEW fact \in SUBSET Pools,
         \A p \in Pools : hits[p] # 0 => hits[p] \in Active[p] /\ r[1] <= hits[p] /\ hits[p] <= r[2],
         \A p \in fact : r[1] <= Created[p] /\ Created[p] <= r[2]
  PROVE  /\ ShardOK(Begun(from, to, hits, fact), r)
         /\ Open(Begun(from, to, hits, fact))
         /\ Begun(from, to, hits, fact).from = from /\ Begun(from, to, hits, fact).to = to
         /\ Begun(from, to, hits, fact).hits = hits /\ Begun(from, to, hits, fact).fact = fact
         /\ \A b \in from..to : ToAsk(Begun(from, to, hits, fact), b)
<1> DEFINE new == Begun(from, to, hits, fact)
           end == Least(from + FactoryStep - 1, to)
           windows == BlockWindows(from, end, Batch)
<1>1. new = [from |-> from, to |-> to, todo |-> windows, hits |-> hits, fact |-> fact, phase |-> "activity"]
  BY Zenon DEF Begun
<1>2. end \in Int /\ from <= end /\ end <= to
  BY Constants DEF Least
<1>3. \A w \in windows : w \in Blocks \X Blocks /\ r[1] <= w[1] /\ w[2] <= r[2]
  <2> SUFFICES ASSUME NEW w \in windows PROVE w \in Blocks \X Blocks /\ r[1] <= w[1] /\ w[2] <= r[2]
    OBVIOUS
  <2> HIDE DEF end
  <2>1. w = <<w[1], w[2]>> /\ w[1] \in from..end /\ w[2] \in from..end
    BY <1>2, Constants, WindowsLie
  <2>2. w[1] \in Blocks /\ w[2] \in Blocks
    BY <1>2, <2>1, Constants DEF Blocks
  <2>3. r[1] <= w[1] /\ w[2] <= r[2]
    BY <1>2, <2>1, Constants DEF Blocks
  <2> QED
    BY <2>1, <2>2, <2>3
<1>4. \A b \in from..end : \E w \in windows : w[1] <= b /\ b <= w[2]
  <2> HIDE DEF end
  <2> QED
    BY <1>2, Constants, WindowsTile
<1>5. WindowEnd(new) = end
  BY <1>1 DEF WindowEnd
<1> HIDE DEF new, end, windows
<1>6. ShardOK(new, r)
  BY <1>1, <1>2, <1>3 DEF ShardOK
<1>7. Open(new) /\ new.from = from /\ new.to = to /\ new.hits = hits /\ new.fact = fact
  BY <1>1 DEF Open
<1>8. ASSUME NEW b \in from..to PROVE ToAsk(new, b)
  <2>1. CASE b <= end
    <3>1. b \in from..end
      BY <1>2, <2>1
    <3> QED
      BY <1>1, <1>4, <1>7, <3>1 DEF ToAsk
  <2>2. CASE end < b
    BY <1>5, <1>7, <2>2 DEF ToAsk
  <2> QED
    BY <1>2, <2>1, <2>2
<1> QED
  BY <1>6, <1>7, <1>8 DEF new

LEMMA NewIsBegun ==
  ASSUME NEW from, NEW to
  PROVE  NewShard(from, to) = Begun(from, to, [p \in Pools |-> 0], {})
  BY Zenon DEF NewShard, Begun

LEMMA NextIsBegun ==
  ASSUME NEW from, NEW to, NEW hits, NEW fact
  PROVE  [NewShard(from, to) EXCEPT !.fact = fact, !.hits = hits] = Begun(from, to, hits, fact)
<1> DEFINE none == [p \in Pools |-> 0]
           windows == BlockWindows(from, Least(from + FactoryStep - 1, to), Batch)
           new == [NewShard(from, to) EXCEPT !.fact = fact, !.hits = hits]
<1>1. new = [[from |-> from, to |-> to, todo |-> windows, hits |-> none, fact |-> {}, phase |-> "activity"]
                 EXCEPT !.fact = fact, !.hits = hits]
  BY Zenon DEF NewShard
<1> HIDE DEF new, windows, none
<1>2. new = [from |-> from, to |-> to, todo |-> windows, hits |-> hits, fact |-> fact, phase |-> "activity"]
  BY <1>1
<1> QED
  BY <1>2, Zenon DEF new, windows, Begun

LEMMA NewIsOK ==
  ASSUME NEW r \in Blocks \X Blocks,
         NEW from \in Int, NEW to \in Int, r[1] <= from, from <= to, to <= r[2]
  PROVE  /\ ShardOK(NewShard(from, to), r)
         /\ \A p \in Pools : \A b \in from..to : SeenIn(NewShard(from, to), p, b) /\ BornIn(NewShard(from, to), p, b)
<1> DEFINE hits == [p \in Pools |-> 0]
           new == Begun(from, to, hits, {})
<1>1. hits \in [Pools -> Nat] /\ \A p \in Pools : hits[p] = 0
  OBVIOUS
<1> HIDE DEF hits
<1>2. /\ ShardOK(new, r) /\ Open(new) /\ new.from = from /\ new.to = to
      /\ \A b \in from..to : ToAsk(new, b)
  BY <1>1, BegunIsOK
<1>3. NewShard(from, to) = new
  BY NewIsBegun DEF hits
<1> HIDE DEF new
<1>4. \A p \in Pools : \A b \in from..to : SeenIn(new, p, b) /\ BornIn(new, p, b)
  BY <1>2 DEF SeenIn, BornIn, Open
<1> QED
  BY <1>2, <1>3, <1>4

(* The range under way is of the chain.                                    *)
LEMMA ThisIsBlocks == DiscoverInv /\ Scanning => This \in Blocks \X Blocks /\ This[1] <= This[2]
<1> SUFFICES ASSUME DiscoverInv, Scanning PROVE This \in Blocks \X Blocks /\ This[1] <= This[2]
  OBVIOUS
<1>1. job.ranges \in Seq(Blocks \X Blocks) /\ job.ranges # <<>>
  BY DEF DiscoverInv, RangesInv
<1>2. 1 \in DOMAIN job.ranges /\ Head(job.ranges) = job.ranges[1]
  BY <1>1
<1> QED
  BY <1>1, <1>2 DEF DiscoverInv, RangesInv, This

LEMMA StartRangeKeeps == DiscoverInv /\ StartRange => DiscoverInv'
<1> SUFFICES ASSUME DiscoverInv, StartRange PROVE DiscoverInv'
  OBVIOUS
<1>1. /\ ShapeInv' /\ job.pc = "range" /\ job'.pc = "scan" /\ job'.ranges = job.ranges /\ job'.out = NoPools
      /\ job'.pools = job.pools /\ job'.todo = job.todo
  BY NoneIsTrue DEF DiscoverInv, StartRange, ShapeInv
<1>2. This \in Blocks \X Blocks /\ This[1] <= This[2] /\ This' = This
  BY <1>1, ThisIsBlocks DEF Scanning, This
<1>3. RangesInv' /\ RowsTrue' /\ PoolsFit' /\ OutInv' /\ TodoInv'
  BY <1>1, NoneIsTrue DEF DiscoverInv, StartRange, RangesInv, Scanning, RowsTrue, PoolsFit, OutInv, TodoInv
<1> DEFINE from == This[1]
           to == This[2]
<1>4. from \in Int /\ to \in Int /\ from <= to
  BY <1>2 DEF Blocks
<1>5. PICK m \in Int : \/ shards' = <<NewShard(from, to)>>
                       \/ /\ from <= m /\ m < to
                          /\ shards' = <<NewShard(from, m), NewShard(m + 1, to)>>
  BY <1>4 DEF StartRange, This
<1>6. ShardsInv' /\ ScanInv'
  <2>1. CASE shards' = <<NewShard(from, to)>>
    <3>1. /\ ShardOK(NewShard(from, to), This)
          /\ \A p \in Pools : \A b \in from..to : SeenIn(NewShard(from, to), p, b) /\ BornIn(NewShard(from, to), p, b)
      BY <1>2, <1>4, NewIsOK
    <3>2. DOMAIN shards' = {1} /\ shards'[1] = NewShard(from, to) /\ shards' = [s \in DOMAIN shards' |-> shards'[s]]
      BY <2>1
    <3>3. ShardsInv'
      BY <1>1, <1>2, <3>1, <3>2 DEF ShardsInv
    <3>4. ScanInv'
      BY <1>1, <1>2, <3>1, <3>2 DEF ScanInv, SeenOK, BornOK
    <3> QED
      BY <3>3, <3>4
  <2>2. CASE from <= m /\ m < to /\ shards' = <<NewShard(from, m), NewShard(m + 1, to)>>
    <3>1. /\ ShardOK(NewShard(from, m), This)
          /\ \A p \in Pools : \A b \in from..m : SeenIn(NewShard(from, m), p, b) /\ BornIn(NewShard(from, m), p, b)
      BY <1>2, <1>4, <2>2, NewIsOK
    <3>2. /\ ShardOK(NewShard(m + 1, to), This)
          /\ \A p \in Pools : \A b \in (m + 1)..to : SeenIn(NewShard(m + 1, to), p, b) /\ BornIn(NewShard(m + 1, to), p, b)
      <4> DEFINE n == m + 1
      <4>1. n \in Int /\ This[1] <= n /\ n <= to
        BY <1>4, <2>2
      <4> HIDE DEF n
      <4>2. /\ ShardOK(NewShard(n, to), This)
            /\ \A p \in Pools : \A b \in n..to : SeenIn(NewShard(n, to), p, b) /\ BornIn(NewShard(n, to), p, b)
        BY <1>2, <1>4, <4>1, NewIsOK
      <4> QED
        BY <4>2 DEF n
    <3>3. /\ DOMAIN shards' = {1, 2} /\ shards'[1] = NewShard(from, m) /\ shards'[2] = NewShard(m + 1, to)
          /\ shards' = [s \in DOMAIN shards' |-> shards'[s]]
      BY <2>2
    <3>4. ShardsInv'
      BY <1>1, <1>2, <3>1, <3>2, <3>3 DEF ShardsInv
    <3>5. \A b \in from..to : b \in from..m \/ b \in (m + 1)..to
      BY <1>4, <2>2
    <3>6. ScanInv'
      BY <1>1, <1>2, <3>1, <3>2, <3>3, <3>5 DEF ScanInv, SeenOK, BornOK
    <3> QED
      BY <3>4, <3>6
  <2> QED
    BY <1>5, <2>1, <2>2
<1>7. SpanInv' /\ CoveredIsFound'
  BY DEF DiscoverInv, StartRange, SpanInv, CoveredIsFound, FoundAt
<1> QED
  BY <1>1, <1>3, <1>6, <1>7 DEF DiscoverInv

(* A shard with other windows, hits and phase.                             *)
LEMMA Updated ==
  ASSUME NEW x, x = [from |-> x.from, to |-> x.to, todo |-> x.todo, hits |-> x.hits, fact |-> x.fact,
                     phase |-> x.phase],
         NEW todo, NEW hits, NEW phase, NEW y, y = [x EXCEPT !.hits = hits, !.todo = todo, !.phase = phase]
  PROVE  y = [from |-> x.from, to |-> x.to, todo |-> todo, hits |-> hits, fact |-> x.fact, phase |-> phase]
  OBVIOUS

LEMMA ActivityKeeps == \A s \in DOMAIN shards : DiscoverInv /\ ScanActivity(s) => DiscoverInv'
<1> SUFFICES ASSUME NEW s \in DOMAIN shards, DiscoverInv, ScanActivity(s) PROVE DiscoverInv'
  OBVIOUS
<1> DEFINE shard == shards[s]
<1>1. /\ job.pc = "scan" /\ shard.phase = "activity"
      /\ UNCHANGED <<tip, rows, mark, job, scanned, dropped>>
  BY DEF ScanActivity
<1>2. PICK w \in shard.todo : \E a \in ActivityAnswers(w) :
         /\ shards' = [shards EXCEPT
               ![s].hits = [p \in Pools |->
                   IF shard.hits[p] = 0 /\ Emits(p, a.got) THEN Lowest(Active[p] \intersect a.got)
                   ELSE shard.hits[p]],
               ![s].todo = @ \ {w},
               ![s].phase = IF shard.todo = {w} THEN "factory" ELSE @]
         /\ lost' = lost \union ({"activity"} \X a.skipped)
  BY DEF ScanActivity
<1>3. PICK a \in ActivityAnswers(w) :
         /\ shards' = [shards EXCEPT
               ![s].hits = [p \in Pools |->
                   IF shard.hits[p] = 0 /\ Emits(p, a.got) THEN Lowest(Active[p] \intersect a.got)
                   ELSE shard.hits[p]],
               ![s].todo = @ \ {w},
               ![s].phase = IF shard.todo = {w} THEN "factory" ELSE @]
         /\ lost' = lost \union ({"activity"} \X a.skipped)
  BY <1>2
<1> DEFINE hits == [p \in Pools |->
                   IF shard.hits[p] = 0 /\ Emits(p, a.got) THEN Lowest(Active[p] \intersect a.got)
                   ELSE shard.hits[p]]
           todo == shard.todo \ {w}
           phase == IF shard.todo = {w} THEN "factory" ELSE "activity"
           new == [from |-> shard.from, to |-> shard.to, todo |-> todo, hits |-> hits, fact |-> shard.fact,
                   phase |-> phase]
<1>4. a.got \subseteq Blocked(w) /\ Blocked(w) \subseteq a.got \union a.skipped
  BY DEF ActivityAnswers, Answers, Answered
<1>5. This \in Blocks \X Blocks
  BY <1>1, ThisIsBlocks DEF Scanning
<1>6. ShardOK(shard, This) /\ shards = [t \in DOMAIN shards |-> shards[t]]
  BY DEF DiscoverInv, ShardsInv
<1>7. shards' = [shards EXCEPT ![s] = new]
  <2>1. shards' = [shards EXCEPT ![s].hits = hits, ![s].todo = todo, ![s].phase = phase]
    BY <1>1, <1>3
  <2> HIDE DEF hits, todo, phase
  <2>2. [shards EXCEPT ![s].hits = hits, ![s].todo = todo, ![s].phase = phase]
          = [shards EXCEPT ![s] = [@ EXCEPT !.hits = hits, !.todo = todo, !.phase = phase]]
    BY <1>6
  <2> DEFINE y == [shard EXCEPT !.hits = hits, !.todo = todo, !.phase = phase]
  <2>3. y = new
    <3>1. shard = [from |-> shard.from, to |-> shard.to, todo |-> shard.todo, hits |-> shard.hits,
                   fact |-> shard.fact, phase |-> shard.phase]
      BY <1>6 DEF ShardOK
    <3>2. y = [shard EXCEPT !.hits = hits, !.todo = todo, !.phase = phase]
      BY Zenon
    <3> HIDE DEF shard, y
    <3>3. y = [from |-> shard.from, to |-> shard.to, todo |-> todo, hits |-> hits, fact |-> shard.fact,
               phase |-> phase]
      BY <3>1, <3>2, Updated
    <3> QED
      BY <3>3
  <2>4. [shards EXCEPT ![s] = [@ EXCEPT !.hits = hits, !.todo = todo, !.phase = phase]] = [shards EXCEPT ![s] = y]
    BY Zenon
  <2> HIDE DEF y, new
  <2> QED
    BY <2>1, <2>2, <2>3, <2>4
<1>8. /\ shards' = [t \in DOMAIN shards |-> shards'[t]] /\ DOMAIN shards' = DOMAIN shards
      /\ shards'[s] = new /\ \A t \in DOMAIN shards : t # s => shards'[t] = shards[t]
  <2> HIDE DEF new
  <2> QED
    BY <1>6, <1>7
<1>9. /\ hits \in [Pools -> Nat]
      /\ \A p \in Pools : hits[p] # 0 => hits[p] \in Active[p] /\ This[1] <= hits[p] /\ hits[p] <= This[2]
      /\ \A p \in Pools : shard.hits[p] # 0 => hits[p] # 0
      /\ \A p \in Pools : Active[p] \intersect a.got # {} => hits[p] # 0
  <2> SUFFICES ASSUME NEW p \in Pools
               PROVE  /\ hits[p] \in Nat
                      /\ hits[p] # 0 => hits[p] \in Active[p] /\ This[1] <= hits[p] /\ hits[p] <= This[2]
                      /\ shard.hits[p] # 0 => hits[p] # 0
                      /\ Active[p] \intersect a.got # {} => hits[p] # 0
    OBVIOUS
  <2>1. /\ shard.hits[p] \in Nat
        /\ shard.hits[p] # 0 => shard.hits[p] \in Active[p] /\ This[1] <= shard.hits[p] /\ shard.hits[p] <= This[2]
        /\ w \in Blocks \X Blocks /\ This[1] <= w[1] /\ w[2] <= This[2]
    BY <1>1, <1>6 DEF ShardOK
  <2> DEFINE seen == Active[p] \intersect a.got
  <2>2. ASSUME seen # {} PROVE Lowest(seen) \in Active[p] /\ Lowest(seen) \in a.got
    <3>1. seen \subseteq Nat
      BY Constants DEF Blocks
    <3>2. Lowest(seen) \in seen
      BY <2>2, <3>1, LowestIsIn
    <3> QED
      BY <3>2
  <2>3. ASSUME seen # {} PROVE Lowest(seen) \in Nat \ {0} /\ Lowest(seen) \in This[1]..This[2]
    BY <1>4, <1>5, <2>1, <2>2, <2>3, Constants DEF Blocked, Blocks
  <2>4. hits[p] = IF shard.hits[p] = 0 /\ seen # {} THEN Lowest(seen) ELSE shard.hits[p]
    BY DEF Emits
  <2> HIDE DEF hits, seen
  <2>5. seen # {} => hits[p] # 0
    BY <2>1, <2>3, <2>4
  <2>6. Active[p] \intersect a.got # {} => hits[p] # 0
    BY <2>5 DEF seen
  <2> DEFINE old == shard.hits[p]
             low == Lowest(seen)
  <2> HIDE DEF shard, old, low
  <2>7. hits[p] = IF old = 0 /\ seen # {} THEN low ELSE old
    BY <2>4 DEF old, low
  <2>8. CASE old = 0 /\ seen # {}
    <3>1. hits[p] = low
      BY <2>7, <2>8
    <3>2. low \in Active[p] /\ low \in Nat \ {0} /\ low \in This[1]..This[2]
      BY <2>2, <2>3, <2>8 DEF low
    <3> QED
      BY <2>6, <2>8, <3>1, <3>2 DEF old
  <2>9. CASE ~(old = 0 /\ seen # {})
    <3>1. hits[p] = old
      BY <2>7, <2>9
    <3>2. old \in Nat /\ (old # 0 => old \in Active[p] /\ This[1] <= old /\ old <= This[2])
      BY <2>1 DEF old
    <3> QED
      BY <2>6, <3>1, <3>2 DEF old
  <2> QED
    BY <2>8, <2>9
<1>10. ShardOK(new, This)
  <2>1. /\ todo \subseteq shard.todo /\ phase \in {"activity", "factory"}
        /\ phase = "factory" => todo = {}
    OBVIOUS
  <2> HIDE DEF hits, todo, phase
  <2> QED
    BY <1>1, <1>6, <1>9, <2>1 DEF ShardOK
<1>11. ShardsInv'
  <2> HIDE DEF new
  <2>1. \A t \in DOMAIN shards' : ShardOK(shards'[t], This')
    <3>1. This' = This
      BY <1>1 DEF This
    <3>2. \A t \in DOMAIN shards : ShardOK(shards[t], This)
      BY DEF DiscoverInv, ShardsInv
    <3> QED
      BY <1>8, <1>10, <3>1, <3>2
  <2> QED
    BY <1>1, <1>8, <2>1 DEF ShardsInv
<1>12. ASSUME NEW p \in Pools, NEW b \in This[1]..This[2], b \in Active[p], <<"activity", b>> \notin lost',
              SeenIn(shard, p, b)
       PROVE  SeenIn(new, p, b)
  <2>1. CASE shard.hits[p] # 0
    <3> HIDE DEF hits, todo
    <3> QED
      BY <1>9, <2>1 DEF SeenIn
  <2>2. CASE ToAsk(shard, b)
    <3>1. Open(new)
      BY DEF Open
    <3>2. CASE w[1] <= b /\ b <= w[2]
      <4>1. w \in Blocks \X Blocks
        BY <1>6 DEF ShardOK
      <4>2. b \in a.got \union a.skipped
        BY <1>4, <1>5, <3>2, <4>1 DEF Blocked, Blocks
      <4>3. b \notin a.skipped
        BY <1>3, <1>12
      <4>4. hits[p] # 0
        BY <1>9, <1>12, <4>2, <4>3
      <4> HIDE DEF hits, todo
      <4> QED
        BY <3>1, <4>4 DEF SeenIn, Open
    <3>3. CASE \E v \in todo : v[1] <= b /\ b <= v[2]
      <4> HIDE DEF hits, todo, phase
      <4> QED
        BY <3>1, <3>3 DEF SeenIn, ToAsk, Open
    <3>4. CASE WindowEnd(shard) < b /\ b <= shard.to
      <4> HIDE DEF hits, todo, phase
      <4> QED
        BY <3>1, <3>4 DEF SeenIn, ToAsk, Open, WindowEnd
    <3> QED
      BY <2>2, <3>2, <3>3, <3>4 DEF ToAsk
  <2> QED
    BY <1>12, <2>1, <2>2 DEF SeenIn
<1>13. ASSUME NEW p \in Pools, NEW b \in Int, BornIn(shard, p, b)
       PROVE  BornIn(new, p, b)
  <2>1. phase \in {"activity", "factory"}
    OBVIOUS
  <2> HIDE DEF hits, todo, phase
  <2> QED
    BY <1>1, <1>13, <2>1 DEF BornIn, Open
<1>14. ScanInv'
  <2> HIDE DEF shard, new
  <2>1. This' = This /\ job' = job /\ dropped' = dropped /\ lost \subseteq lost'
    BY <1>1, <1>3 DEF This
  <2>2. ASSUME NEW p \in Pools, NEW b \in This[1]..This[2] PROVE SeenOK(p, b)' /\ BornOK(p, b)'
    <3>1. SeenOK(p, b) /\ BornOK(p, b)
      BY <1>1 DEF DiscoverInv, ScanInv
    <3>2. SeenOK(p, b)'
      BY <1>8, <1>12, <2>1, <3>1 DEF SeenOK, shard
    <3>3. BornOK(p, b)'
      BY <1>8, <1>13, <2>1, <3>1 DEF BornOK, shard
    <3> QED
      BY <3>2, <3>3
  <2> QED
    BY <2>1, <2>2 DEF ScanInv
<1>15. ShapeInv' /\ RangesInv' /\ RowsTrue' /\ PoolsFit' /\ OutInv' /\ TodoInv'
  BY <1>1 DEF DiscoverInv, ShapeInv, RangesInv, Scanning, RowsTrue, PoolsFit, OutInv, TodoInv, This
<1>16. SpanInv' /\ CoveredIsFound'
  <2>1. lost \subseteq lost'
    BY <1>3
  <2> QED
    BY <1>1, <2>1 DEF DiscoverInv, SpanInv, CoveredIsFound, FoundAt
<1> QED
  BY <1>11, <1>14, <1>15, <1>16 DEF DiscoverInv

(* A shard whose windows are through.                                      *)
LEMMA Finished ==
  ASSUME NEW x, x = [from |-> x.from, to |-> x.to, todo |-> x.todo, hits |-> x.hits, fact |-> x.fact,
                     phase |-> x.phase],
         NEW fact, NEW y, y = [x EXCEPT !.fact = fact, !.phase = "resolve"]
  PROVE  y = [from |-> x.from, to |-> x.to, todo |-> x.todo, hits |-> x.hits, fact |-> fact, phase |-> "resolve"]
  OBVIOUS

LEMMA FactoriesKeep == \A s \in DOMAIN shards : DiscoverInv /\ ScanFactories(s) => DiscoverInv'
<1> SUFFICES ASSUME NEW s \in DOMAIN shards, DiscoverInv, ScanFactories(s) PROVE DiscoverInv'
  OBVIOUS
<1> DEFINE shard == shards[s]
           end == WindowEnd(shard)
<1>1. /\ job.pc = "scan" /\ shard.phase = "factory"
      /\ UNCHANGED <<tip, rows, mark, scanned, dropped>>
  BY DEF ScanFactories
<1>2. PICK a \in FactoryAnswers(<<shard.from, end>>, Pinned) :
          LET fact == shard.fact \union {p \in Pools : Created[p] \in a.got} IN
          /\ lost' = lost \union ({"factory"} \X a.skipped)
          /\ IF job.cancelled /\ ~Pinned
             THEN shards' = <<>> /\ job' = EndRun
             ELSE /\ shards' = [shards EXCEPT ![s] =
                        IF end = shard.to THEN [shard EXCEPT !.fact = fact, !.phase = "resolve"]
                        ELSE [NewShard(end + 1, shard.to) EXCEPT !.fact = fact, !.hits = shard.hits]]
                  /\ job' = job
  BY DEF ScanFactories, WindowEnd
<1> DEFINE fact == shard.fact \union {p \in Pools : Created[p] \in a.got}
           new == IF end = shard.to THEN [shard EXCEPT !.fact = fact, !.phase = "resolve"]
                  ELSE [NewShard(end + 1, shard.to) EXCEPT !.fact = fact, !.hits = shard.hits]
<1>3. /\ This \in Blocks \X Blocks /\ This[1] \in Int /\ This[2] \in Int
      /\ ShardOK(shard, This) /\ shards = [t \in DOMAIN shards |-> shards[t]]
  BY <1>1, ThisIsBlocks DEF DiscoverInv, ShardsInv, Scanning, Blocks
<1>4. /\ shard.from \in Int /\ shard.to \in Int /\ This[1] <= shard.from /\ shard.to <= This[2]
      /\ shard.todo = {} /\ shard.fact \subseteq Pools
      /\ end \in Int /\ shard.from <= end /\ end <= shard.to
  BY <1>1, <1>3, Constants DEF ShardOK, WindowEnd, Least
<1>5. a.got \subseteq shard.from..end /\ shard.from..end \subseteq a.got \union a.skipped
  <2> DEFINE w == <<shard.from, end>>
  <2>1. Blocked(w) = shard.from..end
    BY DEF Blocked
  <2> HIDE DEF w
  <2>2. a \in FactoryAnswers(w, Pinned)
    BY DEF w
  <2>3. a.got \subseteq Blocked(w) /\ Blocked(w) \subseteq a.got \union a.skipped
    BY <2>2 DEF FactoryAnswers, Answers, Answered, GivenUp
  <2> QED
    BY <2>1, <2>3
<1>6. fact \in SUBSET Pools /\ \A p \in fact : This[1] <= Created[p] /\ Created[p] <= This[2]
  <2>1. fact \in SUBSET Pools
    BY <1>4
  <2>2. ASSUME NEW p \in fact PROVE This[1] <= Created[p] /\ Created[p] <= This[2]
    <3>1. CASE p \in shard.fact
      BY <1>3, <3>1 DEF ShardOK
    <3>2. CASE Created[p] \in a.got
      BY <1>3, <1>4, <1>5, <3>2
    <3> QED
      BY <3>1, <3>2
  <2> QED
    BY <2>1, <2>2
<1>7. CASE job.cancelled /\ ~Pinned
  <2>1. shards' = <<>> /\ job' = EndRun /\ lost \subseteq lost'
    BY <1>2, <1>7
  <2> QED
    BY <1>1, <2>1, QuitKeeps
<1>8. CASE ~(job.cancelled /\ ~Pinned)
  <2>1. shards' = [shards EXCEPT ![s] = new] /\ job' = job
    BY <1>2, <1>8
  <2>2. /\ shards' = [t \in DOMAIN shards |-> shards'[t]] /\ DOMAIN shards' = DOMAIN shards
        /\ shards'[s] = new /\ \A t \in DOMAIN shards : t # s => shards'[t] = shards[t]
    <3> HIDE DEF new
    <3> QED
      BY <1>3, <2>1
  <2>3. /\ ShardOK(new, This)
        /\ \A p \in Pools : \A b \in This[1]..This[2] :
              /\ SeenIn(shard, p, b) => SeenIn(new, p, b)
              /\ BornIn(shard, p, b) /\ b = Created[p] /\ <<"factory", b>> \notin lost' => BornIn(new, p, b)
    <3>1. CASE end = shard.to
      <4>1. new = [from |-> shard.from, to |-> shard.to, todo |-> shard.todo, hits |-> shard.hits,
                   fact |-> fact, phase |-> "resolve"]
        <5>1. shard = [from |-> shard.from, to |-> shard.to, todo |-> shard.todo, hits |-> shard.hits,
                       fact |-> shard.fact, phase |-> shard.phase]
          BY <1>3 DEF ShardOK
        <5>2. new = [shard EXCEPT !.fact = fact, !.phase = "resolve"]
          BY <3>1, Zenon
        <5> HIDE DEF shard, fact, new
        <5> QED
          BY <5>1, <5>2, Finished
      <4>2. ShardOK(new, This)
        <5> HIDE DEF new, fact
        <5> QED
          BY <1>1, <1>3, <1>6, <4>1 DEF ShardOK
      <4>3. ASSUME NEW p \in Pools, NEW b \in This[1]..This[2], SeenIn(shard, p, b) PROVE SeenIn(new, p, b)
        <5> HIDE DEF new, fact
        <5> QED
          BY <1>3, <1>4, <3>1, <4>1, <4>3 DEF SeenIn, ToAsk
      <4>4. ASSUME NEW p \in Pools, NEW b \in This[1]..This[2], BornIn(shard, p, b), b = Created[p],
                   <<"factory", b>> \notin lost'
            PROVE  BornIn(new, p, b)
        <5>1. p \in shard.fact \/ b \in shard.from..end
          BY <1>3, <1>4, <3>1, <4>4 DEF BornIn
        <5>2. b \notin a.skipped
          BY <1>2, <4>4
        <5>3. p \in fact
          BY <1>5, <4>4, <5>1, <5>2
        <5> HIDE DEF new, fact
        <5> QED
          BY <4>1, <5>3 DEF BornIn
      <4> HIDE DEF new
      <4> QED
        BY <4>2, <4>3, <4>4
    <3>2. CASE end # shard.to
      <4> DEFINE from == end + 1
      <4>1. from \in Int /\ This[1] <= from /\ from <= shard.to
        BY <1>3, <1>4, <3>2
      <4>2. /\ shard.hits \in [Pools -> Nat]
            /\ \A p \in Pools : shard.hits[p] # 0 => shard.hits[p] \in Active[p] /\ This[1] <= shard.hits[p] /\ shard.hits[p] <= This[2]
        BY <1>3 DEF ShardOK
      <4>3. new = Begun(from, shard.to, shard.hits, fact)
        <5>1. new = [NewShard(from, shard.to) EXCEPT !.fact = fact, !.hits = shard.hits]
          BY <3>2, Zenon
        <5> HIDE DEF new, fact, from
        <5>2. [NewShard(from, shard.to) EXCEPT !.fact = fact, !.hits = shard.hits]
                = Begun(from, shard.to, shard.hits, fact)
          BY NextIsBegun, Zenon
        <5> QED
          BY <5>1, <5>2, Zenon
      <4> HIDE DEF new, fact, from
      <4>4. /\ ShardOK(new, This) /\ Open(new) /\ new.from = from /\ new.to = shard.to
            /\ new.hits = shard.hits /\ new.fact = fact
            /\ \A b \in from..shard.to : ToAsk(new, b)
        BY <1>3, <1>4, <1>6, <4>1, <4>2, <4>3, BegunIsOK
      <4>5. new.phase # "merged"
        BY <4>4 DEF Open
      <4>6. ASSUME NEW p \in Pools, NEW b \in This[1]..This[2], SeenIn(shard, p, b) PROVE SeenIn(new, p, b)
        <5>1. CASE shard.hits[p] # 0
          BY <4>4, <4>5, <5>1 DEF SeenIn
        <5>2. CASE ToAsk(shard, b)
          <6>1. b \in from..shard.to
            BY <1>3, <1>4, <5>2 DEF ToAsk, from
          <6> QED
            BY <4>4, <4>5, <6>1 DEF SeenIn
        <5> QED
          BY <4>6, <5>1, <5>2 DEF SeenIn
      <4>7. ASSUME NEW p \in Pools, NEW b \in This[1]..This[2], BornIn(shard, p, b), b = Created[p],
                   <<"factory", b>> \notin lost'
            PROVE  BornIn(new, p, b)
        <5>1. p \in shard.fact \/ b \in shard.from..end \/ b \in from..shard.to
          BY <1>3, <1>4, <4>7 DEF BornIn, from
        <5>2. b \notin a.skipped
          BY <1>2, <4>7
        <5>3. b \in from..shard.to \/ p \in fact
          BY <1>5, <4>7, <5>1, <5>2 DEF fact
        <5> QED
          BY <4>1, <4>4, <4>5, <5>3 DEF BornIn
      <4> QED
        BY <4>4, <4>6, <4>7
    <3> HIDE DEF new
    <3> QED
      BY <3>1, <3>2
  <2> HIDE DEF new
  <2>4. This' = This /\ lost \subseteq lost'
    BY <1>2, <2>1 DEF This
  <2>5. ShardsInv'
    <3>1. \A t \in DOMAIN shards' : ShardOK(shards'[t], This')
      <4>1. \A t \in DOMAIN shards : ShardOK(shards[t], This)
        BY DEF DiscoverInv, ShardsInv
      <4> QED
        BY <2>2, <2>3, <2>4, <4>1
    <3> QED
      BY <1>1, <2>1, <2>2, <3>1 DEF ShardsInv
  <2>6. ScanInv'
    <3>1. ASSUME NEW p \in Pools, NEW b \in This[1]..This[2] PROVE SeenOK(p, b)' /\ BornOK(p, b)'
      <4>1. SeenOK(p, b) /\ BornOK(p, b)
        BY <1>1 DEF DiscoverInv, ScanInv
      <4>2. SeenOK(p, b)'
        BY <1>1, <2>1, <2>2, <2>3, <2>4, <4>1 DEF SeenOK, shard
      <4>3. BornOK(p, b)'
        BY <1>1, <2>1, <2>2, <2>3, <2>4, <4>1 DEF BornOK, shard
      <4> QED
        BY <4>2, <4>3
    <3> QED
      BY <2>1, <2>4, <3>1 DEF ScanInv
  <2>7. ShapeInv' /\ RangesInv' /\ RowsTrue' /\ PoolsFit' /\ OutInv' /\ TodoInv'
    BY <1>1, <2>1 DEF DiscoverInv, ShapeInv, RangesInv, Scanning, RowsTrue, PoolsFit, OutInv, TodoInv, This
  <2>8. SpanInv' /\ CoveredIsFound'
    BY <1>1, <2>4 DEF DiscoverInv, SpanInv, CoveredIsFound, FoundAt
  <2> QED
    BY <2>5, <2>6, <2>7, <2>8 DEF DiscoverInv
<1> QED
  BY <1>7, <1>8

LEMMA NoShardIsOK == \A r : ShardOK(NoShard, r)
<1> DEFINE none == [p \in Pools |-> 0]
<1>1. none \in [Pools -> Nat] /\ \A p \in Pools : none[p] = 0
  OBVIOUS
<1>2. NoShard = [from |-> 1, to |-> 0, todo |-> {}, hits |-> none, fact |-> {}, phase |-> "merged"]
  BY Zenon DEF NoShard
<1> HIDE DEF none
<1> QED
  BY <1>1, <1>2 DEF ShardOK

(* What is found is true and takes nothing from the row of the pool, but   *)
(* where the lookup of the row failed; and what is seen is found, or is of *)
(* a pool of which activity says nothing.                                  *)
LEMMA FromScanIsTrue ==
  ASSUME DiscoverInv, job.pc = "scan", NEW s \in DOMAIN shards, NEW p \in Pools, NEW failed,
         NEW missed, p \in missed => rows[p] # None
  PROVE  LET held == FromScan(shards[s], p, failed, missed) IN
         /\ True(p, held)
         /\ held # None => Fits(p, held, rows[p], This)
         /\ held # None /\ p \notin job.misread \union missed => Takes(held, rows[p], job.pools[p])
<1> DEFINE shard == shards[s]
           held == FromScan(shard, p, failed, missed)
<1>1. /\ This \in Blocks \X Blocks /\ ShardOK(shard, This) /\ True(p, rows[p]) /\ rows[p] \in RowSet
      /\ This[1] \in Blocks /\ This[2] \in Blocks
  BY ThisIsBlocks DEF DiscoverInv, ShardsInv, Scanning, RowsTrue, True
<1>2. job.pools[p] # None =>
          /\ Created[p] < This[1]
          /\ rows[p] = None => job.pools[p].created < This[1]
          /\ p \notin job.misread => NoLater(job.pools[p], rows[p])
  <2>1. job.ranges \in Seq(Blocks \X Blocks) /\ job.ranges # <<>>
    BY DEF DiscoverInv, RangesInv, Scanning
  <2>2. 1 \in DOMAIN job.ranges /\ This = job.ranges[1]
    BY <2>1 DEF This
  <2> QED
    BY <2>2 DEF DiscoverInv, PoolsFit, Scanning
<1>3. /\ Created[p] \in 0..MaxBlock /\ MaxBlock \in Nat /\ Blocks \subseteq Nat
      /\ job.pools[p].created \in Nat
      /\ \A x : NoLater(None, x)
  BY Constants, NoneIsTrue DEF DiscoverInv, ShapeInv, RowSet, Blocks
<1>4. CASE p \in shard.fact
  <2>1. This[1] <= Created[p] /\ Created[p] <= This[2] /\ Created[p] \in Nat /\ Created[p] # 0
    BY <1>1, <1>3, <1>4 DEF ShardOK, Blocks
  <2>2. PICK tokens \in BOOLEAN : held = Found(Created[p], TRUE, "exact", tokens)
    BY <1>4 DEF FromScan, FromCreation
  <2> HIDE DEF held
  <2>3. held # None /\ held.created = Created[p] /\ held.factory
    BY <2>2 DEF Found, None
  <2>4. True(p, held)
    BY <1>3, <2>1, <2>2 DEF True, RowSet, Found
  <2>5. Keeps(rows[p], held)
    BY <1>1, <1>3, <2>1, <2>3 DEF True, Keeps, RowSet
  <2>6. ~(job.pools[p] # None)
    BY <1>1, <1>2, <1>3, <2>1 DEF Blocks
  <2> QED
    BY <1>3, <1>4, <2>1, <2>3, <2>4, <2>5, <2>6 DEF Fits, Takes, held, shard
<1>5. CASE p \notin shard.fact /\ shard.hits[p] = 0
  <2>1. held = None
    BY <1>5 DEF FromScan
  <2> QED
    BY <1>5, <2>1, NoneIsTrue
<1>6. CASE p \notin shard.fact /\ shard.hits[p] # 0
  <2>1. /\ shard.hits[p] \in Active[p] /\ shard.hits[p] \in Blocks /\ shard.hits[p] <= This[2]
        /\ This[1] <= shard.hits[p]
        /\ Created[p] <= shard.hits[p] /\ Created[p] <= This[2]
    BY <1>1, <1>3, <1>6, Constants DEF ShardOK, Blocks
  <2>2. CASE Cached(p, missed)
    <3>1. held = rows[p] /\ rows[p] # None
      BY <1>6, <2>2 DEF FromScan, Cached
    <3>2. Keeps(rows[p], rows[p])
      BY <1>1, KeepsSelf
    <3>3. p \notin job.misread => NoLater(job.pools[p], rows[p])
      BY <1>2, <1>3
    <3> HIDE DEF held
    <3> QED
      BY <1>1, <2>1, <3>1, <3>2, <3>3 DEF Fits, Takes, held, shard
  <2>3. CASE ~Cached(p, missed) /\ p \in Singletons
    <3>1. held = None
      BY <1>6, <2>3 DEF FromScan
    <3> QED
      BY <1>6, <2>3, <3>1, NoneIsTrue
  <2>4. CASE ~Cached(p, missed) /\ p \notin Singletons
    <3>1. PICK tokens \in BOOLEAN : held = Found(shard.hits[p], FALSE, "exact", tokens)
      BY <1>6, <2>4 DEF FromScan
    <3> DEFINE hit == shard.hits[p]
    <3> HIDE DEF held
    <3>2. held # None /\ held.created = hit
      BY <3>1 DEF Found, None
    <3>3. True(p, held)
      BY <1>3, <2>1, <3>1 DEF True, RowSet, Found, Blocks
    <3>4. p \notin missed => rows[p] = None
      BY <2>4 DEF Cached
    <3>5. ASSUME rows[p] = None PROVE NoLater(job.pools[p], held)
      <4>1. CASE job.pools[p] = None
        BY <1>3, <4>1
      <4>2. CASE job.pools[p] # None
        <5>1. job.pools[p].created < This[1] /\ This[1] <= hit
          BY <1>2, <2>1, <3>5, <4>2
        <5>2. This[1] \in Nat /\ hit \in Nat /\ job.pools[p].created \in Nat
          BY <1>1, <1>3, <2>1
        <5>3. job.pools[p].created <= hit
          BY <5>1, <5>2
        <5> QED
          BY <3>2, <5>3 DEF NoLater
      <4> QED
        BY <4>1, <4>2
    <3>6. rows[p] = None => Keeps(rows[p], held)
      BY NoneIsTrue
    <3> QED
      BY <2>1, <3>2, <3>3, <3>4, <3>5, <3>6 DEF Fits, Takes, held, shard
  <2> QED
    BY <2>2, <2>3, <2>4
<1> QED
  BY <1>4, <1>5, <1>6

LEMMA MergeShardKeeps == \A s \in DOMAIN shards : DiscoverInv /\ MergeShard(s) => DiscoverInv'
<1> SUFFICES ASSUME NEW s \in DOMAIN shards, DiscoverInv, MergeShard(s) PROVE DiscoverInv'
  OBVIOUS
<1>1. /\ job.pc = "scan" /\ shards[s].phase = "resolve" /\ shards' = [shards EXCEPT ![s] = NoShard]
      /\ UNCHANGED <<tip, rows, mark, scanned, lost>>
  BY DEF MergeShard
<1> DEFINE Told(failed, missed) == [p \in Pools |-> FromScan(shards[s], p, failed, missed)]
           After(failed, missed) ==
               LET told == Told(failed, missed) IN
               /\ job' = [job EXCEPT !.out = [p \in Pools |-> IF @[p] # None THEN @[p] ELSE told[p]],
                                     !.misread = @ \union missed]
               /\ dropped' = dropped \union ({p \in Pools : Seen(shards[s], p) /\ told[p] = None} \X ThisRange)
<1>2. PICK missed, failed :
          /\ missed \subseteq {p \in LooksUp(shards[s]) : rows[p] # None}
          /\ After(failed, missed)
  <2>1. \E missed \in IF "lookup" \in Faults THEN SUBSET {p \in LooksUp(shards[s]) : rows[p] # None} ELSE {{}} :
        \E failed \in IF "call" \in Faults THEN SUBSET Asks(shards[s], missed) ELSE {{}} :
           After(failed, missed)
    BY Zenon DEF MergeShard
  <2> HIDE DEF After
  <2> QED
    BY <2>1
<1> DEFINE held == Told(failed, missed)
           out == [p \in Pools |-> IF job.out[p] # None THEN job.out[p] ELSE held[p]]
           misread == job.misread \union missed
<1>3. /\ job' = [pc |-> job'.pc, runs |-> job'.runs, source |-> job'.source, cancelled |-> job'.cancelled,
                 ranges |-> job'.ranges, out |-> job'.out, pools |-> job'.pools, todo |-> job'.todo,
                 misread |-> job'.misread]
      /\ job'.pc = "scan" /\ job'.ranges = job.ranges /\ job'.out = out
      /\ job'.pools = job.pools /\ job'.todo = job.todo /\ job'.misread = misread
  <2>1. job' = [job EXCEPT !.out = out, !.misread = misread]
    BY <1>2, Zenon
  <2>2. job = [pc |-> job.pc, runs |-> job.runs, source |-> job.source, cancelled |-> job.cancelled,
              ranges |-> job.ranges, out |-> job.out, pools |-> job.pools, todo |-> job.todo,
              misread |-> job.misread]
    BY DEF DiscoverInv, ShapeInv
  <2> HIDE DEF out, misread
  <2> QED
    BY <1>1, <2>1, <2>2
<1>4. /\ missed \subseteq Pools /\ \A p \in missed : rows[p] # None
      /\ dropped \subseteq dropped'
      /\ \A p \in Pools : Seen(shards[s], p) /\ held[p] = None => {p} \X ThisRange \subseteq dropped'
  <2>1. missed \subseteq Pools /\ \A p \in missed : rows[p] # None
    BY <1>2 DEF LooksUp
  <2>2. dropped' = dropped \union ({p \in Pools : Seen(shards[s], p) /\ held[p] = None} \X ThisRange)
    BY <1>2, Zenon
  <2> HIDE DEF held
  <2> QED
    BY <2>1, <2>2
<1>5. ASSUME NEW p \in Pools
      PROVE  /\ True(p, out[p])
             /\ out[p] # None => Fits(p, out[p], rows[p], This)
             /\ out[p] # None /\ p \notin misread => Takes(out[p], rows[p], job.pools[p])
             /\ job.out[p] # None => out[p] # None
             /\ Seen(shards[s], p) => out[p] # None \/ {p} \X ThisRange \subseteq dropped'
  <2>1. CASE job.out[p] # None
    <3>1. out[p] = job.out[p]
      BY <2>1
    <3> HIDE DEF out
    <3> QED
      BY <2>1, <3>1 DEF DiscoverInv, RowsTrue, OutInv
  <2>2. CASE job.out[p] = None
    <3>1. out[p] = held[p]
      BY <2>2
    <3>2. held[p] = FromScan(shards[s], p, failed, missed)
      OBVIOUS
    <3>3. /\ True(p, held[p])
          /\ held[p] # None => Fits(p, held[p], rows[p], This)
          /\ held[p] # None /\ p \notin job.misread \union missed => Takes(held[p], rows[p], job.pools[p])
      <4> HIDE DEF held
      <4> QED
        BY <1>1, <1>4, <3>2, FromScanIsTrue
    <3> HIDE DEF held, out
    <3> QED
      BY <1>4, <2>2, <3>1, <3>3
  <2> QED
    BY <2>1, <2>2
<1>6. out \in [Pools -> RowSet]
  <2>1. out = [p \in Pools |-> out[p]]
    BY Zenon
  <2> HIDE DEF out
  <2>2. \A p \in Pools : out[p] \in RowSet
    BY <1>5 DEF True
  <2> QED
    BY <2>1, <2>2
<1> HIDE DEF out, held
<1>7. ShapeInv'
  BY <1>1, <1>3, <1>4, <1>6 DEF DiscoverInv, ShapeInv
<1>8. RangesInv' /\ This' = This /\ ThisRange = This[1]..This[2]
  BY <1>1, <1>3 DEF DiscoverInv, RangesInv, Scanning, This, ThisRange
<1>9. RowsTrue' /\ PoolsFit'
  BY <1>1, <1>3, <1>5 DEF DiscoverInv, RowsTrue, PoolsFit, Scanning
<1>10. OutInv' /\ TodoInv'
  <2>1. /\ rows' = rows /\ job'.pc = "scan" /\ job'.out = out /\ job'.pools = job.pools /\ This' = This
        /\ job'.misread = misread
    BY <1>1, <1>3, <1>8
  <2>2. \A p \in Pools : out[p] # None => /\ Fits(p, out[p], rows'[p], This')
                                          /\ p \notin misread => Takes(out[p], rows'[p], job'.pools[p])
    BY <1>5, <2>1
  <2> HIDE DEF misread
  <2>3. OutInv'
    BY <2>1, <2>2 DEF OutInv
  <2> QED
    BY <2>1, <2>3 DEF TodoInv
<1>11. /\ shards' = [t \in DOMAIN shards |-> shards'[t]] /\ DOMAIN shards' = DOMAIN shards
       /\ shards'[s] = NoShard /\ \A t \in DOMAIN shards : t # s => shards'[t] = shards[t]
  BY <1>1 DEF DiscoverInv, ShardsInv
<1>12. ShardsInv'
  <2>1. \A t \in DOMAIN shards' : ShardOK(shards'[t], This')
    BY <1>8, <1>11, NoShardIsOK DEF DiscoverInv, ShardsInv
  <2> QED
    BY <1>3, <1>11, <2>1 DEF ShardsInv
<1>13. ScanInv'
  <2>1. ASSUME NEW p \in Pools, NEW b \in This[1]..This[2] PROVE SeenOK(p, b)' /\ BornOK(p, b)'
    <3>1. SeenOK(p, b) /\ BornOK(p, b)
      BY <1>1 DEF DiscoverInv, ScanInv
    <3>2. SeenIn(shards[s], p, b) => Seen(shards[s], p)
      BY <1>1 DEF SeenIn, ToAsk, Open, Seen
    <3>3. BornIn(shards[s], p, b) => Seen(shards[s], p)
      BY <1>1 DEF BornIn, Open, Seen
    <3>4. Seen(shards[s], p) => out[p] # None \/ <<p, b>> \in dropped'
      BY <1>5, <1>8
    <3>5. <<p, b>> \in dropped => <<p, b>> \in dropped'
      BY <1>4
    <3>6. SeenOK(p, b)'
      BY <1>1, <1>3, <1>5, <1>11, <3>1, <3>2, <3>4, <3>5 DEF SeenOK
    <3>7. BornOK(p, b)'
      BY <1>1, <1>3, <1>5, <1>11, <3>1, <3>3, <3>4, <3>5 DEF BornOK
    <3> QED
      BY <3>6, <3>7
  <2> QED
    BY <1>3, <1>8, <2>1 DEF ScanInv
<1>14. SpanInv' /\ CoveredIsFound'
  BY <1>1, <1>4 DEF DiscoverInv, SpanInv, CoveredIsFound, FoundAt
<1> QED
  BY <1>7, <1>8, <1>9, <1>10, <1>12, <1>13, <1>14 DEF DiscoverInv

LEMMA EndScanKeeps == DiscoverInv /\ EndScan => DiscoverInv'
<1> SUFFICES ASSUME DiscoverInv, EndScan PROVE DiscoverInv'
  OBVIOUS
<1>1. /\ job.pc = "scan" /\ shards' = <<>> /\ \A s \in DOMAIN shards : shards[s] = NoShard
      /\ UNCHANGED <<tip, rows, mark, scanned, lost, dropped>>
  BY DEF EndScan
<1>2. CASE Pinned /\ job.cancelled
  BY <1>1, <1>2, QuitKeeps DEF EndScan
<1>3. CASE ~(Pinned /\ job.cancelled)
  <2>1. /\ ShapeInv' /\ job'.pc = "write" /\ job'.ranges = job.ranges /\ job'.out = job.out
        /\ job'.pools = job.pools /\ job'.todo = Known(job.out) /\ job'.misread = job.misread
    BY <1>1, <1>3 DEF EndScan, DiscoverInv, ShapeInv
  <2>2. This' = This
    BY <2>1 DEF This
  <2>3. RangesInv' /\ RowsTrue' /\ PoolsFit'
    BY <1>1, <2>1 DEF DiscoverInv, RangesInv, Scanning, RowsTrue, PoolsFit
  <2>4. OutInv' /\ TodoInv'
    <3>1. \A p \in Pools : job.out[p] # None => p \in Known(job.out)
      BY DEF Known
    <3> QED
      BY <1>1, <2>1, <2>2, <3>1 DEF DiscoverInv, OutInv, TodoInv
  <2>5. ShardsInv'
    BY <1>1, <2>1 DEF ShardsInv
  <2>6. ScanInv'
    <3>1. \A s \in DOMAIN shards : shards[s].phase = "merged"
      BY <1>1 DEF NoShard
    <3>2. ASSUME NEW p \in Pools, NEW b \in This[1]..This[2] PROVE SeenOK(p, b)' /\ BornOK(p, b)'
      <4>1. SeenOK(p, b) /\ BornOK(p, b)
        BY <1>1 DEF DiscoverInv, ScanInv
      <4> QED
        BY <1>1, <2>1, <3>1, <4>1 DEF SeenOK, BornOK, SeenIn, BornIn
    <3> QED
      BY <2>1, <2>2, <3>2 DEF ScanInv
  <2>7. SpanInv' /\ CoveredIsFound'
    BY <1>1 DEF DiscoverInv, SpanInv, CoveredIsFound, FoundAt
  <2> QED
    BY <2>1, <2>3, <2>4, <2>5, <2>6, <2>7 DEF DiscoverInv
<1> QED
  BY <1>2, <1>3

(* What is written is true, and what was covered stays so.                 *)
LEMMA WriteFoundKeeps == DiscoverInv /\ WriteFound => DiscoverInv'
<1> SUFFICES ASSUME DiscoverInv, WriteFound PROVE DiscoverInv'
  OBVIOUS
<1>1. PICK p \in job.todo :
          /\ \/ rows' = [rows EXCEPT ![p] = job.out[p]] /\ dropped' = dropped
             \/ rows' = rows /\ dropped' = dropped \union ({p} \X ThisRange)
          /\ job' = [job EXCEPT !.todo = @ \ {p}]
  BY DEF WriteFound
<1>2. job.pc = "write" /\ UNCHANGED <<tip, mark, shards, scanned, lost>>
  BY DEF WriteFound
<1>3. p \in Pools /\ job.out[p] # None
  BY <1>2 DEF DiscoverInv, TodoInv, Known
<1>4. /\ job'.pc = "write" /\ job'.ranges = job.ranges /\ job'.out = job.out
      /\ job'.pools = job.pools /\ job'.todo = job.todo \ {p} /\ job'.misread = job.misread
      /\ job' = [pc |-> job'.pc, runs |-> job'.runs, source |-> job'.source, cancelled |-> job'.cancelled,
                 ranges |-> job'.ranges, out |-> job'.out, pools |-> job'.pools, todo |-> job'.todo,
                 misread |-> job'.misread]
  BY <1>1, <1>2 DEF DiscoverInv, ShapeInv
<1>5. /\ rows \in [Pools -> RowSet] /\ job.out \in [Pools -> RowSet] /\ rows' \in [Pools -> RowSet]
      /\ rows'[p] \in {rows[p], job.out[p]} /\ \A q \in Pools : q # p => rows'[q] = rows[q]
      /\ dropped \subseteq dropped'
      /\ rows'[p] # None \/ {p} \X (This[1]..This[2]) \subseteq dropped'
  BY <1>1, <1>3 DEF DiscoverInv, ShapeInv, ThisRange, This
<1>6. ShapeInv' /\ This' = This
  BY <1>2, <1>4, <1>5 DEF DiscoverInv, ShapeInv, This
<1>7. RangesInv'
  BY <1>2, <1>4 DEF DiscoverInv, RangesInv, Scanning
<1>8. /\ True(p, job.out[p]) /\ Fits(p, job.out[p], rows[p], This)
      /\ p \notin job.misread => Takes(job.out[p], rows[p], job.pools[p])
      /\ Keeps(job.out[p], job.out[p])
  BY <1>3, KeepsSelf DEF DiscoverInv, RowsTrue, OutInv
<1>9. RowsTrue'
  BY <1>4, <1>5, <1>8 DEF DiscoverInv, RowsTrue
<1>10. PoolsFit'
  <2>1. ASSUME NEW q \in Pools, job.pools[q] # None
        PROVE  /\ q \notin job.misread => NoLater(job.pools[q], rows'[q])
               /\ \A i \in DOMAIN job.ranges :
                     /\ Created[q] < job.ranges[i][1]
                     /\ rows'[q] = None => job.pools[q].created < job.ranges[i][1]
    <3>1. /\ q \notin job.misread => NoLater(job.pools[q], rows[q])
          /\ \A i \in DOMAIN job.ranges :
                     /\ Created[q] < job.ranges[i][1]
                     /\ rows[q] = None => job.pools[q].created < job.ranges[i][1]
      BY <1>2, <2>1 DEF DiscoverInv, PoolsFit, Scanning
    <3>2. rows'[q] = None => rows[q] = None
      BY <1>3, <1>5
    <3>3. q \notin job.misread => NoLater(job.pools[q], rows'[q])
      BY <1>5, <1>8, <3>1 DEF Takes
    <3> QED
      BY <3>1, <3>2, <3>3
  <2> QED
    BY <1>2, <1>4, <2>1 DEF PoolsFit, Scanning
<1>11. OutInv'
  <2> SUFFICES ASSUME NEW q \in Pools, job.out[q] # None
               PROVE  /\ Fits(q, job.out[q], rows'[q], This)
                      /\ q \notin job.misread => Takes(job.out[q], rows'[q], job.pools[q])
                      /\ q \notin job.todo \ {p} => rows'[q] # None \/ {q} \X (This[1]..This[2]) \subseteq dropped'
    BY <1>4, <1>6 DEF OutInv
  <2>1. CASE q = p
    <3>1. rows'[p] = None => rows[p] = None
      BY <1>3, <1>5
    <3> QED
      BY <1>5, <1>8, <2>1, <3>1 DEF Fits, Takes
  <2>2. CASE q # p
    <3>1. /\ Fits(q, job.out[q], rows[q], This)
          /\ q \notin job.misread => Takes(job.out[q], rows[q], job.pools[q])
          /\ q \notin job.todo => rows[q] # None \/ {q} \X (This[1]..This[2]) \subseteq dropped
      BY <1>2 DEF DiscoverInv, OutInv
    <3> QED
      BY <1>5, <2>2, <3>1
  <2> QED
    BY <2>1, <2>2
<1>12. TodoInv' /\ ShardsInv'
  BY <1>2, <1>4 DEF DiscoverInv, TodoInv, ShardsInv
<1>13. ScanInv'
  BY <1>2, <1>4, <1>5, <1>6 DEF DiscoverInv, ScanInv, SeenOK, BornOK
<1>14. SpanInv' /\ CoveredIsFound'
  <2>1. \A q \in Pools : rows[q] # None => rows'[q] # None
    BY <1>3, <1>5
  <2> QED
    BY <1>2, <1>5, <2>1 DEF DiscoverInv, SpanInv, CoveredIsFound, FoundAt
<1> QED
  BY <1>6, <1>7, <1>9, <1>10, <1>11, <1>12, <1>13, <1>14 DEF DiscoverInv

(* What is merged of two rows of a pool.                                   *)
LEMMA MergedIsTrue ==
  ASSUME NEW p \in Pools, NEW x, NEW y, True(p, x), x # None, True(p, y), y # None
  PROVE  LET z == MergeFrom(x, y) IN
         /\ True(p, z) /\ z # None
         /\ z.created = IF x.created = 0 THEN y.created ELSE x.created
         /\ z.factory = (x.factory \/ y.factory)
<1> DEFINE z == MergeFrom(x, y)
<1>1. x \in RowSet /\ y \in RowSet /\ x.kind # "none" /\ y.kind # "none"
  BY DEF True
<1>2. /\ x.created \in 0..MaxBlock /\ x.factory \in BOOLEAN /\ y.created \in 0..MaxBlock /\ y.factory \in BOOLEAN
      /\ x.kind \in {"none", "guess", "labelled", "exact"} /\ y.kind \in {"none", "guess", "labelled", "exact"}
      /\ x.tokens \in BOOLEAN
  BY <1>1 DEF RowSet
<1>3. z = [created |-> IF x.created = 0 THEN y.created ELSE x.created, factory |-> x.factory \/ y.factory,
           kind |-> MergeKind(x, y), tokens |-> x.tokens]
  BY DEF MergeFrom
<1>4. MergeKind(x, y) \in {"guess", "labelled", "exact"}
  BY <1>1, <1>2 DEF MergeKind
<1> HIDE DEF z
<1>5. /\ z.created = IF x.created = 0 THEN y.created ELSE x.created
      /\ z.factory = (x.factory \/ y.factory) /\ z.kind # "none" /\ z.kind \in {"guess", "labelled", "exact"}
  BY <1>3, <1>4
<1>6. z \in RowSet
  <2>1. (x.factory \/ y.factory) \in BOOLEAN
    OBVIOUS
  <2>2. (IF x.created = 0 THEN y.created ELSE x.created) \in 0..MaxBlock
    BY <1>2
  <2> QED
    BY <1>2, <1>3, <1>4, <2>1, <2>2 DEF RowSet
<1>7. z # None
  BY <1>5 DEF None
<1>8. True(p, z)
  BY <1>5, <1>6 DEF True
<1> QED
  BY <1>5, <1>7, <1>8 DEF z

LEMMA NoteScanKeeps == DiscoverInv /\ NoteScan => DiscoverInv'
<1> SUFFICES ASSUME DiscoverInv, NoteScan PROVE DiscoverInv'
  OBVIOUS
<1>1. /\ job.pc = "write" /\ job.todo = {} /\ shards = <<>>
      /\ \/ mark' = SpanWith(This[1], This[2]) /\ scanned' = scanned \union This[1]..This[2]
         \/ UNCHANGED <<mark, scanned>>
      /\ UNCHANGED <<tip, rows, shards, lost, dropped>>
  BY DEF NoteScan, DiscoverInv, ShardsInv, This, ThisRange
<1>2. /\ job'.pc = IF Len(job.ranges) > 1 THEN "range" ELSE "remote"
      /\ job'.ranges = Tail(job.ranges) /\ job'.out = NoPools
      /\ job'.pools = MergePools(job.pools, job.out) /\ job'.todo = {} /\ job'.misread = job.misread
      /\ job' = [pc |-> job'.pc, runs |-> job'.runs, source |-> job'.source, cancelled |-> job'.cancelled,
                 ranges |-> job'.ranges, out |-> job'.out, pools |-> job'.pools, todo |-> job'.todo,
                 misread |-> job'.misread]
  BY <1>1 DEF NoteScan, DiscoverInv, ShapeInv
<1>3. /\ This \in Blocks \X Blocks /\ This[1] <= This[2] /\ This[1] \in Blocks /\ This[2] \in Blocks
      /\ MaxBlock \in Nat
  BY <1>1, ThisIsBlocks, Constants DEF Scanning
<1>4. /\ job'.ranges \in Seq(Blocks \X Blocks)
      /\ Len(job.ranges) > 1 => job'.ranges # <<>>
      /\ \A i \in DOMAIN job'.ranges : i \in Nat /\ i + 1 \in DOMAIN job.ranges /\ job'.ranges[i] = job.ranges[i + 1]
      /\ 1 \in DOMAIN job.ranges /\ This = job.ranges[1]
  <2>1. job.ranges \in Seq(Blocks \X Blocks) /\ job.ranges # <<>>
    BY <1>1 DEF DiscoverInv, RangesInv, Scanning
  <2> DEFINE q == job.ranges
  <2>2. q \in Seq(Blocks \X Blocks) /\ q # <<>> /\ job'.ranges = Tail(q) /\ This = Head(q)
    BY <1>2, <2>1 DEF This
  <2> HIDE DEF q
  <2>3. Len(q) \in Nat /\ Len(q) >= 1 /\ DOMAIN q = 1..Len(q) /\ Head(q) = q[1]
    BY <2>2
  <2>4. /\ Tail(q) \in Seq(Blocks \X Blocks) /\ Len(Tail(q)) = Len(q) - 1
        /\ DOMAIN Tail(q) = 1..(Len(q) - 1)
        /\ \A i \in 1..(Len(q) - 1) : Tail(q)[i] = q[i + 1]
    BY <2>2, <2>3
  <2>5. Len(q) > 1 => Tail(q) # <<>>
    <3>1. Len(<<>>) = 0
      OBVIOUS
    <3> DEFINE rest == Tail(q)
    <3>2. Len(rest) = Len(q) - 1
      BY <2>4
    <3> HIDE DEF rest
    <3>3. Len(q) > 1 => rest # <<>>
      BY <2>3, <3>1, <3>2
    <3> QED
      BY <3>3 DEF rest
  <2>6. \A i \in DOMAIN Tail(q) : i \in Nat /\ i + 1 \in DOMAIN q /\ Tail(q)[i] = q[i + 1]
    BY <2>3, <2>4
  <2> QED
    BY <2>2, <2>3, <2>4, <2>5, <2>6 DEF q
<1>5. RangesInv'
  <2>1. \A i \in DOMAIN job'.ranges : job'.ranges[i][1] <= job'.ranges[i][2]
    BY <1>4 DEF DiscoverInv, RangesInv
  <2>2. \A i, j \in DOMAIN job'.ranges : i < j => job'.ranges[i][2] < job'.ranges[j][1]
    <3> SUFFICES ASSUME NEW i \in DOMAIN job'.ranges, NEW j \in DOMAIN job'.ranges, i < j
                 PROVE  job'.ranges[i][2] < job'.ranges[j][1]
      OBVIOUS
    <3>1. i + 1 \in DOMAIN job.ranges /\ j + 1 \in DOMAIN job.ranges /\ i + 1 < j + 1
      BY <1>4
    <3>2. job.ranges[i + 1][2] < job.ranges[j + 1][1]
      BY <3>1 DEF DiscoverInv, RangesInv
    <3> QED
      BY <1>4, <3>2
  <2> QED
    BY <1>2, <1>4, <2>1, <2>2 DEF RangesInv, Scanning
<1>6. ASSUME NEW p \in Pools
      PROVE  /\ True(p, job'.pools[p])
             /\ job'.pools[p] # None =>
                    /\ job.pools[p] # None \/ job.out[p] # None
                    /\ job'.pools[p].created = IF job.pools[p].created = 0 THEN job.out[p].created
                                               ELSE job.pools[p].created
  <2>1. /\ True(p, job.pools[p]) /\ True(p, job.out[p]) /\ None.created = 0
        /\ job.pools[p].created \in Nat /\ job.out[p].created \in Nat
    BY Constants DEF DiscoverInv, RowsTrue, ShapeInv, RowSet, None
  <2>2. job'.pools[p] = IF job.pools[p] = None THEN job.out[p]
                        ELSE IF job.out[p] = None THEN job.pools[p] ELSE MergeFrom(job.pools[p], job.out[p])
    BY <1>2 DEF MergePools
  <2>3. CASE job.pools[p] = None \/ job.out[p] = None
    BY <2>1, <2>2, <2>3
  <2>4. CASE job.pools[p] # None /\ job.out[p] # None
    <3> DEFINE z == MergeFrom(job.pools[p], job.out[p])
    <3>1. /\ True(p, z) /\ z # None
          /\ z.created = IF job.pools[p].created = 0 THEN job.out[p].created ELSE job.pools[p].created
      BY <2>1, <2>4, MergedIsTrue
    <3>2. job'.pools[p] = z
      BY <2>2, <2>4
    <3> HIDE DEF z
    <3> QED
      BY <2>4, <3>1, <3>2
  <2> QED
    BY <2>3, <2>4
<1>7. ShapeInv'
  <2>1. job'.pools \in [Pools -> RowSet]
    <3>1. job'.pools = [p \in Pools |-> job'.pools[p]]
      BY <1>2 DEF MergePools
    <3>2. \A p \in Pools : job'.pools[p] \in RowSet
      BY <1>6 DEF True
    <3> QED
      BY <3>1, <3>2
  <2>2. mark' \in (0..MaxBlock) \X (0..MaxBlock)
    <3>1. mark \in (0..MaxBlock) \X (0..MaxBlock)
      BY DEF DiscoverInv, ShapeInv
    <3>2. SpanWith(This[1], This[2]) \in (0..MaxBlock) \X (0..MaxBlock)
      BY <1>3, <3>1 DEF SpanWith, Least, Largest, Blocks
    <3> QED
      BY <1>1, <3>1, <3>2
  <2> QED
    BY <1>1, <1>2, <2>1, <2>2, NoneIsTrue DEF DiscoverInv, ShapeInv
<1>8. RowsTrue'
  BY <1>1, <1>2, <1>6, NoneIsTrue DEF DiscoverInv, RowsTrue
<1>9. PoolsFit'
  <2> SUFFICES ASSUME NEW p \in Pools, job'.pools[p] # None
               PROVE  /\ p \notin job.misread => NoLater(job'.pools[p], rows[p])
                      /\ \A i \in DOMAIN job'.ranges :
                            /\ Created[p] < job'.ranges[i][1]
                            /\ rows[p] = None => job'.pools[p].created < job'.ranges[i][1]
    BY <1>1, <1>2 DEF PoolsFit
  <2>1. /\ rows[p] \in RowSet /\ job.out[p] \in RowSet /\ job.pools[p] \in RowSet /\ None.created = 0
        /\ rows[p].created \in Nat /\ job.out[p].created \in Nat /\ job.pools[p].created \in Nat
        /\ Created[p] \in Nat
    BY Constants DEF DiscoverInv, ShapeInv, RowSet, None
  <2>2. job.out[p] # None => /\ Fits(p, job.out[p], rows[p], This)
                             /\ p \notin job.misread => Keeps(rows[p], job.out[p])
    BY DEF DiscoverInv, OutInv, Takes
  <2>3. job.pools[p] # None /\ p \notin job.misread => NoLater(job.pools[p], rows[p])
    BY DEF DiscoverInv, PoolsFit
  <2>4. p \notin job.misread => NoLater(job'.pools[p], rows[p])
    <3>1. CASE job.pools[p].created = 0
      BY <1>6, <2>1, <2>2, <3>1 DEF Keeps, NoLater
    <3>2. CASE job.pools[p].created # 0
      BY <1>6, <2>1, <2>3, <3>2 DEF NoLater
    <3> QED
      BY <3>1, <3>2
  <2>5. ASSUME NEW i \in DOMAIN job'.ranges
        PROVE  /\ Created[p] < job'.ranges[i][1]
               /\ rows[p] = None => job'.pools[p].created < job'.ranges[i][1]
    <3> DEFINE start == job'.ranges[i][1]
    <3>1. /\ i + 1 \in DOMAIN job.ranges /\ 1 < i + 1 /\ start = job.ranges[i + 1][1]
          /\ This[2] < start /\ start \in Nat
      <4>1. i \in DOMAIN job'.ranges => i >= 1
        BY <1>4
      <4>2. i + 1 \in DOMAIN job.ranges /\ 1 < i + 1 /\ start = job.ranges[i + 1][1]
        BY <1>4, <4>1
      <4>3. job.ranges[1][2] < job.ranges[i + 1][1]
        BY <1>4, <4>2 DEF DiscoverInv, RangesInv
      <4>4. job.ranges[i + 1] \in Blocks \X Blocks
        BY <4>2 DEF DiscoverInv, RangesInv
      <4> QED
        BY <1>4, <4>2, <4>3, <4>4 DEF Blocks
    <3>2. job.pools[p] # None => /\ Created[p] < start
                                 /\ rows[p] = None => job.pools[p].created < start
      BY <1>1, <3>1 DEF DiscoverInv, PoolsFit, Scanning
    <3>3. job.out[p] # None => /\ Created[p] < start
                               /\ rows[p] = None => job.out[p].created < start
      BY <1>3, <2>1, <2>2, <3>1 DEF Fits, Blocks
    <3>4. /\ job.pools[p] = None => job.pools[p].created = 0
          /\ job.out[p] = None => job.out[p].created = 0
      BY <2>1
    <3>5. 0 < start
      BY <1>3, <3>1 DEF Blocks
    <3> HIDE DEF start
    <3>6. Created[p] < start
      BY <1>6, <3>2, <3>3
    <3>7. rows[p] = None => job'.pools[p].created < start
      BY <1>6, <2>1, <3>2, <3>3, <3>4, <3>5
    <3> QED
      BY <3>6, <3>7 DEF start
  <2> QED
    BY <2>4, <2>5
<1>10. OutInv' /\ TodoInv' /\ ShardsInv' /\ ScanInv'
  BY <1>1, <1>2, NoneIsTrue DEF OutInv, TodoInv, ShardsInv, ScanInv
<1>11. ASSUME mark' = SpanWith(This[1], This[2]), scanned' = scanned \union This[1]..This[2]
       PROVE  SpanInv' /\ CoveredIsFound'
  <2>1. ASSUME NEW b \in This[1]..This[2], NEW p \in Pools PROVE FoundAt(p, b)'
    <3>1. SeenOK(p, b) /\ BornOK(p, b)
      BY <1>1, <1>11 DEF DiscoverInv, ScanInv
    <3>2. job.out[p] # None => rows[p] # None \/ <<p, b>> \in dropped
      BY <1>1 DEF DiscoverInv, OutInv
    <3> QED
      BY <1>1, <3>1, <3>2 DEF SeenOK, BornOK, FoundAt
  <2>2. ASSUME NEW b \in scanned, NEW p \in Pools PROVE FoundAt(p, b)'
    BY <1>1, <1>11 DEF DiscoverInv, CoveredIsFound, FoundAt
  <2>3. ASSUME NEW b \in scanned PROVE mark'[1] <= b /\ b <= mark'[2]
    <3>1. mark # Unscanned /\ mark[1] <= b /\ b <= mark[2] /\ b \in Blocks
      BY DEF DiscoverInv, CoveredIsFound, SpanInv
    <3>2. mark' = <<Least(mark[1], This[1]), Largest(mark[2], This[2])>>
      BY <1>1, <1>11, <3>1 DEF SpanWith
    <3>3. mark[1] \in Int /\ mark[2] \in Int
      BY DEF DiscoverInv, ShapeInv
    <3> QED
      BY <1>3, <3>1, <3>2, <3>3 DEF Least, Largest, Blocks
  <2>4. 1 <= mark'[1] /\ mark'[1] <= mark'[2] /\ mark' # Unscanned
        /\ mark'[1] <= This[1] /\ This[2] <= mark'[2]
    <3>1. CASE mark = Unscanned
      BY <1>1, <1>11, <1>3, <3>1 DEF SpanWith, Unscanned, Blocks
    <3>2. CASE mark # Unscanned
      <4>1. mark' = <<Least(mark[1], This[1]), Largest(mark[2], This[2])>>
        BY <1>1, <1>11, <3>2 DEF SpanWith
      <4>2. mark[1] \in Int /\ mark[2] \in Int /\ 1 <= mark[1] /\ mark[1] <= mark[2]
        BY <3>2 DEF DiscoverInv, ShapeInv, SpanInv
      <4> QED
        BY <1>3, <4>1, <4>2 DEF Least, Largest, Blocks, Unscanned
    <3> QED
      BY <3>1, <3>2
  <2>5. scanned' \subseteq Blocks
    <3>1. This[1]..This[2] \subseteq Blocks
      BY <1>3 DEF Blocks
    <3> QED
      BY <1>1, <1>11, <3>1 DEF DiscoverInv, SpanInv
  <2>6. mark' \in (0..MaxBlock) \X (0..MaxBlock)
    BY <1>7 DEF ShapeInv
  <2>7. ASSUME NEW b \in This[1]..This[2] PROVE mark'[1] <= b /\ b <= mark'[2]
    BY <1>3, <2>4, <2>6 DEF Blocks
  <2> QED
    BY <1>1, <1>11, <2>1, <2>2, <2>3, <2>4, <2>5, <2>7 DEF SpanInv, CoveredIsFound
<1>12. ASSUME UNCHANGED <<mark, scanned>> PROVE SpanInv' /\ CoveredIsFound'
  BY <1>1, <1>12 DEF DiscoverInv, SpanInv, CoveredIsFound, FoundAt
<1>13. SpanInv' /\ CoveredIsFound'
  BY <1>1, <1>11, <1>12
<1> QED
  BY <1>5, <1>7, <1>8, <1>9, <1>10, <1>13 DEF DiscoverInv

Told == job.pc \in {"remote", "metadata", "health", "persist"}

(* After the scan a step changes what the run holds of the pools, and      *)
(* nothing of what it may hold is news.                                    *)
LEMMA CarriedKeeps ==
  ASSUME DiscoverInv, Told, Told',
         job' = [pc |-> job'.pc, runs |-> job'.runs, source |-> job'.source, cancelled |-> job'.cancelled,
                 ranges |-> job'.ranges, out |-> job'.out, pools |-> job'.pools, todo |-> job'.todo,
                 misread |-> job'.misread],
         job'.ranges = job.ranges, job'.out = job.out, job'.misread = job.misread,
         job'.pools = [p \in Pools |-> job'.pools[p]],
         \A p \in Pools : True(p, job'.pools[p]) /\ (p \notin job.misread => NoLater(job'.pools[p], rows[p])),
         job'.pc = "persist" => job'.todo \subseteq Known(job'.pools),
         UNCHANGED <<tip, rows, mark, shards, scanned, lost, dropped>>
  PROVE  DiscoverInv'
<1>1. /\ job.pc \in {"remote", "metadata", "health", "persist"}
      /\ job'.pc \in {"remote", "metadata", "health", "persist"}
  BY DEF Told
<1>2. ShapeInv'
  <2>1. \A p \in Pools : job'.pools[p] \in RowSet
    BY DEF True
  <2>2. job'.pools \in [Pools -> RowSet]
    BY <2>1
  <2> QED
    BY <1>1, <2>2 DEF DiscoverInv, ShapeInv
<1>3. RangesInv' /\ RowsTrue' /\ PoolsFit'
  BY <1>1 DEF DiscoverInv, RangesInv, RowsTrue, PoolsFit, Scanning
<1>4. OutInv' /\ TodoInv' /\ ShardsInv' /\ ScanInv'
  BY <1>1 DEF DiscoverInv, OutInv, TodoInv, ShardsInv, ScanInv
<1>5. SpanInv' /\ CoveredIsFound'
  BY DEF DiscoverInv, SpanInv, CoveredIsFound, FoundAt
<1> QED
  BY <1>2, <1>3, <1>4, <1>5 DEF DiscoverInv

LEMMA RemoteIsTrue ==
  \A p \in Pools : True(p, FromRemote(p)) /\ FromRemote(p) # None /\ FromRemote(p).created = 0
<1> SUFFICES ASSUME NEW p \in Pools
             PROVE  True(p, FromRemote(p)) /\ FromRemote(p) # None /\ FromRemote(p).created = 0
  OBVIOUS
<1>1. FromRemote(p) = [created |-> 0, factory |-> FALSE, kind |-> IF p \in Guessed THEN "guess" ELSE "exact",
                       tokens |-> TRUE]
  BY DEF FromRemote, Found
<1> QED
  BY <1>1, Constants DEF True, RowSet, None

(* What a remote source adds to a row says nothing of its creation.        *)
LEMMA MergedWithRemote ==
  ASSUME NEW p \in Pools, NEW x, True(p, x), x # None
  PROVE  LET merged == MergeFrom(x, FromRemote(p)) IN True(p, merged) /\ merged.created = x.created
<1> DEFINE y == FromRemote(p)
           merged == MergeFrom(x, y)
<1>1. True(p, y) /\ y # None /\ y.created = 0
  BY RemoteIsTrue
<1> HIDE DEF y
<1>2. True(p, merged) /\ merged.created = IF x.created = 0 THEN y.created ELSE x.created
  BY <1>1, MergedIsTrue
<1> HIDE DEF merged
<1>3. merged.created = x.created
  BY <1>1, <1>2
<1> QED
  BY <1>2, <1>3 DEF merged, y

(* What the run holds after the scan puts no creation later than the row.  *)
LEMMA HeldIsNoLater ==
  DiscoverInv /\ Told =>
      \A p \in Pools : True(p, job.pools[p]) /\ (p \notin job.misread => NoLater(job.pools[p], rows[p]))
<1> SUFFICES ASSUME DiscoverInv, Told, NEW p \in Pools
             PROVE  True(p, job.pools[p]) /\ (p \notin job.misread => NoLater(job.pools[p], rows[p]))
  OBVIOUS
<1>1. job.pools[p] # None /\ p \notin job.misread => NoLater(job.pools[p], rows[p])
  BY DEF DiscoverInv, PoolsFit
<1> QED
  BY <1>1, NoneIsTrue DEF DiscoverInv, RowsTrue

(* x may be held of a pool that the run holds.                             *)
MayHold(p, x) == True(p, x) /\ (p \notin job.misread => NoLater(x, rows[p]))

LEMMA MergeRemoteKeeps == DiscoverInv /\ MergeRemote => DiscoverInv'
<1> SUFFICES ASSUME DiscoverInv, MergeRemote PROVE DiscoverInv'
  OBVIOUS
<1>1. PICK told : \E kept :
         job' = [job EXCEPT !.pools = [p \in Pools |-> IF p \in kept THEN Merged(told)[p] ELSE None],
                            !.pc = "metadata"]
  <2> DEFINE After(told, kept) ==
                 job' = [job EXCEPT !.pools = [p \in Pools |-> IF p \in kept THEN Merged(told)[p] ELSE None],
                                    !.pc = "metadata"]
  <2>1. \E told \in IF job.source = "onchain" THEN {{}} ELSE SUBSET Remote :
          \E kept \in IF job.source = "onchain" THEN {Known(job.pools)} ELSE Rankings(told \intersect Known(Merged(told))) :
             After(told, kept)
    BY Zenon DEF MergeRemote
  <2> HIDE DEF After
  <2>2. \E told : \E kept : After(told, kept)
    BY <2>1
  <2> QED
    BY <2>2 DEF After
<1>2. PICK kept :
         job' = [job EXCEPT !.pools = [p \in Pools |-> IF p \in kept THEN Merged(told)[p] ELSE None],
                            !.pc = "metadata"]
  BY <1>1
<1> DEFINE pools == [p \in Pools |-> IF p \in kept THEN Merged(told)[p] ELSE None]
<1>3. job.pc = "remote" /\ UNCHANGED <<tip, rows, mark, shards, scanned, lost, dropped>>
  BY DEF MergeRemote
<1>4. ASSUME NEW p \in Pools PROVE MayHold(p, pools[p])
  <2>1. MayHold(p, job.pools[p]) /\ MayHold(p, None) /\ MayHold(p, FromRemote(p))
    BY <1>3, HeldIsNoLater, NoneIsTrue, RemoteIsTrue DEF Told, MayHold, NoLater
  <2>2. job.pools[p] # None => MayHold(p, MergeFrom(job.pools[p], FromRemote(p)))
    <3> SUFFICES ASSUME job.pools[p] # None PROVE MayHold(p, MergeFrom(job.pools[p], FromRemote(p)))
      OBVIOUS
    <3> DEFINE merged == MergeFrom(job.pools[p], FromRemote(p))
    <3>1. True(p, merged) /\ merged.created = job.pools[p].created
      BY <2>1, MergedWithRemote DEF MayHold
    <3> HIDE DEF merged
    <3>2. MayHold(p, merged)
      BY <2>1, <3>1 DEF MayHold, NoLater
    <3> QED
      BY <3>2 DEF merged
  <2>3. FromRemotes(told)[p] \in {FromRemote(p), None}
    BY DEF FromRemotes
  <2> DEFINE both == MergePools(job.pools, FromRemotes(told))
  <2>4. both[p] = IF job.pools[p] = None THEN FromRemotes(told)[p]
                  ELSE IF FromRemotes(told)[p] = None THEN job.pools[p]
                  ELSE MergeFrom(job.pools[p], FromRemotes(told)[p])
    BY DEF MergePools
  <2>5. MayHold(p, both[p])
    <3> HIDE DEF both
    <3> QED
      BY <2>1, <2>2, <2>3, <2>4
  <2>6. Merged(told)[p] \in {FromRemotes(told)[p], both[p], None, job.pools[p]}
    <3> HIDE DEF both
    <3>1. CASE job.source = "remote"
      BY <3>1 DEF Merged
    <3>2. CASE job.source = "hybrid"
      BY <3>2 DEF both, Merged
    <3>3. CASE job.source = "enrich"
      BY <3>3 DEF both, Merged
    <3>4. CASE job.source \notin {"remote", "hybrid", "enrich"}
      BY <3>4 DEF Merged
    <3> QED
      BY <3>1, <3>2, <3>3, <3>4
  <2>7. pools[p] \in {Merged(told)[p], None}
    OBVIOUS
  <2> HIDE DEF pools, both
  <2> QED
    BY <2>1, <2>3, <2>5, <2>6, <2>7
<1>5. pools = [p \in Pools |-> pools[p]]
  BY Zenon
<1>6. job' = [job EXCEPT !.pools = pools, !.pc = "metadata"]
  BY <1>2
<1> HIDE DEF pools
<1>7. /\ job' = [pc |-> job'.pc, runs |-> job'.runs, source |-> job'.source, cancelled |-> job'.cancelled,
                 ranges |-> job'.ranges, out |-> job'.out, pools |-> job'.pools, todo |-> job'.todo,
                 misread |-> job'.misread]
      /\ job'.pc = "metadata" /\ job'.ranges = job.ranges /\ job'.out = job.out /\ job'.misread = job.misread
      /\ job'.pools = pools
  <2>1. job = [pc |-> job.pc, runs |-> job.runs, source |-> job.source, cancelled |-> job.cancelled,
              ranges |-> job.ranges, out |-> job.out, pools |-> job.pools, todo |-> job.todo,
              misread |-> job.misread]
    BY DEF DiscoverInv, ShapeInv
  <2> QED
    BY <1>6, <2>1
<1>8. Told /\ Told'
  BY <1>3, <1>7 DEF Told
<1> QED
  BY <1>3, <1>4, <1>5, <1>7, <1>8, CarriedKeeps DEF MayHold

LEMMA FilledIsTrue ==
  ASSUME NEW p \in Pools, NEW x, True(p, x), x # None, NEW kind \in {x.kind, "labelled"}, NEW tokens \in BOOLEAN
  PROVE  LET y == [x EXCEPT !.kind = kind, !.tokens = tokens] IN True(p, y) /\ y.created = x.created
<1>1. x \in RowSet /\ x.kind # "none"
  BY DEF True
<1> DEFINE y == [x EXCEPT !.kind = kind, !.tokens = tokens]
<1>2. y \in RowSet /\ y.created = x.created /\ y.kind # "none"
  BY <1>1 DEF RowSet
<1> HIDE DEF y
<1>3. True(p, y)
  BY <1>2 DEF True
<1> QED
  BY <1>2, <1>3 DEF y

LEMMA MetadataKeeps == DiscoverInv /\ ResolveMetadata => DiscoverInv'
<1> SUFFICES ASSUME DiscoverInv, ResolveMetadata PROVE DiscoverInv'
  OBVIOUS
<1> DEFINE Asked(rated, named) ==
               [p \in Pools |-> Completed(job.pools[p], p \in rated, p \in named)]
<1>1. PICK rated \in SUBSET Known(job.pools), named \in SUBSET Known(job.pools) :
          job' = [job EXCEPT !.pools = Asked(rated, named), !.pc = "health"]
  <2>1. \E rated \in SUBSET {p \in Known(job.pools) : job.pools[p].kind = "guess" /\ p \notin Singletons},
           named \in SUBSET {p \in Known(job.pools) : ~job.pools[p].tokens /\ Fillable(p)} :
          job' = [job EXCEPT !.pools = Asked(rated, named), !.pc = "health"]
    BY Zenon DEF ResolveMetadata
  <2> HIDE DEF Asked
  <2> QED
    BY <2>1
<1> DEFINE pools == Asked(rated, named)
<1>2. job' = [job EXCEPT !.pools = pools, !.pc = "health"]
  BY <1>1
<1>3. job.pc = "metadata" /\ UNCHANGED <<tip, rows, mark, shards, scanned, lost, dropped>>
  BY DEF ResolveMetadata
<1>4. ASSUME NEW p \in Pools PROVE MayHold(p, pools[p])
  <2> DEFINE x == job.pools[p]
             kind == IF p \in rated THEN "labelled" ELSE x.kind
             tokens == x.tokens \/ p \in named
  <2>1. MayHold(p, x) /\ x \in RowSet
    BY <1>3, HeldIsNoLater DEF Told, MayHold, True
  <2>2. pools[p] = [x EXCEPT !.kind = kind, !.tokens = tokens]
    BY Zenon DEF Completed
  <2>3. kind \in {x.kind, "labelled"} /\ tokens \in BOOLEAN
    BY <2>1 DEF RowSet
  <2>4. CASE x # None
    <3> HIDE DEF x, kind, tokens, pools
    <3> DEFINE y == [x EXCEPT !.kind = kind, !.tokens = tokens]
    <3>1. True(p, y) /\ y.created = x.created
      BY <2>1, <2>3, <2>4, FilledIsTrue DEF MayHold
    <3>2. pools[p] = y
      BY <2>2
    <3> HIDE DEF y
    <3> QED
      BY <2>1, <3>1, <3>2 DEF MayHold, NoLater
  <2>5. CASE x = None
    <3>1. p \notin rated /\ p \notin named
      BY <2>5 DEF Known
    <3>2. kind = x.kind /\ tokens = x.tokens
      BY <2>1, <3>1 DEF RowSet
    <3> HIDE DEF x, kind, tokens, pools
    <3>3. pools[p] = x
      BY <2>1, <2>2, <3>2 DEF RowSet
    <3> QED
      BY <2>1, <3>3
  <2> QED
    BY <2>4, <2>5
<1>5. pools = [p \in Pools |-> pools[p]]
  BY Zenon
<1> HIDE DEF pools
<1>6. /\ job' = [pc |-> job'.pc, runs |-> job'.runs, source |-> job'.source, cancelled |-> job'.cancelled,
                 ranges |-> job'.ranges, out |-> job'.out, pools |-> job'.pools, todo |-> job'.todo,
                 misread |-> job'.misread]
      /\ job'.pc = "health" /\ job'.ranges = job.ranges /\ job'.out = job.out /\ job'.misread = job.misread
      /\ job'.pools = pools
  <2>1. job = [pc |-> job.pc, runs |-> job.runs, source |-> job.source, cancelled |-> job.cancelled,
              ranges |-> job.ranges, out |-> job.out, pools |-> job.pools, todo |-> job.todo,
              misread |-> job.misread]
    BY DEF DiscoverInv, ShapeInv
  <2> QED
    BY <1>2, <2>1
<1>7. Told /\ Told'
  BY <1>3, <1>6 DEF Told
<1> QED
  BY <1>3, <1>4, <1>5, <1>6, <1>7, CarriedKeeps DEF MayHold

LEMMA HealthKeeps == DiscoverInv /\ HealthCheck => DiscoverInv'
<1> SUFFICES ASSUME DiscoverInv, HealthCheck PROVE DiscoverInv'
  OBVIOUS
<1>1. PICK drained \in SUBSET Known(job.pools) :
          LET kept == Known(job.pools) \ drained IN
          job' = [job EXCEPT !.pools = [p \in Pools |-> IF p \in kept THEN @[p] ELSE None],
                             !.todo = kept, !.pc = "persist"]
  BY Zenon DEF HealthCheck
<1> DEFINE kept == Known(job.pools) \ drained
           pools == [p \in Pools |-> IF p \in kept THEN job.pools[p] ELSE None]
<1>2. job' = [job EXCEPT !.pools = pools, !.todo = kept, !.pc = "persist"]
  BY <1>1, Zenon
<1>3. job.pc = "health" /\ UNCHANGED <<tip, rows, mark, shards, scanned, lost, dropped>>
  BY DEF HealthCheck
<1>4. /\ \A p \in Pools : MayHold(p, pools[p])
      /\ kept \subseteq Known(pools)
  <2>1. \A p \in Pools : MayHold(p, job.pools[p]) /\ MayHold(p, None)
    BY <1>3, HeldIsNoLater, NoneIsTrue DEF Told, MayHold
  <2>2. \A p \in Pools : pools[p] = IF p \in kept THEN job.pools[p] ELSE None
    BY Zenon
  <2>3. kept \subseteq Pools /\ \A p \in kept : job.pools[p] # None
    BY DEF Known
  <2> HIDE DEF kept, pools
  <2>4. kept \subseteq Known(pools)
    BY <2>2, <2>3 DEF Known
  <2> QED
    BY <2>1, <2>2, <2>4
<1>5. pools = [p \in Pools |-> pools[p]]
  BY Zenon
<1> HIDE DEF pools, kept
<1>6. /\ job' = [pc |-> job'.pc, runs |-> job'.runs, source |-> job'.source, cancelled |-> job'.cancelled,
                 ranges |-> job'.ranges, out |-> job'.out, pools |-> job'.pools, todo |-> job'.todo,
                 misread |-> job'.misread]
      /\ job'.pc = "persist" /\ job'.ranges = job.ranges /\ job'.out = job.out /\ job'.misread = job.misread
      /\ job'.pools = pools
      /\ job'.todo = kept
  <2>1. job = [pc |-> job.pc, runs |-> job.runs, source |-> job.source, cancelled |-> job.cancelled,
              ranges |-> job.ranges, out |-> job.out, pools |-> job.pools, todo |-> job.todo,
              misread |-> job.misread]
    BY DEF DiscoverInv, ShapeInv
  <2> QED
    BY <1>2, <2>1
<1>7. Told /\ Told'
  BY <1>3, <1>6 DEF Told
<1> QED
  BY <1>3, <1>4, <1>5, <1>6, <1>7, CarriedKeeps DEF MayHold

(* A row filled in by what puts the creation no later keeps what it has.  *)
LEMMA MergedRow ==
  ASSUME NEW p \in Pools, NEW x, NEW row, True(p, x), x # None, True(p, row), row # None, NoLater(x, row)
  PROVE  LET y == MergeFrom(x, row) IN Keeps(row, y) /\ NoLater(x, y)
<1> DEFINE y == MergeFrom(x, row)
<1>1. /\ True(p, y) /\ y # None
      /\ y.created = IF x.created = 0 THEN row.created ELSE x.created
      /\ y.factory = (x.factory \/ row.factory)
  BY MergedIsTrue
<1> HIDE DEF y
<1>2. x.created \in Nat /\ row.created \in Nat
  BY Constants DEF True, RowSet
<1>3. row.factory => y.factory
  BY <1>1, Zenon
<1>4. row.created # 0 => y.created \in 1..row.created
  BY <1>1, <1>2 DEF NoLater
<1>5. NoLater(x, y)
  BY <1>1, <1>2 DEF NoLater
<1>6. Keeps(row, y)
  BY <1>1, <1>3, <1>4 DEF Keeps
<1> QED
  BY <1>5, <1>6 DEF y

LEMMA PersistKeeps ==
  DiscoverInv /\ PersistPool =>
      DiscoverInv' /\ \A p \in Pools \ job'.misread : Keeps(rows[p], rows'[p])
<1> SUFFICES ASSUME DiscoverInv, PersistPool
             PROVE  DiscoverInv' /\ \A p \in Pools \ job'.misread : Keeps(rows[p], rows'[p])
  OBVIOUS
<1>1. PICK p \in job.todo, missed \in BOOLEAN :
          /\ rows' \in {[rows EXCEPT ![p] = IF Cached(p, IF missed THEN {p} ELSE {})
                                            THEN MergeFrom(job.pools[p], rows[p]) ELSE job.pools[p]],
                        rows}
          /\ job' = [job EXCEPT !.todo = @ \ {p}, !.misread = IF missed THEN @ \union {p} ELSE @]
  BY DEF PersistPool
<1>2. job.pc = "persist" /\ UNCHANGED <<tip, mark, shards, scanned, lost, dropped>>
  BY DEF PersistPool
<1>3. p \in Pools /\ job.pools[p] # None /\ job.todo \subseteq Known(job.pools)
  BY <1>2 DEF DiscoverInv, TodoInv, Known
<1>4. /\ job'.pc = "persist" /\ job'.ranges = job.ranges /\ job'.out = job.out
      /\ job'.pools = job.pools /\ job'.todo = job.todo \ {p}
      /\ job' = [pc |-> job'.pc, runs |-> job'.runs, source |-> job'.source, cancelled |-> job'.cancelled,
                 ranges |-> job'.ranges, out |-> job'.out, pools |-> job'.pools, todo |-> job'.todo,
                 misread |-> job'.misread]
      /\ job.misread \subseteq job'.misread /\ job'.misread \subseteq Pools
      /\ missed => p \in job'.misread
  BY <1>1, <1>2, <1>3 DEF DiscoverInv, ShapeInv
<1> DEFINE x == job.pools[p]
           y == IF Cached(p, IF missed THEN {p} ELSE {}) THEN MergeFrom(x, rows[p]) ELSE x
<1>5. True(p, x) /\ (p \notin job.misread => NoLater(x, rows[p])) /\ True(p, rows[p]) /\ x # None
  BY <1>2, <1>3, HeldIsNoLater DEF Told, DiscoverInv, RowsTrue
<1>6. /\ True(p, y) /\ y # None
      /\ p \notin job'.misread => Keeps(rows[p], y) /\ NoLater(x, y)
  <2>1. CASE ~Cached(p, IF missed THEN {p} ELSE {})
    <3>1. y = x /\ (rows[p] = None \/ missed)
      BY <2>1 DEF Cached
    <3>2. x.created \in Nat
      BY <1>5, Constants DEF True, RowSet
    <3> HIDE DEF x, y
    <3>3. NoLater(x, x)
      BY <3>2 DEF NoLater
    <3> QED
      BY <1>4, <1>5, <3>1, <3>3, NoneIsTrue
  <2>2. CASE Cached(p, IF missed THEN {p} ELSE {})
    <3>1. y = MergeFrom(x, rows[p]) /\ rows[p] # None
      BY <2>2 DEF Cached
    <3> DEFINE row == rows[p]
               z == MergeFrom(x, row)
    <3>2. y = z /\ row # None /\ True(p, row) /\ True(p, x) /\ x # None /\ p \in Pools
      BY <1>3, <1>5, <3>1
    <3> HIDE DEF x, y, row
    <3>3. True(p, z) /\ z # None
      BY <3>2, MergedIsTrue
    <3>4. NoLater(x, row) => Keeps(row, z) /\ NoLater(x, z)
      BY <3>2, MergedRow
    <3>5. p \notin job'.misread => NoLater(x, row)
      BY <1>4, <1>5 DEF row
    <3> HIDE DEF z
    <3> QED
      BY <3>2, <3>3, <3>4, <3>5 DEF row
  <2> QED
    BY <2>1, <2>2
<1>7. /\ rows \in [Pools -> RowSet] /\ rows' \in {[rows EXCEPT ![p] = y], rows}
  BY <1>1, Zenon DEF DiscoverInv, ShapeInv
<1> HIDE DEF y
<1>8. /\ rows' \in [Pools -> RowSet] /\ rows'[p] \in {y, rows[p]}
      /\ \A q \in Pools : q # p => rows'[q] = rows[q]
  BY <1>3, <1>6, <1>7 DEF True
<1>9. \A q \in Pools \ job'.misread : Keeps(rows[q], rows'[q])
  BY <1>6, <1>8, KeepsSelf DEF DiscoverInv, RowsTrue
<1>10. ShapeInv' /\ This' = This
  BY <1>2, <1>4, <1>8 DEF DiscoverInv, ShapeInv, This
<1>11. RangesInv' /\ RowsTrue'
  BY <1>2, <1>4, <1>5, <1>6, <1>8 DEF DiscoverInv, RangesInv, RowsTrue, Scanning
<1>12. PoolsFit'
  <2>1. p \notin job'.misread => NoLater(job.pools[p], rows'[p])
    BY <1>4, <1>5, <1>6, <1>8
  <2>2. \A q \in Pools : q # p /\ job.pools[q] # None /\ q \notin job'.misread => NoLater(job.pools[q], rows'[q])
    BY <1>4, <1>8 DEF DiscoverInv, PoolsFit
  <2> QED
    BY <1>2, <1>4, <2>1, <2>2 DEF PoolsFit, Scanning
<1>13. OutInv' /\ TodoInv' /\ ShardsInv' /\ ScanInv'
  BY <1>2, <1>3, <1>4 DEF DiscoverInv, OutInv, TodoInv, ShardsInv, ScanInv
<1>14. SpanInv' /\ CoveredIsFound'
  <2>1. \A q \in Pools : rows[q] # None => rows'[q] # None
    BY <1>6, <1>8
  <2> QED
    BY <1>2, <2>1 DEF DiscoverInv, SpanInv, CoveredIsFound, FoundAt
<1> QED
  BY <1>9, <1>10, <1>11, <1>12, <1>13, <1>14 DEF DiscoverInv

(* The other write keeps what is known as well.                            *)
LEMMA FoundKeeps == DiscoverInv /\ WriteFound => \A p \in Pools \ job'.misread : Keeps(rows[p], rows'[p])
<1> SUFFICES ASSUME DiscoverInv, WriteFound, NEW q \in Pools, q \notin job'.misread PROVE Keeps(rows[q], rows'[q])
  OBVIOUS
<1>1. PICK p \in job.todo : /\ rows' \in {[rows EXCEPT ![p] = job.out[p]], rows}
                            /\ job' = [job EXCEPT !.todo = @ \ {p}]
  BY DEF WriteFound
<1>2. p \in Pools /\ job.out[p] # None /\ job'.misread = job.misread
  BY <1>1 DEF DiscoverInv, TodoInv, Known, WriteFound, ShapeInv
<1>3. rows'[p] \in {rows[p], job.out[p]} /\ (q # p => rows'[q] = rows[q])
  BY <1>1, <1>2 DEF DiscoverInv, ShapeInv
<1>4. p \notin job.misread => Keeps(rows[p], job.out[p])
  BY <1>2 DEF DiscoverInv, OutInv, Takes
<1> QED
  BY <1>2, <1>3, <1>4, KeepsSelf DEF DiscoverInv, RowsTrue

-------------------------------------------------------------------------------
LEMMA StepKeeps == DiscoverInv /\ [Next]_vars => DiscoverInv'
<1> SUFFICES ASSUME DiscoverInv, [Next]_vars PROVE DiscoverInv'
  OBVIOUS
<1>1. CASE UNCHANGED vars
  <2>1. ShapeInv' /\ RangesInv' /\ RowsTrue' /\ PoolsFit' /\ OutInv' /\ TodoInv'
    BY <1>1 DEF vars, DiscoverInv, ShapeInv, RangesInv, RowsTrue, PoolsFit, OutInv, TodoInv, Scanning, This
  <2>2. ShardsInv' /\ ScanInv' /\ SpanInv' /\ CoveredIsFound'
    BY <1>1 DEF vars, DiscoverInv, ShardsInv, ScanInv, SeenOK, BornOK, SpanInv, CoveredIsFound, FoundAt, This
  <2> QED
    BY <2>1, <2>2 DEF DiscoverInv
<1>2. CASE Mine \/ StartRun \/ Cancel \/ StartRange
  BY <1>2, MineKeeps, StartRunKeeps, CancelKeeps, StartRangeKeeps
<1>3. CASE \E s \in DOMAIN shards : ScanActivity(s) \/ ScanFactories(s) \/ MergeShard(s)
  BY <1>3, ActivityKeeps, FactoriesKeep, MergeShardKeeps
<1>4. CASE EndScan \/ WriteFound \/ NoteScan
  BY <1>4, EndScanKeeps, WriteFoundKeeps, NoteScanKeeps
<1>5. CASE MergeRemote \/ ResolveMetadata \/ HealthCheck \/ PersistPool
  BY <1>5, MergeRemoteKeeps, MetadataKeeps, HealthKeeps, PersistKeeps
<1>6. CASE Finish \/ Crash
  <2>1. job' = EndRun /\ shards' = <<>> /\ UNCHANGED <<tip, rows, mark, scanned, lost, dropped>>
    BY <1>6 DEF Finish, Crash, DiscoverInv, ShardsInv
  <2> QED
    BY <2>1, QuitKeeps
<1> QED
  BY <1>1, <1>2, <1>3, <1>4, <1>5, <1>6 DEF Next

(* What a run has noted as scanned is found, or a warning said that it was *)
(* given up, that the pool has no tokens, or that its row could not be     *)
(* written: no split, shard, cancellation or crash loses a block of it in  *)
(* silence (discover_and_cache, note_discovery_scan).                      *)
THEOREM NotedIsFound == Spec => []CoveredIsFound
<1>1. DiscoverInv => CoveredIsFound
  BY DEF DiscoverInv
<1> QED
  BY InitHolds, StepKeeps, <1>1, PTL DEF Spec

(* No run takes back what an earlier one knew of a pool, but where its     *)
(* lookup of the row has failed: not the scan, which replaces rows, and    *)
(* not the merge with remote sources (put_discovered_pool,                 *)
(* persist_universe).                                                      *)
THEOREM KnowledgeIsKept == Spec => KnowledgeKept
<1> DEFINE Kept == \A p \in Known(rows) \ job'.misread :
                      /\ rows'[p] # None
                      /\ rows[p].factory => rows'[p].factory
                      /\ rows[p].created # 0 =>
                             rows'[p].created \in Largest(1, Created[p])..rows[p].created
<1>1. DiscoverInv /\ [Next]_vars => [Kept]_rows
  <2> SUFFICES ASSUME DiscoverInv, [Next]_vars, rows' # rows, NEW p \in Known(rows) \ job'.misread
               PROVE  /\ rows'[p] # None
                      /\ rows[p].factory => rows'[p].factory
                      /\ rows[p].created # 0 => rows'[p].created \in Largest(1, Created[p])..rows[p].created
    OBVIOUS
  <2>1. WriteFound \/ PersistPool
    BY DEF Next, vars, Mine, StartRun, Cancel, StartRange, ScanActivity, ScanFactories, MergeShard, EndScan,
           NoteScan, MergeRemote, ResolveMetadata, HealthCheck, Finish, Crash
  <2>2. p \in Pools /\ rows[p] # None /\ Keeps(rows[p], rows'[p])
    BY <2>1, FoundKeeps, PersistKeeps DEF Known
  <2>3. True(p, rows'[p]) /\ rows[p].created \in Nat
    BY <2>2, StepKeeps, Constants DEF DiscoverInv, RowsTrue, True, RowSet
  <2> QED
    BY <2>2, <2>3, Constants DEF Keeps, True, Largest
<1> HIDE DEF Kept
<1>2. Spec => [][Kept]_rows
  BY InitHolds, StepKeeps, <1>1, PTL DEF Spec
<1> QED
  BY <1>2 DEF KnowledgeKept, Kept

===============================================================================
