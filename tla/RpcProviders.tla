------------------------------ MODULE RpcProviders -----------------------------
(***************************************************************************)
(* The provider pool of the RPC client (core/src/rpc/client.rs and         *)
(* middleware.rs): concurrent calls share the health of the providers and  *)
(* route around those that fail.                                           *)
(*                                                                         *)
(* A call holds the pool's lock only to read or update the health, never   *)
(* while it asks a provider, so its list of providers may be out of date   *)
(* when it uses it.  The order in which a list is tried (weight, latency,  *)
(* round-robin) and the retries of transport errors on one provider are    *)
(* left out: any order may happen, and an answer is the last one.          *)
(***************************************************************************)
EXTENDS Integers, FiniteSets

CONSTANTS
    Providers,
    Calls,          \* concurrent users of the client
    Archives,       \* providers configured as archive nodes
    Pruned,         \* providers without historical state, whatever is configured
    MaxWaits,       \* MAX_COOLDOWN_WAITS
    MaxOutages,     \* bound: how often the state of a provider changes
    NoProvider

ASSUME PoolAssumption ==
    /\ IsFiniteSet(Providers) /\ Archives \subseteq Providers /\ Pruned \subseteq Providers
    /\ MaxWaits \in Nat /\ MaxOutages \in Nat
    /\ NoProvider \notin Providers

Scopes == {"any", "archive", "state"}

VARIABLES
    up,         \* providers that answer: no time-out, throttling or refusal
    partial,    \* providers that answer, but not all that is asked of them: they
                \* lag, keep no old blocks or limit what one request may return
    steady,     \* history: up and not partial at every moment since validate_all
    alive,      \* is_alive
    cooling,    \* cooldown_until is in the future
    capable,    \* state_capable
    pc,         \* per call: where it is
    scope,      \* per call: ProviderScope
    sorted,     \* per call: the providers of this pass, as listed
    tried,      \* per call
    found,      \* per call: found_next
    waits,      \* per call: cooldown_waits
    asked,      \* per call: the provider whose answer is awaited
    offered,    \* history, per call: providers available when it began
    refused,    \* history, per call: providers that did not serve it
    declined,   \* history, per call: those of them that were not penalised
    outages

healthVars == <<alive, cooling, capable>>
worldVars == <<up, partial, steady, outages>>
callVars == <<pc, scope, sorted, tried, found, waits, asked, offered, refused, declined>>
clientVars == <<worldVars, healthVars, callVars>>

Available == alive \ cooling

InScope(sc) ==
    CASE sc = "any" -> Providers
      [] sc = "archive" -> Archives
      [] sc = "state" -> capable

(* providers_for: a scope that has nobody falls back to every provider.    *)
ProvidersFor(sc, fallback) ==
    IF Available \cap InScope(sc) = {} /\ fallback
    THEN Available
    ELSE Available \cap InScope(sc)

ClientInit ==
    /\ up \in SUBSET Providers /\ partial = {} /\ steady = {}
    /\ alive = Providers /\ cooling = {} /\ capable = Providers
    /\ pc = [c \in Calls |-> "start"] /\ scope = [c \in Calls |-> "any"]
    /\ sorted = [c \in Calls |-> {}] /\ tried = [c \in Calls |-> {}]
    /\ found = [c \in Calls |-> FALSE] /\ waits = [c \in Calls |-> 0]
    /\ asked = [c \in Calls |-> NoProvider]
    /\ offered = [c \in Calls |-> {}] /\ refused = [c \in Calls |-> {}]
    /\ declined = [c \in Calls |-> {}]
    /\ outages = 0

-----------------------------------------------------------------------------
(* The providers.                                                          *)

Flip(p) ==
    /\ outages < MaxOutages
    /\ outages' = outages + 1
    /\ up' = IF p \in up THEN up \ {p} ELSE up \cup {p}
    /\ steady' = steady \ {p}
    /\ UNCHANGED <<partial, healthVars, callVars>>

Lag(p) ==
    /\ outages < MaxOutages
    /\ outages' = outages + 1
    /\ partial' = IF p \in partial THEN partial \ {p} ELSE partial \cup {p}
    /\ steady' = steady \ {p}
    /\ UNCHANGED <<up, healthVars, callVars>>

CooldownEnds(p) ==
    /\ p \in cooling
    /\ cooling' = cooling \ {p}
    /\ UNCHANGED <<worldVars, alive, capable, callVars>>

-----------------------------------------------------------------------------
(* validate_all runs before any call: a provider that does not answer is   *)
(* marked dead, with a cooldown.                                           *)
ValidateAll ==
    /\ \A c \in Calls : pc[c] = "start"
    /\ alive' = up /\ cooling' = Providers \ up
    /\ steady' = up \ partial
    /\ pc' = [c \in Calls |-> "idle"]
    /\ UNCHANGED <<up, partial, outages, capable, scope, sorted, tried,
                   found, waits, asked, offered, refused, declined>>

Begin(c, sc) ==
    /\ pc[c] = "idle"
    /\ pc' = [pc EXCEPT ![c] = "pass"]
    /\ scope' = [scope EXCEPT ![c] = sc]
    /\ sorted' = [sorted EXCEPT ![c] = ProvidersFor(sc, TRUE)]
    /\ offered' = [offered EXCEPT ![c] = ProvidersFor(sc, TRUE)]
    /\ UNCHANGED <<worldVars, healthVars, tried, found, waits, asked, refused, declined>>

\* Mutant: a fixed cap on the providers of a call.
MoreToTryCapped(c) ==
    /\ sorted[c] \ tried[c] # {}
    /\ Cardinality(tried[c]) < 2

MoreToTry(c) ==
    /\ sorted[c] \ tried[c] # {}
    /\ Cardinality(tried[c]) < Cardinality(sorted[c])

Ask(c, p) ==
    /\ pc[c] = "pass" /\ MoreToTry(c) /\ p \in sorted[c] \ tried[c]
    /\ tried' = [tried EXCEPT ![c] = @ \cup {p}]
    /\ found' = [found EXCEPT ![c] = TRUE]
    /\ asked' = [asked EXCEPT ![c] = p]
    /\ pc' = [pc EXCEPT ![c] = "asking"]
    /\ UNCHANGED <<worldVars, healthVars, scope, sorted, waits, offered, refused, declined>>

Historical(c) == scope[c] \in {"archive", "state"}

(* The caller has its answer, or its error, and may call again.            *)
Return(c) ==
    /\ pc' = [pc EXCEPT ![c] = "idle"]
    /\ scope' = [scope EXCEPT ![c] = "any"]
    /\ sorted' = [sorted EXCEPT ![c] = {}] /\ tried' = [tried EXCEPT ![c] = {}]
    /\ found' = [found EXCEPT ![c] = FALSE] /\ waits' = [waits EXCEPT ![c] = 0]
    /\ asked' = [asked EXCEPT ![c] = NoProvider]
    /\ offered' = [offered EXCEPT ![c] = {}] /\ refused' = [refused EXCEPT ![c] = {}]
    /\ declined' = [declined EXCEPT ![c] = {}]
    /\ UNCHANGED worldVars

\* record_success: whatever was recorded meanwhile, the provider is well.
Served(c) ==
    /\ alive' = alive \cup {asked[c]} /\ cooling' = cooling \ {asked[c]}
    /\ UNCHANGED capable
    /\ Return(c)

Serves(c) ==
    /\ pc[c] = "asking" /\ asked[c] \in up /\ ~(Historical(c) /\ asked[c] \in Pruned)
    /\ Served(c)

Refused(c, next) ==
    /\ refused' = [refused EXCEPT ![c] = @ \cup {asked[c]}]
    /\ pc' = [pc EXCEPT ![c] = next]
    /\ asked' = [asked EXCEPT ![c] = NoProvider]
    /\ UNCHANGED <<worldVars, scope, sorted, tried, found, waits, offered>>

(* The provider does not answer, throttles the call, or answers without    *)
(* what was asked for (a null block, short receipts): "not found" is an    *)
(* error like any other here. Each starts a cooldown.                      *)
CanFail(p) == p \notin up \/ p \in partial

Fails(c) ==
    /\ pc[c] = "asking" /\ CanFail(asked[c])
    /\ cooling' = cooling \cup {asked[c]}
    /\ UNCHANGED <<alive, capable, declined>>
    /\ Refused(c, "pass")

(* The message of the error says that the state is not there: it is        *)
(* pruned, or of a block the provider has not seen ("header not found").   *)
(* Only the message counts, whatever the scope of the call.                *)
LacksState(c) == asked[c] \in up /\ asked[c] \in Pruned \cup partial

Declined(c) == declined' = [declined EXCEPT ![c] = @ \cup {asked[c]}]

\* Mutant: a provider without the state is penalised like one that fails.
StateUnavailablePenalised(c) ==
    /\ pc[c] = "asking" /\ LacksState(c)
    /\ capable' = capable \ {asked[c]} /\ cooling' = cooling \cup {asked[c]}
    /\ UNCHANGED alive
    /\ Refused(c, "pass") /\ Declined(c)

(* "no-penalty": the provider only loses its state capability, for good.   *)
StateUnavailable(c) ==
    /\ pc[c] = "asking" /\ LacksState(c)
    /\ capable' = capable \ {asked[c]}
    /\ UNCHANGED <<alive, cooling>>
    /\ Refused(c, "pass") /\ Declined(c)

(* An EVM revert is no fault of the provider; the others are asked too.    *)
Reverts(c) ==
    /\ pc[c] = "asking" /\ asked[c] \in up
    /\ UNCHANGED healthVars
    /\ Refused(c, "pass") /\ Declined(c)

-----------------------------------------------------------------------------
(* The end of a pass over the list.                                        *)

NextPass(c) ==
    /\ pc[c] = "pass" /\ ~MoreToTry(c) /\ found[c]
    /\ sorted' = [sorted EXCEPT ![c] = ProvidersFor(scope[c], FALSE)]
    /\ found' = [found EXCEPT ![c] = FALSE]
    /\ UNCHANGED <<worldVars, healthVars, pc, scope, tried, waits, asked,
                   offered, refused, declined>>

(* shortest_archive_cooldown_wait has something to wait for.               *)
ArchivesCooling ==
    Archives \cap alive # {} /\ Archives \cap Available = {}

MayWait(c) ==
    scope[c] = "archive" /\ waits[c] < MaxWaits /\ ArchivesCooling

StartWait(c) ==
    /\ pc[c] = "pass" /\ ~MoreToTry(c) /\ ~found[c] /\ MayWait(c)
    /\ pc' = [pc EXCEPT ![c] = "waiting"]
    /\ waits' = [waits EXCEPT ![c] = @ + 1]
    /\ UNCHANGED <<worldVars, healthVars, scope, sorted, tried, found, asked,
                   offered, refused, declined>>

(* The sleep is capped: the cooldowns may last longer.                     *)
EndWait(c) ==
    /\ pc[c] = "waiting"
    /\ pc' = [pc EXCEPT ![c] = "pass"]
    /\ tried' = [tried EXCEPT ![c] = {}]
    /\ sorted' = [sorted EXCEPT ![c] = Available \cap Archives]
    /\ UNCHANGED <<worldVars, healthVars, scope, found, waits, asked, offered, refused, declined>>

GiveUp(c) ==
    /\ pc[c] = "pass" /\ ~MoreToTry(c) /\ ~found[c] /\ ~MayWait(c)
    /\ pc' = [pc EXCEPT ![c] = "failed"]
    /\ UNCHANGED <<worldVars, healthVars, scope, sorted, tried, found, waits,
                   asked, offered, refused, declined>>

-----------------------------------------------------------------------------
(* Calls pinned to a provider: get_logs_for goes on with every provider    *)
(* when its own fails, get_block_and_receipts_batch_for does not.          *)

BeginPinned(c, p) ==
    /\ pc[c] = "idle" /\ p \in Available
    /\ pc' = [pc EXCEPT ![c] = "pinned"]
    /\ asked' = [asked EXCEPT ![c] = p]
    /\ scope' = [scope EXCEPT ![c] = "any"]
    /\ UNCHANGED <<worldVars, healthVars, sorted, tried, found, waits, offered, refused, declined>>

PinnedServes(c) ==
    /\ pc[c] = "pinned" /\ asked[c] \in up
    /\ Served(c)

PinnedFails(c) ==
    /\ pc[c] = "pinned" /\ CanFail(asked[c])
    /\ cooling' = cooling \cup {asked[c]} /\ UNCHANGED <<alive, capable, declined>>
    /\ \/ Refused(c, "fallback")    \* get_logs_for
       \/ Refused(c, "rejected")    \* get_block_and_receipts_batch_for

FallBack(c) ==
    /\ pc[c] = "fallback"
    /\ pc' = [pc EXCEPT ![c] = "pass"]
    /\ sorted' = [sorted EXCEPT ![c] = ProvidersFor("any", TRUE)]
    /\ offered' = [offered EXCEPT ![c] = ProvidersFor("any", TRUE)]
    /\ UNCHANGED <<worldVars, healthVars, scope, tried, found, waits, asked, refused, declined>>

GetError(c) ==
    /\ pc[c] \in {"failed", "rejected"}
    /\ UNCHANGED healthVars
    /\ Return(c)

-----------------------------------------------------------------------------
Proceed(c) ==
    \/ \E p \in Providers : Ask(c, p)
    \/ Serves(c) \/ Fails(c) \/ StateUnavailable(c) \/ Reverts(c)
    \/ NextPass(c) \/ StartWait(c) \/ EndWait(c) \/ GiveUp(c)
    \/ PinnedServes(c) \/ PinnedFails(c) \/ FallBack(c)

Call(c) ==
    \/ \E sc \in Scopes : Begin(c, sc)
    \/ \E p \in Providers : BeginPinned(c, p)
    \/ GetError(c)

ClientNext ==
    \/ \E p \in Providers : Flip(p) \/ Lag(p) \/ CooldownEnds(p)
    \/ ValidateAll
    \/ \E c \in Calls : Proceed(c) \/ Call(c)

ClientSpec == ClientInit /\ [][ClientNext]_clientVars

-----------------------------------------------------------------------------
WorldTypeOK ==
    /\ up \subseteq Providers /\ partial \subseteq Providers /\ steady \subseteq Providers
    /\ alive \subseteq Providers /\ cooling \subseteq Providers
    /\ capable \subseteq Providers
    /\ outages \in 0 .. MaxOutages

CallTypeOK ==
    /\ pc \in [Calls -> {"start", "idle", "pass", "asking", "waiting", "pinned",
                         "fallback", "failed", "rejected"}]
    /\ scope \in [Calls -> Scopes]
    /\ sorted \in [Calls -> SUBSET Providers] /\ tried \in [Calls -> SUBSET Providers]
    /\ found \in [Calls -> BOOLEAN] /\ waits \in [Calls -> 0 .. MaxWaits]
    /\ asked \in [Calls -> Providers \cup {NoProvider}]
    /\ offered \in [Calls -> SUBSET Providers] /\ refused \in [Calls -> SUBSET Providers]
    /\ declined \in [Calls -> SUBSET Providers]

(* The lists of a call hold providers, and no call waits for a cooldown    *)
(* more often than MAX_COOLDOWN_WAITS (retry_call_impl).                   *)
ClientTypeOK == WorldTypeOK /\ CallTypeOK

(* "No fixed provider cap": a call that fails was refused by every         *)
(* provider that was available when it began, whatever other calls did to  *)
(* their health meanwhile (retry_call_impl).                               *)
FailedAfterAll == \A c \in Calls : pc[c] = "failed" => offered[c] \subseteq refused[c]

(* The providers that could have served the call all along.                *)
Able(c) ==
    CASE scope[c] = "any" -> steady
      [] scope[c] = "archive" -> (steady \cap Archives) \ Pruned
      [] scope[c] = "state" -> steady \ Pruned

(* A call that fails was put to every provider that could have served it,  *)
(* and each of them answered that there is no such state or that the call  *)
(* reverts: whatever the calls under way record of each other's failures,  *)
(* none of them takes a provider that has been well from the start out of  *)
(* the reach of another ("later calls aren't poisoned", retry_call_impl).  *)
AbleIsAsked == \A c \in Calls : pc[c] = "failed" => Able(c) \subseteq declined[c]
=============================================================================
