-------------------------- MODULE MCExplorerClassify --------------------------
(* Blocks of small transactions for TLC: senders 1 and 2, the contract 11 and  *)
(* the wallet 12 it pays out to, pools A and B of USDC and TKN, a lender, a    *)
(* borrower, the coinbase.                                                     *)
EXTENDS ExplorerClassify

A == 21
B == 22
USDC == 31
TKN == 32
Lender == 41
User == 42
Coinbase == 51

MCRegistry == A :> <<USDC, TKN>> @@ B :> <<USDC, TKN>>
MCPriority == <<USDC>>

T(token, from, to, amt) == [log |-> "transfer", token |-> token, from |-> from, to |-> to, amt |-> amt]
Swap(who, pool, in, ain, aout) ==
    LET out == IF in = USDC THEN TKN ELSE USDC
    IN  <<T(in, who, pool, ain),
          [log |-> "swap", pool |-> pool, amm |-> IF pool = A THEN "v3" ELSE "v2",
           tin |-> IF in = USDC THEN Token0 ELSE Token1,
           tout |-> IF in = USDC THEN Token1 ELSE Token0,
           ain |-> ain, aout |-> aout, tick |-> IF pool = A THEN 5 ELSE -1000, owner |-> Zero],
          T(out, pool, who, aout)>>
Tx(from, to, logs) == [from |-> from, to |-> to, value |-> 0, ok |-> TRUE, logs |-> logs]
Liq(kind, e, n) ==
    <<[log |-> kind, pool |-> A, owner |-> e, lo |-> 0, hi |-> 10, liq |-> n]>>

Buy(e, aout)  == Tx(e, A, Swap(e, A, USDC, 100, aout))
Sell(e, aout) == Tx(e, A, Swap(e, A, TKN, 50, aout))
AtoB(who)     == Swap(who, A, USDC, 100, 50) \o Swap(who, B, TKN, 50, 130)
BtoA(who)     == Swap(who, B, USDC, 100, 50) \o Swap(who, A, TKN, 50, 130)
Arb(e)        == Tx(e, B, AtoB(e))
ArbBack(e)    == Tx(e, A, BtoA(e))
Losing(e)     == Tx(e, A, Swap(e, A, USDC, 100, 50) \o Swap(e, B, TKN, 50, 90))
Wash(e)       == Tx(e, A, Swap(e, A, USDC, 100, 50) \o Swap(e, A, TKN, 50, 99))
Bribe(e)      == Tx(e, 11, AtoB(11) \o <<T(USDC, e, Coinbase, 5)>>)
Overpaid(e)   == Tx(e, 11, <<T(USDC, e, 11, 40)>> \o AtoB(11) \o <<T(USDC, 11, Coinbase, 50)>>)
Mixed(e)      == Tx(e, 11, Swap(e, A, USDC, 100, 50) \o Swap(3 - e, B, TKN, 50, 130))
\* The pools are paid by the contract, what is left goes to a wallet, or to the coinbase.
Forward(e, to) == Tx(e, 11, <<T(USDC, e, 11, 100)>> \o AtoB(11)
                            \o <<T(USDC, 11, e, 100), T(USDC, 11, to, 30)>>)
Borrow(e)     == <<[log |-> "loan", token |-> USDC, amt |-> 100, fee |-> 1, provider |-> Lender,
                    initiator |-> e, recipient |-> 11], T(USDC, Lender, 11, 100)>>
\* A loan whose repayment shows as a transfer to the lender, and one whose does not.
FlashArb(e, shown) ==
    Tx(e, 11, Borrow(e) \o AtoB(11) \o IF shown THEN <<T(USDC, 11, Lender, 101), T(USDC, e, Lender, 0)>> ELSE <<>>)
Seize(e, amt) == <<[log |-> "liquidation", user |-> User, liquidator |-> e, coll |-> USDC, amt |-> amt],
                   T(USDC, User, e, 5)>>
SeizeTwice(e) == Tx(e, Lender, Seize(e, 5) \o Seize(e, 20))
SeizeAndArb(e) == Tx(e, Lender, Seize(e, 5) \o AtoB(e))
BuyOut(e)     == Tx(e, Lender, <<[log |-> "buy", buyer |-> e, coll |-> TKN, amt |-> 7]>>)
Take(e)       == Tx(e, B, <<T(USDC, B, e, 3)>>)
TakeAndGive(e) == Tx(e, B, <<T(USDC, B, e, 3), T(TKN, e, B, 1)>>)
Sync(e)       == Tx(e, A, <<T(USDC, A, e, 3), [log |-> "pairop", pool |-> A]>>)
Claim(e)      == Tx(e, A, <<T(TKN, Zero, e, 50)>> \o Swap(e, A, TKN, 50, 110))
Bundle(e)     == Tx(e, 11, <<[log |-> "userop", ok |-> TRUE, gas |-> 2],
                             [log |-> "userop", ok |-> FALSE, gas |-> 3]>>)
Keep(e)       == Tx(e, 11, <<[log |-> "keeper", token |-> USDC, fee |-> 2]>>)
MintTx(e)     == Tx(e, 11, Liq("mint", e, 10))
BurnTx(e)     == Tx(e, 11, Liq("burn", e, 10))
Part(e)       == Tx(e, 11, Liq("burn", e, 4))
ArbMint(e)    == Tx(e, 11, Liq("mint", e, 10) \o AtoB(e))
Renew(e)      == Tx(e, 11, Liq("burn", e, 10) \o Liq("mint", e, 10))
Failed(e)     == [Arb(e) EXCEPT !.ok = FALSE]
\* An aggregator's edge that the pool swaps carry, and one that they do not.
Edge(ain, aout) ==
    <<[log |-> "swap", pool |-> 11, amm |-> "aggregator", tin |-> USDC, tout |-> USDC,
       ain |-> ain, aout |-> aout, tick |-> 0, owner |-> Zero]>>
Routed(e)     == Tx(e, 11, AtoB(e) \o Edge(100, 130))
Unrouted(e)   == Tx(e, 11, Swap(e, A, USDC, 100, 50) \o Edge(500, 600))

Bundles == {Buy(1, 50), Buy(2, 40), Sell(1, 120), Arb(1), ArbBack(1), Sell(2, 100)}
Liquid  == {Buy(2, 40), MintTx(1), BurnTx(1), ArbMint(1), Renew(1)}
Few     == {Buy(2, 50), Sell(1, 100), ArbBack(1)}
Core    == Bundles \cup Liquid \cup {Buy(2, 50), ArbBack(2), Mixed(1), SeizeAndArb(1), Claim(1),
                                     FlashArb(1, FALSE)}
MCTransactions ==
    Core \cup Few \cup
    {Losing(1), Wash(1), Bribe(1), Overpaid(1), Sync(1), Forward(1, 12), Forward(1, Coinbase), FlashArb(1, TRUE), SeizeTwice(1), BuyOut(1),
     Take(1), TakeAndGive(1), Bundle(1), Keep(1), Part(1), Failed(1), Routed(1), Unrouted(1)}

Of(n, lib) == [1..n -> lib]
MCBlocks == Of(2, MCTransactions) \cup Of(3, Core) \cup Of(4, Bundles) \cup Of(4, Liquid)
            \cup Of(5, Few)

===============================================================================
