----------------------------- MODULE FlashExecutor -----------------------------
(* The flash-loan contract (src/contracts/src/FlashArbExecutor.sol): execute   *)
(* borrows from the vault, runs the legs of a plan, repays, and sends what is  *)
(* left to the withdrawer. A call is one transaction: a world in which a step  *)
(* has reverted is thrown away whole.                                          *)
(*                                                                             *)
(* The vault lends at no fee and the pools are pairs of reserves: fee is what  *)
(* the caller believes they charge and charged what they do, both in basis     *)
(* points.                                                                     *)
EXTENDS Integers, Sequences

(* What the contract holds of each token while a plan runs.                    *)
Begun(pools, plan) ==
    [ok |-> plan.amount > 0 /\ plan.legs # <<>>, pools |-> pools,
     held |-> [t \in {plan.token} |-> plan.amount], amount |-> plan.amount]

Held(w, token) == IF token \in DOMAIN w.held THEN w.held[token] ELSE 0
Reserves(p, token) == IF p.t0 = token THEN <<p.r0, p.r1>> ELSE <<p.r1, p.r0>>
AmountOut(in, r, bps) ==
    (in * (10000 - bps) * r[2]) \div (r[1] * 10000 + in * (10000 - bps))

(* A pair lets the output go if its product, less its own fee, does not fall.  *)
PairAccepts(p, r, in, out) ==
    /\ out > 0 /\ out < r[2]
    /\ ((r[1] + in) * 10000 - in * p.charged) * (r[2] - out) >= r[1] * r[2] * 10000

Swapped(w, leg, in, out) ==
    LET r == Reserves(w.pools[leg.pool], leg.in)
    IN  [w EXCEPT !.amount = out,
                  !.held = [t \in DOMAIN @ \union {leg.in, leg.out} |->
                               Held(w, t) + (IF t = leg.out THEN out ELSE 0)
                                          - (IF t = leg.in THEN in ELSE 0)],
                  !.pools[leg.pool] = IF @.t0 = leg.in
                                      THEN [@ EXCEPT !.r0 = r[1] + in, !.r1 = r[2] - out]
                                      ELSE [@ EXCEPT !.r0 = r[2] - out, !.r1 = r[1] + in]]

(* The pair is told the output; a V3 pool decides on it and calls back for its *)
(* input.                                                                      *)
V2Out(p, leg, in) ==
    AmountOut(in, Reserves(p, leg.in), IF leg.fee = 0 THEN 30 ELSE leg.fee)
V3Out(p, leg, in) == AmountOut(in, Reserves(p, leg.in), p.charged)

RunLeg(w, leg) ==
    LET p == w.pools[leg.pool]
        r == Reserves(p, leg.in)
        out == IF leg.kind = "v2" THEN V2Out(p, leg, w.amount) ELSE V3Out(p, leg, w.amount)
    IN  IF ~w.ok \/ Held(w, leg.in) < w.amount \/ ~PairAccepts(p, r, w.amount, out)
        THEN [w EXCEPT !.ok = FALSE]
        ELSE Swapped(w, leg, w.amount, out)

Left(w, plan) == Held(w, plan.token) - plan.amount

(* Leftover of wrapped native arrives unwrapped, of another token as it is.    *)
LegsRun(pools, plan) ==
    LET w[i \in 0 .. Len(plan.legs)] ==
            IF i = 0 THEN Begun(pools, plan) ELSE RunLeg(w[i - 1], plan.legs[i])
    IN  w
Execute(pools, plan, weth) ==
    LET w == LegsRun(pools, plan)[Len(plan.legs)]
    IN  IF w.ok /\ Left(w, plan) >= plan.minProfit
        THEN [ok |-> TRUE, pools |-> w.pools, gain |-> IF plan.token = weth THEN Left(w, plan) ELSE 0]
        ELSE [ok |-> FALSE, pools |-> pools, gain |-> 0]
===============================================================================
