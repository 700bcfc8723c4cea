------------------------------ MODULE BlockApply -------------------------------
(* What a replay of a block range promises about pool state: the height only   *)
(* moves up, one block at a time, and a block either leaves the pools alone or *)
(* applies the logs of its transactions, all of them, at once. Nothing of a    *)
(* failed attempt is ever visible between blocks.                              *)
EXTENDS Naturals, Sequences

CONSTANTS
    Contents,           \* what a block can carry: sequences of transactions
    Apply(_, _),        \* the pools after a block's transactions
    Initial, Final

VARIABLES pools, height

Init == pools = Initial /\ height = 1

Pass == height <= Final /\ height' = height + 1 /\ pools' = pools

ApplyBlock(c) ==
    /\ height <= Final
    /\ height' = height + 1
    /\ pools' = Apply(pools, c)

Next == Pass \/ \E c \in Contents : ApplyBlock(c)

Spec == Init /\ [][Next]_<<pools, height>>
===============================================================================
