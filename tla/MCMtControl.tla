---- MODULE MCMtControl ----
EXTENDS MtControl, TLC
MCBuses == -1 .. 1
ASSUME Settles == Settling
Symmetry == Permutations(Packs)
====
