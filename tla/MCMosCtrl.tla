----------------------------- MODULE MCMosCtrl -----------------------------
(* A TLC instance of MosCtrl: the delays are scaled down to one pass, and  *)
(* the parallel control decides one of a few allowances.                   *)
EXTENDS MosCtrl

Allow(d, c, qd, qc, out) ==
    [dis |-> d, chg |-> c, quickDis |-> qd, quickChg |-> qc, mtOut |-> out]

(* Nothing; discharge only; both while a neighbour drives the bus; quick   *)
(* opening of the direction that is not allowed.                           *)
SomeAllowances ==
    { Allow(FALSE, FALSE, FALSE, FALSE, FALSE),
      Allow(TRUE,  FALSE, FALSE, FALSE, FALSE),
      Allow(TRUE,  TRUE,  FALSE, FALSE, TRUE),
      Allow(FALSE, TRUE,  TRUE,  FALSE, FALSE) }
=============================================================================
