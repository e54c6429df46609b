-------------------------- MODULE MCConcurrentTracker --------------------------
(* A small instance of ConcurrentTracker: two tenants, one task without a     *)
(* tenant, and limits low enough that both are reached.                       *)
EXTENDS ConcurrentTracker, TLC

CONSTANTS t1, t2, t3, t4, ta, tb, w1, w2, w3

MCTask == {t1, t2, t3, t4}
MCTenant == {ta, tb}
MCTenantOf == (t1 :> ta) @@ (t2 :> ta) @@ (t3 :> tb) @@ (t4 :> NoTenant)
MCWorker == {w1, w2, w3}
MCWorkerSymmetry == Permutations(MCWorker)

===============================================================================
