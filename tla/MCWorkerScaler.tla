----------------------------- MODULE MCWorkerScaler -----------------------------
(* Three workers, a pool of four, two signals: a signal in the middle of start *)
(* or of the shutdown that another one began.                                  *)
EXTENDS WorkerScaler

CONSTANTS w1, w2, w3, g1, g2

MCWorker == {w1, w2, w3}
MCSignal == {g1, g2}
===============================================================================
