---------------------------- MODULE MCRunWorker ----------------------------
(* Small instances of RunWorker for TLC.                                   *)
EXTENDS RunWorker

NoFaults == [k \in FaultKinds |-> 0]
Everything == [k \in FaultKinds |-> 1]
=============================================================================
