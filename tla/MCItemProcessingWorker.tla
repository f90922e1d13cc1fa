----------------------- MODULE MCItemProcessingWorker -----------------------
(* Instances of ItemProcessingWorker for TLC. *)
EXTENDS ItemProcessingWorker, TLC

\* Clients behave alike and no operator orders them.
ClientSymmetry == Permutations(Clients)

=============================================================================
