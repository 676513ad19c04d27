------------------------ MODULE MCSnapshotScheduler ------------------------
(* Small instances of SnapshotScheduler for TLC: which requests arrive is   *)
(* what the configurations vary.                                            *)
EXTENDS SnapshotScheduler, TLC

Symmetry == Permutations(Client) \cup Permutations(Worker) \cup Permutations(Timer)
=============================================================================
