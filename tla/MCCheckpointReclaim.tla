------------------------ MODULE MCCheckpointReclaim ------------------------
(* Instances of CheckpointReclaim for TLC.                                 *)
EXTENDS CheckpointReclaim, TLC


=============================================================================
