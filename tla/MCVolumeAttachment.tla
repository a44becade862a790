------------------------- MODULE MCVolumeAttachment -------------------------
(* VolumeAttachment with interchangeable instances and requests, for TLC. *)
EXTENDS VolumeAttachment, TLC

Symmetry == Permutations(Instances) \cup Permutations(Requests)
=============================================================================
