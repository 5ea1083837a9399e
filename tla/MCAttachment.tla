---------------------------- MODULE MCAttachment ----------------------------
(* Model values and access modes for checking AttachmentService with TLC. *)
EXTENDS AttachmentService, TLC

CONSTANT v1

OneRWO == v1 :> "RWO"
OneRWX == v1 :> "RWX"

Symmetry == Permutations(Node) \cup Permutations(Threads)
=============================================================================
