-------------------------- MODULE MCUploadSession --------------------------
EXTENDS UploadSession, TLC

(* Slots are interchangeable, and so are the reasons a client may give.    *)
RequestSymmetry == Permutations(Req) \cup Permutations(Reasons)
=============================================================================
