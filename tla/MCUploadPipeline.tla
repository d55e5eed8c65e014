------------------------- MODULE MCUploadPipeline -------------------------
(* Model-checking instances of UploadPipeline. *)
EXTENDS UploadPipeline, TLC

\* Handlers, requests and the replacing uploads are interchangeable.
Perms == Permutations(Workers) \cup Permutations(Requests)
           \cup Permutations(Uploads \ {Creator})
=============================================================================
