---------------------------- MODULE MCPartUpload ----------------------------
(* Instance of PartUpload for TLC: S3's limits are scaled down in the .cfg. *)
EXTENDS PartUpload
=============================================================================
