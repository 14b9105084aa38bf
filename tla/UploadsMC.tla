----------------------------- MODULE UploadsMC ------------------------------
(* An instance of Uploads for TLC: two images. *)
EXTENDS Uploads

CONSTANTS k1, k2
=============================================================================
