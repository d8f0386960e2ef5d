----------------------------- MODULE MCUploads -----------------------------
(* Two files through a window of one under a cap of one, on a page that is   *)
(* opened three times; and three through the windows of two pages.           *)
EXTENDS Uploads
=============================================================================
