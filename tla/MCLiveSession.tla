--------------------------- MODULE MCLiveSession ---------------------------
(* LiveSession with its constants given in the .cfg files.                  *)
EXTENDS LiveSession
=============================================================================
