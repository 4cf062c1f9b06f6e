-------------------------- MODULE MCThumbnailTask --------------------------
(***************************************************************************)
(* A small instance of ThumbnailTask for TLC.                              *)
(***************************************************************************)
EXTENDS ThumbnailTask
=============================================================================
