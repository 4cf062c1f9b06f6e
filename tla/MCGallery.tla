----------------------------- MODULE MCGallery ------------------------------
(***************************************************************************)
(* A small instance of Gallery for TLC.                                    *)
(***************************************************************************)
EXTENDS Gallery
=============================================================================
