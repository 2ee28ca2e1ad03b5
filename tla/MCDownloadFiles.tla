-------------------------- MODULE MCDownloadFiles --------------------------
(***************************************************************************)
(* Instances of DownloadFiles for TLC.                                     *)
(***************************************************************************)
EXTENDS DownloadFiles

\* Two files, an empty modal, two files.
ThreeModals == <<2, 0, 2>>

=============================================================================
