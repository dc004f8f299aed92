----------------------------- MODULE MCFolderMove -----------------------------
(* Small instances of FolderMove.                                            *)
EXTENDS FolderMove
==============================================================================
