---------------------------- MODULE MCLibraryFile ----------------------------
(* Small instances of LibraryFile.                                          *)
EXTENDS LibraryFile, TLC

NoteSymmetry == Permutations(Notes)
=============================================================================
