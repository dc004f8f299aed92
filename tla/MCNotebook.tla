------------------------------ MODULE MCNotebook ------------------------------
(* Small instances of Notebook.                                              *)
EXTENDS Notebook
==============================================================================
