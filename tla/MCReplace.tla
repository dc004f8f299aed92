------------------------------- MODULE MCReplace -------------------------------
(* Small instances of Replace: two notebooks with a note each.                *)
EXTENDS Replace, TLC

CONSTANTS b1, b2, n1, n2

\* Two replaces of notes nobody edits, and one with edits and a modal loop.
MCStarts == {[texts |-> 2, replaces |-> 0, modals |-> 1], [texts |-> 1, replaces |-> 1, modals |-> 0]}

MCBookOf == (n1 :> b1) @@ (n2 :> b2)
================================================================================
