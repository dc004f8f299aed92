----------------------------- MODULE MCDiskTab -----------------------------
(* Small instances of DiskTab: texts of up to two chunks.                   *)
EXTENDS DiskTab

MCTexts == UNION {[1..n -> Chunk] : n \in 0..2}
=============================================================================
