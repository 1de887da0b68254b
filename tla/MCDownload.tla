----------------------------- MODULE MCDownload -----------------------------
(* Instances of Download: the wanted payload, one of the same length, a    *)
(* shorter and a longer one.                                               *)
EXTENDS Download, TLC

CONSTANTS want, same, short, long

MCBlocks == (want :> 2) @@ (same :> 2) @@ (short :> 1) @@ (long :> 3)

=============================================================================
