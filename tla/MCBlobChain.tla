----------------------------- MODULE MCBlobChain -----------------------------
(***************************************************************************)
(* Instances of BlobChain for TLC: pages of two bytes, among them parts    *)
(* that claim three, chains and cycles of up to two pages.                 *)
(***************************************************************************)
EXTENDS BlobChain

MCPartLens == {0, 1, 2, 3}
MCPages == {0, 1, 2}
=============================================================================
