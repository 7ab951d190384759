---------------------------- MODULE MCStackAlloc ----------------------------
(* Three blocks of six words, at addresses with the alignment operator new *)
(* guarantees (two pointers), and nodes of two words: two slots and a word *)
(* that is left over per block, as in blocks of 512 words.                 *)
EXTENDS StackAlloc

MCBases == {2, 8, 14}
MCContent == {101, 102}
=============================================================================
