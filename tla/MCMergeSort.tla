---------------------------- MODULE MCMergeSort ----------------------------
(* Files of up to four lines: an empty one, ranges of odd and even length, *)
(* two levels of threads that work at the same time, equal numbers.        *)
EXTENDS MergeSort

MCLengths == 0..4
MCValues == 1..3
=============================================================================
