---------------------------- MODULE MCApplyPatch ----------------------------
(* Instances of ApplyPatch for TLC. *)
EXTENDS ApplyPatch

\* 1: a file in place.  2: the recovery partition from the boot partition.
\* 3: a file to another file.  4: a partition in place.  5: a file from a partition.
MCInPlace == {1, 4}
MCMtdSource == {2, 4, 5}
MCMtdTarget == {2, 4}
MCChecked == {1}
MCSize == <<2, 1, 4, 2, 1>>

\* 1: a file in place.  2: the recovery partition from the boot partition.
\* 3: a file to another file.
MCLiveSize == <<2, 1, 2>>

\* One call.
MCOneSize == <<2>>
=============================================================================
