------------------------------- MODULE MCIoBuf -------------------------------
(* Model-checking instance of IoBuf. *)
EXTENDS IoBuf

\* Sources that fill a memory in part and, together, exactly, and one that is
\* longer; neighbours differ, so that a byte out of its place shows.
MCSources == {<<"x">>, <<"x", "y">>, <<"x", "y", "x", "y">>}

\* Buffers and memories are only compared for equality.
Symmetry == Permutations(Bufs) \cup Permutations(Memories)
=============================================================================
