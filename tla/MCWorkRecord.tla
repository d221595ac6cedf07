---------------------------- MODULE MCWorkRecord ----------------------------
(* The work record with two workers racing over two jobs of two units.      *)
EXTENDS WorkRecord, TLC

\* Workers, briefs and answers are only ever compared for equality.
Interchangeable == Permutations(Workers) \cup Permutations(Results) \cup Permutations(Briefs)
=============================================================================
