------------------------ MODULE MCProfilePublication ------------------------
(* Constants and symmetry for TLC.                                         *)
EXTENDS ProfilePublication, TLC

\* Every media fingerprint, a missing fingerprint and a removed track.
AllScans == Medias \cup {None, Gone}
\* Scans of the current builder always have a fingerprint.
KnownScans == Medias \cup {Gone}

Interchangeable == Permutations(Medias) \cup Permutations(Tokens)
InterchangeableTracks == Interchangeable \cup Permutations(Tracks)
=============================================================================
