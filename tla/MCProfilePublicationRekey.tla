---------------------- MODULE MCProfilePublicationRekey ----------------------
(* Constants and symmetry for TLC.                                         *)
EXTENDS ProfilePublicationRekey, TLC

KnownScans == Medias \cup {Gone}
InterchangeableTracks == Permutations(Medias) \cup Permutations(Tokens) \cup Permutations(Tracks)
=============================================================================
