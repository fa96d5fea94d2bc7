--------------------------- MODULE MCEpisodeIngest ---------------------------
(* EpisodeIngest with the symmetry sets that the safety runs use. *)
EXTENDS EpisodeIngest, TLC

(* Sound where every episode is processable and no liveness is checked. *)
Symmetry == Permutations(Episodes) \cup Permutations(Workers)
=============================================================================
