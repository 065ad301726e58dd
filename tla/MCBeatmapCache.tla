--------------------------- MODULE MCBeatmapCache ---------------------------
(* BeatmapCache on one set of two difficulties.                            *)
EXTENDS BeatmapCache, TLC

CONSTANTS r1, r2, b1, b2, s1

MCSetOf == [b \in Beatmaps |-> s1]
MCCalls == [op : {"beatmap"}, id : {b1}] \cup [op : {"score"}, id : {b1}]
             \cup [op : {"checksum"}, id : {b1}, version : {1}]
             \cup [op : {"set"}, id : Sets] \cup [op : {"search"}]

MCSymmetry == Permutations(Requests)

=============================================================================
