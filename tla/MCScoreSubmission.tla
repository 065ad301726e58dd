------------------------- MODULE MCScoreSubmission --------------------------
(* The instance of ScoreSubmission that TLC checks: two tokens of one user *)
(* on two beatmaps, and one of another user on the first of them.          *)
EXTENDS ScoreSubmission, TLC

CONSTANTS t1, t2, t3, u1, u2, b1, b2

MCTokens == {t1, t2, t3}
MCTokenUser == (t1 :> u1) @@ (t2 :> u1) @@ (t3 :> u2)
MCTokenBeatmap == (t1 :> b1) @@ (t2 :> b2) @@ (t3 :> b1)

\* The first beatmap was cached with plays of its own.
MCUpstreamPlays == (b1 :> 3) @@ (b2 :> 0)
=============================================================================
