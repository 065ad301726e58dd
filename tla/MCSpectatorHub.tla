--------------------------- MODULE MCSpectatorHub ---------------------------
(* The instance of SpectatorHub that TLC checks: every connection is       *)
(* registered under the one user id the hub assigns (spectator.py:118).    *)
EXTENDS SpectatorHub

CONSTANTS HubUser

MCUserOf == [c \in Conns |-> HubUser]
=============================================================================
