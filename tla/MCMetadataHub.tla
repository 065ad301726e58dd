--------------------------- MODULE MCMetadataHub ----------------------------
(* The instance of MetadataHub that TLC checks: every connection is        *)
(* registered under the one user id the hub assigns (metadata.py:166).     *)
EXTENDS MetadataHub

CONSTANTS HubUser

MCUserOf == [c \in Conns |-> HubUser]
=============================================================================
