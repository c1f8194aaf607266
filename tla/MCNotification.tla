--------------------------- MODULE MCNotification ---------------------------
(***************************************************************************)
(* Constants of the model-checked instances of NotificationService.        *)
(***************************************************************************)
EXTENDS NotificationService

CONSTANTS g1, k1, c1, c2, wecom

\* Cursor order of the single-platform instances: "-", then c1, then c2.
MCRank == [d \in Notes \X (Channels \cup {NoChannel}) \X Platforms |->
             IF d[2] = NoChannel THEN 0 ELSE IF d[2] = c1 THEN 1 ELSE 2]
=============================================================================
