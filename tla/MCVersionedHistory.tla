------------------------- MODULE MCVersionedHistory -------------------------
(* Instances of VersionedHistory for TLC.                                    *)
EXTENDS VersionedHistory

\* Every deployment runs one of the callbacks.
MCControllerOf ==
  CHOOSE f \in [Workers -> Controllers] : \A c \in Controllers : \E w \in Workers : f[w] = c
=============================================================================
