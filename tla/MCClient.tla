------------------------------ MODULE MCClient ------------------------------
(* One process with a client and a worker of its own, and another process  *)
(* on the same file.                                                       *)
EXTENDS Client

CONSTANTS peer, old, new, k1, k2, main, extra, alone

MCConnections == {1, 2, peer}
MCOwn    == 1 .. 2
MCOneOwn == {1}
MCLegacyIds == {old}
MCNewIds == {new}
MCNoIds  == {}
MCEmbedded == {main}
MCCreated  == {extra}
MCNobody == {}
MCAlone  == {alone}
OneCaller  == {k1}
TwoCallers == {k1, k2}
=============================================================================
