---------------------- MODULE MCRemoteSessions ----------------------
\* Two connect calls for one profile, which have one slot or two.
EXTENDS RemoteSessions, TLC

CONSTANTS c1, c2, p1

MCProfileOf == c1 :> p1 @@ c2 :> p1
======================================================================
