---------------------------- MODULE MCRemoteFiles ----------------------------
EXTENDS RemoteFiles, TLC

CONSTANTS u1, u2, d1

OneByte == [u \in Uploads |-> 1]
Alike == Permutations(Uploads)
=============================================================================
