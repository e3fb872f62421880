---------------------- MODULE MCDesktopSessions ----------------------
\* One session of each protocol that the user works in, with a reload or the exit of
\* the app, and two calls that share the pools, the certificate dialog, the exit.
EXTENDS DesktopSessions, TLC

CONSTANTS c1, c2

Pair(k1, k2) == c1 :> k1 @@ c2 :> k2

Alone(k, ends, again) ==
    [kind |-> Pair(k, k), shared |-> 1, vnc |-> 1, called |-> {c1}, used |-> {c1},
     exits |-> ends, reloads |-> again]

Both(k1, k2, shared, vnc, used, ends) ==
    [kind |-> Pair(k1, k2), shared |-> shared, vnc |-> vnc, called |-> {c1, c2},
     used |-> used, exits |-> ends, reloads |-> 0]

MCInstances ==
    {Alone("rdp", TRUE, 0), Alone("vnc", FALSE, 1), Alone("ssh", FALSE, 1),
     Both("rdp", "rdp", 2, 1, {}, TRUE), Both("rdp", "vnc", 1, 1, {}, FALSE),
     Both("vnc", "vnc", 2, 1, {}, TRUE)}
======================================================================
