----------------------------- MODULE MCMessaging -----------------------------
EXTENDS Messaging

CONSTANTS p1, p2, s1, s2

\* Two subscriptions share process p1; process p2 serves s1 alone.
MCProcesses == {p1, p2}
MCSubscriptions == {s1, s2}
MCConsumers == {<<p1, s1>>, <<p1, s2>>, <<p2, s1>>}
=============================================================================
