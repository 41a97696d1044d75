-------------------------- MODULE MCNotifications --------------------------
\* Two messages, two calls that change their status, one dashboard.
EXTENDS Notifications, TLC

CONSTANTS m1, m2, c1, c2, s1

MCMessages == {m1, m2}
MCCalls == {c1, c2}
MCSockets == {s1}
=============================================================================
