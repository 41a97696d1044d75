--------------------------- MODULE MCServerCaches ---------------------------
\* The overview of the host and one cell of Docker's, and three callers.
EXTENDS ServerCaches, TLC

CONSTANTS c1, c2, c3, host, docker

MCCallers == {c1, c2, c3}
MCCells == {host, docker}
MCShared == {host}
=============================================================================
