---------------------------- MODULE MCHostsfile ----------------------------
EXTENDS Hostsfile

CONSTANTS n1, n2, a1, a2

MCOthers == {n2}
MCAddrs == {a1, a2}
=============================================================================
