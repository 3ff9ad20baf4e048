--------------------------- MODULE MCDaemonTunnel ---------------------------
\* Small instances of DaemonTunnel.
EXTENDS DaemonTunnel

\* One pod of each of the four providers, and one of PIA alone.
AllDaemons == {ExpressVPN, PIA, NordVPN, WARP}
OnlyPIA == {PIA}
=============================================================================
