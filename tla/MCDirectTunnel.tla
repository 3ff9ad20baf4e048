--------------------------- MODULE MCDirectTunnel ---------------------------
\* Small instances of DirectTunnel: each .cfg names the providers it is about.
EXTENDS DirectTunnel

\* Every value of every switch but "embedded", a list that cannot be missing.
Covering == {VeePN, ProtonVPN, FastVPN, Surfshark, SurfsharkWireGuard}

OnlyKilling == {Windscribe}
=============================================================================
