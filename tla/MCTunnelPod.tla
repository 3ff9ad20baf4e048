---------------------------- MODULE MCTunnelPod ----------------------------
\* Small instances of TunnelPod: each .cfg says which goroutines there are.
EXTENDS TunnelPod
=============================================================================
