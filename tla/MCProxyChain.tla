---------------------------- MODULE MCProxyChain ----------------------------
\* Small instances of ProxyChain.
EXTENDS ProxyChain
=============================================================================
