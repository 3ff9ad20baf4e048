---------------------------- MODULE MCFetchProxy ----------------------------
\* Small instances of FetchProxy.
EXTENDS FetchProxy
=============================================================================
