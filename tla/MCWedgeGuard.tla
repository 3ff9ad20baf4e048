---------------------------- MODULE MCWedgeGuard ----------------------------
\* Small instances of WedgeGuard; time is bounded by the guard itself.
EXTENDS WedgeGuard
=============================================================================
