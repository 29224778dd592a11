---------------------------- MODULE MCWriteCache ----------------------------
\* One region of three slabs, so that a push may be one write, a span or slabs.
EXTENDS WriteCache
=============================================================================
