------------------------------ MODULE MCQueryPool -----------------------------
EXTENDS QueryPool
=============================================================================
