----------------------------- MODULE MCBootcache -----------------------------
EXTENDS Bootcache

CONSTANTS e1, e2, e3

MCEndpoints == {e1, e2, e3}

=============================================================================
