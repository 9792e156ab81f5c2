----------------------------- MODULE MCSessions -----------------------------
EXTENDS Sessions

CONSTANTS c1, c2, c3, c4
=============================================================================
