------------------------- MODULE MCIncrementalParse -------------------------
EXTENDS IncrementalParse

\* Two declarations.
CONSTANTS f, g
=============================================================================
