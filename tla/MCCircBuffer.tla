--------------------------- MODULE MCCircBuffer ----------------------------
EXTENDS CircBuffer
=============================================================================
