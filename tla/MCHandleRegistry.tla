--------------------------- MODULE MCHandleRegistry ---------------------------
EXTENDS HandleRegistry
===============================================================================
