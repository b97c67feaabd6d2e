------------------------------ MODULE MCShutdown ------------------------------
EXTENDS Shutdown
===============================================================================
