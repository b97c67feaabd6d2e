------------------------------- MODULE MCWorker -------------------------------
EXTENDS Worker
===============================================================================
