------------------------------- MODULE MCWorker ------------------------------
EXTENDS WorkerProps
=============================================================================
