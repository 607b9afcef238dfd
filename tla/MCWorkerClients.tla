-------------------------- MODULE MCWorkerClients --------------------------
EXTENDS WorkerClients
=============================================================================
