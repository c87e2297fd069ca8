---------------------------- MODULE MCWorkerProcess ----------------------------
EXTENDS WorkerProcess
================================================================================
