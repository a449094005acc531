---------------------------- MODULE MCLoadMonitor ----------------------------
EXTENDS LoadMonitor

MCEvents == {"job1"}
=============================================================================
