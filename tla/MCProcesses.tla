---------------------------- MODULE MCProcesses ----------------------------
EXTENDS Processes
MCIntMin == -2
=============================================================================
