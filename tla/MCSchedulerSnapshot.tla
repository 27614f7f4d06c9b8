------------------------ MODULE MCSchedulerSnapshot ------------------------
EXTENDS SchedulerSnapshot
=============================================================================
