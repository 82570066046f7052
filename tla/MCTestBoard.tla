---------------------------- MODULE MCTestBoard -----------------------------
(* Every test program, with periods that keep the shape of the real ones.  *)
EXTENDS TestBoard

AllPrograms == DOMAIN ProgramTable
PeriodicOnly == {"periodic_tasks"}
TaskPeriods == [k \in Tasks |-> <<40, 20, 14, 10>>[k + 1]]
TaskWorkloads == [k \in Tasks |-> <<25, 13, 5, 3>>[k + 1]]
=============================================================================
