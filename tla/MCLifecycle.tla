---------------------------- MODULE MCLifecycle ----------------------------
(* Small instances of Lifecycle: the days of the schedules are scaled down. *)
EXTENDS Lifecycle

CONSTANTS k1, k2

ShortSchedule == <<1, 2>>
=============================================================================
