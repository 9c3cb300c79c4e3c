------------------------------ MODULE MCAuditLock ------------------------------
(* Two analyses and one cleanup; locks of one tick, which a cleanup takes for old *)
(* when they have two left, as 30 and 60 seconds.                                 *)
EXTENDS AuditLock

CONSTANTS m1, m2, a1, a2, c1

===============================================================================
