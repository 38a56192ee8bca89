---------------------------- MODULE MCDurableLog ----------------------------
(* An instance of DurableLog for TLC. *)
EXTENDS DurableLog

\* What PersistenceServer knew before it died is of no use to anybody.
View == <<queues, orphans, ring, dirs, IF persis = Down THEN <<>> ELSE memory, persis, count>>
=============================================================================
