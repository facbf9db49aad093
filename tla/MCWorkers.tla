----------------------------- MODULE MCWorkers ------------------------------
(* Options of the Databases that TLC builds. *)
EXTENDS Workers

Mode(persist, on) == [persist |-> persist, on |-> on]

\* In memory; with the log written asynchronously; with snapshots and the log
\* written by the committers; with the workers of the store and no log.
MCModes == { Mode(FALSE, {}), Mode(FALSE, {"cleanup", "gc"}),
             Mode(TRUE, {"append", "fsync"}), Mode(TRUE, {"snapshot", "fsync"}),
             Mode(TRUE, {"snapshot", "cleanup", "gc"}) }
=============================================================================
