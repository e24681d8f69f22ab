----------------------------- MODULE MCLifecycle -----------------------------
(* Lifecycle with two instances, one of which has a task queue.            *)
EXTENDS Lifecycle

CONSTANTS a, b
=============================================================================
