---------------------------- MODULE MCLifecycle -----------------------------
(* Three connections at a time, coming and going for ever, and a queue of  *)
(* two blocks; two names for pipelines are enough to see a second one.     *)
EXTENDS Lifecycle
=============================================================================
