--------------------------- MODULE ControllerProcess ---------------------------
(***************************************************************************)
(* The controller's program as one process: every exit(1) and every        *)
(* exception nobody catches, in whatever thread, ends all its threads.     *)
(***************************************************************************)
VARIABLE process

ProcessTypeOK == process \in {"running", "exited"}
==============================================================================
