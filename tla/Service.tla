------------------------------ MODULE Service ------------------------------
(***************************************************************************)
(* What the services in front of Postgres have in common.  A request is a  *)
(* task (Tasks may be in progress at once) that makes one statement, or    *)
(* one transaction, after the other; other tasks run in between.  A        *)
(* statement on its own is atomic.  A REST handler whose client goes away, *)
(* or whose next statement fails, stops between two statements.            *)
(***************************************************************************)
CONSTANTS Users, Tasks, None

ASSUME ServiceAssumption == None \notin Users \cup Tasks
=============================================================================
