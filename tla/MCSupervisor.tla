---------------------------- MODULE MCSupervisor ----------------------------
(* Small instances of Supervisor for TLC; callers that join a restart, which  *)
(* read the gate and change nothing, are in MCBackend.                        *)
EXTENDS Supervisor
=============================================================================
