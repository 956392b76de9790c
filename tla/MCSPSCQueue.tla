---------------------------- MODULE MCSPSCQueue ----------------------------
(* The queue with any client: capacity 2 wraps the three slots twice over  *)
(* within the PushLimit = 5 pushes of MCSPSCQueue.cfg.                     *)
EXTENDS SPSCQueue

=============================================================================
