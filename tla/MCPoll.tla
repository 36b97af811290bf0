------------------------------- MODULE MCPoll -------------------------------
(* PollPoller on a small instance: see MCPollScan.cfg. *)
EXTENDS PollPoller
=============================================================================
