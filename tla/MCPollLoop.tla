----------------------------- MODULE MCPollLoop -----------------------------
(* PollLoop with the limits of health.go and tunnel.go.                    *)
EXTENDS PollLoop
=============================================================================
