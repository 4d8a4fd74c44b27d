-------------------------- MODULE MCUsageMetering --------------------------
(* One counter and a spool of two lines for TLC.                            *)
EXTENDS UsageMetering
=============================================================================
