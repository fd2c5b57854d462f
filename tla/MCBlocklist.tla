----------------------------- MODULE MCBlocklist -----------------------------
(* Instances of Blocklist for TLC.                                          *)
EXTENDS Blocklist, TLC

CONSTANTS gateway, host1, host2, reader, web, sweep

Timed == {0, 2}
JustTimed == {1, 2}
=============================================================================
