---------------------------- MODULE MCStressTest ---------------------------
(* Small instances of StressTest for TLC. *)
EXTENDS StressTestInv

\* States that differ in the history asserts alone count as one: no action and,
\* TypeOK apart, no property of the run that uses this view reads it.
AllButAsserts == <<uvVars, taskVars, loop>>

NoFault      == {}
ConnectFails == {"connect"}
NameFails    == {"dns"}
NotStarted   == {"dns", "connect", "read"}
NotSent      == {"dns", "write", "timeout"}
=============================================================================
