---------------------------- MODULE MCTransport ----------------------------
(***************************************************************************)
(* Instances of the transport for TLC.                                     *)
(***************************************************************************)
EXTENDS Transport

\* The AppendEntries a leader sends between two changes of its term: plain
\* heartbeats and those of two ReadIndex rounds.
CONSTANTS heartbeat, round1, round2
=============================================================================
