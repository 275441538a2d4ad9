---------------------------- MODULE MCIngestBus ----------------------------
(* Small instances of IngestBus: two reports, which may not be shed, and    *)
(* two sensor readings, which are the first thing that is; one of either    *)
(* fills its lane.                                                          *)
EXTENDS IngestBus

CONSTANTS sos, call, reading, level

Lanes == [i \in Item |-> IF i \in {sos, call} THEN "critical" ELSE "bulk"]
OneEach == [l \in Lane |-> 1]
=============================================================================
