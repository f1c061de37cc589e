----------------------------- MODULE MCStation ------------------------------
(* The three ways to run a station that differ here: real sensors with a   *)
(* separate wind station, the fixture, and no logging at all.              *)
EXTENDS Station

MCConfigs ==
    { [fixture |-> FALSE, logging |-> TRUE,  wind_station |-> TRUE],
      [fixture |-> TRUE,  logging |-> TRUE,  wind_station |-> FALSE],
      [fixture |-> FALSE, logging |-> FALSE, wind_station |-> FALSE] }

(* Three fixture rows, the second of them marked offline. *)
MCSweep == << FALSE, TRUE, FALSE >>

ASSUME FixtureAssumption == FixtureEndsOnline
=============================================================================
