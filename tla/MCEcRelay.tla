----------------------------- MODULE MCEcRelay ------------------------------
(* Instances of EcRelay for TLC.                                           *)
EXTENDS EcRelay

\* Two commands of one service, and one of another whose response has the
\* number of the first one's; one parser takes a prefix.
MCCommand == {[service_id |-> 9, message_id |-> 1, response_id |-> 1,
               parse |-> "exact"],
              [service_id |-> 9, message_id |-> 5, response_id |-> 2,
               parse |-> "prefix"],
              [service_id |-> 11, message_id |-> 1, response_id |-> 1,
               parse |-> "exact"]}
=============================================================================
