------------------------------ MODULE MCLight ------------------------------
(* The application on a few motes. *)
EXTENDS Light

CONSTANTS sensor, relay, relay2, sink

TwoLinks == {<<sensor, relay>>}

\* Two relays that hear the sensor and each other.
MeshLinks == {<<sensor, relay>>, <<sensor, relay2>>, <<relay, relay2>>, <<relay2, relay>>}

LineLinks == {<<sensor, relay>>, <<relay, sensor>>, <<relay, sink>>, <<sink, relay>>}
=============================================================================
