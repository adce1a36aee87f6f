---------------------------- MODULE MCBronzeSink ----------------------------
(* Two consumers; a message, its resend under the same event id with other *)
(* contents, another event, a record that breaks the contract and one that *)
(* parses but that jsonb refuses (a NUL character in a string).            *)
EXTENDS BronzeSink

CONSTANTS a, a2, b, bad, nul, c1, c2

MCMessages == {a, a2, b, bad, nul}
MCEventIds == {a, b, bad, nul}
MCIdOf == [m \in MCMessages |-> IF m = a2 THEN a ELSE m]
MCAccepted == MCMessages \ {bad}
MCStorable == MCAccepted \ {nul}
MCConsumers == {c1, c2}
=============================================================================
