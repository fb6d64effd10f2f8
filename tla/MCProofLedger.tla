--------------------------- MODULE MCProofLedger ---------------------------
(* Small ledgers.                                                              *)
EXTENDS ProofLedger, TLC

CONSTANTS logic, layout, unit, demo

\* One glitch asks for two gates, the other for one of them.
TwoAndOne == logic :> {unit, demo} @@ layout :> {unit}
OneEach == [g \in Glitches |-> {unit}]
=============================================================================
