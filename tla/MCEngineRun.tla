----------------------------- MODULE MCEngineRun -----------------------------
(* Small executions.                                                          *)
EXTENDS EngineRun

CONSTANTS lint, test

TwoErrors == {lint, test}
=============================================================================
