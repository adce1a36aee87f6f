-------------------------- MODULE MCEventPipeline --------------------------
(* Two batches, of two events and of one; the second event has no eventId, *)
(* the third breaks the contract.                                          *)
EXTENDS EventPipeline

MCOwnId == {1, 3}
MCContract == {1, 2}
=============================================================================
