-------------------------- MODULE MCBronzeReader --------------------------
(* Two sessions insert up to five rows; pages of two rows, so that a pass  *)
(* takes several queries.  MCBronzeReaderResume.cfg resumes passes.        *)
EXTENDS BronzeReader

CONSTANTS w1, w2

MCWriters == {w1, w2}
=============================================================================
