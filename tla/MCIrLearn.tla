------------------------------ MODULE MCIrLearn -----------------------------
(***************************************************************************)
(* Model-checking instance of IrLearn: one capture that decodes and one    *)
(* that fails the checks (overflow, unknown protocol or invalid value).    *)
(***************************************************************************)
EXTENDS IrLearn

CONSTANTS good, bad

MCSignals == {good, bad}

MCGoodSignals == {good}
=============================================================================
