----------------------------- MODULE MCDockState ----------------------------
(***************************************************************************)
(* Model-checking instance of DockState: the main loop (API commands and  *)
(* handleCharging), one GlobalCache socket task and the IR learn task      *)
(* calling setState().                                                     *)
(***************************************************************************)
EXTENDS DockState

CONSTANTS main, gc1, learn

MCTasks == {main, gc1, learn}

\* main: set_brightness, identify, the LED test and the charging detection.
MCMainCommands ==
    {"set_brightness", "identify", "rgb_test", "rgb_test_stop", "charging"}

\* main: ir_receive_on and ir_receive_off.
MCLearnCommands == {"ir_receive_on", "ir_receive_off"}

\* Only the learn task's result besides the main task's commands.
MCLearnRequests ==
    [t \in MCTasks |-> IF t = learn THEN {IR_LEARN_OK} ELSE {}]
=============================================================================
