------------------------------ MODULE MCIrSend ------------------------------
(***************************************************************************)
(* Model-checking instance of IrSend: small sets of callers and codes as   *)
(* model values, one code that fails to parse.                             *)
(***************************************************************************)
EXTENDS IrSend

CONSTANTS api, gc1, codeA, codeB

\* The API main loop alone (WebSocket, serial and Bluetooth requests are all
\* handled by that one task).
MCApiOnly == {api}

\* The API main loop and one GlobalCache socket task.
MCApiAndGc == {api, gc1}

\* gc1 is a GlobalCache socket (clientId IR_CLIENT_GC).
MCGcCallers == {gc1}

MCCodes == {codeA, codeB}

\* codeB does not parse (e.g. a truncated PRONTO code).
MCValidCodes == {codeA}
=============================================================================
