--------------------------- MODULE MCActionExecutor ---------------------------
(* Three requests over two keys: two duplicates can race while a request     *)
(* under another key goes on beside them.                                    *)
EXTENDS ActionExecutor
CONSTANTS r1, r2, r3, k1, k2
MCRequests == {r1, r2, r3}
MCKeys == {k1, k2}
=============================================================================
