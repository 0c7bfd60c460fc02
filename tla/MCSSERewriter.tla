--------------------------- MODULE MCSSERewriter ---------------------------
(* TLC instance of SSERewriter: the symbols that upstreams send.  A line of *)
(* two "T" is data that is no message, and one that starts with "r" is no   *)
(* data line, so "x" adds nothing.                                          *)
EXTENDS SSERewriter

FewSymbols == {"T", "r", "n"}
=============================================================================
