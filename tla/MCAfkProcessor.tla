--------------------------- MODULE MCAfkProcessor ---------------------------
(* AfkProcessor with few operations, reloads and sends, for TLC.           *)
EXTENDS AfkProcessor
=============================================================================
