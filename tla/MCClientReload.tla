--------------------------- MODULE MCClientReload ---------------------------
(* ClientReload with small sets of sockets and senders, for TLC.           *)
EXTENDS ClientReload
=============================================================================
