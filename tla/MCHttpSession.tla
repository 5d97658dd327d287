--------------------------- MODULE MCHttpSession ---------------------------
(***************************************************************************)
(* Two known revisions with a handshake, 1 and 2, and one without, 3; a    *)
(* revision older than those, 0, and one newer, 4.  Servers: retired, of   *)
(* one era, of both, and of revisions the client has never heard of.       *)
(***************************************************************************)
EXTENDS HttpSession

AllServers == {{}, {0}, {1}, {2}, {0, 1}, {1, 2}, {3}, {0, 3}, {1, 3}, {2, 3}, {4}, {0, 4},
               {1, 4}, {2, 4}, {3, 4}}
=============================================================================
