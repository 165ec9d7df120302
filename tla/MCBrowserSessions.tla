--------------------------- MODULE MCBrowserSessions ---------------------------
(* A finite instance of BrowserSessions for TLC: see BSLive.cfg. *)
EXTENDS BrowserSessions
=============================================================================
