-------------------------- MODULE MCBrowserBackend --------------------------
(* Two or three calls, room for two open requests, three ids: BUSY, id     *)
(* exhaustion and a late duplicate all happen.                             *)
EXTENDS BrowserBackend
=============================================================================
