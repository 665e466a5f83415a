--------------------------- MODULE MCBrowserFile ---------------------------
(* Instances of BrowserFile for TLC. *)
EXTENDS BrowserFile
=============================================================================
