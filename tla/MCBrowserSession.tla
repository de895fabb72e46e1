------------------------- MODULE MCBrowserSession -------------------------
(* An instance of BrowserSession for TLC. *)
EXTENDS BrowserSession

\* The browser shares its address with another client.
KeyOfValue == [r \in Requests |-> "a"]
=============================================================================
