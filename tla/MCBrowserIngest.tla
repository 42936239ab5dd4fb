-------------------------- MODULE MCBrowserIngest --------------------------
(* A phone and a desktop of one owner, or two tabs, on one channel.        *)
EXTENDS BrowserIngest
=============================================================================
