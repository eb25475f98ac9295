---------------------------- MODULE MCEventThread ----------------------------
(* Bounds for TLC: a link busy with an engine waits for link events only.  *)
EXTENDS EventChain
CONSTANTS link, app
MCMasks == {{link}, {link, app}}
MCThreads == Posters \cup {Waiter}
=============================================================================
