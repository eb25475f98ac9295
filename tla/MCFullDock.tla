----------------------------- MODULE MCFullDock -----------------------------
(* Bounds for TLC: a link with everything, and one that lacks something.   *)
EXTENDS FullDockLink
MCKits == {[handles |-> {"browse", "keyboard", "sync"}, engines |-> {"keyboard", "sync"}],
           [handles |-> {"browse", "sync"}, engines |-> {}]}
=============================================================================
