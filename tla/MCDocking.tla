------------------------------ MODULE MCDocking ------------------------------
(* The instance of Docking that TLC checks: one thread of the application   *)
(* besides the thread of the server.                                        *)
EXTENDS Docking
CONSTANTS app, server
MCCallers == {app, server}
=============================================================================
