----------------------------- MODULE MCDemoServer -----------------------------
(***************************************************************************)
(* DemoServer for TLC: tabs are strings, every value is in the .cfg files. *)
(***************************************************************************)
EXTENDS DemoServer
=============================================================================
