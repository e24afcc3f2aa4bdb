------------------------------ MODULE MCServer ------------------------------
(* Instances of Server for TLC. *)
EXTENDS Server

(* Two files that export plugins of one name, and one that exports none.   *)
MCFiles == {"first", "second", "broken"}
MCExports == [f \in MCFiles |-> IF f = "broken" THEN NoName ELSE "injector"]
=============================================================================
