---------------------------- MODULE MCWorkspaces ----------------------------
(***************************************************************************)
(* Bounds for model checking Workspaces: two different workspaces of one   *)
(* name, with different values of the parameter.                           *)
(***************************************************************************)
EXTENDS Workspaces, TLC

CONSTANTS s1, s2, p, q

MCNameOf == [s \in Sources |-> "w"]
MCPdfs == s1 :> {p} @@ s2 :> {q}
MCNorms == s1 :> {p} @@ s2 :> {q}
MCStart == s1 :> 1 @@ s2 :> 2
=============================================================================
