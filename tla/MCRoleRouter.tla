---------------------------- MODULE MCRoleRouter ----------------------------
(* Instances of RoleRouter for TLC: every call is made for the editor, whose *)
(* work is quality sensitive.                                                *)
EXTENDS RoleRouter

CONSTANT editor

OneRole == [c \in Calls |-> editor]
=============================================================================
