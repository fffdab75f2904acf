------------------------------ MODULE MCPreview ------------------------------
(* Instance of Preview.                                                         *)
EXTENDS Preview

CONSTANTS a, b, p1, p2, p3
MCInvocations == {a, b}
MCPids == {p1, p2, p3}
=============================================================================
