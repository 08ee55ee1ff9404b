--------------------------- MODULE MCMethodRewrite ---------------------------
(* Small instances of MethodRewrite, over the enums of MCEnvScope.          *)
EXTENDS MethodRewrite, MCEnvScope
=============================================================================
