--------------------------- MODULE MCMethodManager ---------------------------
(* Small instances of MethodManager: the two built-in methods, one method the *)
(* application adds and removes, and memory for one object more.              *)
EXTENDS MethodManager, TLC

CONSTANTS list, help, f, o1, o2, o3, s1

MCName == {list, help, f}
MCBuiltin == {list, help}
MCBuiltinObj == (list :> o1) @@ (help :> o2)
MCStaticName == s1 :> f
==============================================================================
