---------------------------- MODULE MCNativeHook ----------------------------
EXTENDS NativeHook, TLC

CONSTANTS m1, m2, f1, f2

\* Two overloads of one method with argument lists of different lengths.
Overloaded == (m1 :> "f") @@ (m2 :> "f")
Arities == (m1 :> 0) @@ (m2 :> 7)
DeclarationOrder == <<m2, m1>>
OneExport == f1 :> m1

ThreadSymmetry == Permutations(Thread)
=============================================================================
