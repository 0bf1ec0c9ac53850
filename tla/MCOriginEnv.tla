----------------------------- MODULE MCOriginEnv -----------------------------
EXTENDS OriginEnv, TLC
ThreadSymmetry == Permutations(NativeThread) \cup Permutations(Tid) \cup Permutations(Env)
=============================================================================
