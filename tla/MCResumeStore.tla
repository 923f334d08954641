---------------------------- MODULE MCResumeStore ----------------------------
(* Small instances of ResumeStore.                                         *)
EXTENDS ResumeStore, TLC

CONSTANTS s1, s2, whole, part, nothing, f1, f2, f3, f4

TwoSavers == {s1, s2}
TwoSelections == {whole, part}
FourFiles == {f1, f2, f3, f4}
StoreSymmetry == Permutations(Savers) \cup Permutations(Files)

=============================================================================
