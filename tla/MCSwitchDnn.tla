----------------------------- MODULE MCSwitchDnn -----------------------------
(* An instance of SwitchDnn for TLC: two models, a bird's rectangle beside  *)
(* the whole image, which a forced switch uses as well, and as many         *)
(* timestamps as onIterate tells apart. The names are interchangeable.      *)
EXTENDS SwitchDnn, TLC

CONSTANTS m1, m2, t1, t2, t3

AllModels == {m1, m2}
AllCrops == {"full", "dummy", "bird"}
AllStamps == {t1, t2, t3}
Names == Permutations(AllModels) \cup Permutations(AllStamps)
=============================================================================
