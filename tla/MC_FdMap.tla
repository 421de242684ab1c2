------------------------------ MODULE MC_FdMap ------------------------------
(* Small instances of FdMap for TLC: a group node and a leaf of it. *)
EXTENDS FdMap

CONSTANTS group, leaf, t1, t2, f1, f2

BothNodes == {group, leaf}
OneLeaf == {leaf}
OneThread == {t1}
TwoThreads == {t1, t2}
OneFile == {f1}
TwoFiles == {f1, f2}
StdioOne == {0}
TargetsTwo == {0, 1}
TargetsApart == {0, 2}
=============================================================================
