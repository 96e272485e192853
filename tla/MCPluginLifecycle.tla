------------------------- MODULE MCPluginLifecycle -------------------------
(* PluginLifecycle for TLC: process ids are interchangeable model values.  *)
EXTENDS PluginLifecycle, TLC

PidSymmetry == Permutations(Pid)
=============================================================================
