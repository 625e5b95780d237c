------------------------------ MODULE MCGlReplay ------------------------------
(* GlReplay with interchangeable names, recorded from two kinds of application: *)
(* one that sets uniforms, and one that draws frames.                          *)
EXTENDS GlReplay, TLC

NamesAlike == Permutations(Names)

Not     == [op \in Ops |-> 0]
Setting == [kinds |-> {"prog"}, most |-> [Not EXCEPT
              !["gen"] = 2, !["del"] = 1, !["use"] = 2, !["getuni"] = 2, !["uni"] = 1]]
Drawing == [kinds |-> {"fb"}, most |-> [Not EXCEPT
              !["gen"] = 3, !["del"] = 1, !["use"] = 2, !["data"] = 1, !["draw"] = 1, !["clear"] = 2]]
Both    == {Setting, Drawing}
===============================================================================
