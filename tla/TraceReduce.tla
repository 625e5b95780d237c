------------------------------ MODULE TraceReduce ------------------------------
(***************************************************************************)
(* tools/gl-ddmin.py: shrink a recorded GL stream for as long as it shows  *)
(* the defect on the board.  Every candidate is tried on the hardware.     *)
(*                                                                         *)
(* A candidate is the sequence of its removable operations; the others     *)
(* are in every candidate.  Nothing is assumed of the board: a test may    *)
(* answer anything, and another thing the next time.                       *)
(***************************************************************************)
EXTENDS Naturals, Sequences

CONSTANTS
  Ops,     \* removable operations of the input
  Limits   \* what max_tests may be

ASSUME TraceReduceAssumption == Ops \in Nat /\ Limits \subseteq Nat

VARIABLES
  stage,
  keep, n,    \* ddmin()'s variables
  at,         \* place in keep of the subset whose removal is tried next
  tests, max_tests,
  out,        \* the file OUT
  yes, no     \* candidates that have reproduced the defect, that have not

vars == <<stage, keep, n, at, tests, max_tests, out, yes, no>>

\* Files that hold no candidate: 0 is no operation.
NoFile == <<0>>
Torn   == <<0, 0>>

Input == [i \in 1 .. Ops |-> i]

Larger(a, b)  == IF a > b THEN a ELSE b
Smaller(a, b) == IF a < b THEN a ELSE b

Init ==
  /\ stage = "verify"
  /\ keep = Input /\ n = 2 /\ at = 1
  /\ tests = 0 /\ max_tests \in Limits
  /\ out = NoFile
  /\ yes = {} /\ no = {}

-----------------------------------------------------------------------------
\* One test: reproduces() is true or false of a candidate.  It is false too if the
\* variant cannot be generated, the board is not reached or does not answer.
Reproduces(cand)  == /\ tests' = tests + 1
                     /\ yes' = yes \cup {cand} /\ UNCHANGED no
Disappears(cand)  == /\ tests' = tests + 1
                     /\ no' = no \cup {cand} /\ UNCHANGED yes

\* The input must show the defect, or the script ends.
Verify ==
  /\ stage = "verify"
  /\ \/ Reproduces(keep) /\ stage' = "pass"
     \/ Disappears(keep) /\ stage' = "failed"
  /\ UNCHANGED <<keep, n, at, max_tests, out>>

\* keep without the subset of length c at place i.
Without(i, c) == SubSeq(keep, 1, i - 1) \o SubSeq(keep, i + c, Len(keep))

\* A bug to be caught: subsets of half the size at least.
Chunk_NeverSingle == Larger(2, Len(keep) \div n)
Chunk == Larger(1, Len(keep) \div n)

\* A pass over the subsets begins, if there are two operations and a test left.
Pass ==
  /\ stage = "pass"
  /\ at' = 1
  /\ stage' = IF Len(keep) >= 2 /\ tests < max_tests THEN "try" ELSE "write"
  /\ UNCHANGED <<keep, n, tests, max_tests, out, yes, no>>

\* A bug to be caught: after a reduction the search begins again with two halves.
Coarser_Halves == 2
Coarser == Larger(n - 1, 2)

\* A bug to be caught: the subset is kept, not what is left without it.
Kept_Subset(i, c) == SubSeq(keep, i, Smaller(i + c - 1, Len(keep)))

Kept(i, c)  == Without(i, c)
PassOver(i) == i > Len(keep) \/ tests + 1 >= max_tests

\* The stream without a subset still shows the defect: it is the new stream.
Reduce ==
  /\ stage = "try"
  /\ Reproduces(Without(at, Chunk))
  /\ keep' = Kept(at, Chunk)
  /\ n' = Coarser
  /\ stage' = "save"
  /\ UNCHANGED <<at, max_tests, out>>

\* It does not: the next subset, unless this was the last.
Retain ==
  /\ stage = "try"
  /\ Disappears(Without(at, Chunk))
  /\ at' = at + Chunk
  /\ stage' = IF PassOver(at + Chunk) THEN "grow" ELSE "try"
  /\ UNCHANGED <<keep, n, max_tests, out>>

\* No subset could go: smaller ones are tried, if there are.
Grow ==
  /\ stage = "grow"
  /\ \/ n >= Len(keep) /\ stage' = "write" /\ UNCHANGED n
     \/ n < Len(keep) /\ stage' = "pass" /\ n' = Smaller(Len(keep), n * 2)
  /\ UNCHANGED <<keep, at, tests, max_tests, out, yes, no>>

\* What was found is written at once, and at the end again.
Save ==
  /\ \/ stage = "save" /\ stage' = "pass"
     \/ stage = "write" /\ stage' = "done"
  /\ out' = keep
  /\ UNCHANGED <<keep, n, at, tests, max_tests, yes, no>>

\* Ctrl-C, or an ssh that hangs for 240 s: the script dies, and the file it was
\* writing is what open() and write() have made of it.
Die ==
  /\ stage \in {"verify", "pass", "try", "grow", "save", "write"}
  /\ stage' = "dead"
  /\ \/ UNCHANGED out
     \/ stage \in {"save", "write"} /\ out' \in {Torn, keep}
  /\ UNCHANGED <<keep, n, at, tests, max_tests, yes, no>>

Ended == stage \in {"failed", "done", "dead"} /\ UNCHANGED vars

ddmin == Verify \/ Pass \/ Reduce \/ Retain \/ Grow \/ Save

Next == ddmin \/ Die \/ Ended

Spec == Init /\ [][Next]_vars

-----------------------------------------------------------------------------
(* What makes the reduction one.                                           *)

\* The values every variable takes.  Not more tests are made than allowed, apart
\* from the one of the input (gl-ddmin.py:91, 105-106).
TypeOK ==
  /\ stage \in {"verify", "pass", "try", "grow", "save", "write", "failed", "done", "dead"}
  /\ keep \in Seq(1 .. Ops) /\ Len(keep) <= Ops
  /\ n \in Nat \ {0, 1} /\ at \in Nat \ {0}
  /\ max_tests \in Limits /\ tests \in 0 .. Larger(1, max_tests)

\* Whenever the script ends or dies, a file that is whole reproduced the defect on the
\* board when it was tried, and a search that ended has left the last such stream
\* (gl-ddmin.py:98-103, 126-128).
OutReproduces ==
  /\ out \notin {NoFile, Torn} => out \in yes
  /\ stage = "done" => out = keep

\* A search that was not cut short by max_tests and has two operations left has tried
\* the removal of every single one of them, and each was needed; for this, passes that
\* follow a reduction must try the first subsets again (gl-ddmin.py:91-111).
SinglesTried == \A i \in DOMAIN keep : Without(i, 1) \in no
OneMinimal ==
  stage = "done" /\ tests < max_tests /\ Len(keep) >= 2 => SinglesTried

\* Against a board that gives the worst of answers too a search ends within Ops^2
\* tests, whatever max_tests is (gl-ddmin.py:87-111).
FewTests == tests <= 1 + Ops * Ops
=============================================================================
