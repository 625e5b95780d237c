----------------------------- MODULE MCGlStack -------------------------------
(***************************************************************************)
(* GlStack for TLC: the programs of GlPrograms, a few knobs varied at a    *)
(* time, and a free program that binds, deletes, clears and draws in any   *)
(* order under the interposers.                                            *)
(***************************************************************************)
EXTENDS GlPaths

\* fbo-reentry-test: every case, all of them, small and large bursts.
FboApps ==
  [name : {"fbo"}, verdict : {TRUE}, linked : {TRUE}, detaches : {FALSE},
   only : 0 .. 11, n : {2}, stencil : BOOLEAN] \cup
  [name : {"fbo"}, verdict : {TRUE}, linked : {TRUE}, detaches : {FALSE},
   only : {11}, n : {0, 10}, stencil : {FALSE}]

\* vbo-respec-repro: buffer knobs, then order and frame knobs; femtovg itself.
VboBase ==
  [name |-> "vbo", verdict |-> TRUE, linked |-> TRUE, detaches |-> FALSE, only |-> 0,
   n |-> 2, respec |-> 0, client |-> FALSE, big |-> 0, spread |-> FALSE, fill2 |-> FALSE,
   samesize |-> FALSE, interleave |-> FALSE, frames |-> 1, swap |-> TRUE]
VboApps ==
  {[VboBase EXCEPT !.respec = r, !.client = c, !.samesize = s, !.spread = d] :
     r \in 0 .. 7, c \in BOOLEAN, s \in BOOLEAN, d \in BOOLEAN} \cup
  {[VboBase EXCEPT !.fill2 = b, !.interleave = i, !.frames = f, !.swap = s] :
     b \in BOOLEAN, i \in BOOLEAN, f \in {1, 2}, s \in BOOLEAN} \cup
  {[VboBase EXCEPT !.n = 9, !.big = 28896, !.respec = 5, !.spread = d] : d \in BOOLEAN} \cup
  {[VboBase EXCEPT !.detaches = TRUE, !.interleave = i] : i \in BOOLEAN}

OtherApps ==
  [name : {"tri"}, verdict : {FALSE}, linked : {TRUE}, rebind : BOOLEAN, tex : BOOLEAN,
   unif : BOOLEAN, fringe : BOOLEAN, frames : {2}] \cup
  [name : {"churn"}, verdict : {FALSE}, linked : {TRUE}, draws : 1 .. 3, prog_switch : BOOLEAN,
   tex_rebind : BOOLEAN, frames : {2}] \cup
  [name : {"tile"}, verdict : {FALSE}, linked : {TRUE}, tiles : 1 .. 3, fringe : BOOLEAN,
   churn : BOOLEAN, reupload : BOOLEAN, seg : {1, 8}, frames : {2}] \cup
  [name : {"swap"}, verdict : {FALSE}, linked : {FALSE}, triangle : BOOLEAN, texture : BOOLEAN,
   blend : BOOLEAN, swap : BOOLEAN, frames : 0 .. 2, cycles : {1, 2}] \cup
  [name : {"pbuffer"}, verdict : {FALSE}, linked : {FALSE}, iterations : 1 .. 3, alternate : BOOLEAN,
   fbo : BOOLEAN, texture : BOOLEAN, rebind : BOOLEAN, skip : BOOLEAN, window : BOOLEAN]

FreeCalls == {glBindFramebuffer(0), glBindFramebuffer(1), glDeleteFramebuffers(1),
              glClear("red"), glDrawArrays(0, 3), glDrawElements(6, 4)}
FreeApps == [name : {"free"}, verdict : {FALSE}, linked : {TRUE},
             calls : UNION {[1 .. n -> FreeCalls] : n \in 1 .. 4}]

MCApps == FboApps \cup VboApps \cup OtherApps \cup FreeApps

MCCode(a) ==
  CASE a.name = "fbo" -> FboReentry(a)
    [] a.name = "vbo" -> VboRespec(a)
    [] a.name = "tri" -> TriInline(a)
    [] a.name = "churn" -> StateChurn(a)
    [] a.name = "tile" -> TileRepro(a)
    [] a.name = "swap" -> WindowSwap(a)
    [] a.name = "pbuffer" -> PbufferLatency(a)
    [] a.name = "free" -> OpenWindow \o a.calls
==============================================================================
