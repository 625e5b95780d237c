------------------------------- MODULE GlPaths --------------------------------
(***************************************************************************)
(* The programs of GlPrograms with every value their knobs may have, and   *)
(* what their calls do, if none of them fails, to the part of the context  *)
(* that decides whether a draw shows what it means to and whether what is  *)
(* destroyed is still in use.  That part does not depend on the driver or  *)
(* on the interposer, so it can be followed along the calls alone.  Its    *)
(* fields have the names and, but for the contents of the images, the      *)
(* values of GlContext's.                                                  *)
(***************************************************************************)
EXTENDS GlStack, GlPrograms

\* What the arguments and the environment may set the knobs to.
FboKnobs ==
  [name : {"fbo"}, verdict : {TRUE}, linked : {TRUE}, detaches : {FALSE},
   only : Nat, n : Nat, stencil : BOOLEAN]
VboKnobs ==
  [name : {"vbo"}, verdict : {TRUE}, linked : {TRUE}, detaches : BOOLEAN, only : Int,
   n : Nat \ {0}, respec : Int, client : BOOLEAN, big : Int, spread : BOOLEAN, fill2 : BOOLEAN,
   samesize : BOOLEAN, interleave : BOOLEAN, frames : Int, swap : BOOLEAN]
TriKnobs ==
  [name : {"tri"}, verdict : {FALSE}, linked : {TRUE}, rebind : BOOLEAN, tex : BOOLEAN,
   unif : BOOLEAN, fringe : BOOLEAN, frames : Int]
ChurnKnobs ==
  [name : {"churn"}, verdict : {FALSE}, linked : {TRUE}, draws : Int, prog_switch : BOOLEAN,
   tex_rebind : BOOLEAN, frames : Int]
TileKnobs ==
  [name : {"tile"}, verdict : {FALSE}, linked : {TRUE}, tiles : Nat, fringe : BOOLEAN,
   churn : BOOLEAN, reupload : BOOLEAN, seg : Nat \ {0}, frames : Int]
SwapKnobs ==
  [name : {"swap"}, verdict : {FALSE}, linked : {FALSE}, triangle : BOOLEAN, texture : BOOLEAN,
   blend : BOOLEAN, swap : BOOLEAN, frames : Int, cycles : Int]
PbufferKnobs ==
  [name : {"pbuffer"}, verdict : {FALSE}, linked : {FALSE}, iterations : Int, alternate : BOOLEAN,
   fbo : BOOLEAN, texture : BOOLEAN, rebind : BOOLEAN, skip : BOOLEAN, window : BOOLEAN]

\* One of the programs with its knobs, or a free one that destroys nothing.
Destroys(c) == c.op \in {"eglDestroySurface", "glDeleteImage", "eglDestroyContext"}
IsProgram(a, calls) ==
  \/ a \in FboKnobs /\ calls = FboReentry(a)
  \/ a \in VboKnobs /\ calls = VboRespec(a)
  \/ a \in TriKnobs /\ calls = TriInline(a)
  \/ a \in ChurnKnobs /\ calls = StateChurn(a)
  \/ a \in TileKnobs /\ calls = TileRepro(a)
  \/ a \in SwapKnobs /\ calls = WindowSwap(a)
  \/ a \in PbufferKnobs /\ calls = PbufferLatency(a)
  \/ a.name = "free" /\ \A i \in 1 .. Len(calls) : ~Destroys(calls[i])

ASSUME ProgramsAssumption == \A a \in Apps : IsProgram(a, Code(a))

-----------------------------------------------------------------------------
Fresh ==
  [on |-> FALSE,          \* the program has made a context current,
   adrift |-> FALSE,      \* and goes on if that, or the release, failed
   target |-> 0, surface |-> None, surfaces |-> {}, att |-> <<>>, pic |-> <<>>, busy |-> {},
   bound |-> None, buf |-> <<>>, abuf |-> 0, src |-> NewContext.src,
   kind |-> <<>>, prog |-> 0, given |-> {}]

DrawOps  == {"glDrawArrays", "glDrawElements"}
GlOps    == DrawOps \cup
  {"glClear", "glBindFramebuffer", "glDeleteFramebuffers", "glBufferData", "glUseProgram",
   "glBindTexture", "glTexImage2D", "glDetachShader", "glReadPixels", "glFinish", "glViewport",
   "glStencil", "glUniform", "glBindBuffer", "glBufferSubData", "glVertexAttribPointer",
   "glLinkProgram", "glRenderbufferStorage", "glFramebufferAttach", "glDeleteImage"}

\* Images that a call creates, destroys, renders to or waits for.
Created(c, p) == IF c.op = "glTexImage2D" THEN {p.bound}
                 ELSE IF c.op \in {"glRenderbufferStorage", "eglCreateSurface"} THEN {c.image} ELSE {}
Destroyed(c)  == IF c.op \in {"glDeleteImage", "eglDestroySurface"} THEN {c.image} ELSE {}
Renders(c, p) == IF c.op \in DrawOps \cup {"glClear"} THEN {Image(p, p.target)} ELSE {}
Awaited(c, p) == IF c.op = "glFinish" THEN p.busy
                 ELSE IF c.op = "glReadPixels" THEN {Image(p, p.target)} ELSE {}

\* The program does not stop at a failure of this call.
GoesOn(c) == c.fails # "exit"

After(c, p) ==
  [on       |-> IF c.op = "eglMakeCurrent" THEN c.on ELSE p.on,
   adrift   |-> IF c.op = "eglMakeCurrent" /\ GoesOn(c) THEN TRUE ELSE p.adrift,
   target   |-> IF c.op = "glBindFramebuffer" THEN c.fb
                ELSE IF c.op = "glDeleteFramebuffers" /\ p.target = c.fb THEN 0 ELSE p.target,
   surface  |-> IF c.op = "eglMakeCurrent" THEN c.image ELSE p.surface,
   surfaces |-> IF c.op = "eglCreateSurface" THEN p.surfaces \cup {c.image}
                ELSE IF c.op = "eglDestroySurface" THEN p.surfaces \ {c.image} ELSE p.surfaces,
   att      |-> IF c.op = "glFramebufferAttach" /\ p.target # 0 THEN Put(p.att, p.target, c.image)
                ELSE IF c.op = "glDeleteFramebuffers" THEN Keep(p.att, DOMAIN p.att \ {c.fb}) ELSE p.att,
   pic      |-> [x \in (DOMAIN p.pic \cup Created(c, p)) \ Destroyed(c) |-> "any"],
   busy     |-> (p.busy \cup Renders(c, p)) \ Awaited(c, p),
   bound    |-> IF c.op = "glBindTexture" THEN c.image
                ELSE IF c.op = "glDeleteImage" /\ p.bound = c.image THEN None ELSE p.bound,
   buf      |-> IF p.abuf = 0 THEN p.buf
                ELSE IF c.op = "glBufferData" THEN Put(p.buf, p.abuf, c.data)
                ELSE IF c.op = "glBufferSubData"
                     THEN Put(p.buf, p.abuf, [c.data EXCEPT !.size = p.buf[p.abuf].size]) ELSE p.buf,
   abuf     |-> IF c.op = "glBindBuffer" THEN c.buffer ELSE p.abuf,
   src      |-> IF c.op = "glVertexAttribPointer"
                THEN [from |-> p.abuf, data |-> c.data, stride |-> c.stride] ELSE p.src,
   kind     |-> IF c.op = "glLinkProgram" THEN Put(p.kind, c.prog, c.kind) ELSE p.kind,
   prog     |-> IF c.op = "glUseProgram" THEN c.prog ELSE p.prog,
   given    |-> IF c.op = "glUniform" /\ p.prog # 0 THEN p.given \cup {p.prog} ELSE p.given]

\* A call that keeps the path and the context together whatever fails, that is
\* ready to draw, or to destroy, what it is given, and that judges only what a
\* surface shows: what is read back is not what there is without a context, and
\* after a failure of eglMakeCurrent the program went on from no context is made
\* current again.
Followed(c, p) ==
  /\ c.op \in GlOps => p.on
  /\ c.op = "glBufferSubData" => p.abuf # 0
  /\ c.op = "eglCreateSurface" => ~GoesOn(c)
  /\ c.op = "eglDestroySurface" => c.image # p.bound
  /\ c.op = "eglMakeCurrent" =>
       /\ IF c.on THEN ~p.adrift ELSE c.image = None
       /\ GoesOn(c) /\ c.on => ~p.on /\ p.busy = {} /\ p.surface = None
Ready(c, p, a) ==
  /\ c.op \in DrawOps =>
       /\ (a.name = "tri" /\ a.rebind /\ ~a.unif) \/ UniformsGiven(p)
       /\ ReadsWithin(p, c) /\ DrawsOneShape(p, c) /\ SamplesOther(p, p.target)
  /\ c.op = "eglDestroySurface" =>
       /\ c.image \in p.surfaces /\ c.image \notin {None, p.surface}
       /\ c.image \notin p.busy \/ (a.name = "fbo" /\ a.n = 0)
  /\ c.op = "glDeleteImage" => c.image \notin p.busy
  /\ c.op = "eglDestroyContext" => ~p.on
Judges(c, p, a) ==
  /\ c.op = "glReadPixels" => "black" \notin c.want /\ (p.adrift \/ a.name = "vbo")
  /\ c.op = "eglMakeCurrent" /\ GoesOn(c) /\ c.on => a.name # "vbo"
  /\ c.op = "verdict" => p.on
Proper(c, p, a) == Followed(c, p) /\ Ready(c, p, a) /\ Judges(c, p, a)

\* The states along a sequence of calls, and the last of them.
Path(calls, p) ==
  LET before[i \in 0 .. Len(calls)] ==
        IF i = 0 THEN p ELSE After(calls[i], before[i - 1])
  IN  before
Along(calls, p) == Path(calls, p)[Len(calls)]
Keeps(calls, p, a) ==
  LET before == Path(calls, p)
  IN  \A i \in 1 .. Len(calls) : Proper(calls[i], before[i - 1], a)
==============================================================================
