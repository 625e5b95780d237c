------------------------------ MODULE GlContext ------------------------------
(***************************************************************************)
(* The EGL surfaces and the GLES2 context the tools draw with, as far as   *)
(* the programs of tools/ use them: one operator per call, from the        *)
(* context before to the context after.  Nothing of the driver is in the   *)
(* repository; its faults are the ones the tests and docs look for:        *)
(*   "forget"      a render target is black once another one is bound      *)
(*   "unfinished"  the same, but only while it has unfinished rendering    *)
(*   "detach"      DDK 1.4: a program whose vertex shader was detached     *)
(*                 draws nothing after a change of render target, until    *)
(*                 the vertex buffer is reallocated with another size      *)
(***************************************************************************)
EXTENDS Integers, Sequences, FiniteSets, TLC

\* What can be rendered into or sampled, and the context's empty name.
Surface(i) == <<"surface", i>>
Texture(i) == <<"texture", i>>
Renderbuffer(i) == <<"renderbuffer", i>>
None == <<"none", 0>>

Halves  == {"left", "right"}
Both    == Halves
\* The default surface holds a 3 x 3 grid of targets; a target is one cell.
Cells(image) == IF image[1] = "surface" THEN 0 .. 8 ELSE {0}
Filled(image, colour) == [x \in Cells(image) \X Halves |-> colour]

\* Vertex data: its bytes, and the shapes it holds, each at its first vertex.
Shape(at, n, cell, halves) == [at |-> at, n |-> n, cell |-> cell, halves |-> halves]
Data(size, shapes) == [size |-> size, shapes |-> shapes]
NoData == Data(0, {})

NewContext ==
  [made |-> FALSE,        \* eglCreateContext succeeded
   current |-> FALSE,     \* eglMakeCurrent: a context, on which surface
   surface |-> None,
   surfaces |-> {},
   pic |-> <<>>,          \* image -> content
   att |-> <<>>,          \* framebuffer -> colour attachment
   busy |-> {},           \* images with rendering not known to be finished
   bound |-> None,        \* GL_TEXTURE_2D
   buf |-> <<>>,          \* buffer -> data
   abuf |-> 0,            \* GL_ARRAY_BUFFER
   src |-> [from |-> 0, data |-> NoData, stride |-> 0],  \* attribute pointers
   kind |-> <<>>,         \* program -> what its shaders read
   detached |-> {},       \* programs whose vertex shader was detached
   prog |-> 0, given |-> {}, col |-> <<>>,  \* current program; uniforms
   moved |-> FALSE,       \* the target changed since the last reallocation
   view |-> 0,            \* the cell glViewport selects
   stencil |-> {},        \* covered in the current target
   fill |-> "plain"]      \* stencil-then-cover: "mark", then "cover"

\* A partial function after one assignment, and after some have been taken back.
Put(f, x, y) == [z \in {x} \cup DOMAIN f |-> IF z = x THEN y ELSE f[z]]
Keep(f, S) == [x \in DOMAIN f \cap S |-> f[x]]

Image(g, t) == IF t = 0 THEN g.surface ELSE IF t \in DOMAIN g.att THEN g.att[t] ELSE None

Rendered(g, image, content) ==
  [g EXCEPT !.pic = Put(@, image, content), !.busy = @ \cup {image}]

Cleared(g, t, colour) ==
  LET image == Image(g, t)
  IN  IF image = None THEN g
      ELSE [Rendered(g, image, Filled(image, colour)) EXCEPT !.stencil = {}]

\* The vertex data a draw reads, and the shapes of it that it draws.
Source(g) == IF g.src.from = 0 THEN g.src.data
             ELSE IF g.src.from \in DOMAIN g.buf THEN g.buf[g.src.from] ELSE NoData
Shapes(g, c) == {s \in Source(g).shapes : s.at \in c.first .. c.first + c.count - 1}

Sampled(g, x) == IF g.bound \in DOMAIN g.pic THEN g.pic[g.bound][<<0, x[2]>>] ELSE "black"
Dropped(g, driver) == driver = "detach" /\ g.prog \in g.detached /\ g.moved

Drawn(g, t, c, driver) ==
  LET image  == Image(g, t)
      area   == UNION {{g.view + s.cell} \X s.halves : s \in Shapes(g, c)} \cap (Cells(image) \X Halves)
      hit    == IF g.fill = "cover" THEN area \cap g.stencil ELSE area
      colour(x) == IF g.kind[g.prog] = "sampler" THEN Sampled(g, x)
                   ELSE IF g.prog \in g.given THEN g.col[g.prog] ELSE "black"
      old    == g.pic[image]
  IN  IF image = None \/ g.prog = 0 \/ Dropped(g, driver) THEN g
      ELSE IF g.fill = "mark" THEN [g EXCEPT !.stencil = @ \cup area]
      ELSE [Rendered(g, image, [x \in DOMAIN old |-> IF x \in hit THEN colour(x) ELSE old[x]])
              EXCEPT !.stencil = @ \ (IF g.fill = "cover" THEN hit ELSE {})]

\* A draw shows what its program meant to show: a program with its uniforms
\* given, attributes that lie within their buffer and start one shape of it,
\* and, where the shaders sample, a texture that is not the target.
Extent(c) == IF c.op = "glDrawElements" THEN c.verts ELSE c.count
UniformsGiven(g) == g.prog \in DOMAIN g.kind /\ (g.kind[g.prog] = "plain" \/ g.prog \in g.given)
ReadsWithin(g, c) == (c.first + Extent(c)) * g.src.stride <= Source(g).size
DrawsOneShape(g, c) == \E s \in Source(g).shapes : s.at = c.first /\ Extent(c) <= s.n
SamplesOther(g, t) == g.kind[g.prog] \in {"sampler", "uber"} =>
                        g.bound \in DOMAIN g.pic /\ g.bound # Image(g, t)

\* Binding another target: what the drivers under suspicion do to the old one.
Lost(g, image, driver) ==
  image \in DOMAIN g.pic /\ (driver = "forget" \/ (driver = "unfinished" /\ image \in g.busy))
Retargeted(g, old, new, driver) ==
  LET left == Image(g, old)
  IN  IF old = new THEN g
      ELSE [g EXCEPT !.moved = TRUE, !.stencil = {},
                     !.pic = IF Lost(g, left, driver) THEN Put(@, left, Filled(left, "black")) ELSE @]

Finished(g) == [g EXCEPT !.busy = {}]
\* Reading back waits for the image that is read.
ReadBack(g, t) == [g EXCEPT !.busy = @ \ {Image(g, t)}]
Pixel(g, t, x) == IF Image(g, t) = None THEN "black" ELSE g.pic[Image(g, t)][x]

Respecified(g, data) ==
  LET known == g.abuf \in DOMAIN g.buf
  IN  IF g.abuf = 0 THEN g
      ELSE [g EXCEPT !.buf = Put(@, g.abuf, data),
                     !.moved = IF known /\ g.buf[g.abuf].size = data.size THEN @ ELSE FALSE]
SubData(g, data) ==
  [g EXCEPT !.buf = Put(@, g.abuf, [data EXCEPT !.size = g.buf[g.abuf].size])]

Allocated(g, image, colour) == [g EXCEPT !.pic = Put(@, image, Filled(image, colour))]
Attached(g, t, image) == IF t = 0 THEN g ELSE [g EXCEPT !.att = Put(@, t, image)]
Linked(g, p, kind) == [g EXCEPT !.kind = Put(@, p, kind)]
\* glUniform without a current program is an error that changes nothing.
UniformSet(g, colour) ==
  IF g.prog = 0 THEN g ELSE [g EXCEPT !.given = @ \cup {g.prog}, !.col = Put(@, g.prog, colour)]
Pointed(g, data, stride) ==
  [g EXCEPT !.src = [from |-> g.abuf, data |-> data, stride |-> stride]]

Removed(g, images) == [g EXCEPT !.pic = Keep(@, DOMAIN @ \ images),
                                !.bound = IF @ \in images THEN None ELSE @,
                                !.busy = @ \ images]

SurfaceMade(g, image) ==
  [g EXCEPT !.surfaces = @ \cup {image}, !.pic = Put(@, image, Filled(image, "undef"))]
MadeCurrent(g, image, on) == [g EXCEPT !.current = on, !.surface = image]
\* What a surface shows after a swap is undefined; rendering may still run.
Swapped(g) == [g EXCEPT !.pic = Put(@, g.surface, Filled(g.surface, "undef"))]
SurfaceGone(g, image) == [Removed(g, {image}) EXCEPT !.surfaces = @ \ {image}]
==============================================================================
