----------------------------- MODULE GlPrograms ------------------------------
(***************************************************************************)
(* The drawing programs of tools/ as the sequences of GL and EGL calls     *)
(* they make, one per setting of their knobs: fbo-reentry-test.c,          *)
(* vbo-respec-repro.c, tri-inline.c, state-churn.c, tilerepro.c,           *)
(* sgx-window-swap.c and sgx-pbuffer-latency.c.  Shader text, colours that *)
(* only a person looks at and coordinates inside a target are left out.    *)
(***************************************************************************)
EXTENDS GlContext

\* One constructor per call; names are the program's own, counted from 1.
glClear(colour)        == [op |-> "glClear", colour |-> colour]
glDrawArrays(at, n)    == [op |-> "glDrawArrays", first |-> at, count |-> n]
glDrawElements(n, verts) == [op |-> "glDrawElements", first |-> 0, count |-> n, verts |-> verts]
glBindFramebuffer(fb)  == [op |-> "glBindFramebuffer", fb |-> fb]
glDeleteFramebuffers(fb) == [op |-> "glDeleteFramebuffers", fb |-> fb]
glAttach(image)        == [op |-> "glFramebufferAttach", image |-> image]
glBindTexture(image)   == [op |-> "glBindTexture", image |-> image]
glTexImage2D(colour)   == [op |-> "glTexImage2D", colour |-> colour]
glStorage(image)       == [op |-> "glRenderbufferStorage", image |-> image]
glDelete(image)        == [op |-> "glDeleteImage", image |-> image]
glBindBuffer(b)        == [op |-> "glBindBuffer", buffer |-> b]
glBufferData(data)     == [op |-> "glBufferData", data |-> data]
glBufferSubData(data)  == [op |-> "glBufferSubData", data |-> data]
glPointer(data, stride) == [op |-> "glVertexAttribPointer", data |-> data, stride |-> stride]
glLinkProgram(p, kind) == [op |-> "glLinkProgram", prog |-> p, kind |-> kind]
glDetachShader(p)      == [op |-> "glDetachShader", prog |-> p]
glUseProgram(p)        == [op |-> "glUseProgram", prog |-> p]
glUniform(colour)      == [op |-> "glUniform", colour |-> colour]
glViewport(cell)       == [op |-> "glViewport", cell |-> cell]
glStencil(fill)        == [op |-> "glStencil", fill |-> fill]
glReadPixels(x, want)  == [op |-> "glReadPixels", x |-> x, want |-> want]
glFinish               == [op |-> "glFinish"]
glGenVertexArrays      == [op |-> "glGenVertexArraysOES"]
Verdict                == [op |-> "verdict"]

eglSetup(fails)              == [op |-> "eglSetup", fails |-> fails]
eglCreateContext(fails)      == [op |-> "eglCreateContext", fails |-> fails]
eglCreateSurface(s)          == [op |-> "eglCreateSurface", image |-> s, fails |-> "exit"]
eglMakeCurrent(s, on, fails) == [op |-> "eglMakeCurrent", image |-> s, on |-> on, fails |-> fails]
eglSwapBuffers(fails)        == [op |-> "eglSwapBuffers", fails |-> fails]
eglDestroySurface(s, fails)  == [op |-> "eglDestroySurface", image |-> s, fails |-> fails]
eglDestroyContext(fails)     == [op |-> "eglDestroyContext", fails |-> fails]

Window == Surface(0)
\* A window, current, or exit; what three of the tools start with.
OpenWindow == << eglSetup("exit"), eglCreateContext("exit"), eglCreateSurface(Window),
                 eglMakeCurrent(Window, TRUE, "exit") >>

When(cond, calls) == IF cond THEN calls ELSE <<>>
\* F(0), ..., F(n - 1), the body of a loop.
Loop(turn) ==
  LET done[i \in 0 .. Cardinality(DOMAIN turn)] ==
        IF i = 0 THEN <<>> ELSE done[i - 1] \o turn[i - 1]
  IN  done[Cardinality(DOMAIN turn)]
Lit_Any == {"red", "green", "blue", "yellow", "grey", "black"}
Lit == {"red", "green", "blue", "yellow"}

-----------------------------------------------------------------------------
\* fbo-reentry-test.c.  Program 1 fills with ucolor, 2 samples a texture.
MakeTarget(i) ==
  << glBindTexture(Texture(i)), glTexImage2D("black"), glBindTexture(None),
     glBindFramebuffer(i), glAttach(Texture(i)), glBindFramebuffer(0) >>

ClientQuad(halves) == glPointer(Data(4 * 8, {Shape(0, 4, 0, halves)}), 8)

Quad(halves, colour) ==
  << glViewport(0), glUseProgram(1), glUniform(colour), ClientQuad(halves), glDrawArrays(0, 4) >>
TQuad(cell, halves, i) ==
  << glViewport(cell), glUseProgram(2), glBindTexture(Texture(i)), glUniform("sampler"),
     ClientQuad(halves), glDrawArrays(0, 4), glBindTexture(None) >>
ClearTarget(colour) == << glViewport(0), glClear(colour) >>

Check(fb, cell, left, right) ==
  << glBindFramebuffer(fb), glReadPixels(<<cell, "left">>, {left}),
     glBindFramebuffer(fb), glReadPixels(<<cell, "right">>, {right}) >>

\* Targets A and B of case n.
A(n) == 2 * n - 1
B(n) == 2 * n
L == {"left"}

ClearA(n)  == <<glBindFramebuffer(A(n))>> \o ClearTarget("red")
DrawB(n)   == <<glBindFramebuffer(B(n))>> \o ClearTarget("green") \o Quad(Both, "yellow")
Pair(n)    == MakeTarget(A(n)) \o MakeTarget(B(n))
BackToA(n) == <<glBindFramebuffer(A(n))>> \o Quad(L, "blue")
SampleB(n) == <<glBindFramebuffer(A(n))>> \o TQuad(0, L, B(n))
Compose(n) == <<glBindFramebuffer(0)>> \o ClearTarget("black") \o TQuad(0, Both, A(n))

StencilFill == <<glStencil("mark")>> \o Quad(Both, "yellow") \o
               <<glStencil("cover")>> \o Quad(Both, "yellow") \o <<glStencil("plain")>>

\* Case 11: every layer and its cache are baked before any is composited.
BakeLayer(n, stencil) ==
  MakeTarget(A(n)) \o ClearA(n) \o MakeTarget(B(n)) \o
  <<glBindFramebuffer(B(n))>> \o ClearTarget("green") \o
  (IF stencil THEN StencilFill ELSE Quad(Both, "yellow")) \o SampleB(n)

Burst(N, stencil) ==
  LET nl == IF N > 32 THEN 32 ELSE N
  IN  Loop([i \in 0 .. nl - 1 |-> BakeLayer(11 + i, stencil)]) \o
      Loop([frame \in 0 .. 1 |->
        <<glBindFramebuffer(0)>> \o ClearTarget("black") \o
        Loop([i \in 0 .. nl - 1 |-> TQuad(i % 9, Both, A(11 + i))]) \o
        Loop([i \in 0 .. nl - 1 |-> Check(0, i % 9, "yellow", "red")]) \o
        <<eglSwapBuffers("go")>>])

Case(n, N, stencil) ==
  CASE n = 1 -> MakeTarget(A(1)) \o ClearA(1) \o Quad(L, "blue") \o Check(A(1), 0, "blue", "red")
    [] n = 2 -> Pair(2) \o ClearA(2) \o <<glBindFramebuffer(B(2))>> \o ClearTarget("green") \o
                BackToA(2) \o Check(A(2), 0, "blue", "red")
    [] n = 3 -> Pair(3) \o ClearA(3) \o DrawB(3) \o BackToA(3) \o
                Check(A(3), 0, "blue", "red") \o Check(B(3), 0, "yellow", "yellow")
    [] n = 4 -> Pair(4) \o ClearA(4) \o <<glFinish>> \o DrawB(4) \o <<glFinish>> \o
                BackToA(4) \o Check(A(4), 0, "blue", "red")
    [] n = 5 -> Pair(5) \o ClearA(5) \o DrawB(5) \o Check(A(5), 0, "red", "red")
    [] n = 6 -> Pair(6) \o ClearA(6) \o DrawB(6) \o SampleB(6) \o Check(A(6), 0, "yellow", "red")
    [] n = 7 -> Pair(7) \o ClearA(7) \o DrawB(7) \o BackToA(7) \o Compose(7) \o
                Check(0, 0, "blue", "red")
    [] n = 8 -> Pair(8) \o ClearA(8) \o DrawB(8) \o SampleB(8) \o Compose(8) \o
                Check(0, 0, "yellow", "red") \o <<eglSwapBuffers("go")>> \o Compose(8) \o
                Check(0, 0, "yellow", "red")
    [] n = 9 -> <<>>
    [] n = 10 -> MakeTarget(A(10)) \o ClearA(10) \o MakeTarget(B(10)) \o DrawB(10) \o SampleB(10) \o
                 Compose(10) \o Check(0, 0, "yellow", "red") \o Check(A(10), 0, "yellow", "red")
    [] n = 11 -> Burst(N, stencil)

FboReentry(k) ==
  << eglSetup("exit"), eglCreateSurface(Window), eglCreateContext("exit"),
     eglMakeCurrent(Window, TRUE, "go"), glLinkProgram(1, "fill"), glLinkProgram(2, "sampler") >> \o
  Loop([i \in 0 .. 10 |-> When(k.only \in {0, i + 1}, Case(i + 1, k.n, k.stencil))]) \o
  << Verdict, eglMakeCurrent(None, FALSE, "go"), eglDestroySurface(Window, "go"),
     eglDestroyContext("go"), eglSetup("go") >>

-----------------------------------------------------------------------------
\* vbo-respec-repro.c, and what it reduces: the calls of femtovg, which also
\* detaches its shaders and needs a vertex array object.
Vertex == 16     \* bytes: x y u v
Lead   == 3      \* unused leading vertices
FillAt(k, i)  == Lead + (IF k.spread THEN 200 * i ELSE 12 * i)
LayerAt(k, i) == FillAt(k, i) + (IF k.spread THEN 176 ELSE 6)

BigBytes_Tight(k) ==
  LET needed == (LayerAt(k, k.n - 1) + 6) * Vertex
  IN  IF k.big < needed THEN needed ELSE k.big
BigBytes(k) ==
  LET needed == (LayerAt(k, k.n - 1) + 6) * Vertex + 16
  IN  IF k.big < needed THEN needed ELSE k.big
SmallBytes(k) == IF k.samesize THEN BigBytes(k) ELSE 6 * (k.n + 1) * Vertex

Tiles(k) == 0 .. k.n - 1
BigShapes(k) == {Shape(FillAt(k, i), 6, 0, Both) : i \in Tiles(k)} \cup
                {Shape(LayerAt(k, i), 6, 0, Both) : i \in Tiles(k)}
Big(k, more) == Data(BigBytes(k) + more, BigShapes(k))
Small(k) == Data(SmallBytes(k), {Shape(6 * (i + 1), 6, i, Both) : i \in Tiles(k)})

SetAttribs(k, data) == << glBindBuffer(IF k.client THEN 0 ELSE 1), glPointer(data, Vertex) >>
Upload(k, data) == When(~k.client, << glBindBuffer(1), glBufferData(data) >>)

Respec(k) ==
  When(~k.client /\ k.respec # 0,
    <<glBindBuffer(1)>> \o
    (CASE k.respec = 1 -> << glBufferData(Small(k)), glBufferData(Big(k, 0)) >>
       [] k.respec = 2 -> << glBufferData(Big(k, 0)), glBufferData(Big(k, 0)) >>
       [] k.respec = 3 -> << glBufferData(Big(k, 0)) >>
       [] k.respec = 4 -> << glBufferData(Big(k, 4)) >>
       [] k.respec = 5 -> << glBufferData(Big(k, -4)) >>
       [] k.respec = 6 -> << glBufferData(Data(BigBytes(k), {})), glBufferSubData(Big(k, 0)) >>
       [] k.respec = 7 -> << glBufferSubData(Big(k, 0)) >>
       [] OTHER -> <<>>) \o
    SetAttribs(k, NoData))

MakeFbo(i) == << glBindTexture(Texture(i)), glTexImage2D("black"), glBindFramebuffer(i), glAttach(Texture(i)) >>
Cache(i) == 2 * i + 1
Layer(i) == 2 * i + 2
Pal(i) == <<"red", "green", "blue", "yellow">>[(i % 4) + 1]

BakeTile(k, i) ==
  When(k.interleave, MakeFbo(Layer(i)) \o <<glClear("black")>> \o MakeFbo(Cache(i))) \o
  << glBindFramebuffer(Cache(i)), glClear("black"), glUseProgram(1), glUniform(Pal(i)) >> \o
  SetAttribs(k, Big(k, 0)) \o <<glDrawArrays(FillAt(k, i), 6)>> \o
  When(k.fill2, <<glDrawArrays(FillAt(k, i), 4)>>) \o
  Respec(k) \o <<glBindFramebuffer(Layer(i))>> \o When(~k.interleave, <<glClear("black")>>) \o
  << glUseProgram(2), glBindTexture(Texture(Cache(i))), glUniform("sampler") >> \o
  SetAttribs(k, Big(k, 0)) \o <<glDrawArrays(LayerAt(k, i), 6)>>

CompositeFrame(k, f) ==
  <<glBindFramebuffer(0), glClear("grey")>> \o
  When(f = 0 /\ k.swap, <<eglSwapBuffers("go"), glClear("grey")>>) \o
  Upload(k, Small(k)) \o <<glUseProgram(2), glUniform("sampler")>> \o SetAttribs(k, Small(k)) \o
  Loop([i \in 0 .. k.n - 1 |-> <<glBindTexture(Texture(Layer(i))), glDrawArrays(6 * (i + 1), 6)>>]) \o
  When(f + 1 < k.frames, <<eglSwapBuffers("go")>>)

VboRespec(k) ==
  OpenWindow \o <<glLinkProgram(1, "fill"), glLinkProgram(2, "sampler")>> \o
  When(k.detaches, <<glDetachShader(1), glDetachShader(2), glGenVertexArrays>>) \o
  (IF k.interleave THEN <<glBindFramebuffer(0), glClear("grey")>>
   ELSE Loop([i \in 0 .. k.n - 1 |-> MakeFbo(Cache(i)) \o MakeFbo(Layer(i))])) \o
  Upload(k, Big(k, 0)) \o SetAttribs(k, Big(k, 0)) \o
  Loop([i \in 0 .. k.n - 1 |-> BakeTile(k, i)]) \o Loop([f \in 0 .. k.frames - 1 |-> CompositeFrame(k, f)]) \o
  Loop([i \in 0 .. k.n - 1 |-> <<glReadPixels(<<i, "left">>, Lit)>>]) \o
  << Verdict, eglMakeCurrent(None, FALSE, "go") >>

-----------------------------------------------------------------------------
\* tri-inline.c: per-frame state that the bits of st_mask turn on.
TriVerts == Data(11 * 16, {Shape(0, 3, 0, Both), Shape(3, 8, 0, Both)})
TriBind  == << glUseProgram(1), glBindBuffer(1), glBufferData(TriVerts), glPointer(NoData, 16) >>

TriInline(k) ==
  OpenWindow \o
  << glLinkProgram(1, "uber"), glBindTexture(Texture(1)), glTexImage2D("yellow"), glBindTexture(None) >> \o
  When(~k.rebind, TriBind) \o When(~k.tex, <<glBindTexture(Texture(1))>>) \o
  When(~k.unif, <<glUniform("yellow")>>) \o
  Loop([f \in 0 .. k.frames - 1 |->
    <<glClear("grey")>> \o When(k.rebind, TriBind) \o
    When(k.tex, <<glBindTexture(None)>>) \o When(k.unif, <<glUniform("yellow")>>) \o
    When(k.tex, <<glBindTexture(Texture(1))>>) \o
    <<glDrawArrays(0, 3)>> \o When(k.fringe, <<glDrawArrays(3, 8)>>) \o
    When(k.rebind, <<glBindBuffer(0), glUseProgram(0)>>) \o
    When(k.tex, <<glBindTexture(None)>>) \o <<eglSwapBuffers("exit")>>])

\* state-churn.c: the same triangle, program and texture switched before it.
TwoTextures == Loop([i \in 0 .. 1 |-> <<glBindTexture(Texture(i + 1)), glTexImage2D("yellow")>>])

StateChurn(k) ==
  OpenWindow \o <<glLinkProgram(1, "plain"), glLinkProgram(2, "plain")>> \o TwoTextures \o
  << glBindBuffer(1), glBufferData(Data(3 * 8, {Shape(0, 3, 0, Both)})), glPointer(NoData, 8),
     glUseProgram(1), glBindTexture(Texture(1)) >> \o
  Loop([f \in 0 .. k.frames - 1 |->
    <<glClear("black")>> \o
    Loop([i \in 0 .. k.draws - 1 |->
      When(k.prog_switch, <<glUseProgram((i % 2) + 1)>>) \o
      When(k.tex_rebind, <<glBindTexture(Texture((i % 2) + 1))>>) \o <<glDrawArrays(0, 3)>>]) \o
    <<eglSwapBuffers("go")>>])

\* tilerepro.c: a fan and a fringe strip for each tile, one after the other.
Perimeter(k) == 4 * (k.seg + 1)
FillN(k)     == Perimeter(k) + 2
FringeN(k)   == 2 * (Perimeter(k) + 1)

\* build(): centre, perimeter and first point again; then pairs, closed.
TileShapes(k) ==
  LET fan == 1 + Perimeter(k) + 1
      tile == fan + 2 * (Perimeter(k) + 1)
  IN  UNION {{Shape(i * tile, fan, 0, Both), Shape(i * tile + fan, tile - fan, 0, Both)} :
               i \in 0 .. k.tiles - 1}
TileData(k) == Data(2 * 4 * k.tiles * (FillN(k) + FringeN(k)), TileShapes(k))

TileRepro(k) ==
  LET Switch(idx) == When(k.churn, << glUseProgram((idx % 2) + 1), glUniform("yellow"),
                                      glBindTexture(Texture((idx % 2) + 1)) >>)
      per == IF k.fringe THEN 2 ELSE 1
  IN  << eglSetup("exit"), eglCreateContext("go"), eglCreateSurface(Window), eglMakeCurrent(Window, TRUE, "exit"),
         glLinkProgram(1, "fill"), glLinkProgram(2, "fill") >> \o TwoTextures \o
      << glBindBuffer(1), glBufferData(TileData(k)), glPointer(NoData, 8),
         glUseProgram(1), glUniform("yellow"), glUseProgram(2), glUniform("yellow"),
         glUseProgram(1), glBindTexture(Texture(1)) >> \o
      Loop([f \in 0 .. k.frames - 1 |->
        <<glClear("black")>> \o When(k.reupload, <<glBufferData(TileData(k))>>) \o
        Loop([i \in 0 .. k.tiles - 1 |->
          LET idx == (f * k.tiles + i) * per
              o   == i * (FillN(k) + FringeN(k))
          IN  Switch(idx) \o <<glDrawArrays(o, FillN(k))>> \o
              When(k.fringe, Switch(idx + 1) \o <<glDrawArrays(o + FillN(k), FringeN(k))>>)]) \o
        <<eglSwapBuffers("go")>>])

-----------------------------------------------------------------------------
\* sgx-window-swap.c.  The drawing state set up in the first cycle is used in
\* all; each cycle has a window surface of its own.
TriangleSetup ==
  << glLinkProgram(1, "fill"), glBindBuffer(1), glBufferData(Data(24, {Shape(0, 3, 0, Both)})),
     glUseProgram(1), glPointer(NoData, 8) >>
TextureSetup ==
  << glLinkProgram(2, "sampler"), glBindBuffer(2), glBufferData(Data(64, {Shape(0, 4, 0, Both)})),
     glBindTexture(Texture(1)), glTexImage2D("yellow"), glUseProgram(2), glBindBuffer(2),
     glPointer(NoData, 16), glBindTexture(Texture(1)), glUniform("sampler") >>

SwapFrame(k) ==
  (IF k.texture
   THEN << glClear("grey"), glUseProgram(2), glUniform("sampler"), glDrawElements(6, 4) >> \o
        When(k.blend, <<glUniform("sampler"), glDrawElements(6, 4)>>)
   ELSE IF k.triangle THEN << glClear("grey"), glUniform("yellow"), glDrawArrays(0, 3) >>
   ELSE << glClear("blue") >>) \o
  (IF k.swap THEN <<eglSwapBuffers("exit")>> ELSE <<glFinish>>)

SwapCycle_NoFinish(k, cycle) ==
  << eglCreateSurface(Surface(cycle)), eglMakeCurrent(Surface(cycle), TRUE, "exit"), glViewport(0) >> \o
  When(k.triangle /\ ~k.texture /\ cycle = 0, TriangleSetup) \o
  When(k.texture /\ cycle = 0, TextureSetup) \o
  Loop([f \in 0 .. k.frames - 1 |-> SwapFrame(k)]) \o
  << eglMakeCurrent(None, FALSE, "exit"), eglDestroySurface(Surface(cycle), "exit") >>
SwapCycle(k, cycle) ==
  << eglCreateSurface(Surface(cycle)), eglMakeCurrent(Surface(cycle), TRUE, "exit"), glViewport(0) >> \o
  When(k.triangle /\ ~k.texture /\ cycle = 0, TriangleSetup) \o
  When(k.texture /\ cycle = 0, TextureSetup) \o
  Loop([f \in 0 .. k.frames - 1 |-> SwapFrame(k)]) \o
  << glFinish, eglMakeCurrent(None, FALSE, "exit"), eglDestroySurface(Surface(cycle), "exit") >>

WindowSwap(k) ==
  << eglSetup("exit"), eglCreateContext("exit") >> \o
  Loop([cycle \in 0 .. k.cycles - 1 |-> SwapCycle(k, cycle)]) \o
  When(k.triangle, << eglMakeCurrent(None, TRUE, "go"), eglMakeCurrent(None, FALSE, "go") >>) \o
  << eglDestroyContext("exit"), eglSetup("exit") >>

\* sgx-pbuffer-latency.c: alternate between two attachments or two surfaces.
Pbuffer(k, index) == Surface(IF k.window THEN 0 ELSE index)
Attachment(k, index) == IF k.texture THEN Texture(index) ELSE Renderbuffer(index)

PbufferSetup(k) ==
  <<glBindFramebuffer(1)>> \o
  Loop([index \in 0 .. 1 |->
    (IF k.texture THEN << glBindTexture(Texture(index)), glTexImage2D("undef") >>
     ELSE << glStorage(Renderbuffer(index)) >>) \o <<glAttach(Attachment(k, index))>>])

PbufferFrame(k, frame) ==
  LET index == IF k.alternate THEN frame % 2 ELSE 0
  IN  (IF k.fbo /\ (k.rebind \/ frame = 0) THEN <<glAttach(Attachment(k, index))>>
       ELSE <<eglMakeCurrent(Pbuffer(k, index), TRUE, "exit")>>) \o
      When(~k.skip, << glClear(IF index = 1 THEN "blue" ELSE "grey"), glFinish >>)

PbufferLatency(k) ==
  << eglSetup("exit"), eglCreateContext("exit"), eglCreateSurface(Surface(0)) >> \o
  When(~k.window, <<eglCreateSurface(Surface(1))>>) \o
  <<eglMakeCurrent(Surface(0), TRUE, "exit")>> \o When(k.fbo, PbufferSetup(k)) \o
  Loop([frame \in 0 .. k.iterations - 1 |-> PbufferFrame(k, frame)]) \o
  When(k.fbo, << glDelete(Attachment(k, 0)), glDelete(Attachment(k, 1)), glDeleteFramebuffers(1) >>) \o
  << glFinish, eglMakeCurrent(None, FALSE, "exit") >> \o
  When(~k.window, <<eglDestroySurface(Surface(1), "exit")>>) \o
  << eglDestroySurface(Surface(0), "exit"), eglDestroyContext("exit"), eglSetup("exit") >>
==============================================================================
