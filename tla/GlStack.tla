------------------------------- MODULE GlStack -------------------------------
(***************************************************************************)
(* One of the drawing programs of tools/, the interposer preloaded into    *)
(* it, and the driver below: every call of the program passes through the  *)
(* interposer's handler, if it has one for it, to the driver.  The program *)
(* is the sequence of its calls for one setting of its knobs (GlPrograms); *)
(* an EGL call may fail, and then the program exits or goes on.            *)
(***************************************************************************)
EXTENDS GlContext, GlTracers

CONSTANTS
  Apps,      \* the programs, each with its knobs
  Code(_),   \* the calls of each
  Drivers,   \* the drivers it may run on
  Preloads   \* the interposers that may be preloaded

Counts(calls) ==
  \A i \in 1 .. Len(calls) :
    /\ calls[i].op \in {"glDrawArrays", "glDrawElements"} => calls[i].count \in Nat
    /\ calls[i].op = "glBufferData" => calls[i].data.size \in Nat
    /\ calls[i].op \in {"glBindFramebuffer", "glDeleteFramebuffers"} => calls[i].fb \in Nat

ASSUME StackAssumption ==
  \A a \in Apps : Len(Code(a)) \in Nat /\ Counts(Code(a))

VARIABLES
  app, driver, preload,  \* what runs on what, with what in between
  code,                  \* the program's calls
  at,                    \* the program's next call
  exited,                \* it gave up on a call that failed
  pass,                  \* no read-back has differed from what it should be
  gl, target,            \* the context, and the framebuffer bound in it
  trace, fbo,            \* gl-trace.c's and gl-fbo-trace.c's variables
  work, truth,           \* calls since the last glClear, and between the two last
  drawn,                 \* every draw and clear, by the target it went to
  missed,                \* those of them that gl-fbo-trace.c cannot tell rightly
  strayed,               \* the bound framebuffer was deleted, and none bound since
  kept                   \* the program went on after a failed eglMakeCurrent(release)

setting == <<app, driver, preload, code>>
reports == <<work, truth, drawn, missed, strayed>>
history == <<reports, kept>>
vars == <<setting, at, exited, pass, gl, target, trace, fbo, history>>

EglOps == {"eglSetup", "eglCreateContext", "eglCreateSurface", "eglMakeCurrent",
           "eglSwapBuffers", "eglDestroySurface", "eglDestroyContext"}
FboTracers == {"gl-fbo-trace", "finish", "nulltex"}

Init ==
  /\ app \in Apps /\ code = Code(app)
  /\ driver \in Drivers /\ preload \in Preloads
  /\ app.verdict \/ driver = "good"      \* no other program judges the driver
  /\ app.linked \/ preload = "none"      \* dlsym(library) passes an interposer by
  /\ at = 1 /\ exited = FALSE /\ pass = TRUE
  /\ gl = NewContext /\ target = 0
  /\ trace = TraceStarted /\ fbo = FboStarted
  /\ work = Zero /\ truth = Zero
  /\ drawn = [screen |-> 0, fbo |-> 0, frames |-> 0]
  /\ missed = [screen |-> 0, fbo |-> 0, astray |-> 0, frames |-> 0]
  /\ strayed = FALSE /\ kept = FALSE

Running == ~exited /\ at <= Len(code)
Call    == code[at]
NextIs(ops) == Running /\ Call.op \in ops
Calling(ops) == NextIs(ops) /\ at' = at + 1 /\ UNCHANGED setting

\* Without a current context a GL call changes nothing.
Driver(new) == gl' = IF gl.current THEN new ELSE gl
GlTrace(new)  == trace' = IF preload = "gl-trace" THEN new ELSE trace
FboTrace(new) == fbo' = IF preload \in FboTracers THEN new ELSE fbo
Did(f, n)     == work' = [work EXCEPT ![f] = @ + n]
Place         == IF target = 0 THEN "screen" ELSE "fbo"

Clear ==
  /\ Calling({"glClear"})
  /\ Driver(Cleared(gl, target, Call.colour))
  /\ GlTrace(FrameSummary(trace)) /\ FboTrace(FboClear(fbo))
  /\ truth' = work /\ work' = Zero
  /\ drawn' = IF target = 0 THEN [drawn EXCEPT !.frames = @ + 1] ELSE drawn
  /\ missed' = IF strayed THEN [missed EXCEPT !.frames = @ + 1] ELSE missed
  /\ UNCHANGED <<exited, pass, target, strayed, kept>>

\* Both interposers' counts of a draw; gl-fbo-trace.c has no handler for
\* glDrawElements.
Draw ==
  /\ Calling({"glDrawArrays", "glDrawElements"})
  /\ Driver(Drawn(gl, target, Call, driver))
  /\ GlTrace(TraceDraw(trace, Call.count))
  /\ work' = [work EXCEPT !["draws"] = @ + 1, !["verts"] = @ + Call.count]
  /\ drawn' = [drawn EXCEPT ![Place] = @ + 1]
  /\ \/ /\ Call.op = "glDrawArrays"
        /\ FboTrace(FboDraw(fbo))
        /\ missed' = IF strayed THEN [missed EXCEPT !.astray = @ + 1] ELSE missed
     \/ /\ Call.op = "glDrawElements"
        /\ missed' = [missed EXCEPT ![Place] = @ + 1]
        /\ UNCHANGED fbo
  /\ UNCHANGED <<exited, pass, target, truth, strayed, kept>>

BindFramebuffer ==
  /\ Calling({"glBindFramebuffer"})
  /\ LET before == IF preload = "finish" /\ FinishesFirst(fbo, Call.fb) THEN Finished(gl) ELSE gl
     IN  Driver(Retargeted(before, target, Call.fb, driver))
  /\ target' = Call.fb
  /\ FboTrace(FboBind(fbo, Call.fb))
  /\ strayed' = FALSE
  /\ UNCHANGED <<exited, pass, trace, work, truth, drawn, missed, kept>>

\* Deleting the framebuffer that is bound binds the default one.
DeleteFramebuffers ==
  /\ Calling({"glDeleteFramebuffers"})
  /\ target' = IF target = Call.fb THEN 0 ELSE target
  /\ Driver(LET moved == Retargeted(gl, target, target', driver)
            IN  [moved EXCEPT !.att = Keep(@, DOMAIN @ \ {Call.fb})])
  /\ FboTrace(FboDelete(fbo, Call.fb))
  /\ strayed' = (strayed \/ target' # target)
  /\ UNCHANGED <<exited, pass, trace, work, truth, drawn, missed, kept>>

\* The other calls gl-trace.c counts.
BufferData ==
  /\ Calling({"glBufferData"})
  /\ Driver(Respecified(gl, Call.data))
  /\ GlTrace(TraceBufferData(trace, Call.data.size)) /\ Did("bufbytes", Call.data.size)
  /\ UNCHANGED <<exited, pass, target, fbo, truth, drawn, missed, strayed, kept>>

UseProgram ==
  /\ Calling({"glUseProgram"})
  /\ Driver([gl EXCEPT !.prog = Call.prog])
  /\ GlTrace(TraceUseProgram(trace)) /\ Did("useprog", 1)
  /\ UNCHANGED <<exited, pass, target, fbo, truth, drawn, missed, strayed, kept>>

BindTexture ==
  /\ Calling({"glBindTexture"})
  /\ Driver([gl EXCEPT !.bound = Call.image])
  /\ GlTrace(TraceBindTexture(trace)) /\ Did("bindtex", 1)
  /\ UNCHANGED <<exited, pass, target, fbo, truth, drawn, missed, strayed, kept>>

\* GLFBO_NULLTEX: the initial content is withheld.
TexImage ==
  /\ Calling({"glTexImage2D"})
  /\ Driver(Allocated(gl, gl.bound, IF preload = "nulltex" THEN "undef" ELSE Call.colour))
  /\ GlTrace(TraceTexImage(trace)) /\ Did("teximg", 1)
  /\ UNCHANGED <<exited, pass, target, fbo, truth, drawn, missed, strayed, kept>>

\* The vao stub keeps a detached shader attached unless SGXVAO_REAL_DETACH=1.
DetachShader ==
  /\ Calling({"glDetachShader"})
  /\ Driver(IF preload = "stub" THEN gl ELSE [gl EXCEPT !.detached = @ \cup {Call.prog}])
  /\ UNCHANGED <<exited, pass, target, trace, fbo, history>>

\* DDK 1.4 has no vertex array objects: without the stub the program panics.
GenVertexArrays ==
  /\ Calling({"glGenVertexArraysOES"})
  /\ exited' = (driver = "detach" /\ preload \notin {"stub", "real_detach"})
  /\ UNCHANGED <<pass, gl, target, trace, fbo, history>>

ReadPixels ==
  /\ Calling({"glReadPixels"})
  /\ Driver(ReadBack(gl, target))
  /\ pass' = (pass /\ (IF gl.current THEN Pixel(gl, target, Call.x) ELSE "black") \in Call.want)
  /\ UNCHANGED <<exited, target, trace, fbo, history>>

\* Calls that have no column in a FRAME line and no part in sorting draws.
StateOps == {"glFinish", "glViewport", "glStencil", "glUniform", "glBindBuffer",
             "glBufferSubData", "glVertexAttribPointer", "glLinkProgram",
             "glRenderbufferStorage", "glFramebufferAttach", "glDeleteImage"}

SetState ==
  /\ Calling(StateOps)
  /\ Driver(CASE Call.op = "glFinish" -> Finished(gl)
              [] Call.op = "glViewport" -> [gl EXCEPT !.view = Call.cell]
              [] Call.op = "glStencil" -> [gl EXCEPT !.fill = Call.fill]
              [] Call.op = "glUniform" -> UniformSet(gl, Call.colour)
              [] Call.op = "glBindBuffer" -> [gl EXCEPT !.abuf = Call.buffer]
              [] Call.op = "glBufferSubData" -> SubData(gl, Call.data)
              [] Call.op = "glVertexAttribPointer" -> Pointed(gl, Call.data, Call.stride)
              [] Call.op = "glLinkProgram" -> Linked(gl, Call.prog, Call.kind)
              [] Call.op = "glRenderbufferStorage" -> Allocated(gl, Call.image, "undef")
              [] Call.op = "glFramebufferAttach" -> Attached(gl, target, Call.image)
              [] Call.op = "glDeleteImage" -> Removed(gl, {Call.image}))
  /\ UNCHANGED <<exited, pass, target, trace, fbo, history>>

\* The program prints its verdict.
Report ==
  /\ Calling({"verdict"})
  /\ UNCHANGED <<exited, pass, gl, target, trace, fbo, history>>

EglCall(new) ==
  /\ gl' = new
  /\ UNCHANGED <<exited, pass, target, trace, fbo, history>>

CreateContext  == Calling({"eglCreateContext"}) /\ EglCall([gl EXCEPT !.made = TRUE])
CreateSurface  == Calling({"eglCreateSurface"}) /\ EglCall(SurfaceMade(gl, Call.image))
MakeCurrent    == /\ Calling({"eglMakeCurrent"})
                  /\ Call.on => gl.made
                  /\ EglCall(MadeCurrent(gl, Call.image, Call.on))
SwapBuffers    == /\ Calling({"eglSwapBuffers"})
                  /\ gl.current
                  /\ EglCall(Swapped(gl))
DestroySurface == Calling({"eglDestroySurface"}) /\ EglCall(SurfaceGone(gl, Call.image))
DestroyContext == Calling({"eglDestroyContext"}) /\ EglCall([gl EXCEPT !.made = FALSE])
\* Display, configuration, API, libraries; eglTerminate at the end.
EglSetup       == Calling({"eglSetup"}) /\ EglCall(gl)

\* A failed EGL call changes nothing; the program checks it and exits, or not.
EglFails ==
  /\ Calling(EglOps)
  /\ exited' = (Call.fails = "exit")
  /\ kept' = (kept \/ (Call.op = "eglMakeCurrent" /\ ~Call.on /\ Call.fails # "exit"))
  /\ UNCHANGED <<pass, gl, target, trace, fbo, reports>>

Ended == ~Running /\ UNCHANGED vars

Next ==
  \/ Clear \/ Draw \/ BindFramebuffer \/ DeleteFramebuffers
  \/ BufferData \/ UseProgram \/ BindTexture \/ TexImage
  \/ DetachShader \/ GenVertexArrays \/ ReadPixels \/ SetState \/ Report
  \/ CreateContext \/ CreateSurface \/ MakeCurrent \/ SwapBuffers
  \/ DestroySurface \/ DestroyContext \/ EglSetup \/ EglFails \/ Ended

Spec == Init /\ [][Next]_vars

-----------------------------------------------------------------------------
\* Types of the program's place and of what the interposers remember.
TypeOK ==
  /\ app \in Apps /\ code = Code(app) /\ driver \in Drivers /\ preload \in Preloads
  /\ at \in 1 .. Len(code) + 1 /\ exited \in BOOLEAN /\ pass \in BOOLEAN
  /\ target \in Nat /\ strayed \in BOOLEAN /\ kept \in BOOLEAN
  /\ trace \in [total : [Fields -> Int], snap : [Fields -> Int], line : [Fields -> Int]]
  /\ work \in [Fields -> Int] /\ truth \in [Fields -> Int]
  /\ fbo \in [cur_fb : Nat, frames : Nat, draws_fbo : Nat, draws_screen : Nat]
  /\ drawn \in [screen : Nat, fbo : Nat, frames : Nat]
  /\ missed \in [screen : Nat, fbo : Nat, astray : Nat, frames : Nat]

\* Whatever its knobs, a drawing program issues each draw with its uniforms
\* given, inside the vertex buffer as last specified, at the start of one of the
\* shapes put there, and sampling a texture that is not its own target: what it
\* measures or judges is the driver and not a draw of its own that shows
\* nothing.  The exception is tri-inline with STF_REBIND and without STF_UNIF,
\* which gives its uniforms once, while no program is current.
DrawsReady ==
  NextIs({"glDrawArrays", "glDrawElements"}) /\ gl.current /\ app.name # "free" =>
    /\ (app.name = "tri" /\ app.rebind /\ ~app.unif) \/ UniformsGiven(gl)
    /\ ReadsWithin(gl, Call) /\ DrawsOneShape(gl, Call) /\ SamplesOther(gl, target)

\* What should come out of a test that tells a faulty driver by reading pixels:
\* with a surface to draw on, the driver is sound, or its fault is one that this
\* test does not meet or that the interposer preloaded takes away.
Sound ==
  /\ gl.current
  /\ CASE driver = "good" -> TRUE
       [] driver = "forget" -> app.only = 1
       [] driver = "unfinished" -> app.only \in {1, 4} \/ preload = "finish"
       [] driver = "detach" -> app.detaches => preload = "stub"

\* fbo-reentry-test.c and vbo-respec-repro.c print PASS exactly then, whatever
\* is preloaded, as long as at least one pixel is read: FBO_ONLY=9 and FBO_N=0
\* run no check and always pass.
VerdictTrue ==
  NextIs({"verdict"}) /\ (\E i \in DOMAIN code : code[i].op = "glReadPixels") =>
    (pass <=> Sound)

\* Nothing is taken away under the GPU: a surface, a texture or a renderbuffer
\* is not destroyed with rendering to it that nothing has waited for, whatever
\* failed; only a burst of no layers (FBO_N=0) is cleared, swapped and destroyed
\* unread.  And neither a surface nor the context is destroyed while current,
\* unless the release itself failed: fbo-reentry-test.c:422 and
\* sgx-window-swap.c:799 do not look and destroy what is still current, which
\* EGL then keeps until the context is released.
QuietTeardown ==
  /\ NextIs({"eglDestroySurface"}) =>
       /\ Call.image \in gl.surfaces /\ (Call.image # gl.surface \/ kept)
       /\ Call.image \notin gl.busy \/ (app.name = "fbo" /\ app.n = 0)
  /\ NextIs({"glDeleteImage"}) => Call.image \notin gl.busy
  /\ NextIs({"eglDestroyContext"}) => ~gl.current \/ kept

\* A FRAME line of gl-trace.c says what the program did between two glClear calls.
FramesTold == preload = "gl-trace" => trace.line = truth

\* gl-fbo-trace.c's sums are the program's draws and frames by the target they
\* really went to, but for two blind spots, each by exactly what falls into it:
\* glDrawElements, which it does not wrap, is in no sum, and what follows the
\* deletion of the bound framebuffer, until another is bound, goes to the screen
\* and is told as if it went to the framebuffer that is gone
\* (gl-fbo-trace.c:125-136, 236-245).
DrawsSorted ==
  preload \in FboTracers =>
    /\ fbo.draws_fbo    = drawn.fbo - missed.fbo + missed.astray
    /\ fbo.draws_screen = drawn.screen - missed.screen - missed.astray
    /\ fbo.frames       = drawn.frames - missed.frames

\* What either interposer reports of a program follows from what the program
\* did, up to the blind spots above: the counters are copies kept over thousands
\* of calls (gl-trace.c:33-117, gl-fbo-trace.c:96-180).
ReportsTrue == FramesTold /\ DrawsSorted
==============================================================================
