------------------------------ MODULE GlTracers ------------------------------
(***************************************************************************)
(* The LD_PRELOAD interposers between a program and libGLESv2: what each   *)
(* remembers, handler by handler.  tools/gl-trace.c counts the calls of a  *)
(* frame and prints the difference at every glClear; tools/gl-fbo-trace.c  *)
(* sorts draws by the render target it believes is bound.  The clock, the  *)
(* capped log of single calls and the wording of the lines are left out.   *)
(***************************************************************************)
EXTENDS Integers

\* gl-trace.c: the columns of a FRAME line.
Fields == {"draws", "verts", "useprog", "bindtex", "teximg", "bufbytes"}
Zero == [f \in Fields |-> 0]

\* The t_ totals, their fs_ copies at the last frame, and the last line printed.
TraceStarted == [total |-> Zero, snap |-> Zero, line |-> Zero]

Counted(t, f, n) == [t EXCEPT !.total[f] = @ + n]

\* A bug to be caught: fs_verts is not copied.
FrameSummary_KeepsVerts(t) ==
  [t EXCEPT !.line = [f \in Fields |-> t.total[f] - t.snap[f]],
            !.snap = [t.total EXCEPT !["verts"] = t.snap["verts"]]]
FrameSummary(t) ==
  [t EXCEPT !.line = [f \in Fields |-> t.total[f] - t.snap[f]],
            !.snap = t.total]

TraceDraw(t, count)      == Counted(Counted(t, "draws", 1), "verts", count)
TraceBufferData(t, size) == Counted(t, "bufbytes", size)
TraceUseProgram(t)       == Counted(t, "useprog", 1)
TraceBindTexture(t)      == Counted(t, "bindtex", 1)
TraceTexImage(t)         == Counted(t, "teximg", 1)

\* gl-fbo-trace.c
FboStarted == [cur_fb |-> 0, frames |-> 0, draws_fbo |-> 0, draws_screen |-> 0]

FboClear(t) == IF t.cur_fb = 0 THEN [t EXCEPT !.frames = @ + 1] ELSE t
FboDraw(t)  == IF t.cur_fb # 0 THEN [t EXCEPT !.draws_fbo = @ + 1]
               ELSE [t EXCEPT !.draws_screen = @ + 1]
FboBind_IfAny(t, fb) == IF fb = 0 THEN t ELSE [t EXCEPT !.cur_fb = fb]
FboBind(t, fb) == [t EXCEPT !.cur_fb = fb]
\* glDeleteFramebuffers counts the names and leaves cur_fb alone.
FboDelete(t, fb) == t
\* GLFBO_FINISH: glFinish when the target changes, as far as cur_fb tells.
FinishesFirst(t, fb) == fb # t.cur_fb
==============================================================================
