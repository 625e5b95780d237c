------------------------------- MODULE GlProofs -------------------------------
(***************************************************************************)
(* What holds of GlStack for every program, driver and interposer: the     *)
(* types, and that what the interposers report follows from what the       *)
(* program did, with an exact account of the draws they cannot tell; of    *)
(* the programs themselves only StackAssumption is used for that.          *)
(*                                                                         *)
(* And what holds of the programs of GlPrograms for every value of their   *)
(* knobs: each draw is ready when it is issued, nothing is destroyed that  *)
(* is still in use, and no PASS is printed unseen.  A program is followed  *)
(* along its calls as a sequential program is: Takes(s, P, Q, a) says that *)
(* the calls s, from any state in P, are proper and end in Q; there is one *)
(* rule for each call, one for a concatenation, and one for a loop with    *)
(* its invariant, proved by induction over the number of turns from the    *)
(* least counterexample.  Then the context is shown to stay with the path  *)
(* of GlPaths whatever the driver does and whichever EGL call fails.       *)
(***************************************************************************)
EXTENDS GlStack, GlPrograms, GlPaths, TLAPS, FiniteSetTheorems, WellFoundedInduction

\* What gl-trace.c would print next is what was done since the last glClear.
Balance ==
  preload = "gl-trace" =>
    /\ \A f \in Fields : trace.total[f] - trace.snap[f] = work[f]
    /\ trace.line = truth

\* gl-fbo-trace.c's cur_fb is the framebuffer bound, or one that was deleted while
\* bound, which left the default one bound; its counts follow cur_fb.
Astray(t) == IF strayed THEN target = 0 /\ t.cur_fb # 0 ELSE t.cur_fb = target
Mirrored == preload \in FboTracers => Astray(fbo) /\ DrawsSorted

IInv == TypeOK /\ Balance /\ Mirrored

-----------------------------------------------------------------------------
\* gl-trace.c's handlers: each total is moved by what it is given, and nothing else.

Trace == [total : [Fields -> Int], snap : [Fields -> Int], line : [Fields -> Int]]
Behind(t, f) == t.total[f] - t.snap[f]

LEMMA CountedAdds ==
  ASSUME NEW t \in Trace, NEW f \in Fields, NEW n \in Int
  PROVE  /\ Counted(t, f, n) \in Trace
         /\ Counted(t, f, n).line = t.line
         /\ \A g \in Fields : Behind(Counted(t, f, n), g) = Behind(t, g) + (IF g = f THEN n ELSE 0)
<1> DEFINE total == [t.total EXCEPT ![f] = @ + n]
<1>1. total \in [Fields -> Int] /\ \A g \in Fields : total[g] = t.total[g] + (IF g = f THEN n ELSE 0)
  BY DEF Trace
<1>2. Counted(t, f, n) = [t EXCEPT !.total = total]
  BY DEF Counted
<1> HIDE DEF total
<1>3. /\ Counted(t, f, n) \in Trace /\ Counted(t, f, n).line = t.line
      /\ Counted(t, f, n).total = total /\ Counted(t, f, n).snap = t.snap
  BY <1>1, <1>2 DEF Trace
<1>4. \A g \in Fields : t.total[g] \in Int /\ t.snap[g] \in Int
  BY DEF Trace
<1> QED
  BY <1>1, <1>3, <1>4 DEF Behind

LEMMA SummaryTells ==
  ASSUME NEW t \in Trace
  PROVE  /\ FrameSummary(t) \in Trace
         /\ FrameSummary(t).line = [f \in Fields |-> Behind(t, f)]
         /\ \A f \in Fields : Behind(FrameSummary(t), f) = 0
<1>1. [f \in Fields |-> t.total[f] - t.snap[f]] \in [Fields -> Int]
  BY DEF Trace
<1>2. /\ FrameSummary(t) \in Trace
      /\ FrameSummary(t).line = [f \in Fields |-> t.total[f] - t.snap[f]]
      /\ FrameSummary(t).snap = t.total /\ FrameSummary(t).total = t.total
  BY <1>1 DEF FrameSummary, Trace
<1>3. \A f \in Fields : t.total[f] \in Int
  BY DEF Trace
<1> QED
  BY <1>2, <1>3 DEF Behind

LEMMA DrawCounts ==
  ASSUME NEW t \in Trace, NEW n \in Int
  PROVE  /\ TraceDraw(t, n) \in Trace
         /\ TraceDraw(t, n).line = t.line
         /\ \A g \in Fields : Behind(TraceDraw(t, n), g) =
              Behind(t, g) + (IF g = "draws" THEN 1 ELSE IF g = "verts" THEN n ELSE 0)
<1> DEFINE once == Counted(t, "draws", 1)
<1>1. "draws" \in Fields /\ "verts" \in Fields /\ "draws" # "verts"
  BY DEF Fields
<1>2. /\ once \in Trace /\ once.line = t.line
      /\ \A g \in Fields : Behind(once, g) = Behind(t, g) + (IF g = "draws" THEN 1 ELSE 0)
  BY <1>1, CountedAdds
<1>3. /\ Counted(once, "verts", n) \in Trace /\ Counted(once, "verts", n).line = once.line
      /\ \A g \in Fields : Behind(Counted(once, "verts", n), g) = Behind(once, g) + (IF g = "verts" THEN n ELSE 0)
  BY <1>1, <1>2, CountedAdds
<1>4. \A g \in Fields : Behind(t, g) \in Int
  BY DEF Behind, Trace
<1> HIDE DEF once
<1>5. \A g \in Fields : Behind(Counted(once, "verts", n), g) =
        Behind(t, g) + (IF g = "draws" THEN 1 ELSE IF g = "verts" THEN n ELSE 0)
  BY <1>1, <1>2, <1>3, <1>4
<1> QED
  BY <1>2, <1>3, <1>5 DEF once, TraceDraw

-----------------------------------------------------------------------------
\* Every program makes its calls in order, with the counts StackAssumption gives.
LEMMA CallMade ==
  ASSUME TypeOK, NEW ops, Calling(ops)
  PROVE  /\ at' \in 1 .. Len(code') + 1 /\ UNCHANGED setting
         /\ app' \in Apps /\ code' = Code(app') /\ driver' \in Drivers /\ preload' \in Preloads
<1>1. Len(code) \in Nat
  BY StackAssumption DEF TypeOK
<1> QED
  BY <1>1 DEF TypeOK, Calling, NextIs, Running, setting

LEMMA CallCounts ==
  ASSUME TypeOK, Running
  PROVE  /\ Call.op \in {"glDrawArrays", "glDrawElements"} => Call.count \in Nat
         /\ Call.op = "glBufferData" => Call.data.size \in Nat
         /\ Call.op \in {"glBindFramebuffer", "glDeleteFramebuffers"} => Call.fb \in Nat
<1>1. Len(code) \in Nat /\ Counts(code)
  BY StackAssumption DEF TypeOK
<1>2. at \in 1 .. Len(code)
  BY <1>1 DEF TypeOK, Running
<1> QED
  BY <1>1, <1>2 DEF Counts, Call

\* The calls that have no column in a FRAME line and no part in sorting draws.
Aside ==
  \/ DetachShader \/ GenVertexArrays \/ ReadPixels \/ SetState \/ Report
  \/ CreateContext \/ CreateSurface \/ MakeCurrent \/ SwapBuffers
  \/ DestroySurface \/ DestroyContext \/ EglSetup \/ EglFails \/ Ended

LEMMA AsideEffect ==
  ASSUME TypeOK, Aside
  PROVE  /\ UNCHANGED <<setting, target, trace, fbo, reports>>
         /\ at' \in 1 .. Len(code') + 1 /\ exited' \in BOOLEAN /\ pass' \in BOOLEAN
         /\ kept' \in BOOLEAN
<1> USE DEF reports, history
<1>1. CASE Ended
  BY <1>1 DEF Ended, vars, setting, TypeOK
<1>2. CASE DetachShader
  BY <1>2, CallMade DEF DetachShader, TypeOK
<1>3. CASE GenVertexArrays
  BY <1>3, CallMade DEF GenVertexArrays, TypeOK
<1>4. CASE ReadPixels
  <2>1. (pass /\ (IF gl.current THEN Pixel(gl, target, Call.x) ELSE "black") \in Call.want) \in BOOLEAN
    OBVIOUS
  <2> QED
    BY <1>4, <2>1, CallMade DEF ReadPixels, TypeOK
<1>5. CASE SetState
  BY <1>5, CallMade DEF SetState, TypeOK
<1>6. CASE Report
  BY <1>6, CallMade DEF Report, TypeOK
<1>7. CASE CreateContext
  BY <1>7, CallMade DEF CreateContext, EglCall, TypeOK
<1>8. CASE CreateSurface
  BY <1>8, CallMade DEF CreateSurface, EglCall, TypeOK
<1>9. CASE MakeCurrent
  BY <1>9, CallMade DEF MakeCurrent, EglCall, TypeOK
<1>10. CASE SwapBuffers
  BY <1>10, CallMade DEF SwapBuffers, EglCall, TypeOK
<1>11. CASE DestroySurface
  BY <1>11, CallMade DEF DestroySurface, EglCall, TypeOK
<1>12. CASE DestroyContext
  BY <1>12, CallMade DEF DestroyContext, EglCall, TypeOK
<1>13. CASE EglSetup
  BY <1>13, CallMade DEF EglSetup, EglCall, TypeOK
<1>14. CASE EglFails
  BY <1>14, CallMade DEF EglFails, TypeOK
<1> QED
  BY <1>1, <1>2, <1>3, <1>4, <1>5, <1>6, <1>7, <1>8, <1>9, <1>10, <1>11, <1>12, <1>13, <1>14
     DEF Aside

-----------------------------------------------------------------------------
\* gl-trace.c keeps up with the program at each call it counts.

Tally == [Fields -> Int]

LEMMA OneCounted ==
  ASSUME TypeOK, Balance, NEW f \in Fields, NEW n \in Int,
         GlTrace(Counted(trace, f, n)), Did(f, n), UNCHANGED <<preload, truth>>
  PROVE  trace' \in Trace /\ work' \in Tally /\ Balance'
<1>1. trace \in Trace /\ work \in Tally
  BY DEF TypeOK, Trace, Tally
<1>2. work' \in Tally /\ \A g \in Fields : work'[g] = work[g] + (IF g = f THEN n ELSE 0)
  BY <1>1 DEF Did, Tally
<1>3. trace' \in Trace
  BY <1>1, CountedAdds DEF GlTrace
<1>4. ASSUME preload = "gl-trace"
      PROVE  (\A g \in Fields : Behind(trace', g) = work'[g]) /\ trace'.line = truth'
  <2>1. trace' = Counted(trace, f, n)
    BY <1>4 DEF GlTrace
  <2>2. (\A g \in Fields : Behind(trace, g) = work[g]) /\ trace.line = truth
    BY <1>4 DEF Balance, Behind
  <2> QED
    BY <1>1, <1>2, <2>1, <2>2, CountedAdds
<1> QED
  BY <1>2, <1>3, <1>4 DEF Balance, Behind

LEMMA DrawBalances ==
  ASSUME TypeOK, Balance, Draw
  PROVE  trace' \in Trace /\ work' \in Tally /\ Balance'
<1>1. trace \in Trace /\ work \in Tally
  BY DEF TypeOK, Trace, Tally
<1>2. Call.count \in Nat
  BY CallCounts DEF Draw, Calling, NextIs
<1>3. work' = [work EXCEPT !["draws"] = @ + 1, !["verts"] = @ + Call.count]
      /\ GlTrace(TraceDraw(trace, Call.count)) /\ UNCHANGED <<preload, truth>>
  BY DEF Draw, Calling, setting
<1>4. /\ work' \in Tally
      /\ \A g \in Fields : work'[g] =
           work[g] + (IF g = "draws" THEN 1 ELSE IF g = "verts" THEN Call.count ELSE 0)
  BY <1>1, <1>2, <1>3 DEF Tally, Fields
<1>5. trace' \in Trace
  BY <1>1, <1>2, <1>3, DrawCounts DEF GlTrace
<1>6. ASSUME preload = "gl-trace"
      PROVE  (\A g \in Fields : Behind(trace', g) = work'[g]) /\ trace'.line = truth'
  <2>1. trace' = TraceDraw(trace, Call.count)
    BY <1>3, <1>6 DEF GlTrace
  <2>2. (\A g \in Fields : Behind(trace, g) = work[g]) /\ trace.line = truth
    BY <1>6 DEF Balance, Behind
  <2>3. /\ trace'.line = trace.line
        /\ \A g \in Fields : Behind(trace', g) =
             Behind(trace, g) + (IF g = "draws" THEN 1 ELSE IF g = "verts" THEN Call.count ELSE 0)
    BY <1>1, <1>2, <2>1, DrawCounts
  <2> QED
    BY <1>3, <1>4, <2>2, <2>3
<1> QED
  BY <1>3, <1>4, <1>5, <1>6 DEF Balance, Behind

LEMMA ClearBalances ==
  ASSUME TypeOK, Balance, Clear
  PROVE  trace' \in Trace /\ work' \in Tally /\ truth' \in Tally /\ Balance'
<1>1. trace \in Trace /\ work \in Tally
  BY DEF TypeOK, Trace, Tally
<1>2. GlTrace(FrameSummary(trace)) /\ truth' = work /\ work' = Zero /\ preload' = preload
  BY DEF Clear, Calling, setting
<1>3. trace' \in Trace
  BY <1>1, <1>2, SummaryTells DEF GlTrace
<1>4. ASSUME preload = "gl-trace"
      PROVE  (\A g \in Fields : Behind(trace', g) = Zero[g]) /\ trace'.line = work
  <2>1. trace' = FrameSummary(trace)
    BY <1>2, <1>4 DEF GlTrace
  <2>2. \A g \in Fields : Behind(trace, g) = work[g]
    BY <1>4 DEF Balance, Behind
  <2>3. work = [f \in Fields |-> Behind(trace, f)]
    BY <1>1, <2>2 DEF Tally
  <2> QED
    BY <1>1, <2>1, <2>3, SummaryTells DEF Zero
<1> QED
  BY <1>1, <1>2, <1>3, <1>4 DEF Balance, Behind, Tally, Zero

\* gl-fbo-trace.c follows each bind, and counts each draw and clear where it goes.
Sorter == [cur_fb : Nat, frames : Nat, draws_fbo : Nat, draws_screen : Nat]
Places == [screen : Nat, fbo : Nat, frames : Nat]
Misses == [screen : Nat, fbo : Nat, astray : Nat, frames : Nat]

LEMMA ClearSorted ==
  ASSUME NEW t \in Sorter
  PROVE  /\ FboClear(t) \in Sorter /\ FboClear(t).cur_fb = t.cur_fb
         /\ FboClear(t).draws_fbo = t.draws_fbo /\ FboClear(t).draws_screen = t.draws_screen
         /\ FboClear(t).frames = t.frames + (IF t.cur_fb = 0 THEN 1 ELSE 0)
BY DEF FboClear, Sorter

LEMMA DrawSorted ==
  ASSUME NEW t \in Sorter
  PROVE  /\ FboDraw(t) \in Sorter /\ FboDraw(t).cur_fb = t.cur_fb /\ FboDraw(t).frames = t.frames
         /\ FboDraw(t).draws_fbo = t.draws_fbo + (IF t.cur_fb = 0 THEN 0 ELSE 1)
         /\ FboDraw(t).draws_screen = t.draws_screen + (IF t.cur_fb = 0 THEN 1 ELSE 0)
BY DEF FboDraw, Sorter

LEMMA ClearMirrors ==
  ASSUME TypeOK, Mirrored, Clear
  PROVE  Mirrored' /\ fbo' \in Sorter /\ drawn' \in Places /\ missed' \in Misses
<1>1. fbo \in Sorter /\ drawn \in Places /\ missed \in Misses
  BY DEF TypeOK, Sorter, Places, Misses
<1>2. FboTrace(FboClear(fbo)) /\ UNCHANGED <<preload, target, strayed>>
  BY DEF Clear, Calling, setting
<1>3. /\ drawn' = IF target = 0 THEN [drawn EXCEPT !.frames = @ + 1] ELSE drawn
      /\ missed' = IF strayed THEN [missed EXCEPT !.frames = @ + 1] ELSE missed
  BY DEF Clear
<1>4. /\ drawn' \in Places /\ drawn'.screen = drawn.screen /\ drawn'.fbo = drawn.fbo
      /\ drawn'.frames = drawn.frames + (IF target = 0 THEN 1 ELSE 0)
  BY <1>1, <1>3 DEF Places
<1>5. /\ missed' \in Misses /\ missed'.screen = missed.screen /\ missed'.fbo = missed.fbo
      /\ missed'.astray = missed.astray
      /\ missed'.frames = missed.frames + (IF strayed THEN 1 ELSE 0)
  BY <1>1, <1>3 DEF Misses
<1>6. fbo' \in Sorter
  BY <1>1, <1>2, ClearSorted DEF FboTrace
<1>7. ASSUME preload \in FboTracers
      PROVE  Astray(fbo)' /\ DrawsSorted'
  <2>1. fbo' = FboClear(fbo) /\ Astray(fbo) /\ DrawsSorted
    BY <1>2, <1>7 DEF FboTrace, Mirrored
  <2>2. Astray(fbo)'
    BY <1>1, <1>2, <2>1, ClearSorted DEF Astray
  <2>3. fbo'.frames = drawn'.frames - missed'.frames
    BY <1>1, <1>4, <1>5, <1>7, <2>1, ClearSorted DEF Astray, DrawsSorted, Sorter, Places, Misses
  <2>4. /\ fbo'.draws_fbo = drawn'.fbo - missed'.fbo + missed'.astray
        /\ fbo'.draws_screen = drawn'.screen - missed'.screen - missed'.astray
    BY <1>1, <1>4, <1>5, <1>7, <2>1, ClearSorted DEF DrawsSorted
  <2> QED
    BY <2>2, <2>3, <2>4 DEF DrawsSorted
<1> QED
  BY <1>2, <1>4, <1>5, <1>6, <1>7 DEF Mirrored

LEMMA DrawMirrors ==
  ASSUME TypeOK, Mirrored, Draw
  PROVE  Mirrored' /\ fbo' \in Sorter /\ drawn' \in Places /\ missed' \in Misses
<1>1. fbo \in Sorter /\ drawn \in Places /\ missed \in Misses
  BY DEF TypeOK, Sorter, Places, Misses
<1>2. UNCHANGED <<preload, target, strayed>>
  BY DEF Draw, Calling, setting
<1>3. Place = IF target = 0 THEN "screen" ELSE "fbo"
  BY DEF Place
<1>4. drawn' = [drawn EXCEPT ![Place] = @ + 1]
  BY DEF Draw
<1>5. /\ drawn' \in Places /\ drawn'.frames = drawn.frames
      /\ drawn'.screen = drawn.screen + (IF target = 0 THEN 1 ELSE 0)
      /\ drawn'.fbo = drawn.fbo + (IF target = 0 THEN 0 ELSE 1)
  BY <1>1, <1>3, <1>4 DEF Places
<1>n. /\ fbo.frames \in Int /\ fbo.draws_fbo \in Int /\ fbo.draws_screen \in Int
      /\ drawn.screen \in Int /\ drawn.fbo \in Int /\ drawn.frames \in Int
      /\ missed.screen \in Int /\ missed.fbo \in Int /\ missed.astray \in Int /\ missed.frames \in Int
  BY <1>1 DEF Sorter, Places, Misses
<1>6. CASE FboTrace(FboDraw(fbo)) /\ missed' = IF strayed THEN [missed EXCEPT !.astray = @ + 1] ELSE missed
  <2>1. /\ missed' \in Misses /\ missed'.screen = missed.screen /\ missed'.fbo = missed.fbo
        /\ missed'.frames = missed.frames
        /\ missed'.astray = missed.astray + (IF strayed THEN 1 ELSE 0)
    BY <1>1, <1>6 DEF Misses
  <2>2. fbo' \in Sorter
    BY <1>1, <1>6, DrawSorted DEF FboTrace
  <2>3. ASSUME preload \in FboTracers
        PROVE  Astray(fbo)' /\ DrawsSorted'
    <3>1. fbo' = FboDraw(fbo) /\ Astray(fbo) /\ DrawsSorted
      BY <1>6, <2>3 DEF FboTrace, Mirrored
    <3>2. /\ fbo'.cur_fb = fbo.cur_fb /\ fbo'.frames = fbo.frames
          /\ fbo'.draws_fbo = fbo.draws_fbo + (IF fbo.cur_fb = 0 THEN 0 ELSE 1)
          /\ fbo'.draws_screen = fbo.draws_screen + (IF fbo.cur_fb = 0 THEN 1 ELSE 0)
      BY <1>1, <3>1, DrawSorted
    <3>3. Astray(fbo)'
      BY <1>2, <3>1, <3>2 DEF Astray
    <3>4. CASE strayed
      <4>1. target = 0 /\ fbo.cur_fb # 0
        BY <3>1, <3>4 DEF Astray
      <4> QED
        BY <1>n, <1>5, <2>1, <2>3, <3>1, <3>2, <3>3, <3>4, <4>1 DEF DrawsSorted
    <3>5. CASE ~strayed
      <4>1. fbo.cur_fb = target
        BY <3>1, <3>5 DEF Astray
      <4> QED
        BY <1>n, <1>5, <2>1, <2>3, <3>1, <3>2, <3>3, <3>5, <4>1 DEF DrawsSorted
    <3> QED
      BY <3>4, <3>5
  <2> QED
    BY <1>2, <1>5, <2>1, <2>2, <2>3 DEF Mirrored
<1>7. CASE missed' = [missed EXCEPT ![Place] = @ + 1] /\ fbo' = fbo
  <2>1. /\ missed' \in Misses /\ missed'.frames = missed.frames /\ missed'.astray = missed.astray
        /\ missed'.screen = missed.screen + (IF target = 0 THEN 1 ELSE 0)
        /\ missed'.fbo = missed.fbo + (IF target = 0 THEN 0 ELSE 1)
    BY <1>1, <1>3, <1>7 DEF Misses
  <2>2. DrawsSorted => DrawsSorted'
    BY <1>n, <1>2, <1>5, <1>7, <2>1 DEF DrawsSorted
  <2>3. Astray(fbo) => Astray(fbo)'
    BY <1>2, <1>7 DEF Astray
  <2>4. Mirrored'
    BY <1>2, <2>2, <2>3 DEF Mirrored
  <2> QED
    BY <1>1, <1>5, <1>7, <2>1, <2>4
<1> QED
  BY <1>6, <1>7 DEF Draw

LEMMA BindMirrors ==
  ASSUME TypeOK, Mirrored, BindFramebuffer
  PROVE  Mirrored' /\ fbo' \in Sorter /\ target' \in Nat
<1>1. Call.fb \in Nat
  BY CallCounts DEF BindFramebuffer, Calling, NextIs
<1>2. FboTrace(FboBind(fbo, Call.fb)) /\ target' = Call.fb /\ ~strayed' /\ UNCHANGED <<preload, drawn, missed>>
  BY DEF BindFramebuffer, Calling, setting
<1>3. fbo \in Sorter
  BY DEF TypeOK, Sorter
<1>4. /\ FboBind(fbo, Call.fb) \in Sorter /\ FboBind(fbo, Call.fb).cur_fb = Call.fb
      /\ FboBind(fbo, Call.fb).frames = fbo.frames /\ FboBind(fbo, Call.fb).draws_fbo = fbo.draws_fbo
      /\ FboBind(fbo, Call.fb).draws_screen = fbo.draws_screen
  BY <1>1, <1>3 DEF FboBind, Sorter
<1> QED
  BY <1>1, <1>2, <1>3, <1>4 DEF Mirrored, Astray, DrawsSorted, FboTrace

LEMMA DeleteMirrors ==
  ASSUME TypeOK, Mirrored, DeleteFramebuffers
  PROVE  Mirrored' /\ fbo' = fbo /\ target' \in Nat /\ strayed' \in BOOLEAN
<1>1. target' \in Nat /\ (target' # target => target' = 0)
  BY DEF DeleteFramebuffers, TypeOK
<1>2. fbo' = fbo
  BY DEF DeleteFramebuffers, FboTrace, FboDelete
<1>3. strayed' = (strayed \/ target' # target) /\ UNCHANGED <<preload, drawn, missed>>
  BY DEF DeleteFramebuffers, Calling, setting
<1>4. strayed' \in BOOLEAN
  BY <1>3 DEF TypeOK
<1>5. Mirrored'
  BY <1>1, <1>2, <1>3 DEF Mirrored, Astray, DrawsSorted
<1> QED
  BY <1>1, <1>2, <1>4, <1>5

-----------------------------------------------------------------------------
\* The inductive invariant.
LEMMA StartsWell == Init => IInv
<1> SUFFICES ASSUME Init PROVE IInv
  OBVIOUS
<1>1. Len(code) \in Nat
  BY StackAssumption DEF Init
<1>2. Zero \in [Fields -> Int] /\ \A f \in Fields : Zero[f] = 0
  BY DEF Zero
<1>3. TypeOK
  <2>1. at \in 1 .. Len(code) + 1
    BY <1>1 DEF Init
  <2>2. fbo \in Sorter /\ drawn \in Places /\ missed \in Misses
    BY DEF Init, FboStarted, Sorter, Places, Misses
  <2>3. trace \in Trace /\ work \in Tally /\ truth \in Tally
    BY <1>2 DEF Init, TraceStarted, Trace, Tally
  <2> QED
    BY <2>1, <2>2, <2>3 DEF Init, TypeOK, Sorter, Places, Misses, Trace, Tally
<1>4. Balance
  BY <1>2 DEF Init, Balance, TraceStarted
<1>5. Mirrored
  BY DEF Init, Mirrored, Astray, DrawsSorted, FboStarted
<1> QED
  BY <1>3, <1>4, <1>5 DEF IInv

LEMMA StepsKeep == IInv /\ [Next]_vars => IInv'
<1> SUFFICES ASSUME TypeOK, Balance, Mirrored, [Next]_vars PROVE IInv'
  BY DEF IInv
<1> USE DEF IInv
<1>1. CASE Clear
  <2>1. trace' \in Trace /\ work' \in Tally /\ truth' \in Tally /\ Balance'
    BY <1>1, ClearBalances
  <2>2. Mirrored' /\ fbo' \in Sorter /\ drawn' \in Places /\ missed' \in Misses
    BY <1>1, ClearMirrors
  <2>3. TypeOK'
    BY <1>1, <2>1, <2>2, CallMade DEF Clear, TypeOK, Trace, Tally, Sorter, Places, Misses
  <2> QED
    BY <2>1, <2>2, <2>3
<1>2. CASE Draw
  <2>1. trace' \in Trace /\ work' \in Tally /\ Balance'
    BY <1>2, DrawBalances
  <2>2. Mirrored' /\ fbo' \in Sorter /\ drawn' \in Places /\ missed' \in Misses
    BY <1>2, DrawMirrors
  <2>3. TypeOK'
    BY <1>2, <2>1, <2>2, CallMade DEF Draw, TypeOK, Trace, Tally, Sorter, Places, Misses
  <2> QED
    BY <2>1, <2>2, <2>3
<1>3. CASE BindFramebuffer
  <2>1. Mirrored' /\ fbo' \in Sorter /\ target' \in Nat
    BY <1>3, BindMirrors
  <2>2. /\ UNCHANGED <<exited, pass, trace, work, truth, drawn, missed, kept, preload>>
        /\ strayed' = FALSE
    BY <1>3 DEF BindFramebuffer, Calling, setting
  <2>3. Balance'
    BY <2>2 DEF Balance
  <2>4. TypeOK'
    BY <1>3, <2>1, <2>2, CallMade DEF BindFramebuffer, TypeOK, Sorter
  <2> QED
    BY <2>1, <2>3, <2>4
<1>4. CASE DeleteFramebuffers
  <2>1. Mirrored' /\ fbo' = fbo /\ target' \in Nat /\ strayed' \in BOOLEAN
    BY <1>4, DeleteMirrors
  <2>2. UNCHANGED <<exited, pass, trace, work, truth, drawn, missed, kept, preload>>
    BY <1>4 DEF DeleteFramebuffers, Calling, setting
  <2>3. Balance'
    BY <2>2 DEF Balance
  <2>4. TypeOK'
    BY <1>4, <2>1, <2>2, CallMade DEF DeleteFramebuffers, TypeOK
  <2> QED
    BY <2>1, <2>3, <2>4
<1>5. ASSUME BufferData \/ UseProgram \/ BindTexture \/ TexImage PROVE IInv'
  <2>1. /\ UNCHANGED <<exited, pass, target, fbo, truth, drawn, missed, strayed, kept, preload>>
        /\ \E ops : Calling(ops)
    BY <1>5 DEF BufferData, UseProgram, BindTexture, TexImage, Calling, setting
  <2>2. \E f \in Fields, n \in Int : GlTrace(Counted(trace, f, n)) /\ Did(f, n)
    <3>1. CASE BufferData
      <4>1. Call.data.size \in Nat
        BY <3>1, CallCounts DEF BufferData, Calling, NextIs
      <4> QED
        BY <3>1, <4>1 DEF BufferData, TraceBufferData, Fields
    <3>2. CASE UseProgram
      BY <3>2 DEF UseProgram, TraceUseProgram, Fields
    <3>3. CASE BindTexture
      BY <3>3 DEF BindTexture, TraceBindTexture, Fields
    <3>4. CASE TexImage
      BY <3>4 DEF TexImage, TraceTexImage, Fields
    <3> QED
      BY <1>5, <3>1, <3>2, <3>3, <3>4
  <2>3. trace' \in Trace /\ work' \in Tally /\ Balance'
    BY <2>1, <2>2, OneCounted
  <2>4. Mirrored'
    BY <2>1 DEF Mirrored, Astray, DrawsSorted
  <2>5. TypeOK'
    BY <2>1, <2>3, CallMade DEF TypeOK, Trace, Tally
  <2> QED
    BY <2>3, <2>4, <2>5
<1>6. CASE Aside
  <2>1. /\ UNCHANGED <<setting, target, trace, fbo, reports>>
        /\ at' \in 1 .. Len(code') + 1 /\ exited' \in BOOLEAN /\ pass' \in BOOLEAN
        /\ kept' \in BOOLEAN
    BY <1>6, AsideEffect
  <2>2. TypeOK'
    BY <2>1 DEF TypeOK, setting, reports
  <2> QED
    BY <2>1, <2>2 DEF setting, reports, Balance, Mirrored, Astray, DrawsSorted
<1>7. CASE UNCHANGED vars
  BY <1>7 DEF vars, setting, history, reports, TypeOK, Balance, Mirrored, Astray, DrawsSorted
<1> QED
  BY <1>1, <1>2, <1>3, <1>4, <1>5, <1>6, <1>7 DEF Next, Aside

LEMMA AlwaysIInv == Spec => []IInv
BY StartsWell, StepsKeep, PTL DEF Spec

-----------------------------------------------------------------------------
\* Whatever is drawn, and whatever fails, the program is at one of its calls and
\* the interposers' counters are numbers (gl-trace.c:43-47, gl-fbo-trace.c:32-35).
THEOREM StackTyped == Spec => []TypeOK
<1>1. IInv => TypeOK
  BY DEF IInv
<1> QED
  BY <1>1, AlwaysIInv, PTL

\* What the tracers report of any program that keeps to StackAssumption follows from
\* what it did (gl-trace.c:88-115, gl-fbo-trace.c:103-180, 236-245): a FRAME line is
\* what was done between two glClear calls, and gl-fbo-trace.c's sums fall short of
\* the draws and frames of each target by the glDrawElements draws, and by what went
\* to the screen while the framebuffer it holds for bound was deleted, and by nothing
\* else.
THEOREM TracersTell == Spec => []ReportsTrue
<1>1. IInv => ReportsTrue
  <2> SUFFICES ASSUME IInv PROVE ReportsTrue
    OBVIOUS
  <2>1. FramesTold
    BY DEF IInv, Balance, FramesTold
  <2>2. DrawsSorted
    BY DEF IInv, Mirrored, DrawsSorted
  <2> QED
    BY <2>1, <2>2 DEF ReportsTrue
<1> QED
  BY <1>1, AlwaysIInv, PTL

-----------------------------------------------------------------------------
\* The buffers of vbo-respec-repro.c and tilerepro.c hold what their draws read.

\* The quads of a tile follow each other, and no tile lies past the last one.
LEMMA VboLayout ==
  ASSUME NEW k \in VboKnobs, NEW i \in Tiles(k)
  PROVE  /\ Lead <= FillAt(k, i) /\ FillAt(k, i) + 6 <= LayerAt(k, i)
         /\ LayerAt(k, i) + 6 <= FillAt(k, i + 1)
         /\ FillAt(k, i) \in Nat /\ LayerAt(k, i) \in Nat
         /\ LayerAt(k, i) <= LayerAt(k, k.n - 1)
BY DEF VboKnobs, Tiles, Lead, FillAt, LayerAt

\* vbo-respec-repro.c:144-145, 228-233, 262-273, 329-345: the data of a tile ends
\* before the next begins, and every draw of it ends 16 bytes before the buffer at
\* least, so that the modes that cut the buffer by 4 bytes or overwrite its last 16
\* take nothing a draw reads; the window's quads fit the small buffer too.
THEOREM VboReadsWithin ==
  ASSUME NEW k \in VboKnobs, NEW i \in Tiles(k), NEW more \in {-4, 0, 4}
  PROVE  /\ FillAt(k, i) + 6 <= LayerAt(k, i) /\ LayerAt(k, i) + 6 <= FillAt(k, i + 1)
         /\ (FillAt(k, i) + 6) * Vertex + 12 <= Big(k, more).size
         /\ (LayerAt(k, i) + 6) * Vertex + 12 <= Big(k, more).size
         /\ (6 * (i + 1) + 6) * Vertex <= Small(k).size
<1>1. (LayerAt(k, k.n - 1) + 6) * Vertex + 16 <= BigBytes(k) /\ BigBytes(k) \in Int
  <2>1. k.n - 1 \in Tiles(k)
    BY DEF VboKnobs, Tiles
  <2>2. LayerAt(k, k.n - 1) \in Nat
    BY <2>1, VboLayout
  <2> QED
    BY <2>2 DEF BigBytes, Vertex, VboKnobs
<1>2. Big(k, more).size = BigBytes(k) + more /\ Small(k).size = SmallBytes(k)
  BY DEF Big, Small, Data
<1>3. /\ (FillAt(k, i) + 6) * Vertex + 12 <= BigBytes(k) + more
      /\ (LayerAt(k, i) + 6) * Vertex + 12 <= BigBytes(k) + more
  <2>1. LayerAt(k, k.n - 1) \in Int
    BY DEF VboKnobs, LayerAt, FillAt, Lead
  <2> QED
    BY <1>1, <2>1, VboLayout DEF Vertex
<1>4. (6 * (i + 1) + 6) * Vertex <= SmallBytes(k)
  <2>1. CASE k.samesize
    <3>1. 6 * k.n + 2 <= LayerAt(k, k.n - 1)
      BY DEF VboKnobs, LayerAt, FillAt, Lead
    <3>2. i + 1 <= k.n /\ i \in Nat /\ k.n \in Nat /\ LayerAt(k, k.n - 1) \in Int
      BY DEF VboKnobs, Tiles, LayerAt, FillAt, Lead
    <3> QED
      BY <1>1, <2>1, <3>1, <3>2 DEF SmallBytes, Vertex
  <2>2. CASE ~k.samesize
    BY <2>2 DEF SmallBytes, Vertex, VboKnobs, Tiles
  <2> QED
    BY <2>1, <2>2
<1> QED
  BY <1>2, <1>3, <1>4, VboLayout

\* Rows of equal length do not pass the end of the last.
LEMMA TileFits ==
  ASSUME NEW n \in Nat, NEW per \in Nat, NEW i \in 0 .. n - 1
  PROVE  i * per \in Nat /\ i * per + per <= n * per
<1>1. i + 1 <= n /\ i \in Nat
  OBVIOUS
<1>2. (i + 1) * per = i * per + per
  BY <1>1
<1>3. (i + 1) * per <= n * per
  BY <1>1
<1> QED
  BY <1>1, <1>2, <1>3

\* tilerepro.c:118-149, 174-184: build() writes for each tile what its two draws
\* read, at the same offsets, and the buffer ends with the last tile.
THEOREM TileDrawsWithin ==
  ASSUME NEW k \in TileKnobs, NEW i \in 0 .. k.tiles - 1
  PROVE  LET o == i * (FillN(k) + FringeN(k))
         IN  /\ Shape(o, FillN(k), 0, Both) \in TileData(k).shapes
             /\ Shape(o + FillN(k), FringeN(k), 0, Both) \in TileData(k).shapes
             /\ (o + FillN(k) + FringeN(k)) * 8 <= TileData(k).size
<1> DEFINE per == FillN(k) + FringeN(k)
           o == i * per
<1>1. /\ FillN(k) \in Nat /\ FringeN(k) \in Nat /\ per \in Nat /\ k.tiles \in Nat
      /\ FillN(k) = 1 + Perimeter(k) + 1 /\ FringeN(k) = 2 * (Perimeter(k) + 1)
  BY DEF TileKnobs, FillN, FringeN, Perimeter
<1>2. TileData(k).size = 8 * (k.tiles * per) /\ TileData(k).shapes = TileShapes(k)
  BY <1>1 DEF TileData, Data
<1>3. o \in Nat /\ o + per <= k.tiles * per
  BY <1>1, TileFits
<1>4. Shape(o, FillN(k), 0, Both) \in TileShapes(k) /\ Shape(o + FillN(k), FringeN(k), 0, Both) \in TileShapes(k)
  BY <1>1, <1>3 DEF TileShapes
<1> HIDE DEF per
<1>5. k.tiles * per \in Nat
  BY <1>1
<1>6. (o + FillN(k) + FringeN(k)) * 8 <= TileData(k).size
  BY <1>1, <1>2, <1>3, <1>5 DEF per
<1> QED
  BY <1>2, <1>4, <1>6 DEF per

-----------------------------------------------------------------------------
\* Induction over the natural numbers, from the least counterexample.
LEMMA CountUp ==
  ASSUME NEW S, 0 \in S, \A n \in Nat : n \in S => n + 1 \in S
  PROVE  Nat \subseteq S
<1> DEFINE T == Nat \ S
           R == OpToRel(<, Nat)
<1> SUFFICES ASSUME T # {} PROVE FALSE
  OBVIOUS
<1>1. IsWellFoundedOn(R, Nat)
  BY NatLessThanWellFounded
<1>2. T \subseteq Nat
  OBVIOUS
<1> HIDE DEF R, T
<1>3. PICK x \in T : \A y \in T : ~ (<<y, x>> \in R)
  BY <1>1, <1>2, WFMin, Zenon
<1>4. x \in Nat /\ x \notin S
  BY <1>3 DEF T
<1>5. x # 0 /\ x - 1 \in Nat /\ x - 1 \notin S
  BY <1>4
<1>6. x - 1 \in T
  BY <1>5 DEF T
<1>7. <<x - 1, x>> \in R
  BY <1>4, <1>5 DEF R, OpToRel
<1> QED
  BY <1>3, <1>6, <1>7

\* The turns of a loop that is run n times.
Turns(turn, n) == n \in Nat /\ DOMAIN turn = 0 .. n - 1

Unrolled(done, turn, n) ==
  done[0] = <<>> /\ \A i \in 0 .. n - 1 : done[i + 1] = done[i] \o turn[i]

\* A loop of n turns concatenates them one after the other.
LEMMA LoopTurns ==
  ASSUME NEW n, NEW turn, Turns(turn, n)
  PROVE  \E done : Loop(turn) = done[n] /\ Unrolled(done, turn, n)
<1> DEFINE upto(m, g) == g = [i \in 0 .. m |-> IF i = 0 THEN <<>> ELSE g[i - 1] \o turn[i - 1]]
           S == {m \in Nat : \E g : upto(m, g)}
<1>0. n \in Nat /\ DOMAIN turn = 0 .. n - 1
  BY DEF Turns
<1>1. 0 \in S
  <2>1. upto(0, [i \in 0 .. 0 |-> <<>>])
    OBVIOUS
  <2> QED
    BY <2>1
<1>2. ASSUME NEW m \in Nat, m \in S PROVE m + 1 \in S
  <2>1. PICK g : upto(m, g)
    BY <1>2
  <2> DEFINE h == [i \in 0 .. m + 1 |-> IF i = m + 1 THEN g[m] \o turn[m] ELSE g[i]]
  <2>2. ASSUME NEW i \in 0 .. m + 1 PROVE h[i] = IF i = 0 THEN <<>> ELSE h[i - 1] \o turn[i - 1]
    <3>1. CASE i \in 0 .. m
      <4>1. g[i] = IF i = 0 THEN <<>> ELSE g[i - 1] \o turn[i - 1]
        BY <2>1, <3>1
      <4>2. h[i] = g[i] /\ (i # 0 => h[i - 1] = g[i - 1])
        BY <3>1
      <4> QED
        BY <4>1, <4>2
    <3>2. CASE i = m + 1
      <4>1. h[m + 1] = g[m] \o turn[m] /\ h[m] = g[m]
        OBVIOUS
      <4>2. i # 0 /\ i - 1 = m
        BY <3>2
      <4> HIDE DEF h
      <4> QED
        BY <3>2, <4>1, <4>2
    <3> QED
      BY <2>2, <3>1, <3>2
  <2>3. upto(m + 1, h)
    BY <2>2, Zenon
  <2>4. \E f : upto(m + 1, f)
    BY <2>3
  <2> HIDE DEF upto
  <2> QED
    BY <2>4
<1>3. n \in S
  <2> HIDE DEF S
  <2> QED
    BY <1>0, <1>1, <1>2, CountUp
<1>4. Cardinality(DOMAIN turn) = n
  BY <1>0, FS_Interval
<1> DEFINE done == CHOOSE g : upto(n, g)
<1>5. upto(n, done)
  BY <1>0, <1>3
<1>6. Loop(turn) = done[n]
  BY <1>4 DEF Loop
<1> HIDE DEF done
<1>7. Unrolled(done, turn, n)
  BY <1>0, <1>5 DEF Unrolled
<1> QED
  BY <1>6, <1>7

-----------------------------------------------------------------------------
\* The path along a sequence of calls, step by step.
IsSeq(s) == \E S : s \in Seq(S)

\* A path starts where it is told to, and each call moves it on.
LEMMA PathSteps ==
  ASSUME NEW s, IsSeq(s), NEW p
  PROVE  Path(s, p)[0] = p /\ \A i \in 1 .. Len(s) : Path(s, p)[i] = After(s[i], Path(s, p)[i - 1])
<1> DEFINE upto(m, g) == g = [i \in 0 .. m |-> IF i = 0 THEN p ELSE After(s[i], g[i - 1])]
           S == {m \in Nat : \E g : upto(m, g)}
<1>1. 0 \in S
  <2>1. upto(0, [i \in 0 .. 0 |-> p])
    OBVIOUS
  <2> QED
    BY <2>1
<1>2. ASSUME NEW m \in Nat, m \in S PROVE m + 1 \in S
  <2>1. PICK g : upto(m, g)
    BY <1>2
  <2> DEFINE h == [i \in 0 .. m + 1 |-> IF i = m + 1 THEN After(s[m + 1], g[m]) ELSE g[i]]
  <2>2. ASSUME NEW i \in 0 .. m + 1 PROVE h[i] = IF i = 0 THEN p ELSE After(s[i], h[i - 1])
    <3>1. CASE i \in 0 .. m
      <4>1. g[i] = IF i = 0 THEN p ELSE After(s[i], g[i - 1])
        BY <2>1, <3>1
      <4>2. h[i] = g[i] /\ (i # 0 => h[i - 1] = g[i - 1])
        BY <3>1
      <4> QED
        BY <4>1, <4>2
    <3>2. CASE i = m + 1
      BY <3>2
    <3> QED
      BY <2>2, <3>1, <3>2
  <2>3. upto(m + 1, h)
    BY <2>2, Zenon
  <2>4. \E f : upto(m + 1, f)
    BY <2>3
  <2> HIDE DEF upto
  <2> QED
    BY <2>4
<1>3. Len(s) \in S
  <2>1. Len(s) \in Nat
    BY DEF IsSeq
  <2> HIDE DEF S
  <2> QED
    BY <1>1, <1>2, <2>1, CountUp
<1> DEFINE before == CHOOSE g : upto(Len(s), g)
<1>4. upto(Len(s), before)
  BY <1>3
<1>5. Path(s, p) = before
  BY DEF Path
<1>6. Len(s) \in Nat
  BY DEF IsSeq
<1> HIDE DEF before
<1>7. before[0] = p /\ \A i \in 1 .. Len(s) : before[i] = After(s[i], before[i - 1])
  BY <1>4, <1>6
<1> QED
  BY <1>5, <1>7

Agree(f, g, s) == \A i \in 0 .. Len(s) : f[i] = g[i]
IsPath(f, s, p) == f[0] = p /\ \A i \in 1 .. Len(s) : f[i] = After(s[i], f[i - 1])

\* Whatever moves like the path is the path.
LEMMA PathIs ==
  ASSUME NEW s, IsSeq(s), NEW p, NEW f, IsPath(f, s, p)
  PROVE  Agree(Path(s, p), f, s)
<1> DEFINE n == Len(s)
<1> DEFINE S == {i \in Nat : i <= n => Path(s, p)[i] = f[i]}
<1>1. 0 \in S
  BY PathSteps DEF IsPath
<1>2. ASSUME NEW i \in Nat, i \in S PROVE i + 1 \in S
  <2> SUFFICES ASSUME i + 1 <= n PROVE Path(s, p)[i + 1] = f[i + 1]
    OBVIOUS
  <2>1. Path(s, p)[i] = f[i]
    BY <1>2
  <2>2. i + 1 \in 1 .. Len(s) /\ i + 1 \in 1 .. n /\ (i + 1) - 1 = i
    BY DEF IsSeq
  <2>3. Path(s, p)[i + 1] = After(s[i + 1], Path(s, p)[i])
    BY <2>2, PathSteps
  <2>4. f[i + 1] = After(s[i + 1], f[i])
    BY <2>2 DEF IsPath
  <2> QED
    BY <2>1, <2>3, <2>4
<1>3. Nat \subseteq S
  <2> HIDE DEF S
  <2> QED
    BY <1>1, <1>2, CountUp
<1> QED
  BY <1>3 DEF Agree

\* From the states P a sequence of calls, all of them proper, leads to the states Q.
Takes(s, P, Q, prg) == IsSeq(s) /\ \A p \in P : Keeps(s, p, prg) /\ Along(s, p) \in Q

\* Calls followed by calls are calls.
LEMMA JoinIsSeq ==
  ASSUME NEW s, IsSeq(s), NEW t, IsSeq(t)
  PROVE  /\ IsSeq(s \o t) /\ Len(s) \in Nat /\ Len(t) \in Nat /\ Len(s \o t) = Len(s) + Len(t)
         /\ \A i \in 1 .. Len(s) : (s \o t)[i] = s[i]
         /\ \A i \in 1 .. Len(t) : (s \o t)[Len(s) + i] = t[i]
<1>1. PICK S : s \in Seq(S)
  BY DEF IsSeq
<1>2. PICK T : t \in Seq(T)
  BY DEF IsSeq
<1>3. s \in Seq(S \cup T) /\ t \in Seq(S \cup T)
  BY <1>1, <1>2
<1>4. s \o t \in Seq(S \cup T)
  BY <1>3
<1>5. IsSeq(s \o t)
  BY <1>4 DEF IsSeq
<1> QED
  BY <1>3, <1>5

\* What one piece of a program establishes, the next may rely on.
LEMMA TakesJoin ==
  ASSUME NEW s, NEW t, NEW P, NEW Q, NEW R, NEW prg, Takes(s, P, Q, prg), Takes(t, Q, R, prg)
  PROVE  Takes(s \o t, P, R, prg)
<1> DEFINE m == Len(s)
           n == Len(t)
<1>0. /\ IsSeq(s) /\ IsSeq(t) /\ IsSeq(s \o t) /\ m \in Nat /\ n \in Nat /\ Len(s \o t) = m + n
      /\ \A i \in 1 .. m : (s \o t)[i] = s[i]
      /\ \A i \in 1 .. n : (s \o t)[m + i] = t[i]
  BY JoinIsSeq DEF Takes
<1> SUFFICES ASSUME NEW p \in P PROVE Keeps(s \o t, p, prg) /\ Along(s \o t, p) \in R
  BY <1>0 DEF Takes
<1> DEFINE q == Path(s, p)[m]
           f == [i \in 0 .. m + n |-> IF i <= m THEN Path(s, p)[i] ELSE Path(t, q)[i - m]]
<1>1. q \in Q /\ Keeps(s, p, prg)
  BY DEF Takes, Along
<1>2. Keeps(t, q, prg) /\ Path(t, q)[n] \in R
  BY <1>1 DEF Takes, Along
<1>3. Path(t, q)[0] = q /\ \A i \in 1 .. n : Path(t, q)[i] = After(t[i], Path(t, q)[i - 1])
  BY <1>0, PathSteps
<1>4. Path(s, p)[0] = p /\ \A i \in 1 .. m : Path(s, p)[i] = After(s[i], Path(s, p)[i - 1])
  BY <1>0, PathSteps
<1> HIDE DEF q, m, n
<1>5. \A i \in 0 .. m : f[i] = Path(s, p)[i]
  BY <1>0
<1>6. \A i \in 0 .. n : f[m + i] = Path(t, q)[i]
  BY <1>0, <1>3 DEF q
<1> HIDE DEF f
<1>7. ASSUME NEW i \in 1 .. m + n
      PROVE  f[i] = After((s \o t)[i], f[i - 1]) /\ Proper((s \o t)[i], f[i - 1], prg)
  <2>1. CASE i \in 1 .. m
    <3>1. f[i] = Path(s, p)[i] /\ f[i - 1] = Path(s, p)[i - 1] /\ (s \o t)[i] = s[i]
      <4>1. i \in 0 .. m /\ i - 1 \in 0 .. m
        BY <1>0, <2>1
      <4>2. (s \o t)[i] = s[i]
        BY <1>0, <2>1
      <4> QED
        BY <1>5, <4>1, <4>2
    <3>2. Proper(s[i], Path(s, p)[i - 1], prg)
      BY <1>1, <2>1 DEF Keeps, m
    <3> QED
      BY <1>4, <2>1, <3>1, <3>2
  <2>2. CASE i \notin 1 .. m
    <3>1. PICK j \in 1 .. n : i = m + j
      <4>1. i - m \in 1 .. n /\ i = m + (i - m)
        BY <1>0, <2>2
      <4> QED
        BY <4>1
    <3>2. j \in 0 .. n /\ j - 1 \in 0 .. n /\ i - 1 = m + (j - 1)
      BY <1>0, <3>1
    <3>3. f[i] = Path(t, q)[j] /\ f[i - 1] = Path(t, q)[j - 1] /\ (s \o t)[i] = t[j]
      BY <1>0, <1>6, <3>1, <3>2
    <3>4. Proper(t[j], Path(t, q)[j - 1], prg)
      BY <1>2, <3>1 DEF Keeps, n
    <3> QED
      BY <1>3, <3>1, <3>3, <3>4
  <2> QED
    BY <2>1, <2>2
<1>8. f[0] = p
  BY <1>0, <1>4, <1>5
<1>9. \A i \in 0 .. m + n : Path(s \o t, p)[i] = f[i]
  <2>1. IsPath(f, s \o t, p)
    BY <1>0, <1>7, <1>8 DEF IsPath
  <2>2. Agree(Path(s \o t, p), f, s \o t)
    BY <1>0, <2>1, PathIs
  <2> QED
    BY <1>0, <2>2 DEF Agree
<1>10. Along(s \o t, p) \in R
  <2>1. Path(s \o t, p)[m + n] = f[m + n] /\ f[m + n] = Path(t, q)[n]
    BY <1>0, <1>6, <1>9
  <2> QED
    BY <1>0, <1>2, <2>1 DEF Along
<1>11. Keeps(s \o t, p, prg)
  <2> SUFFICES ASSUME NEW i \in 1 .. m + n PROVE Proper((s \o t)[i], Path(s \o t, p)[i - 1], prg)
    BY <1>0 DEF Keeps
  <2>1. i - 1 \in 0 .. m + n
    BY <1>0
  <2> QED
    BY <1>7, <1>9, <2>1
<1> QED
  BY <1>10, <1>11

\* No call does nothing.
LEMMA TakesNothing ==
  ASSUME NEW P, NEW Q, NEW prg, P \subseteq Q
  PROVE  Takes(<<>>, P, Q, prg)
<1>1. IsSeq(<<>>) /\ Len(<<>>) = 0
  <2>1. <<>> \in Seq({})
    OBVIOUS
  <2> QED
    BY <2>1 DEF IsSeq
<1>2. ASSUME NEW p \in P PROVE Keeps(<<>>, p, prg) /\ Along(<<>>, p) = p
  BY <1>1, PathSteps DEF Keeps, Along
<1> QED
  BY <1>1, <1>2 DEF Takes

\* A single call, if it is proper.
LEMMA TakesOne ==
  ASSUME NEW c, NEW P, NEW Q, NEW prg, \A p \in P : Proper(c, p, prg) /\ After(c, p) \in Q
  PROVE  Takes(<<c>>, P, Q, prg)
<1>1. IsSeq(<<c>>) /\ Len(<<c>>) = 1 /\ <<c>>[1] = c
  <2>1. <<c>> \in Seq({c})
    OBVIOUS
  <2> QED
    BY <2>1 DEF IsSeq
<1>2. ASSUME NEW p \in P PROVE Keeps(<<c>>, p, prg) /\ Along(<<c>>, p) = After(c, p)
  BY <1>1, PathSteps DEF Keeps, Along
<1> QED
  BY <1>1, <1>2 DEF Takes

\* A loop whose every turn leads from the states it starts in to those of the next.
LEMMA TakesLoop ==
  ASSUME NEW n, NEW turn, Turns(turn, n), NEW P, NEW prg,
         \A i \in 0 .. n - 1 : Takes(turn[i], P[i], P[i + 1], prg)
  PROVE  Takes(Loop(turn), P[0], P[n], prg)
<1>0. n \in Nat
  BY DEF Turns
<1>1. PICK done : Loop(turn) = done[n] /\ Unrolled(done, turn, n)
  BY LoopTurns, Zenon
<1> DEFINE S == {i \in Nat : i <= n => Takes(done[i], P[0], P[i], prg)}
<1>2. 0 \in S
  BY <1>1, TakesNothing DEF Unrolled
<1>3. ASSUME NEW i \in Nat, i \in S PROVE i + 1 \in S
  <2> SUFFICES ASSUME i + 1 <= n PROVE Takes(done[i + 1], P[0], P[i + 1], prg)
    OBVIOUS
  <2>1. Takes(done[i], P[0], P[i], prg) /\ i \in 0 .. n - 1
    BY <1>0, <1>3
  <2>2. done[i + 1] = done[i] \o turn[i] /\ Takes(turn[i], P[i], P[i + 1], prg)
    BY <1>1, <2>1 DEF Unrolled
  <2> QED
    BY <2>1, <2>2, TakesJoin
<1>4. n \in S /\ n \in Nat
  <2> HIDE DEF S
  <2> QED
    BY <1>0, <1>2, <1>3, CountUp
<1> QED
  BY <1>1, <1>4

\* The same states before every turn.
LEMMA TakesLoopIn ==
  ASSUME NEW n, NEW turn, Turns(turn, n), NEW P, NEW prg,
         \A i \in 0 .. n - 1 : Takes(turn[i], P, P, prg)
  PROVE  Takes(Loop(turn), P, P, prg)
<1> DEFINE Ps == [i \in 0 .. n |-> P]
<1>1. \A i \in 0 .. n - 1 : Takes(turn[i], Ps[i], Ps[i + 1], prg)
  BY DEF Turns
<1>2. Takes(Loop(turn), Ps[0], Ps[n], prg)
  <2> HIDE DEF Ps
  <2> QED
    BY <1>1, TakesLoop
<1> QED
  BY <1>2 DEF Turns

\* Calls made on a condition that keep what holds.
LEMMA TakesWhen ==
  ASSUME NEW cond \in BOOLEAN, NEW s, NEW P, NEW Q, NEW prg,
         cond => Takes(s, P, Q, prg), ~cond => P \subseteq Q
  PROVE  Takes(When(cond, s), P, Q, prg)
BY TakesNothing DEF When

\* Relying on more, and promising less.
LEMMA TakesWithin ==
  ASSUME NEW s, NEW P, NEW Q, NEW PP, NEW QQ, NEW prg, Takes(s, PP, QQ, prg), P \subseteq PP, QQ \subseteq Q
  PROVE  Takes(s, P, Q, prg)
BY DEF Takes

-----------------------------------------------------------------------------
\* The context of GlStack stays with the path, whatever the driver does.

\* The context has the fields it started with.
Whole(g) == DOMAIN g = DOMAIN NewContext

\* The context is where the path says; or the program goes on without one, or, after a
\* release that failed, with the one it had.
Alike(g, p) ==
  /\ g.busy \subseteq p.busy /\ DOMAIN p.pic \subseteq DOMAIN g.pic
  /\ g.att = p.att /\ g.bound = p.bound /\ g.buf = p.buf /\ g.abuf = p.abuf
  /\ g.src = p.src /\ g.kind = p.kind /\ g.prog = p.prog /\ g.given = p.given
Same(g, p)  == Alike(g, p) /\ g.current = p.on /\ g.surface = p.surface
Apart(g, p) == p.adrift /\ ~g.current /\ g.busy = {} /\ g.surface = None
Loose(g, p) == p.adrift /\ ~p.on /\ Alike(g, p)
Follows(g, t, k, p) ==
  /\ t = p.target /\ p.surfaces \subseteq g.surfaces
  /\ Same(g, p) \/ Apart(g, p) \/ (k /\ Loose(g, p))

\* Only eglMakeCurrent(), when it succeeds, makes a context current or no longer so.
Steady == MakeCurrent \/ gl'.current = gl.current

\* The fields of a context after one of them is replaced.
LEMMA Fields1 ==
  DOMAIN NewContext =
    {"made", "current", "surface", "surfaces", "pic", "att", "busy", "bound", "buf", "abuf", "src",
     "kind", "detached", "prog", "given", "col", "moved", "view", "stencil", "fill"}
BY DEF NewContext

\* A context is only ever changed in some of its fields.
LEMMA WholeKept ==
  ASSUME NEW g, Whole(g), NEW f, NEW x
  PROVE  Whole([g EXCEPT ![f] = x])
BY DEF Whole

\* Calls on a current context: the driver's effect is that of the path.
LEMMA Tracked ==
  ASSUME NEW p, NEW new, Follows(gl, target, kept, p), Call.op \in GlOps, Followed(Call, p), Driver(new), kept' = kept,
         target' = After(Call, p).target, Same(gl, p) /\ gl.current => Same(new, After(Call, p)) /\ new.surfaces = gl.surfaces
  PROVE  Follows(gl', target', kept', After(Call, p)) /\ gl'.current = gl.current
<1>1. p.on /\ Call.op \notin {"eglMakeCurrent", "eglCreateSurface", "eglDestroySurface"}
  BY DEF Followed, GlOps, DrawOps
<1>2. /\ After(Call, p).surfaces = p.surfaces /\ After(Call, p).surface = p.surface
      /\ After(Call, p).on = p.on
      /\ After(Call, p).adrift = p.adrift \/ (After(Call, p).adrift <=> p.adrift)
  BY <1>1 DEF After
<1>3. CASE Same(gl, p)
  <2>1. gl.current
    BY <1>1, <1>3 DEF Same, Alike
  <2>2. gl' = new
    BY <2>1 DEF Driver
  <2>3. Same(new, After(Call, p)) => new.current = gl.current
    BY <1>2, <1>3 DEF Same, Alike
  <2> QED
    BY <1>2, <1>3, <2>1, <2>2, <2>3 DEF Follows
<1>4. CASE Apart(gl, p)
  <2>1. gl' = gl
    BY <1>4 DEF Apart, Driver
  <2>2. Apart(gl, After(Call, p))
    BY <1>2, <1>4 DEF Apart
  <2> QED
    BY <1>2, <2>1, <2>2 DEF Follows
<1> QED
  BY <1>1, <1>3, <1>4 DEF Follows, Loose

\* Rendering marks the target as busy, in the context and on the path.
LEMMA RenderedTracked ==
  ASSUME NEW g, Whole(g), NEW image, NEW content
  PROVE  LET r == Rendered(g, image, content)
         IN  /\ Whole(r) /\ r.busy = g.busy \cup {image} /\ DOMAIN g.pic \subseteq DOMAIN r.pic
             /\ \A f \in DOMAIN NewContext \ {"pic", "busy"} : r[f] = g[f]
<1>1. DOMAIN g.pic \subseteq DOMAIN Put(g.pic, image, content)
  BY DEF Put
<1> QED
  BY <1>1, Fields1 DEF Rendered, Whole

\* glClear.
LEMMA ClearTracked ==
  ASSUME NEW p, Whole(gl), Follows(gl, target, kept, p), Clear, Followed(Call, p)
  PROVE  Follows(gl', target', kept', After(Call, p)) /\ Whole(gl') /\ Steady
<1> DEFINE new == Cleared(gl, target, Call.colour)
<1>1. Call.op = "glClear" /\ Driver(new) /\ kept' = kept /\ target' = target
  BY DEF Clear, Calling, NextIs, history
<1>2. Call.op \in GlOps /\ target = p.target
  BY <1>1 DEF GlOps, Follows
<1>3. /\ Whole(new) /\ new.busy \subseteq gl.busy \cup {Image(gl, target)} /\ DOMAIN gl.pic \subseteq DOMAIN new.pic
      /\ \A f \in DOMAIN NewContext \ {"pic", "busy", "stencil"} : new[f] = gl[f]
  <2>1. CASE Image(gl, target) = None
    BY <2>1 DEF Cleared
  <2>2. CASE Image(gl, target) # None
    BY <2>2, RenderedTracked, Fields1 DEF Cleared, Whole
  <2> QED
    BY <2>1, <2>2
<1> HIDE DEF new
<1>4. Same(gl, p) => Same(new, After(Call, p)) /\ new.surfaces = gl.surfaces
  <2> SUFFICES ASSUME Same(gl, p) PROVE Same(new, After(Call, p)) /\ new.surfaces = gl.surfaces
    OBVIOUS
  <2>1. Image(gl, target) = Image(p, p.target)
    BY <1>2 DEF Same, Alike, Image
  <2> QED
    BY <1>1, <1>3, <2>1, Fields1 DEF Same, Alike, After, Created, Destroyed, Renders, Awaited, DrawOps
<1>5. target' = After(Call, p).target
  BY <1>1, <1>2 DEF After
<1> QED
  BY <1>1, <1>2, <1>3, <1>4, <1>5, Tracked DEF Driver, Steady
\* glDrawArrays and glDrawElements, on whichever driver.
LEMMA DrawTracked ==
  ASSUME NEW p, Whole(gl), Follows(gl, target, kept, p), Draw, Followed(Call, p)
  PROVE  Follows(gl', target', kept', After(Call, p)) /\ Whole(gl') /\ Steady
<1> DEFINE new == Drawn(gl, target, Call, driver)
<1>1. Call.op \in DrawOps /\ Driver(new) /\ kept' = kept /\ target' = target
  BY DEF Draw, Calling, NextIs, DrawOps, history
<1>2. Call.op \in GlOps /\ target = p.target
  BY <1>1 DEF GlOps, Follows
<1>3. /\ Whole(new) /\ new.busy \subseteq gl.busy \cup {Image(gl, target)} /\ DOMAIN gl.pic \subseteq DOMAIN new.pic
      /\ \A f \in DOMAIN NewContext \ {"pic", "busy", "stencil"} : new[f] = gl[f]
  <2>1. \/ new = gl
        \/ \E x : new = [gl EXCEPT !.stencil = x]
        \/ \E x, y : new = [Rendered(gl, Image(gl, target), x) EXCEPT !.stencil = y]
    <3>1. CASE Image(gl, target) = None \/ gl.prog = 0 \/ Dropped(gl, driver)
      BY <3>1 DEF Drawn
    <3>2. CASE ~(Image(gl, target) = None \/ gl.prog = 0 \/ Dropped(gl, driver)) /\ gl.fill = "mark"
      BY <3>2 DEF Drawn
    <3>3. CASE ~(Image(gl, target) = None \/ gl.prog = 0 \/ Dropped(gl, driver)) /\ gl.fill # "mark"
      BY <3>3 DEF Drawn
    <3> QED
      BY <3>1, <3>2, <3>3
  <2> HIDE DEF new
  <2>2. CASE new = gl
    BY <2>2
  <2>3. ASSUME NEW x, new = [gl EXCEPT !.stencil = x] PROVE <1>3!:
    BY <2>3, Fields1 DEF Whole
  <2>4. ASSUME NEW x, NEW y, new = [Rendered(gl, Image(gl, target), x) EXCEPT !.stencil = y] PROVE <1>3!:
    <3> DEFINE r == Rendered(gl, Image(gl, target), x)
    <3>1. /\ Whole(r) /\ r.busy = gl.busy \cup {Image(gl, target)} /\ DOMAIN gl.pic \subseteq DOMAIN r.pic
          /\ \A f \in DOMAIN NewContext \ {"pic", "busy"} : r[f] = gl[f]
      BY RenderedTracked
    <3> HIDE DEF r
    <3> QED
      BY <2>4, <3>1, Fields1 DEF Whole, r
  <2> QED
    BY <2>1, <2>2, <2>3, <2>4
<1> HIDE DEF new
<1>4. Same(gl, p) => Same(new, After(Call, p)) /\ new.surfaces = gl.surfaces
  <2> SUFFICES ASSUME Same(gl, p) PROVE Same(new, After(Call, p)) /\ new.surfaces = gl.surfaces
    OBVIOUS
  <2>1. Image(gl, target) = Image(p, p.target)
    BY <1>2 DEF Same, Alike, Image
  <2> QED
    BY <1>1, <1>3, <2>1, Fields1 DEF Same, Alike, After, Created, Destroyed, Renders, Awaited, DrawOps
<1>5. target' = After(Call, p).target
  BY <1>1, <1>2 DEF After, DrawOps
<1> QED
  BY <1>1, <1>2, <1>3, <1>4, <1>5, Tracked DEF Driver, Steady

\* A change of target loses pictures, and none of what the path keeps.
LEMMA RetargetTracked ==
  ASSUME NEW g, Whole(g), NEW old, NEW new
  PROVE  LET r == Retargeted(g, old, new, driver)
         IN  /\ Whole(r) /\ DOMAIN r.pic = DOMAIN g.pic
             /\ \A f \in DOMAIN NewContext \ {"pic", "moved", "stencil"} : r[f] = g[f]
<1> DEFINE left == Image(g, old)
           pic == IF Lost(g, left, driver) THEN Put(g.pic, left, Filled(left, "black")) ELSE g.pic
<1>1. DOMAIN pic = DOMAIN g.pic
  <2>1. Lost(g, left, driver) => left \in DOMAIN g.pic
    BY DEF Lost
  <2> QED
    BY <2>1 DEF Put
<1>2. CASE old = new
  BY <1>2 DEF Retargeted
<1>3. CASE old # new
  <2>1. Retargeted(g, old, new, driver) = [g EXCEPT !.moved = TRUE, !.stencil = {}, !.pic = pic]
    BY <1>3 DEF Retargeted
  <2> HIDE DEF pic
  <2> QED
    BY <1>1, <2>1, Fields1 DEF Whole
<1> QED
  BY <1>2, <1>3

\* glBindFramebuffer, the driver losing the old target's content or not.
LEMMA BindTracked ==
  ASSUME NEW p, Whole(gl), Follows(gl, target, kept, p), BindFramebuffer, Followed(Call, p)
  PROVE  Follows(gl', target', kept', After(Call, p)) /\ Whole(gl') /\ Steady
<1> DEFINE before == IF preload = "finish" /\ FinishesFirst(fbo, Call.fb) THEN Finished(gl) ELSE gl
           new == Retargeted(before, target, Call.fb, driver)
<1>1. Call.op = "glBindFramebuffer" /\ Driver(new) /\ kept' = kept /\ target' = Call.fb
  BY DEF BindFramebuffer, Calling, NextIs, history
<1>2. Call.op \in GlOps /\ target' = After(Call, p).target
  BY <1>1 DEF GlOps, After
<1>3. Whole(before) /\ before.busy \subseteq gl.busy /\ \A f \in DOMAIN NewContext \ {"busy"} : before[f] = gl[f]
  BY Fields1 DEF Finished, Whole
<1> HIDE DEF before
<1>4. /\ Whole(new) /\ DOMAIN new.pic = DOMAIN before.pic
      /\ \A f \in DOMAIN NewContext \ {"pic", "moved", "stencil"} : new[f] = before[f]
  BY <1>3, RetargetTracked
<1> HIDE DEF new
<1>5. Same(gl, p) => Same(new, After(Call, p)) /\ new.surfaces = gl.surfaces
  BY <1>1, <1>3, <1>4, Fields1 DEF Same, Alike, After, Created, Destroyed, Renders, Awaited, DrawOps
<1> QED
  BY <1>1, <1>2, <1>4, <1>5, Tracked DEF Driver, Steady

\* glDeleteFramebuffers, of the bound one too.
LEMMA DeleteFramebuffersTracked ==
  ASSUME NEW p, Whole(gl), Follows(gl, target, kept, p), DeleteFramebuffers, Followed(Call, p)
  PROVE  Follows(gl', target', kept', After(Call, p)) /\ Whole(gl') /\ Steady
<1> DEFINE moved == Retargeted(gl, target, target', driver)
           new == [moved EXCEPT !.att = Keep(@, DOMAIN @ \ {Call.fb})]
<1>1. Call.op = "glDeleteFramebuffers" /\ Driver(new) /\ kept' = kept /\ target' = IF target = Call.fb THEN 0 ELSE target
  BY DEF DeleteFramebuffers, Calling, NextIs, history
<1>2. Call.op \in GlOps /\ target' = After(Call, p).target
  BY <1>1 DEF GlOps, After, Follows
<1>3. /\ Whole(moved) /\ DOMAIN moved.pic = DOMAIN gl.pic
      /\ \A f \in DOMAIN NewContext \ {"pic", "moved", "stencil"} : moved[f] = gl[f]
  BY RetargetTracked
<1> HIDE DEF moved
<1>4. /\ Whole(new) /\ DOMAIN new.pic = DOMAIN gl.pic /\ new.att = Keep(gl.att, DOMAIN gl.att \ {Call.fb})
      /\ \A f \in DOMAIN NewContext \ {"pic", "moved", "stencil", "att"} : new[f] = gl[f]
  BY <1>3, Fields1 DEF Whole
<1> HIDE DEF new
<1>5. Same(gl, p) => Same(new, After(Call, p)) /\ new.surfaces = gl.surfaces
  BY <1>1, <1>4, Fields1 DEF Same, Alike, After, Created, Destroyed, Renders, Awaited, DrawOps
<1> QED
  BY <1>1, <1>2, <1>4, <1>5, Tracked DEF Driver, Steady

\* glBufferData.
LEMMA BufferDataTracked ==
  ASSUME NEW p, Whole(gl), Follows(gl, target, kept, p), BufferData, Followed(Call, p)
  PROVE  Follows(gl', target', kept', After(Call, p)) /\ Whole(gl') /\ Steady
<1> DEFINE new == Respecified(gl, Call.data)
<1>1. Call.op = "glBufferData" /\ Driver(new) /\ kept' = kept /\ target' = target
  BY DEF BufferData, Calling, NextIs, history
<1>2. Call.op \in GlOps /\ target' = After(Call, p).target
  BY <1>1 DEF GlOps, After, Follows
<1>3. /\ Whole(new) /\ new.buf = IF gl.abuf = 0 THEN gl.buf ELSE Put(gl.buf, gl.abuf, Call.data)
      /\ \A f \in DOMAIN NewContext \ {"buf", "moved"} : new[f] = gl[f]
  BY Fields1 DEF Respecified, Whole
<1> HIDE DEF new
<1>4. Same(gl, p) => Same(new, After(Call, p)) /\ new.surfaces = gl.surfaces
  BY <1>1, <1>3, Fields1 DEF Same, Alike, After, Created, Destroyed, Renders, Awaited, DrawOps
<1> QED
  BY <1>1, <1>2, <1>3, <1>4, Tracked DEF Driver, Steady

\* glTexImage2D, its content withheld or not.
LEMMA TexImageTracked ==
  ASSUME NEW p, Whole(gl), Follows(gl, target, kept, p), TexImage, Followed(Call, p)
  PROVE  Follows(gl', target', kept', After(Call, p)) /\ Whole(gl') /\ Steady
<1> DEFINE new == Allocated(gl, gl.bound, IF preload = "nulltex" THEN "undef" ELSE Call.colour)
<1>1. Call.op = "glTexImage2D" /\ Driver(new) /\ kept' = kept /\ target' = target
  BY DEF TexImage, Calling, NextIs, history
<1>2. Call.op \in GlOps /\ target' = After(Call, p).target
  BY <1>1 DEF GlOps, After, Follows
<1>3. /\ Whole(new) /\ DOMAIN new.pic = DOMAIN gl.pic \cup {gl.bound}
      /\ \A f \in DOMAIN NewContext \ {"pic"} : new[f] = gl[f]
  BY Fields1 DEF Allocated, Whole, Put
<1> HIDE DEF new
<1>4. Same(gl, p) => Same(new, After(Call, p)) /\ new.surfaces = gl.surfaces
  BY <1>1, <1>3, Fields1 DEF Same, Alike, After, Created, Destroyed, Renders, Awaited, DrawOps
<1> QED
  BY <1>1, <1>2, <1>3, <1>4, Tracked DEF Driver, Steady

\* glReadPixels.
LEMMA ReadPixelsTracked ==
  ASSUME NEW p, Whole(gl), Follows(gl, target, kept, p), ReadPixels, Followed(Call, p)
  PROVE  Follows(gl', target', kept', After(Call, p)) /\ Whole(gl') /\ Steady
<1> DEFINE new == ReadBack(gl, target)
<1>1. Call.op = "glReadPixels" /\ Driver(new) /\ kept' = kept /\ target' = target
  BY DEF ReadPixels, Calling, NextIs, history
<1>2. Call.op \in GlOps /\ target' = After(Call, p).target /\ target = p.target
  BY <1>1 DEF GlOps, After, Follows
<1>3. /\ Whole(new) /\ new.busy = gl.busy \ {Image(gl, target)}
      /\ \A f \in DOMAIN NewContext \ {"busy"} : new[f] = gl[f]
  BY Fields1 DEF ReadBack, Whole
<1> HIDE DEF new
<1>4. Same(gl, p) => Same(new, After(Call, p)) /\ new.surfaces = gl.surfaces
  <2> SUFFICES ASSUME Same(gl, p) PROVE Same(new, After(Call, p)) /\ new.surfaces = gl.surfaces
    OBVIOUS
  <2>1. Image(gl, target) = Image(p, p.target)
    BY <1>2 DEF Same, Alike, Image
  <2> QED
    BY <1>1, <1>3, <2>1, Fields1 DEF Same, Alike, After, Created, Destroyed, Renders, Awaited, DrawOps
<1> QED
  BY <1>1, <1>2, <1>3, <1>4, Tracked DEF Driver, Steady

\* Calls that set one value of the context.
LEMMA SetOneTracked ==
  ASSUME NEW p, Whole(gl), Follows(gl, target, kept, p), UseProgram \/ BindTexture \/ DetachShader, Followed(Call, p)
  PROVE  Follows(gl', target', kept', After(Call, p)) /\ Whole(gl') /\ Steady
<1> DEFINE new == IF Call.op = "glUseProgram" THEN [gl EXCEPT !.prog = Call.prog]
                  ELSE IF Call.op = "glBindTexture" THEN [gl EXCEPT !.bound = Call.image]
                  ELSE IF preload = "stub" THEN gl
                  ELSE [gl EXCEPT !.detached = @ \cup {Call.prog}]
<1>1. Call.op \in {"glUseProgram", "glBindTexture", "glDetachShader"} /\ Driver(new) /\ kept' = kept /\ target' = target
  BY DEF UseProgram, BindTexture, DetachShader, Calling, NextIs, history
<1>2. Call.op \in GlOps /\ target' = After(Call, p).target
  BY <1>1 DEF GlOps, After, Follows
<1>3. /\ Whole(new)
      /\ new.prog = IF Call.op = "glUseProgram" THEN Call.prog ELSE gl.prog
      /\ new.bound = IF Call.op = "glBindTexture" THEN Call.image ELSE gl.bound
      /\ \A f \in DOMAIN NewContext \ {"prog", "bound", "detached"} : new[f] = gl[f]
  BY <1>1, Fields1 DEF Whole
<1> HIDE DEF new
<1>4. Same(gl, p) => Same(new, After(Call, p)) /\ new.surfaces = gl.surfaces
  BY <1>1, <1>3, Fields1 DEF Same, Alike, After, Created, Destroyed, Renders, Awaited, DrawOps
<1> QED
  BY <1>1, <1>2, <1>3, <1>4, Tracked DEF Driver, Steady

\* The calls of SetState.
LEMMA SetStateTracked ==
  ASSUME NEW p, Whole(gl), Follows(gl, target, kept, p), SetState, Followed(Call, p)
  PROVE  Follows(gl', target', kept', After(Call, p)) /\ Whole(gl') /\ Steady
<1>1. Call.op \in StateOps /\ kept' = kept /\ target' = target
  BY DEF SetState, Calling, NextIs, history
<1>2. Call.op \in GlOps /\ target' = After(Call, p).target /\ target = p.target
  BY <1>1 DEF GlOps, StateOps, After, Follows
<1> DEFINE goal(new) == /\ Driver(new) /\ Whole(new)
                        /\ Same(gl, p) => Same(new, After(Call, p)) /\ new.surfaces = gl.surfaces
<1>3. SUFFICES \E new : goal(new)
  BY <1>1, <1>2, Tracked DEF Driver, Steady
<1>4. CASE Call.op = "glFinish"
  <2>1. Driver(Finished(gl))
    BY <1>4 DEF SetState
  <2>2. /\ Whole(Finished(gl)) /\ Finished(gl).busy = {}
        /\ \A f \in DOMAIN NewContext \ {"busy"} : Finished(gl)[f] = gl[f]
    BY Fields1 DEF Finished, Whole
  <2>3. goal(Finished(gl))
    BY <1>4, <2>1, <2>2, Fields1 DEF Same, Alike, After, Created, Destroyed, Renders, Awaited, DrawOps
  <2> QED
    BY <2>3
<1>5. CASE Call.op \in {"glViewport", "glStencil"}
  <2> DEFINE new == IF Call.op = "glViewport" THEN [gl EXCEPT !.view = Call.cell] ELSE [gl EXCEPT !.fill = Call.fill]
  <2>1. Driver(new)
    BY <1>5 DEF SetState
  <2>2. Whole(new) /\ \A f \in DOMAIN NewContext \ {"view", "fill"} : new[f] = gl[f]
    BY Fields1 DEF Whole
  <2> HIDE DEF new
  <2>3. goal(new)
    BY <1>5, <2>1, <2>2, Fields1 DEF Same, Alike, After, Created, Destroyed, Renders, Awaited, DrawOps
  <2> QED
    BY <2>3
<1>6. CASE Call.op = "glUniform"
  <2> DEFINE new == UniformSet(gl, Call.colour)
  <2>1. Driver(new)
    BY <1>6 DEF SetState
  <2>2. /\ Whole(new) /\ new.given = IF gl.prog = 0 THEN gl.given ELSE gl.given \cup {gl.prog}
        /\ \A f \in DOMAIN NewContext \ {"given", "col"} : new[f] = gl[f]
    BY Fields1 DEF UniformSet, Whole
  <2> HIDE DEF new
  <2>3. goal(new)
    BY <1>6, <2>1, <2>2, Fields1 DEF Same, Alike, After, Created, Destroyed, Renders, Awaited, DrawOps
  <2> QED
    BY <2>3
<1>7. CASE Call.op = "glBindBuffer"
  <2> DEFINE new == [gl EXCEPT !.abuf = Call.buffer]
  <2>1. Driver(new)
    BY <1>7 DEF SetState
  <2>2. Whole(new) /\ new.abuf = Call.buffer /\ \A f \in DOMAIN NewContext \ {"abuf"} : new[f] = gl[f]
    BY Fields1 DEF Whole
  <2> HIDE DEF new
  <2>3. goal(new)
    BY <1>7, <2>1, <2>2, Fields1 DEF Same, Alike, After, Created, Destroyed, Renders, Awaited, DrawOps
  <2> QED
    BY <2>3
<1>8. CASE Call.op = "glBufferSubData"
  <2> DEFINE new == SubData(gl, Call.data)
  <2>1. Driver(new)
    BY <1>8 DEF SetState
  <2>2. /\ Whole(new) /\ new.buf = Put(gl.buf, gl.abuf, [Call.data EXCEPT !.size = gl.buf[gl.abuf].size])
        /\ \A f \in DOMAIN NewContext \ {"buf"} : new[f] = gl[f]
    BY Fields1 DEF SubData, Whole
  <2> HIDE DEF new
  <2>3. p.abuf # 0
    BY <1>8 DEF Followed
  <2>4. goal(new)
    BY <1>8, <2>1, <2>2, <2>3, Fields1 DEF Same, Alike, After, Created, Destroyed, Renders, Awaited, DrawOps
  <2> QED
    BY <2>4
<1>9. CASE Call.op = "glVertexAttribPointer"
  <2> DEFINE new == Pointed(gl, Call.data, Call.stride)
  <2>1. Driver(new)
    BY <1>9 DEF SetState
  <2>2. /\ Whole(new) /\ new.src = [from |-> gl.abuf, data |-> Call.data, stride |-> Call.stride]
        /\ \A f \in DOMAIN NewContext \ {"src"} : new[f] = gl[f]
    BY Fields1 DEF Pointed, Whole
  <2> HIDE DEF new
  <2>3. goal(new)
    BY <1>9, <2>1, <2>2, Fields1 DEF Same, Alike, After, Created, Destroyed, Renders, Awaited, DrawOps
  <2> QED
    BY <2>3
<1>10. CASE Call.op = "glLinkProgram"
  <2> DEFINE new == Linked(gl, Call.prog, Call.kind)
  <2>1. Driver(new)
    BY <1>10 DEF SetState
  <2>2. /\ Whole(new) /\ new.kind = Put(gl.kind, Call.prog, Call.kind)
        /\ \A f \in DOMAIN NewContext \ {"kind"} : new[f] = gl[f]
    BY Fields1 DEF Linked, Whole
  <2> HIDE DEF new
  <2>3. goal(new)
    BY <1>10, <2>1, <2>2, Fields1 DEF Same, Alike, After, Created, Destroyed, Renders, Awaited, DrawOps
  <2> QED
    BY <2>3
<1>11. CASE Call.op = "glRenderbufferStorage"
  <2> DEFINE new == Allocated(gl, Call.image, "undef")
  <2>1. Driver(new)
    BY <1>11 DEF SetState
  <2>2. /\ Whole(new) /\ DOMAIN new.pic = DOMAIN gl.pic \cup {Call.image}
        /\ \A f \in DOMAIN NewContext \ {"pic"} : new[f] = gl[f]
    BY Fields1 DEF Allocated, Whole, Put
  <2> HIDE DEF new
  <2>3. goal(new)
    BY <1>11, <2>1, <2>2, Fields1 DEF Same, Alike, After, Created, Destroyed, Renders, Awaited, DrawOps
  <2> QED
    BY <2>3
<1>12. CASE Call.op = "glFramebufferAttach"
  <2> DEFINE new == Attached(gl, target, Call.image)
  <2>1. Driver(new)
    BY <1>12 DEF SetState
  <2>2. /\ Whole(new) /\ new.att = IF target = 0 THEN gl.att ELSE Put(gl.att, target, Call.image)
        /\ \A f \in DOMAIN NewContext \ {"att"} : new[f] = gl[f]
    BY Fields1 DEF Attached, Whole
  <2> HIDE DEF new
  <2>3. goal(new)
    BY <1>2, <1>12, <2>1, <2>2, Fields1 DEF Same, Alike, After, Created, Destroyed, Renders, Awaited, DrawOps
  <2> QED
    BY <2>3
<1>13. CASE Call.op = "glDeleteImage"
  <2> DEFINE new == Removed(gl, {Call.image})
  <2>1. Driver(new)
    BY <1>13 DEF SetState
  <2>2. /\ Whole(new) /\ DOMAIN new.pic = DOMAIN gl.pic \ {Call.image} /\ new.busy = gl.busy \ {Call.image}
        /\ new.bound = IF gl.bound = Call.image THEN None ELSE gl.bound
        /\ \A f \in DOMAIN NewContext \ {"pic", "busy", "bound"} : new[f] = gl[f]
    BY Fields1 DEF Removed, Whole, Keep
  <2> HIDE DEF new
  <2>3. goal(new)
    BY <1>13, <2>1, <2>2, Fields1 DEF Same, Alike, After, Created, Destroyed, Renders, Awaited, DrawOps
  <2> QED
    BY <2>3
<1> QED
  BY <1>1, <1>4, <1>5, <1>6, <1>7, <1>8, <1>9, <1>10, <1>11, <1>12, <1>13 DEF StateOps

\* An EGL call and the path.
EglMoved(c, p, q) ==
  /\ q.target = p.target /\ (p.adrift => q.adrift) /\ q.busy = p.busy
  /\ q.att = p.att /\ q.bound = p.bound /\ q.buf = p.buf /\ q.abuf = p.abuf /\ q.src = p.src
  /\ q.kind = p.kind /\ q.prog = p.prog /\ q.given = p.given
  /\ q.on = IF c.op = "eglMakeCurrent" THEN c.on ELSE p.on
  /\ q.surface = IF c.op = "eglMakeCurrent" THEN c.image ELSE p.surface
  /\ q.surfaces = IF c.op = "eglCreateSurface" THEN p.surfaces \cup {c.image}
                  ELSE IF c.op = "eglDestroySurface" THEN p.surfaces \ {c.image} ELSE p.surfaces
  /\ DOMAIN q.pic = IF c.op = "eglCreateSurface" THEN DOMAIN p.pic \cup {c.image}
                    ELSE IF c.op = "eglDestroySurface" THEN DOMAIN p.pic \ {c.image} ELSE DOMAIN p.pic

\* What an EGL call, done or failed, may have changed.
LEMMA EglAfter ==
  ASSUME NEW c, NEW p, c.op \in EglOps \cup {"verdict", "glGenVertexArraysOES"}
  PROVE  EglMoved(c, p, After(c, p))
<1>1. c.op \notin GlOps /\ c.op \notin DrawOps
  BY DEF EglOps, GlOps, DrawOps
<1>2. Renders(c, p) = {} /\ Awaited(c, p) = {}
  BY <1>1 DEF Renders, Awaited, GlOps
<1>3. /\ Created(c, p) = IF c.op = "eglCreateSurface" THEN {c.image} ELSE {}
      /\ Destroyed(c) = IF c.op = "eglDestroySurface" THEN {c.image} ELSE {}
  BY <1>1 DEF Created, Destroyed, GlOps
<1>4. p.busy = (p.busy \cup {}) \ {}
  OBVIOUS
<1> QED
  BY <1>1, <1>2, <1>3, <1>4 DEF EglMoved, After, GlOps, DrawOps

\* The EGL calls, whether they fail or not.
LEMMA EglTracked ==
  ASSUME NEW p, Whole(gl), Follows(gl, target, kept, p), Followed(Call, p),
         CreateContext \/ CreateSurface \/ MakeCurrent \/ SwapBuffers \/ DestroySurface \/ DestroyContext \/ EglSetup
  PROVE  Follows(gl', target', kept', After(Call, p)) /\ Whole(gl') /\ Steady
<1> DEFINE q == After(Call, p)
<1>1. target' = target /\ kept' = kept /\ Call.op \in EglOps
  BY DEF CreateContext, CreateSurface, MakeCurrent, SwapBuffers, DestroySurface, DestroyContext, EglSetup,
         EglCall, Calling, NextIs, EglOps, history
<1>2. EglMoved(Call, p, q)
  BY <1>1, EglAfter
<1> SUFFICES Follows(gl', target', kept', q) /\ Whole(gl') /\ Steady
  OBVIOUS
<1> HIDE DEF q
<1>3. CASE CreateContext \/ DestroyContext \/ EglSetup
  <2>1. Call.op \in {"eglCreateContext", "eglDestroyContext", "eglSetup"}
    BY <1>3 DEF CreateContext, DestroyContext, EglSetup, Calling, NextIs
  <2>2. gl' = gl \/ \E x : gl' = [gl EXCEPT !.made = x]
    BY <1>3 DEF CreateContext, DestroyContext, EglSetup, EglCall
  <2>3. Whole(gl') /\ \A f \in DOMAIN NewContext \ {"made"} : gl'[f] = gl[f]
    BY <2>2, Fields1 DEF Whole
  <2> QED
    BY <1>1, <1>2, <2>1, <2>3, Fields1 DEF EglMoved, Follows, Same, Alike, Apart, Loose, Steady
<1>4. CASE CreateSurface
  <2>1. Call.op = "eglCreateSurface" /\ gl' = SurfaceMade(gl, Call.image)
    BY <1>4 DEF CreateSurface, EglCall, Calling, NextIs
  <2>2. /\ Whole(gl') /\ gl'.surfaces = gl.surfaces \cup {Call.image} /\ DOMAIN gl'.pic = DOMAIN gl.pic \cup {Call.image}
        /\ \A f \in DOMAIN NewContext \ {"surfaces", "pic"} : gl'[f] = gl[f]
    BY <2>1, Fields1 DEF SurfaceMade, Whole, Put
  <2> QED
    BY <1>1, <1>2, <2>1, <2>2, Fields1 DEF EglMoved, Follows, Same, Alike, Apart, Loose, Steady
<1>5. CASE MakeCurrent
  <2>1. Call.op = "eglMakeCurrent" /\ gl' = MadeCurrent(gl, Call.image, Call.on)
    BY <1>5 DEF MakeCurrent, EglCall, Calling, NextIs
  <2>2. /\ Whole(gl') /\ gl'.current = Call.on /\ gl'.surface = Call.image
        /\ \A f \in DOMAIN NewContext \ {"current", "surface"} : gl'[f] = gl[f]
    BY <2>1, Fields1 DEF MadeCurrent, Whole
  <2>3. IF Call.on THEN ~p.adrift ELSE Call.image = None
    BY <2>1 DEF Followed
  <2>4. q.on = Call.on /\ q.surface = Call.image /\ (p.adrift => q.adrift) /\ q.surfaces = p.surfaces
    BY <1>2, <2>1 DEF EglMoved
  <2>5. Alike(gl, p) => Same(gl', q)
    BY <1>2, <2>1, <2>2, <2>4, Fields1 DEF EglMoved, Same, Alike
  <2>6. Apart(gl, p) => Apart(gl', q)
    BY <2>2, <2>3, <2>4, Fields1 DEF Apart
  <2> QED
    BY <1>1, <1>2, <1>5, <2>1, <2>2, <2>4, <2>5, <2>6, Fields1 DEF EglMoved, Follows, Same, Loose, Steady
<1>6. CASE SwapBuffers
  <2>1. Call.op = "eglSwapBuffers" /\ gl' = Swapped(gl)
    BY <1>6 DEF SwapBuffers, EglCall, Calling, NextIs
  <2>2. /\ Whole(gl') /\ DOMAIN gl'.pic = DOMAIN gl.pic \cup {gl.surface}
        /\ \A f \in DOMAIN NewContext \ {"pic"} : gl'[f] = gl[f]
    BY <2>1, Fields1 DEF Swapped, Whole, Put
  <2> QED
    BY <1>1, <1>2, <2>1, <2>2, Fields1 DEF EglMoved, Follows, Same, Alike, Apart, Loose, Steady
<1>7. CASE DestroySurface
  <2> DEFINE r == Removed(gl, {Call.image})
  <2>1. Call.op = "eglDestroySurface" /\ gl' = [r EXCEPT !.surfaces = @ \ {Call.image}]
    BY <1>7 DEF DestroySurface, EglCall, Calling, NextIs, SurfaceGone
  <2>2. /\ Whole(r) /\ DOMAIN r.pic = DOMAIN gl.pic \ {Call.image} /\ r.busy = gl.busy \ {Call.image}
        /\ r.bound = IF gl.bound = Call.image THEN None ELSE gl.bound
        /\ \A f \in DOMAIN NewContext \ {"pic", "busy", "bound"} : r[f] = gl[f]
    BY Fields1 DEF Removed, Whole, Keep
  <2> HIDE DEF r
  <2>3. /\ Whole(gl') /\ DOMAIN gl'.pic = DOMAIN gl.pic \ {Call.image} /\ gl'.busy = gl.busy \ {Call.image}
        /\ gl'.bound = IF gl.bound = Call.image THEN None ELSE gl.bound
        /\ gl'.surfaces = gl.surfaces \ {Call.image}
        /\ \A f \in DOMAIN NewContext \ {"pic", "busy", "bound", "surfaces"} : gl'[f] = gl[f]
    BY <2>1, <2>2, Fields1 DEF Whole
  <2>4. Call.image # p.bound
    BY <2>1 DEF Followed
  <2>5. /\ gl'.current = gl.current /\ gl'.surface = gl.surface /\ gl'.att = gl.att /\ gl'.buf = gl.buf
        /\ gl'.abuf = gl.abuf /\ gl'.src = gl.src /\ gl'.kind = gl.kind /\ gl'.prog = gl.prog /\ gl'.given = gl.given
    BY <2>3, Fields1
  <2>6. q.surfaces = p.surfaces \ {Call.image} /\ DOMAIN q.pic = DOMAIN p.pic \ {Call.image}
    BY <1>2, <2>1 DEF EglMoved
  <2>7. Same(gl, p) => Same(gl', q)
    BY <1>2, <2>1, <2>3, <2>4, <2>5, <2>6 DEF EglMoved, Same, Alike
  <2>8. Apart(gl, p) => Apart(gl', q)
    BY <1>2, <2>1, <2>3, <2>5 DEF EglMoved, Apart
  <2>9. Loose(gl, p) => Loose(gl', q)
    BY <1>2, <2>1, <2>3, <2>4, <2>5, <2>6 DEF EglMoved, Alike, Loose
  <2> QED
    BY <1>1, <1>2, <2>3, <2>5, <2>6, <2>7, <2>8, <2>9 DEF EglMoved, Follows, Steady
<1> QED
  BY <1>3, <1>4, <1>5, <1>6, <1>7

\* A call that fails leaves the context on the path, unless the program stops.
LEMMA FailTracked ==
  ASSUME NEW p, Whole(gl), Follows(gl, target, kept, p), EglFails, ~exited', Followed(Call, p)
  PROVE  Follows(gl', target', kept', After(Call, p)) /\ Whole(gl') /\ Steady
<1> DEFINE q == After(Call, p)
<1>1. Call.op \in EglOps /\ gl' = gl /\ target' = target /\ GoesOn(Call) /\ (kept => kept')
  BY DEF EglFails, Calling, NextIs, GoesOn
<1>2. EglMoved(Call, p, q)
  BY <1>1, EglAfter
<1>3. Call.op = "eglMakeCurrent" => q.adrift
  BY <1>1 DEF After
<1> SUFFICES Follows(gl', target', kept', q) /\ Whole(gl') /\ Steady
  OBVIOUS
<1> HIDE DEF q
<1>4. CASE Call.op = "eglMakeCurrent" /\ Call.on
  <2>1. ~p.adrift /\ ~p.on /\ p.busy = {} /\ p.surface = None
    BY <1>1, <1>4 DEF Followed
  <2>2. Apart(gl, q) /\ q.surfaces = p.surfaces
    BY <1>1, <1>2, <1>3, <1>4, <2>1 DEF EglMoved, Follows, Same, Alike, Apart, Loose
  <2> QED
    BY <1>1, <1>2, <2>2 DEF Follows, EglMoved, Steady
<1>5. CASE Call.op = "eglMakeCurrent" /\ ~Call.on
  <2>1. kept' /\ ~q.on /\ q.adrift
    BY <1>1, <1>2, <1>3, <1>5 DEF EglFails, EglMoved, GoesOn
  <2>2. Alike(gl, p) => Loose(gl, q)
    BY <1>2, <1>5, <2>1 DEF EglMoved, Alike, Loose
  <2>3. Apart(gl, p) => Apart(gl, q)
    BY <2>1 DEF Apart
  <2> QED
    BY <1>1, <1>2, <1>5, <2>1, <2>2, <2>3 DEF Follows, EglMoved, Same, Loose, Steady
<1>6. CASE Call.op # "eglMakeCurrent"
  <2>1. Call.op # "eglCreateSurface" /\ (Call.op = "eglDestroySurface" => Call.image # p.bound)
    BY <1>1 DEF Followed
  <2>2. q.surfaces \subseteq p.surfaces /\ DOMAIN q.pic \subseteq DOMAIN p.pic
    BY <1>2, <2>1 DEF EglMoved
  <2>3. q.on = p.on /\ q.surface = p.surface
    BY <1>2, <1>6 DEF EglMoved
  <2>4. Alike(gl, p) => Alike(gl, q)
    BY <1>2, <2>2 DEF EglMoved, Alike
  <2>5. /\ Same(gl, p) => Same(gl, q)
        /\ Apart(gl, p) => Apart(gl, q)
        /\ Loose(gl, p) => Loose(gl, q)
    BY <1>2, <2>3, <2>4 DEF EglMoved, Same, Apart, Loose
  <2> QED
    BY <1>1, <1>2, <2>2, <2>5 DEF EglMoved, Follows, Steady
<1> QED
  BY <1>1, <1>4, <1>5, <1>6

\* The calls that change nothing the path knows of.
LEMMA NothingTracked ==
  ASSUME NEW p, Whole(gl), Follows(gl, target, kept, p), GenVertexArrays \/ Report, Followed(Call, p)
  PROVE  Follows(gl', target', kept', After(Call, p)) /\ Whole(gl') /\ Steady
<1> DEFINE q == After(Call, p)
<1>1. Call.op \in {"glGenVertexArraysOES", "verdict"} /\ gl' = gl /\ kept' = kept /\ target' = target
  BY DEF GenVertexArrays, Report, Calling, NextIs, history
<1>2. EglMoved(Call, p, q)
  BY <1>1, EglAfter
<1> SUFFICES Follows(gl', target', kept', q) /\ Whole(gl') /\ Steady
  OBVIOUS
<1> HIDE DEF q
<1> QED
  BY <1>1, <1>2 DEF EglMoved, Follows, Same, Alike, Apart, Loose, Steady

\* One step of the program is one step of its path.
Advance ==
  \/ Clear \/ Draw \/ BindFramebuffer \/ DeleteFramebuffers
  \/ BufferData \/ UseProgram \/ BindTexture \/ TexImage
  \/ DetachShader \/ GenVertexArrays \/ ReadPixels \/ SetState \/ Report
  \/ CreateContext \/ CreateSurface \/ MakeCurrent \/ SwapBuffers
  \/ DestroySurface \/ DestroyContext \/ EglSetup \/ EglFails

\* Every call, done or failed, keeps the context and the path together.
LEMMA AdvanceTracked ==
  ASSUME NEW p, Whole(gl), Follows(gl, target, kept, p), Advance, ~exited', Followed(Call, p)
  PROVE  Follows(gl', target', kept', After(Call, p)) /\ Whole(gl') /\ Steady
BY ClearTracked, DrawTracked, BindTracked, DeleteFramebuffersTracked, BufferDataTracked, TexImageTracked,
   ReadPixelsTracked, SetOneTracked, SetStateTracked, EglTracked, FailTracked, NothingTracked DEF Advance

\* Every call is the next of the same program.
LEMMA AdvanceCalls ==
  ASSUME Advance
  PROVE  at' = at + 1 /\ Running /\ UNCHANGED setting
<1>1. \E ops : Calling(ops)
  BY DEF Advance, Clear, Draw, BindFramebuffer, DeleteFramebuffers, BufferData, UseProgram, BindTexture, TexImage,
         DetachShader, GenVertexArrays, ReadPixels, SetState, Report, CreateContext, CreateSurface, MakeCurrent,
         SwapBuffers, DestroySurface, DestroyContext, EglSetup, EglFails
<1> QED
  BY <1>1 DEF Calling, NextIs

-----------------------------------------------------------------------------
\* So GlStack's program is on its path for as long as it runs.

\* A program whose calls are proper along their path; a free one makes no call that destroys.
Paved(a) ==
  IF a.name = "free" THEN \A i \in 1 .. Len(Code(a)) : ~Destroys(Code(a)[i])
  ELSE IsSeq(Code(a)) /\ Keeps(Code(a), Fresh, a)

OnPath ==
  app.name # "free" /\ ~exited => Whole(gl) /\ Follows(gl, target, kept, Path(code, Fresh)[at - 1])

\* The call a program is at is one of its calls.
LEMMA CallIsOfProgram ==
  ASSUME \A a \in Apps : Paved(a), TypeOK, Running
  PROVE  Paved(app) /\ code = Code(app) /\ Len(code) \in Nat /\ at \in 1 .. Len(code)
<1>1. app \in Apps /\ code = Code(app) /\ at \in 1 .. Len(code) + 1
  BY DEF TypeOK
<1>2. Paved(app)
  BY <1>1, Zenon
<1>3. Len(code) \in Nat
  BY <1>1, StackAssumption
<1> QED
  BY <1>1, <1>2, <1>3 DEF Running

\* The program starts on its path.
LEMMA StartsOnPath ==
  ASSUME \A a \in Apps : Paved(a), Init
  PROVE  OnPath
<1>1. Whole(gl)
  BY DEF Init, Whole
<1>2. app.name # "free" => Path(code, Fresh)[at - 1] = Fresh
  <2>1. SUFFICES ASSUME app.name # "free" PROVE Path(code, Fresh)[at - 1] = Fresh
    OBVIOUS
  <2>2. IsSeq(code) /\ at - 1 = 0
    BY <2>1 DEF Init, Paved
  <2> QED
    BY <2>2, PathSteps
<1>3. Follows(gl, target, kept, Fresh)
  BY DEF Init, Follows, Same, Alike, Fresh, NewContext
<1> QED
  BY <1>1, <1>2, <1>3 DEF OnPath

\* The call a program is at is proper where its path has come to.
LEMMA PathProper ==
  ASSUME \A a \in Apps : Paved(a), TypeOK, Running, app.name # "free"
  PROVE  /\ Proper(Call, Path(code, Fresh)[at - 1], app)
         /\ Path(code, Fresh)[at] = After(Call, Path(code, Fresh)[at - 1])
<1>1. Paved(app) /\ code = Code(app) /\ at \in 1 .. Len(code)
  BY CallIsOfProgram
<1>2. IsSeq(code) /\ Keeps(code, Fresh, app)
  BY <1>1 DEF Paved
<1> QED
  BY <1>1, <1>2, PathSteps DEF Keeps, Call

\* A step of the program is a step along its path.
LEMMA StaysOnPath ==
  ASSUME \A a \in Apps : Paved(a), TypeOK, OnPath, [Next]_vars
  PROVE  OnPath'
<1> SUFFICES ASSUME app'.name # "free", ~exited'
             PROVE  Whole(gl') /\ Follows(gl', target', kept', Path(code', Fresh)[at' - 1])
  BY DEF OnPath
<1>1. CASE Advance
  <2> DEFINE p == Path(code, Fresh)[at - 1]
  <2>1. at' = at + 1 /\ Running /\ UNCHANGED setting
    BY <1>1, AdvanceCalls
  <2>2. app.name # "free" /\ ~exited /\ code' = code
    BY <2>1 DEF setting, Running
  <2>3. Whole(gl) /\ Follows(gl, target, kept, p)
    BY <2>2 DEF OnPath
  <2>4. Proper(Call, p, app) /\ Path(code, Fresh)[at] = After(Call, p)
    BY <2>1, <2>2, PathProper
  <2>5. at' - 1 = at
    BY <2>1, StackAssumption DEF TypeOK
  <2> HIDE DEF p
  <2>6. Follows(gl', target', kept', After(Call, p)) /\ Whole(gl')
    BY <1>1, <2>3, <2>4, AdvanceTracked DEF Proper
  <2> QED
    BY <2>2, <2>4, <2>5, <2>6
<1>2. CASE UNCHANGED vars
  BY <1>2 DEF OnPath, vars, setting, history
<1> QED
  BY <1>1, <1>2 DEF Next, Advance, Ended

\* So it stays on its path for as long as it runs.
LEMMA AlwaysOnPath ==
  ASSUME \A a \in Apps : Paved(a)
  PROVE  Spec => [](TypeOK /\ OnPath)
<1>1. Init => OnPath
  BY StartsOnPath
<1>2. TypeOK /\ OnPath /\ [Next]_vars => OnPath'
  BY StaysOnPath
<1> QED
  BY <1>1, <1>2, StackTyped, PTL DEF Spec

LEMMA PavedDrawsReady ==
  ASSUME \A a \in Apps : Paved(a)
  PROVE  Spec => []DrawsReady
<1>1. TypeOK /\ OnPath => DrawsReady
  <2> SUFFICES ASSUME TypeOK, OnPath, NextIs(DrawOps), gl.current, app.name # "free"
               PROVE  /\ (app.name = "tri" /\ app.rebind /\ ~app.unif) \/ UniformsGiven(gl)
                      /\ ReadsWithin(gl, Call) /\ DrawsOneShape(gl, Call) /\ SamplesOther(gl, target)
    BY DEF DrawsReady, DrawOps
  <2> DEFINE p == Path(code, Fresh)[at - 1]
  <2>1. Running /\ ~exited /\ Call.op \in DrawOps
    BY DEF NextIs, Running
  <2>2. Proper(Call, p, app) /\ Follows(gl, target, kept, p)
    BY <2>1, PathProper DEF OnPath
  <2> HIDE DEF p
  <2>3. target = p.target /\ Same(gl, p)
    <3>1. p.on
      BY <2>1, <2>2 DEF Proper, Followed, GlOps
    <3> QED
      BY <2>2, <3>1 DEF Follows, Apart, Loose
  <2>4. /\ (app.name = "tri" /\ app.rebind /\ ~app.unif) \/ UniformsGiven(p)
        /\ ReadsWithin(p, Call) /\ DrawsOneShape(p, Call) /\ SamplesOther(p, p.target)
    BY <2>1, <2>2 DEF Proper, Ready
  <2>5. UniformsGiven(p) <=> UniformsGiven(gl)
    BY <2>3 DEF Same, Alike, UniformsGiven
  <2>6. Source(p) = Source(gl) /\ p.src = gl.src
    BY <2>3 DEF Same, Alike, Source
  <2>7. Image(p, p.target) = Image(gl, target)
    BY <2>3 DEF Same, Alike, Image
  <2>8. SamplesOther(gl, target)
    BY <2>3, <2>4, <2>7 DEF Same, Alike, SamplesOther
  <2> QED
    BY <2>4, <2>5, <2>6, <2>8 DEF ReadsWithin, DrawsOneShape
<1> QED
  BY <1>1, AlwaysOnPath, PTL

LEMMA PavedTeardown ==
  ASSUME \A a \in Apps : Paved(a)
  PROVE  Spec => []QuietTeardown
<1>1. TypeOK /\ OnPath => QuietTeardown
  <2> DEFINE Ends == {"eglDestroySurface", "glDeleteImage", "eglDestroyContext"}
  <2>1. SUFFICES ASSUME TypeOK, OnPath, NextIs(Ends)
                 PROVE  QuietTeardown
    BY DEF QuietTeardown, NextIs
  <2>2. Running /\ ~exited /\ Call.op \in Ends
    BY <2>1 DEF NextIs, Running
  <2>3. app.name # "free"
    <3>1. Paved(app) /\ code = Code(app) /\ at \in 1 .. Len(code)
      BY <2>1, <2>2, CallIsOfProgram
    <3> HIDE DEF Ends
    <3>2. app.name = "free" => Call.op \notin Ends
      BY <3>1 DEF Paved, Destroys, Call, Ends
    <3> QED
      BY <2>2, <3>2
  <2> DEFINE p == Path(code, Fresh)[at - 1]
  <2>4. Proper(Call, p, app) /\ Follows(gl, target, kept, p)
    BY <2>1, <2>2, <2>3, PathProper DEF OnPath
  <2> HIDE DEF p
  <2>5. p.surfaces \subseteq gl.surfaces /\ (kept \/ gl.surface = p.surface \/ gl.surface = None)
    BY <2>4 DEF Follows, Same, Apart
  <2>6. gl.busy \subseteq p.busy /\ (gl.current => p.on \/ kept)
    BY <2>4 DEF Follows, Same, Alike, Apart, Loose
  <2> QED
    BY <2>2, <2>4, <2>5, <2>6 DEF QuietTeardown, NextIs, Proper, Ready
<1> QED
  BY <1>1, AlwaysOnPath, PTL

-----------------------------------------------------------------------------
\* So a verdict is about what was seen: a program that read something back and
\* found it right has a context when it says so.
ReadBefore == \E i \in 1 .. at - 1 : code[i].op = "glReadPixels"

\* PASS, after at least one read-back, is printed with a context current, although
\* not every program checks that eglMakeCurrent() succeeded.
VerdictSeen ==
  NextIs({"verdict"}) /\ app.name # "free" /\ ReadBefore /\ pass => gl.current

\* What was read before was read by a program that a failed eglMakeCurrent() stops,
\* or after the only one of the program.
Seeing ==
  app.name # "free" /\ ~exited /\ ReadBefore =>
    LET p == Path(code, Fresh)[at - 1]
    IN  /\ p.adrift \/ app.name = "vbo"
        /\ p.on /\ pass => gl.current

\* No call makes a test pass that had failed before, and without a context none
\* reads anything but black.
LEMMA PassFalls ==
  ASSUME Advance
  PROVE  /\ pass' => pass
         /\ Call.op = "glReadPixels" /\ "black" \notin Call.want /\ pass' => gl.current
<1>1. CASE ReadPixels
  <2>1. pass' = (pass /\ (IF gl.current THEN Pixel(gl, target, Call.x) ELSE "black") \in Call.want)
    BY <1>1 DEF ReadPixels
  <2> QED
    BY <2>1, Zenon
<1>2. CASE ~ReadPixels
  <2>1. pass' = pass /\ Call.op # "glReadPixels"
    BY <1>2 DEF Advance, Clear, Draw, BindFramebuffer, DeleteFramebuffers, BufferData, UseProgram, BindTexture,
         TexImage, DetachShader, GenVertexArrays, SetState, StateOps, Report, CreateContext, CreateSurface, MakeCurrent,
         SwapBuffers, DestroySurface, DestroyContext, EglSetup, EglFails, EglCall, EglOps, Calling, NextIs
  <2> QED
    BY <2>1
<1> QED
  BY <1>1, <1>2

\* A call of the program keeps it seeing.
LEMMA AdvanceSees ==
  ASSUME NEW p, Whole(gl), Follows(gl, target, kept, p), Advance, ~exited', Proper(Call, p, app),
         pass \in BOOLEAN, NEW before \in BOOLEAN,
         before => (p.adrift \/ app.name = "vbo") /\ (p.on /\ pass => gl.current),
         before \/ Call.op = "glReadPixels"
  PROVE  LET q == After(Call, p)
         IN  (q.adrift \/ app.name = "vbo") /\ (q.on /\ pass' => gl'.current)
<1> DEFINE q == After(Call, p)
<1>1. Steady /\ Whole(gl')
  BY AdvanceTracked DEF Proper
<1>2. p.adrift => q.adrift
  BY DEF After
<1>3. CASE Call.op = "glReadPixels"
  <2>1. q.on = p.on /\ (p.adrift \/ app.name = "vbo") /\ "black" \notin Call.want
    BY <1>3 DEF After, Proper, Judges
  <2>2. gl'.current = gl.current
    BY <1>1, <1>3 DEF Steady, MakeCurrent, Calling, NextIs
  <2> QED
    BY <1>2, <1>3, <2>1, <2>2, PassFalls
<1>4. CASE Call.op # "glReadPixels" /\ Call.op # "eglMakeCurrent"
  <2>1. q.on = p.on
    BY <1>4 DEF After
  <2>2. gl'.current = gl.current
    BY <1>1, <1>4 DEF Steady, MakeCurrent, Calling, NextIs
  <2> QED
    BY <1>2, <1>4, <2>1, <2>2, PassFalls
<1>5. CASE Call.op = "eglMakeCurrent" /\ MakeCurrent
  <2>1. gl'.current = Call.on /\ q.on = Call.on
    BY <1>5, Fields1 DEF MakeCurrent, EglCall, MadeCurrent, After, Whole
  <2> QED
    BY <1>2, <1>5, <2>1
<1>6. CASE Call.op = "eglMakeCurrent" /\ ~MakeCurrent
  <2>1. EglFails
    BY <1>6 DEF Advance, Clear, Draw, BindFramebuffer, DeleteFramebuffers, BufferData, UseProgram, BindTexture,
         TexImage, DetachShader, GenVertexArrays, ReadPixels, SetState, StateOps, Report, CreateContext, CreateSurface,
         SwapBuffers, DestroySurface, DestroyContext, EglSetup, Calling, NextIs
  <2>2. GoesOn(Call)
    BY <2>1 DEF EglFails, GoesOn
  <2>3. CASE Call.on
    BY <1>6, <2>2, <2>3 DEF Proper, Followed, Judges
  <2>4. CASE ~Call.on
    BY <1>6, <2>2, <2>4 DEF After
  <2> QED
    BY <2>3, <2>4
<1> QED
  BY <1>3, <1>4, <1>5, <1>6

LEMMA SeeingKept ==
  ASSUME \A a \in Apps : Paved(a), TypeOK, OnPath, Seeing, [Next]_vars
  PROVE  Seeing'
<1>1. CASE Advance
  <2> DEFINE p == Path(code, Fresh)[at - 1]
  <2>0. SUFFICES ASSUME app'.name # "free", ~exited', ReadBefore'
                 PROVE  LET q == Path(code', Fresh)[at' - 1]
                        IN  (q.adrift \/ app'.name = "vbo") /\ (q.on /\ pass' => gl'.current)
    BY DEF Seeing
  <2>1. at' = at + 1 /\ Running /\ UNCHANGED setting /\ at \in Nat /\ pass \in BOOLEAN
    BY <1>1, AdvanceCalls, StackAssumption DEF TypeOK
  <2>2. app' = app /\ code' = code /\ ~exited /\ at' - 1 = at
    BY <2>1 DEF setting, Running
  <2>3. Whole(gl) /\ Follows(gl, target, kept, p) /\ Proper(Call, p, app) /\ Path(code, Fresh)[at] = After(Call, p)
    BY <2>0, <2>1, <2>2, PathProper DEF OnPath
  <2>4. ReadBefore => (p.adrift \/ app.name = "vbo") /\ (p.on /\ pass => gl.current)
    BY <2>0, <2>2 DEF Seeing
  <2>5. ReadBefore \/ Call.op = "glReadPixels"
    <3>1. PICK i \in 1 .. at : code[i].op = "glReadPixels"
      BY <2>0, <2>2 DEF ReadBefore
    <3>2. i = at \/ i \in 1 .. at - 1
      BY <2>1
    <3> QED
      BY <3>1, <3>2 DEF ReadBefore, Call
  <2> HIDE DEF p
  <2>6. ReadBefore \in BOOLEAN
    BY DEF ReadBefore
  <2>7. LET q == After(Call, p) IN (q.adrift \/ app.name = "vbo") /\ (q.on /\ pass' => gl'.current)
    BY <1>1, <2>0, <2>1, <2>3, <2>4, <2>5, <2>6, AdvanceSees
  <2> QED
    BY <2>2, <2>3, <2>7
<1>2. CASE UNCHANGED vars
  BY <1>2 DEF Seeing, ReadBefore, vars, setting
<1> QED
  BY <1>1, <1>2 DEF Next, Advance, Ended

LEMMA PavedVerdictSeen ==
  ASSUME \A a \in Apps : Paved(a)
  PROVE  Spec => []VerdictSeen
<1>1. Init => Seeing
  BY DEF Init, Seeing, ReadBefore
<1>2. TypeOK /\ OnPath /\ Seeing /\ [Next]_vars => Seeing'
  BY SeeingKept
<1>3. TypeOK /\ OnPath /\ Seeing => VerdictSeen
  <2> SUFFICES ASSUME TypeOK, OnPath, Seeing, NextIs({"verdict"}), app.name # "free", ReadBefore, pass
               PROVE  gl.current
    BY DEF VerdictSeen
  <2> DEFINE p == Path(code, Fresh)[at - 1]
  <2>1. Running /\ ~exited /\ Call.op = "verdict"
    BY DEF NextIs, Running
  <2>2. Proper(Call, p, app) /\ (p.on /\ pass => gl.current)
    BY <2>1, PathProper DEF Seeing
  <2> HIDE DEF p
  <2> QED
    BY <2>1, <2>2 DEF Proper, Judges
<1> QED
  BY <1>1, <1>2, <1>3, AlwaysOnPath, StackTyped, PTL DEF Spec

-----------------------------------------------------------------------------
\* What each call needs and what it leads to, over sets of states.

Images == {"surface", "texture", "renderbuffer", "none"} \X Int
Pics(low) == {[x \in D |-> "any"] : D \in {E \in SUBSET Images : low \subseteq E}}
Givens(low) == {G \in SUBSET Nat : low \subseteq G}

\* The states of the path whose fields are among those of S: at least the images
\* S.pic made and the uniforms S.given, at most the images S.busy rendered to.
States(S) ==
  [on : S.on, adrift : S.adrift, target : S.target, surface : S.surface,
   surfaces : S.surfaces, att : S.att, pic : Pics(S.pic), busy : SUBSET S.busy,
   bound : S.bound, buf : S.buf, abuf : S.abuf, src : S.src, kind : S.kind, prog : S.prog,
   given : Givens(S.given)]
Grows(S, T, F) ==
  /\ "on" \in F \/ S.on \subseteq T.on
  /\ "adrift" \in F \/ S.adrift \subseteq T.adrift
  /\ "target" \in F \/ S.target \subseteq T.target
  /\ "surface" \in F \/ S.surface \subseteq T.surface
  /\ "surfaces" \in F \/ S.surfaces \subseteq T.surfaces
  /\ "att" \in F \/ S.att \subseteq T.att
  /\ "bound" \in F \/ S.bound \subseteq T.bound
  /\ "buf" \in F \/ S.buf \subseteq T.buf
  /\ "abuf" \in F \/ S.abuf \subseteq T.abuf
  /\ "src" \in F \/ S.src \subseteq T.src
  /\ "kind" \in F \/ S.kind \subseteq T.kind
  /\ "prog" \in F \/ S.prog \subseteq T.prog
  /\ "busy" \in F \/ S.busy \subseteq T.busy
  /\ "pic" \in F \/ T.pic \subseteq S.pic
  /\ "given" \in F \/ T.given \subseteq S.given
Slots == DOMAIN Fresh \ {"pic", "busy", "given"}

\* The fields of a state of a path.
LEMMA PathFields ==
  DOMAIN Fresh = {"on", "adrift", "target", "surface", "surfaces", "att", "pic", "busy", "bound",
                  "buf", "abuf", "src", "kind", "prog", "given"}
BY DEF Fresh

\* The fields of a state of a set that fixes them one by one.
LEMMA StateFields ==
  ASSUME NEW S, NEW p \in States(S)
  PROVE  /\ \A f \in Slots : p[f] \in S[f]
         /\ p.pic \in Pics(S.pic) /\ p.busy \in SUBSET S.busy /\ p.given \in Givens(S.given)
BY PathFields DEF States, Slots

\* A call keeps a state within a set of states if it keeps each field there.
LEMMA AfterIn ==
  ASSUME NEW S, NEW c, NEW p, NEW q, q = After(c, p),
         \A f \in Slots : q[f] \in S[f],
         q.pic \in Pics(S.pic), q.busy \in SUBSET S.busy, q.given \in Givens(S.given)
  PROVE  q \in States(S)
<1>1. q = [on |-> q.on, adrift |-> q.adrift, target |-> q.target, surface |-> q.surface,
           surfaces |-> q.surfaces, att |-> q.att, pic |-> q.pic, busy |-> q.busy,
           bound |-> q.bound, buf |-> q.buf, abuf |-> q.abuf, src |-> q.src, kind |-> q.kind,
           prog |-> q.prog, given |-> q.given]
  BY DEF After
<1>2. /\ q.on \in S.on /\ q.target \in S.target /\ q.adrift \in S.adrift
      /\ q.surface \in S.surface /\ q.surfaces \in S.surfaces /\ q.att \in S.att
      /\ q.bound \in S.bound /\ q.buf \in S.buf /\ q.abuf \in S.abuf
      /\ q.src \in S.src /\ q.kind \in S.kind /\ q.prog \in S.prog
  BY PathFields DEF Slots
<1> QED
  BY <1>1, <1>2 DEF States

\* The images of a path are a set with nothing said of their contents.
LEMMA PicOf ==
  ASSUME NEW S, NEW p \in States(S)
  PROVE  p.pic = [x \in DOMAIN p.pic |-> "any"] /\ DOMAIN p.pic \in SUBSET Images /\ S.pic \subseteq DOMAIN p.pic
<1>1. PICK D \in SUBSET Images : S.pic \subseteq D /\ p.pic = [x \in D |-> "any"]
  BY DEF States, Pics
<1> QED
  BY <1>1

\* A call that creates and destroys no image keeps those there are.
LEMMA PicsWithin ==
  ASSUME NEW S, NEW T, T \subseteq S
  PROVE  Pics(S) \subseteq Pics(T)
<1> SUFFICES ASSUME NEW D \in SUBSET Images, S \subseteq D
             PROVE  [x \in D |-> "any"] \in Pics(T)
  BY DEF Pics
<1>1. T \subseteq D
  OBVIOUS
<1> QED
  BY <1>1 DEF Pics

\* A call that neither creates nor destroys an image, nor renders nor waits.
Still(c) == c.op \notin DrawOps \cup {"glTexImage2D", "glRenderbufferStorage", "eglCreateSurface",
                   "glDeleteImage", "eglDestroySurface", "glClear", "glFinish", "glReadPixels"}

\* A call that moves nothing but what it sets.
LEMMA StillKeeps ==
  ASSUME NEW S, NEW p \in States(S), NEW c, Still(c)
  PROVE  After(c, p).pic = p.pic /\ After(c, p).busy = p.busy
<1>1. Created(c, p) = {} /\ Destroyed(c) = {} /\ Renders(c, p) = {} /\ Awaited(c, p) = {}
  BY DEF Still, Created, Destroyed, Renders, Awaited, DrawOps
<1> QED
  BY <1>1, PicOf DEF After

\* A call that changes the fields F only.
LEMMA SetsSome ==
  ASSUME NEW S, NEW T, NEW F, Grows(S, T, F), NEW c, NEW p \in States(S),
         \A f \in DOMAIN Fresh \ F : After(c, p)[f] = p[f],
         \A f \in Slots \cap F : After(c, p)[f] \in T[f],
         "pic" \in F => After(c, p).pic \in Pics(T.pic),
         "busy" \in F => After(c, p).busy \subseteq T.busy,
         "given" \in F => After(c, p).given \in Givens(T.given)
  PROVE  After(c, p) \in States(T)
<1> DEFINE q == After(c, p)
<1>1. /\ \A f \in DOMAIN Fresh \ F : q[f] = p[f]
      /\ \A f \in Slots \cap F : q[f] \in T[f]
      /\ q = After(c, p)
      /\ "pic" \in F => q.pic \in Pics(T.pic)
      /\ "busy" \in F => q.busy \subseteq T.busy
      /\ "given" \in F => q.given \in Givens(T.given)
  OBVIOUS
<1> HIDE DEF q
<1>2. \A f \in Slots \ F : q[f] \in T[f]
  <2>1. \A f \in Slots \ F : S[f] \subseteq T[f]
    BY PathFields DEF Slots, Grows
  <2> QED
    BY <1>1, <2>1, StateFields DEF Slots
<1>3. q.pic \in Pics(T.pic)
  <2> SUFFICES ASSUME "pic" \notin F PROVE q.pic \in Pics(T.pic)
    BY <1>1
  <2>1. q.pic = p.pic /\ T.pic \subseteq S.pic
    BY <1>1, PathFields DEF Grows
  <2> QED
    BY <2>1, PicsWithin, StateFields
<1>4. q.busy \in SUBSET T.busy
  BY <1>1, PathFields, StateFields DEF Grows
<1>5. q.given \in Givens(T.given)
  <2> SUFFICES ASSUME "given" \notin F PROVE q.given \in Givens(T.given)
    BY <1>1
  <2>1. q.given = p.given /\ T.given \subseteq S.given
    BY <1>1, PathFields DEF Grows
  <2> QED
    BY <2>1, StateFields DEF Givens
<1>6. \A f \in Slots : q[f] \in T[f]
  BY <1>1, <1>2
<1>7. q \in States(T)
  BY <1>1, <1>3, <1>4, <1>5, <1>6, AfterIn
<1> QED
  BY <1>7 DEF q

Plain(c) == c.op \in GlOps \ (DrawOps \cup {"glBufferSubData", "glDeleteImage", "glReadPixels"}) \/
            c.op \in {"eglSetup", "eglCreateContext", "eglSwapBuffers", "verdict", "glGenVertexArraysOES"}

\* A GL call that sets one field, and is proper whenever a context is current.
LEMMA SetsOne ==
  ASSUME NEW S, NEW T, NEW prg, NEW f \in Slots, Grows(S, T, {f}), NEW c, Still(c), Plain(c),
         S.on = {TRUE}, c.op # "glUniform",
         \A p \in States(S) : After(c, p)[f] \in T[f] /\ \A g \in Slots \ {f} : After(c, p)[g] = p[g]
  PROVE  Takes(<<c>>, States(S), States(T), prg)
<1> SUFFICES ASSUME NEW p \in States(S) PROVE Proper(c, p, prg) /\ After(c, p) \in States(T)
  BY TakesOne
<1>1. p.on
  BY DEF States
<1>2. Proper(c, p, prg)
  BY <1>1 DEF Proper, Followed, Ready, Judges, DrawOps, GlOps, Plain
<1>3. After(c, p).pic = p.pic /\ After(c, p).busy = p.busy
  BY StillKeeps
<1>4. After(c, p).given = p.given
  BY DEF After
<1>5. f \notin {"pic", "busy", "given"} /\ \A g \in DOMAIN Fresh \ {f} : After(c, p)[g] = p[g]
  BY <1>3, <1>4 DEF Slots
<1>6. After(c, p) \in States(T)
  <2>1. \A g \in Slots \cap {f} : After(c, p)[g] \in T[g]
    OBVIOUS
  <2> QED
    BY <1>5, <2>1, SetsSome
<1> QED
  BY <1>2, <1>6

\* glUseProgram.
\* glUseProgram.
LEMMA UseTakes ==
  ASSUME NEW S, NEW T, NEW prg, NEW x, Grows(S, T, {"prog"}), S.on = {TRUE}, x \in T.prog
  PROVE  Takes(<<glUseProgram(x)>>, States(S), States(T), prg)
<1> DEFINE c == glUseProgram(x)
<1>1. c.op = "glUseProgram" /\ c.prog = x
  BY DEF glUseProgram
<1> HIDE DEF c
<1>2. Still(c) /\ Plain(c)
  BY <1>1 DEF Still, DrawOps, Plain, GlOps
<1>3. ASSUME NEW p \in States(S)
      PROVE  After(c, p)["prog"] \in T["prog"] /\ \A g \in Slots \ {"prog"} : After(c, p)[g] = p[g]
  <2>1. \A g \in Slots \ {"prog"} : After(c, p)[g] = p[g]
    BY <1>1, PathFields DEF After, Slots
  <2>2. \A f \in Slots : p[f] \in S[f]
    BY StateFields
  <2>3. p["prog"] \in S["prog"]
    BY <2>2, PathFields DEF Slots
  <2>4. After(c, p)["prog"] = c.prog
    BY <1>1, <2>3 DEF After
  <2>5. c.prog \in T["prog"]
    BY <1>1, <2>3
  <2> QED
    BY <2>1, <2>4, <2>5
<1>4. "prog" \in Slots /\ c.op # "glUniform"
  BY <1>1, PathFields DEF Slots
<1>5. Takes(<<c>>, States(S), States(T), prg)
  BY <1>2, <1>3, <1>4, SetsOne
<1> QED
  BY <1>5 DEF c

\* glBindTexture.
LEMMA TextureTakes ==
  ASSUME NEW S, NEW T, NEW prg, NEW x, Grows(S, T, {"bound"}), S.on = {TRUE}, x \in T.bound
  PROVE  Takes(<<glBindTexture(x)>>, States(S), States(T), prg)
<1> DEFINE c == glBindTexture(x)
<1>1. c.op = "glBindTexture" /\ c.image = x
  BY DEF glBindTexture
<1> HIDE DEF c
<1>2. Still(c) /\ Plain(c)
  BY <1>1 DEF Still, DrawOps, Plain, GlOps
<1>3. ASSUME NEW p \in States(S)
      PROVE  After(c, p)["bound"] \in T["bound"] /\ \A g \in Slots \ {"bound"} : After(c, p)[g] = p[g]
  <2>1. \A g \in Slots \ {"bound"} : After(c, p)[g] = p[g]
    BY <1>1, PathFields DEF After, Slots
  <2>2. \A f \in Slots : p[f] \in S[f]
    BY StateFields
  <2>3. p["bound"] \in S["bound"]
    BY <2>2, PathFields DEF Slots
  <2>4. After(c, p)["bound"] = c.image
    BY <1>1, <2>3 DEF After
  <2>5. c.image \in T["bound"]
    BY <1>1, <2>3
  <2> QED
    BY <2>1, <2>4, <2>5
<1>4. "bound" \in Slots /\ c.op # "glUniform"
  BY <1>1, PathFields DEF Slots
<1>5. Takes(<<c>>, States(S), States(T), prg)
  BY <1>2, <1>3, <1>4, SetsOne
<1> QED
  BY <1>5 DEF c

\* glBindBuffer.
LEMMA BufferTakes ==
  ASSUME NEW S, NEW T, NEW prg, NEW x, Grows(S, T, {"abuf"}), S.on = {TRUE}, x \in T.abuf
  PROVE  Takes(<<glBindBuffer(x)>>, States(S), States(T), prg)
<1> DEFINE c == glBindBuffer(x)
<1>1. c.op = "glBindBuffer" /\ c.buffer = x
  BY DEF glBindBuffer
<1> HIDE DEF c
<1>2. Still(c) /\ Plain(c)
  BY <1>1 DEF Still, DrawOps, Plain, GlOps
<1>3. ASSUME NEW p \in States(S)
      PROVE  After(c, p)["abuf"] \in T["abuf"] /\ \A g \in Slots \ {"abuf"} : After(c, p)[g] = p[g]
  <2>1. \A g \in Slots \ {"abuf"} : After(c, p)[g] = p[g]
    BY <1>1, PathFields DEF After, Slots
  <2>2. \A f \in Slots : p[f] \in S[f]
    BY StateFields
  <2>3. p["abuf"] \in S["abuf"]
    BY <2>2, PathFields DEF Slots
  <2>4. After(c, p)["abuf"] = c.buffer
    BY <1>1, <2>3 DEF After
  <2>5. c.buffer \in T["abuf"]
    BY <1>1, <2>3
  <2> QED
    BY <2>1, <2>4, <2>5
<1>4. "abuf" \in Slots /\ c.op # "glUniform"
  BY <1>1, PathFields DEF Slots
<1>5. Takes(<<c>>, States(S), States(T), prg)
  BY <1>2, <1>3, <1>4, SetsOne
<1> QED
  BY <1>5 DEF c

\* glBindFramebuffer.
LEMMA FramebufferTakes ==
  ASSUME NEW S, NEW T, NEW prg, NEW x, Grows(S, T, {"target"}), S.on = {TRUE}, x \in T.target
  PROVE  Takes(<<glBindFramebuffer(x)>>, States(S), States(T), prg)
<1> DEFINE c == glBindFramebuffer(x)
<1>1. c.op = "glBindFramebuffer" /\ c.fb = x
  BY DEF glBindFramebuffer
<1> HIDE DEF c
<1>2. Still(c) /\ Plain(c)
  BY <1>1 DEF Still, DrawOps, Plain, GlOps
<1>3. ASSUME NEW p \in States(S)
      PROVE  After(c, p)["target"] \in T["target"] /\ \A g \in Slots \ {"target"} : After(c, p)[g] = p[g]
  <2>1. \A g \in Slots \ {"target"} : After(c, p)[g] = p[g]
    BY <1>1, PathFields DEF After, Slots
  <2>2. \A f \in Slots : p[f] \in S[f]
    BY StateFields
  <2>3. p["target"] \in S["target"]
    BY <2>2, PathFields DEF Slots
  <2>4. After(c, p)["target"] = c.fb
    BY <1>1, <2>3 DEF After
  <2>5. c.fb \in T["target"]
    BY <1>1, <2>3
  <2> QED
    BY <2>1, <2>4, <2>5
<1>4. "target" \in Slots /\ c.op # "glUniform"
  BY <1>1, PathFields DEF Slots
<1>5. Takes(<<c>>, States(S), States(T), prg)
  BY <1>2, <1>3, <1>4, SetsOne
<1> QED
  BY <1>5 DEF c

\* glVertexAttribPointer.
LEMMA PointerTakes ==
  ASSUME NEW S, NEW T, NEW prg, NEW data, NEW stride, Grows(S, T, {"src"}), S.on = {TRUE}, \A a \in S.abuf : [from |-> a, data |-> data, stride |-> stride] \in T.src
  PROVE  Takes(<<glPointer(data, stride)>>, States(S), States(T), prg)
<1> DEFINE c == glPointer(data, stride)
<1>1. c.op = "glVertexAttribPointer" /\ c.data = data /\ c.stride = stride
  BY DEF glPointer
<1> HIDE DEF c
<1>2. Still(c) /\ Plain(c)
  BY <1>1 DEF Still, DrawOps, Plain, GlOps
<1>3. ASSUME NEW p \in States(S)
      PROVE  After(c, p)["src"] \in T["src"] /\ \A g \in Slots \ {"src"} : After(c, p)[g] = p[g]
  <2>1. \A g \in Slots \ {"src"} : After(c, p)[g] = p[g]
    BY <1>1, PathFields DEF After, Slots
  <2>2. \A f \in Slots : p[f] \in S[f]
    BY StateFields
  <2>3. p["src"] \in S["src"] /\ p["abuf"] \in S["abuf"]
    BY <2>2, PathFields DEF Slots
  <2>4. After(c, p)["src"] = [from |-> p.abuf, data |-> c.data, stride |-> c.stride]
    BY <1>1, <2>3 DEF After
  <2>5. [from |-> p.abuf, data |-> c.data, stride |-> c.stride] \in T["src"]
    BY <1>1, <2>3
  <2> QED
    BY <2>1, <2>4, <2>5
<1>4. "src" \in Slots /\ c.op # "glUniform"
  BY <1>1, PathFields DEF Slots
<1>5. Takes(<<c>>, States(S), States(T), prg)
  BY <1>2, <1>3, <1>4, SetsOne
<1> QED
  BY <1>5 DEF c

\* glLinkProgram.
LEMMA LinkTakes ==
  ASSUME NEW S, NEW T, NEW prg, NEW x, NEW kd, Grows(S, T, {"kind"}), S.on = {TRUE}, \A k \in S.kind : Put(k, x, kd) \in T.kind
  PROVE  Takes(<<glLinkProgram(x, kd)>>, States(S), States(T), prg)
<1> DEFINE c == glLinkProgram(x, kd)
<1>1. c.op = "glLinkProgram" /\ c.prog = x /\ c.kind = kd
  BY DEF glLinkProgram
<1> HIDE DEF c
<1>2. Still(c) /\ Plain(c)
  BY <1>1 DEF Still, DrawOps, Plain, GlOps
<1>3. ASSUME NEW p \in States(S)
      PROVE  After(c, p)["kind"] \in T["kind"] /\ \A g \in Slots \ {"kind"} : After(c, p)[g] = p[g]
  <2>1. \A g \in Slots \ {"kind"} : After(c, p)[g] = p[g]
    BY <1>1, PathFields DEF After, Slots
  <2>2. \A f \in Slots : p[f] \in S[f]
    BY StateFields
  <2>3. p["kind"] \in S["kind"]
    BY <2>2, PathFields DEF Slots
  <2>4. After(c, p)["kind"] = Put(p.kind, c.prog, c.kind)
    BY <1>1, <2>3 DEF After
  <2>5. Put(p.kind, c.prog, c.kind) \in T["kind"]
    BY <1>1, <2>3
  <2> QED
    BY <2>1, <2>4, <2>5
<1>4. "kind" \in Slots /\ c.op # "glUniform"
  BY <1>1, PathFields DEF Slots
<1>5. Takes(<<c>>, States(S), States(T), prg)
  BY <1>2, <1>3, <1>4, SetsOne
<1> QED
  BY <1>5 DEF c

\* glBufferData into the buffer that is bound.
LEMMA DataTakes ==
  ASSUME NEW S, NEW T, NEW prg, NEW data, Grows(S, T, {"buf"}), S.on = {TRUE}, \A a \in S.abuf : a # 0, \A a \in S.abuf, b \in S.buf : Put(b, a, data) \in T.buf
  PROVE  Takes(<<glBufferData(data)>>, States(S), States(T), prg)
<1> DEFINE c == glBufferData(data)
<1>1. c.op = "glBufferData" /\ c.data = data
  BY DEF glBufferData
<1> HIDE DEF c
<1>2. Still(c) /\ Plain(c)
  BY <1>1 DEF Still, DrawOps, Plain, GlOps
<1>3. ASSUME NEW p \in States(S)
      PROVE  After(c, p)["buf"] \in T["buf"] /\ \A g \in Slots \ {"buf"} : After(c, p)[g] = p[g]
  <2>1. \A g \in Slots \ {"buf"} : After(c, p)[g] = p[g]
    BY <1>1, PathFields DEF After, Slots
  <2>2. \A f \in Slots : p[f] \in S[f]
    BY StateFields
  <2>3. p["buf"] \in S["buf"] /\ p["abuf"] \in S["abuf"]
    BY <2>2, PathFields DEF Slots
  <2>4. After(c, p)["buf"] = Put(p.buf, p.abuf, c.data)
    BY <1>1, <2>3 DEF After
  <2>5. Put(p.buf, p.abuf, c.data) \in T["buf"]
    BY <1>1, <2>3
  <2> QED
    BY <2>1, <2>4, <2>5
<1>4. "buf" \in Slots /\ c.op # "glUniform"
  BY <1>1, PathFields DEF Slots
<1>5. Takes(<<c>>, States(S), States(T), prg)
  BY <1>2, <1>3, <1>4, SetsOne
<1> QED
  BY <1>5 DEF c

\* glFramebufferTexture2D or glFramebufferRenderbuffer, on a framebuffer of the program's.
LEMMA AttachTakes ==
  ASSUME NEW S, NEW T, NEW prg, NEW image, Grows(S, T, {"att"}), S.on = {TRUE}, \A t \in S.target : t # 0, \A t \in S.target, a \in S.att : Put(a, t, image) \in T.att
  PROVE  Takes(<<glAttach(image)>>, States(S), States(T), prg)
<1> DEFINE c == glAttach(image)
<1>1. c.op = "glFramebufferAttach" /\ c.image = image
  BY DEF glAttach
<1> HIDE DEF c
<1>2. Still(c) /\ Plain(c)
  BY <1>1 DEF Still, DrawOps, Plain, GlOps
<1>3. ASSUME NEW p \in States(S)
      PROVE  After(c, p)["att"] \in T["att"] /\ \A g \in Slots \ {"att"} : After(c, p)[g] = p[g]
  <2>1. \A g \in Slots \ {"att"} : After(c, p)[g] = p[g]
    BY <1>1, PathFields DEF After, Slots
  <2>2. \A f \in Slots : p[f] \in S[f]
    BY StateFields
  <2>3. p["att"] \in S["att"] /\ p["target"] \in S["target"]
    BY <2>2, PathFields DEF Slots
  <2>4. After(c, p)["att"] = Put(p.att, p.target, c.image)
    BY <1>1, <2>3 DEF After
  <2>5. Put(p.att, p.target, c.image) \in T["att"]
    BY <1>1, <2>3
  <2> QED
    BY <2>1, <2>4, <2>5
<1>4. "att" \in Slots /\ c.op # "glUniform"
  BY <1>1, PathFields DEF Slots
<1>5. Takes(<<c>>, States(S), States(T), prg)
  BY <1>2, <1>3, <1>4, SetsOne
<1> QED
  BY <1>5 DEF c

\* Any other call leaves all but the images and what is busy as it is.
Movers == {"eglMakeCurrent", "glBindFramebuffer", "glDeleteFramebuffers", "eglCreateSurface",
           "eglDestroySurface", "glFramebufferAttach", "glBindTexture", "glDeleteImage", "glBufferData",
           "glBufferSubData", "glBindBuffer", "glVertexAttribPointer", "glLinkProgram", "glUseProgram",
           "glUniform"}
\* A call that sets no field of a set's states leaves them in it.
LEMMA Unmoved ==
  ASSUME NEW c, NEW p, c.op \notin Movers
  PROVE  \A g \in DOMAIN Fresh \ {"pic", "busy"} : After(c, p)[g] = p[g]
<1>1. /\ c.op # "eglMakeCurrent" /\ c.op # "glBindFramebuffer" /\ c.op # "glDeleteFramebuffers"
      /\ c.op # "eglCreateSurface" /\ c.op # "eglDestroySurface" /\ c.op # "glFramebufferAttach"
      /\ c.op # "glBindTexture" /\ c.op # "glDeleteImage" /\ c.op # "glBufferData"
      /\ c.op # "glBufferSubData" /\ c.op # "glBindBuffer" /\ c.op # "glVertexAttribPointer"
      /\ c.op # "glLinkProgram" /\ c.op # "glUseProgram" /\ c.op # "glUniform"
  BY DEF Movers
<1> QED
  BY <1>1, PathFields DEF After

\* A set of states is within one that allows more in each field.
LEMMA WithinStates ==
  ASSUME NEW S, NEW T, Grows(S, T, {})
  PROVE  States(S) \subseteq States(T)
<1> SUFFICES ASSUME NEW p \in States(S) PROVE p \in States(T)
  OBVIOUS
<1>1. p.pic \in Pics(T.pic)
  BY StateFields, PicsWithin DEF Grows
<1>2. p.given \in Givens(T.given)
  BY StateFields DEF Grows, Givens
<1> QED
  BY <1>1, <1>2 DEF States, Grows

IdleOps == {"eglSetup", "eglCreateContext", "eglSwapBuffers", "verdict", "glGenVertexArraysOES"}
IdleGlOps == {"glViewport", "glStencil", "glDetachShader"}

\* Calls that change nothing a path knows of.
LEMMA IdleTakes ==
  ASSUME NEW S, NEW T, NEW prg, NEW c, Grows(S, T, {}), c.op \in IdleOps \cup IdleGlOps,
         c.op \in IdleGlOps \cup {"verdict"} => S.on = {TRUE}
  PROVE  Takes(<<c>>, States(S), States(T), prg)
<1> SUFFICES ASSUME NEW p \in States(S) PROVE Proper(c, p, prg) /\ After(c, p) \in States(T)
  BY TakesOne
<1>1. Still(c)
  BY DEF Still, DrawOps, IdleOps, IdleGlOps
<1>2. After(c, p).pic = p.pic /\ After(c, p).busy = p.busy
  BY <1>1, StillKeeps
<1>3. \A g \in DOMAIN Fresh \ {"pic", "busy"} : After(c, p)[g] = p[g]
  BY Unmoved DEF Movers, IdleOps, IdleGlOps
<1>4. \A g \in DOMAIN Fresh : After(c, p)[g] = p[g]
  BY <1>2, <1>3
<1>5. After(c, p) \in States(T)
  BY <1>4, SetsSome
<1>6. ASSUME c.op \in IdleGlOps \cup {"verdict"} PROVE p.on
  <2>1. S.on = {TRUE} /\ p.on \in S.on
    BY <1>6 DEF States
  <2> QED
    BY <2>1
<1>7. Proper(c, p, prg)
  BY <1>6 DEF Proper, Followed, Ready, Judges, DrawOps, GlOps, IdleOps, IdleGlOps
<1> QED
  BY <1>5, <1>7

\* glUniform on a program that may or may not be current.
LEMMA UniformTakes ==
  ASSUME NEW S, NEW T, NEW prg, NEW colour, Grows(S, T, {"given"}), S.on = {TRUE}, S.prog \subseteq Nat,
         \A x \in T.given : x \in S.given \/ (x # 0 /\ S.prog \subseteq {x})
  PROVE  Takes(<<glUniform(colour)>>, States(S), States(T), prg)
<1> DEFINE c == glUniform(colour)
<1> SUFFICES ASSUME NEW p \in States(S) PROVE Proper(c, p, prg) /\ After(c, p) \in States(T)
  BY TakesOne
<1>0. c.op = "glUniform"
  BY DEF glUniform
<1> HIDE DEF c
<1>1. Still(c) /\ Plain(c)
  BY <1>0 DEF Still, DrawOps, Plain, GlOps
<1>2. After(c, p).pic = p.pic /\ After(c, p).busy = p.busy
  BY <1>1, StillKeeps
<1>3. \A g \in DOMAIN Fresh \ {"pic", "busy", "given"} : After(c, p)[g] = p[g]
  BY <1>0, PathFields DEF After
<1>4. p.on /\ p.prog \in S.prog /\ p.given \in SUBSET Nat /\ S.given \subseteq p.given
  BY DEF States, Givens
<1>5. After(c, p).given = IF p.prog # 0 THEN p.given \cup {p.prog} ELSE p.given
  BY <1>0 DEF After
<1>6. After(c, p).given \in Givens(T.given)
  <2>1. After(c, p).given \in SUBSET Nat
    BY <1>4, <1>5
  <2>2. ASSUME NEW x \in T.given PROVE x \in After(c, p).given
    BY <1>4, <1>5
  <2> QED
    BY <2>1, <2>2 DEF Givens
<1>7. \A g \in DOMAIN Fresh \ {"given"} : After(c, p)[g] = p[g]
  BY <1>2, <1>3
<1>8. \A g \in Slots \cap {"given"} : After(c, p)[g] \in T[g]
  BY DEF Slots
<1>9. After(c, p) \in States(T)
  BY <1>6, <1>7, <1>8, SetsSome
<1>10. Proper(c, p, prg)
  BY <1>0, <1>4 DEF Proper, Followed, Ready, Judges, DrawOps, GlOps
<1> QED
  BY <1>9, <1>10

\* glTexImage2D and glRenderbufferStorage allocate an image.
LEMMA AllocatesTakes ==
  ASSUME NEW S, NEW T, NEW prg, NEW c, Grows(S, T, {"pic"}), S.on = {TRUE},
         c.op = "glTexImage2D" \/ (c.op = "glRenderbufferStorage" /\ c.image \in Images),
         S.bound \subseteq Images,
         \A x \in T.pic : x \in S.pic \/ (IF c.op = "glTexImage2D" THEN S.bound \subseteq {x} ELSE x = c.image)
  PROVE  Takes(<<c>>, States(S), States(T), prg)
<1> SUFFICES ASSUME NEW p \in States(S) PROVE Proper(c, p, prg) /\ After(c, p) \in States(T)
  BY TakesOne
<1>1. Renders(c, p) = {} /\ Awaited(c, p) = {} /\ Destroyed(c) = {}
  BY DEF Renders, Awaited, Destroyed, DrawOps
<1>2. /\ p.on /\ p.bound \in S.bound
      /\ p.pic = [x \in DOMAIN p.pic |-> "any"] /\ DOMAIN p.pic \in SUBSET Images /\ S.pic \subseteq DOMAIN p.pic
  BY PicOf DEF States
<1>3. \A g \in DOMAIN Fresh \ {"pic", "busy"} : After(c, p)[g] = p[g]
  BY Unmoved DEF Movers
<1>4. After(c, p).busy = p.busy
  BY <1>1 DEF After
<1>5. After(c, p).pic \in Pics(T.pic)
  <2> DEFINE D == DOMAIN p.pic \cup Created(c, p)
  <2>1. After(c, p).pic = [x \in D |-> "any"]
    BY <1>1 DEF After
  <2>2. D \in SUBSET Images /\ T.pic \subseteq D
    BY <1>2 DEF Created
  <2> QED
    BY <2>1, <2>2 DEF Pics
<1>6. \A g \in DOMAIN Fresh \ {"pic"} : After(c, p)[g] = p[g]
  BY <1>3, <1>4
<1>7. \A g \in Slots \cap {"pic"} : After(c, p)[g] \in T[g]
  BY DEF Slots
<1>8. After(c, p) \in States(T)
  BY <1>5, <1>6, <1>7, SetsSome
<1>9. Proper(c, p, prg)
  BY <1>2 DEF Proper, Followed, Ready, Judges, DrawOps, GlOps
<1> QED
  BY <1>8, <1>9

\* A call that only changes what is busy: the images that may be the aims's are in X.
TargetIn(S, X) ==
  /\ 0 \in S.target => S.surface \subseteq X
  /\ \A t \in S.target \ {0}, a \in S.att : (IF t \in DOMAIN a THEN a[t] ELSE None) \in X

\* The image of the target of a state.
LEMMA TargetImage ==
  ASSUME NEW S, NEW p \in States(S), NEW X, TargetIn(S, X)
  PROVE  Image(p, p.target) \in X
<1>1. p.surface \in S.surface /\ p.target \in S.target /\ p.att \in S.att
  BY DEF States
<1> QED
  BY <1>1 DEF Image, TargetIn

\* A call that renders makes its target busy.
LEMMA BusyTakes ==
  ASSUME NEW S, NEW T, NEW prg, NEW c, Grows(S, T, {"busy"}), S.on = {TRUE},
         c.op \in DrawOps \cup {"glClear", "glFinish", "glReadPixels"},
         \A p \in States(S) : (p.busy \cup Renders(c, p)) \ Awaited(c, p) \subseteq T.busy,
         c.op \in DrawOps => \A p \in States(S) : Ready(c, p, prg),
         c.op = "glReadPixels" => \A p \in States(S) : Judges(c, p, prg)
  PROVE  Takes(<<c>>, States(S), States(T), prg)
<1> SUFFICES ASSUME NEW p \in States(S) PROVE Proper(c, p, prg) /\ After(c, p) \in States(T)
  BY TakesOne
<1>1. Created(c, p) = {} /\ Destroyed(c) = {}
  BY DEF Created, Destroyed, DrawOps
<1>2. After(c, p).pic = p.pic
  BY <1>1, PicOf DEF After
<1>3. \A g \in DOMAIN Fresh \ {"pic", "busy"} : After(c, p)[g] = p[g]
  BY Unmoved DEF Movers, DrawOps
<1>4. After(c, p).busy \subseteq T.busy
  BY DEF After
<1>5. \A g \in DOMAIN Fresh \ {"busy"} : After(c, p)[g] = p[g]
  BY <1>2, <1>3
<1>6. \A g \in Slots \cap {"busy"} : After(c, p)[g] \in T[g]
  BY DEF Slots
<1>7. After(c, p) \in States(T)
  BY <1>4, <1>5, <1>6, SetsSome
<1>8. p.on
  BY DEF States
<1>9. Proper(c, p, prg)
  BY <1>8 DEF Proper, Followed, Ready, Judges, DrawOps, GlOps
<1> QED
  BY <1>7, <1>9

\* glClear.
LEMMA ClearTakes ==
  ASSUME NEW S, NEW T, NEW prg, NEW colour, Grows(S, T, {}), S.on = {TRUE}, TargetIn(S, T.busy)
  PROVE  Takes(<<glClear(colour)>>, States(S), States(T), prg)
<1> DEFINE c == glClear(colour)
<1>1. c.op = "glClear"
  BY DEF glClear
<1> HIDE DEF c
<1>2. ASSUME NEW p \in States(S)
      PROVE  (p.busy \cup Renders(c, p)) \ Awaited(c, p) \subseteq T.busy
  <2>1. Image(p, p.target) \in T.busy
    BY TargetImage
  <2>2. p.busy \subseteq T.busy
    BY DEF States, Grows
  <2> QED
    BY <1>1, <2>1, <2>2 DEF Renders, Awaited
<1>3. Grows(S, T, {"busy"})
  BY DEF Grows
<1>4. Takes(<<c>>, States(S), States(T), prg)
  BY <1>1, <1>2, <1>3, BusyTakes DEF DrawOps
<1> QED
  BY <1>4 DEF c

\* glFinish: nothing is busy any more.
LEMMA FinishTakes ==
  ASSUME NEW S, NEW T, NEW prg, Grows(S, T, {"busy"}), S.on = {TRUE}
  PROVE  Takes(<<glFinish>>, States(S), States(T), prg)
<1> DEFINE c == glFinish
<1>1. c.op = "glFinish"
  BY DEF glFinish
<1> HIDE DEF c
<1>2. ASSUME NEW p \in States(S)
      PROVE  (p.busy \cup Renders(c, p)) \ Awaited(c, p) \subseteq T.busy
  BY <1>1 DEF Renders, Awaited, DrawOps
<1>3. Takes(<<c>>, States(S), States(T), prg)
  BY <1>1, <1>2, BusyTakes DEF DrawOps
<1> QED
  BY <1>3 DEF c

\* Reading a pixel waits for the image it is read from.
LEMMA ReadTakes ==
  ASSUME NEW S, NEW T, NEW prg, NEW x, NEW want, NEW image, Grows(S, T, {"busy"}), S.on = {TRUE},
         S.busy \subseteq T.busy \/ (TargetIn(S, {image}) /\ S.busy \subseteq T.busy \cup {image}),
         "black" \notin want, S.adrift = {TRUE} \/ prg.name = "vbo"
  PROVE  Takes(<<glReadPixels(x, want)>>, States(S), States(T), prg)
<1> DEFINE c == glReadPixels(x, want)
<1>1. c.op = "glReadPixels" /\ c.want = want
  BY DEF glReadPixels
<1> HIDE DEF c
<1>2. ASSUME NEW p \in States(S)
      PROVE  (p.busy \cup Renders(c, p)) \ Awaited(c, p) \subseteq T.busy
  <2>1. Renders(c, p) = {} /\ Awaited(c, p) = {Image(p, p.target)}
    BY <1>1 DEF Renders, Awaited, DrawOps
  <2>2. p.busy \subseteq S.busy
    BY DEF States
  <2>3. TargetIn(S, {image}) => Image(p, p.target) = image
    BY TargetImage
  <2> QED
    BY <2>1, <2>2, <2>3
<1>3. ASSUME NEW p \in States(S) PROVE Judges(c, p, prg)
  <2>1. p.adrift \in S.adrift
    BY DEF States
  <2>2. p.adrift = TRUE \/ prg.name = "vbo"
    BY <2>1
  <2>3. p.adrift \/ prg.name = "vbo"
    BY <2>2, Zenon
  <2> QED
    BY <1>1, <2>3 DEF Judges
<1>4. Takes(<<c>>, States(S), States(T), prg)
  BY <1>1, <1>2, <1>3, BusyTakes DEF DrawOps
<1> QED
  BY <1>4 DEF c

\* The vertex data of the attributes s and the buffers b holds what the draw c reads.
Held(s, b) == IF s.from = 0 THEN s.data ELSE IF s.from \in DOMAIN b THEN b[s.from] ELSE NoData
Serves(d, stride, c) ==
  (c.first + Extent(c)) * stride <= d.size /\ \E s \in d.shapes : s.at = c.first /\ Extent(c) <= s.n

\* A draw that is ready in each of the states.
LEMMA DrawTakes ==
  ASSUME NEW S, NEW T, NEW prg, NEW c, NEW X, Grows(S, T, {}), S.on = {TRUE},
         c.op \in DrawOps, TargetIn(S, X), X \subseteq T.busy,
         \A x \in S.prog, k \in S.kind :
           /\ (prg.name = "tri" /\ prg.rebind /\ ~prg.unif) \/ (x \in DOMAIN k /\ (k[x] = "plain" \/ x \in S.given))
           /\ k[x] \in {"sampler", "uber"} => S.bound \subseteq S.pic /\ S.bound \cap X = {},
         \A s \in S.src, b \in S.buf : Serves(Held(s, b), s.stride, c)
  PROVE  Takes(<<c>>, States(S), States(T), prg)
<1>1. ASSUME NEW p \in States(S)
      PROVE  (p.busy \cup Renders(c, p)) \ Awaited(c, p) \subseteq T.busy
  <2>1. Image(p, p.target) \in T.busy
    BY TargetImage
  <2>2. p.busy \subseteq T.busy
    BY DEF States, Grows
  <2> QED
    BY <2>1, <2>2 DEF Renders, Awaited, DrawOps
<1>2. ASSUME NEW p \in States(S)
      PROVE  Ready(c, p, prg)
  <2>1. /\ p.prog \in S.prog /\ p.kind \in S.kind /\ p.src \in S.src /\ p.buf \in S.buf /\ p.bound \in S.bound
        /\ S.given \subseteq p.given
    BY DEF States, Givens
  <2>2. S.pic \subseteq DOMAIN p.pic
    BY PicOf
  <2>3. Image(p, p.target) \in X
    BY TargetImage
  <2>4. (prg.name = "tri" /\ prg.rebind /\ ~prg.unif) \/ UniformsGiven(p)
    BY <2>1 DEF UniformsGiven
  <2>5. SamplesOther(p, p.target)
    BY <2>1, <2>2, <2>3 DEF SamplesOther
  <2>6. Source(p) = Held(p.src, p.buf)
    BY DEF Source, Held
  <2>7. Serves(Held(p.src, p.buf), p.src.stride, c)
    BY <2>1
  <2>8. ReadsWithin(p, c) /\ DrawsOneShape(p, c)
    BY <2>6, <2>7 DEF ReadsWithin, DrawsOneShape, Serves
  <2> QED
    BY <2>4, <2>5, <2>8 DEF Ready, DrawOps
<1>3. Grows(S, T, {"busy"})
  BY DEF Grows
<1> QED
  BY <1>1, <1>2, <1>3, BusyTakes DEF DrawOps

\* An EGL call that ends or begins something.
LEMMA SurfaceMadeTakes ==
  ASSUME NEW S, NEW T, NEW prg, NEW image, Grows(S, T, {"surfaces", "pic"}), image \in Images,
         \A s \in S.surfaces : s \cup {image} \in T.surfaces, T.pic \subseteq S.pic \cup {image}
  PROVE  Takes(<<eglCreateSurface(image)>>, States(S), States(T), prg)
<1> DEFINE c == eglCreateSurface(image)
<1> SUFFICES ASSUME NEW p \in States(S) PROVE Proper(c, p, prg) /\ After(c, p) \in States(T)
  BY TakesOne
<1>0. c.op = "eglCreateSurface" /\ c.image = image /\ c.fails = "exit"
  BY DEF eglCreateSurface
<1> HIDE DEF c
<1>1. Renders(c, p) = {} /\ Awaited(c, p) = {} /\ Destroyed(c) = {} /\ Created(c, p) = {image}
  BY <1>0 DEF Renders, Awaited, Destroyed, Created, DrawOps
<1>2. p.pic = [x \in DOMAIN p.pic |-> "any"] /\ DOMAIN p.pic \in SUBSET Images /\ S.pic \subseteq DOMAIN p.pic
  BY PicOf
<1>3. \A g \in DOMAIN Fresh \ {"pic", "busy", "surfaces"} : After(c, p)[g] = p[g]
  BY <1>0, PathFields DEF After
<1>4. After(c, p).busy = p.busy /\ After(c, p).surfaces = p.surfaces \cup {image} /\ p.surfaces \in S.surfaces
  BY <1>0, <1>1 DEF After, States
<1>5. After(c, p).pic \in Pics(T.pic)
  <2> DEFINE D == DOMAIN p.pic \cup {image}
  <2>1. After(c, p).pic = [x \in D |-> "any"]
    BY <1>1 DEF After
  <2>2. D \in SUBSET Images /\ T.pic \subseteq D
    BY <1>2
  <2> QED
    BY <2>1, <2>2 DEF Pics
<1>6. \A g \in DOMAIN Fresh \ {"surfaces", "pic"} : After(c, p)[g] = p[g]
  BY <1>3, <1>4
<1>7. \A g \in Slots \cap {"surfaces", "pic"} : After(c, p)[g] \in T[g]
  BY <1>4 DEF Slots
<1>8. After(c, p) \in States(T)
  BY <1>5, <1>6, <1>7, SetsSome
<1>9. Proper(c, p, prg)
  BY <1>0 DEF Proper, Followed, Ready, Judges, DrawOps, GlOps, GoesOn
<1> QED
  BY <1>8, <1>9

\* eglMakeCurrent, which the program does not go on without, or has not yet needed, or
\* no longer needs.
LEMMA CurrentTakes ==
  ASSUME NEW S, NEW T, NEW prg, NEW image, NEW on, NEW fails, Grows(S, T, {"on", "adrift", "surface"}),
         on \in T.on, image \in T.surface, IF on THEN S.adrift \subseteq {FALSE} ELSE image = None,
         IF fails = "exit" THEN S.adrift \subseteq T.adrift ELSE TRUE \in T.adrift,
         on /\ fails # "exit" =>
           S.on = {FALSE} /\ S.busy = {} /\ S.surface = {None} /\ prg.name # "vbo"
  PROVE  Takes(<<eglMakeCurrent(image, on, fails)>>, States(S), States(T), prg)
<1> DEFINE c == eglMakeCurrent(image, on, fails)
<1> SUFFICES ASSUME NEW p \in States(S) PROVE Proper(c, p, prg) /\ After(c, p) \in States(T)
  BY TakesOne
<1>0. c.op = "eglMakeCurrent" /\ c.image = image /\ c.on = on /\ c.fails = fails
  BY DEF eglMakeCurrent
<1> HIDE DEF c
<1>1. Still(c)
  BY <1>0 DEF Still, DrawOps
<1>2. After(c, p).pic = p.pic /\ After(c, p).busy = p.busy
  BY <1>1, StillKeeps
<1>3. \A g \in DOMAIN Fresh \ {"pic", "busy", "on", "adrift", "surface"} : After(c, p)[g] = p[g]
  BY <1>0, PathFields DEF After
<1>4. After(c, p).on = on /\ After(c, p).surface = image /\ After(c, p).adrift = IF GoesOn(c) THEN TRUE ELSE p.adrift
  BY <1>0 DEF After
<1>5. p.on \in S.on /\ p.adrift \in S.adrift /\ p.surface \in S.surface /\ p.busy \subseteq S.busy
  BY DEF States
<1>6. \A g \in DOMAIN Fresh \ {"on", "adrift", "surface"} : After(c, p)[g] = p[g]
  BY <1>2, <1>3
<1>7. \A g \in Slots \cap {"on", "adrift", "surface"} : After(c, p)[g] \in T[g]
  BY <1>0, <1>4, <1>5 DEF GoesOn
<1>8. After(c, p) \in States(T)
  BY <1>6, <1>7, SetsSome
<1>9. Proper(c, p, prg)
  BY <1>0, <1>5 DEF Proper, Followed, Ready, Judges, DrawOps, GlOps, GoesOn
<1> QED
  BY <1>8, <1>9

\* eglDestroySurface, of a surface that is neither current nor busy.
LEMMA SurfaceGoneTakes ==
  ASSUME NEW S, NEW T, NEW prg, NEW image, NEW fails, Grows(S, T, {"surfaces", "pic"}),
         image \notin S.bound, image \notin S.surface, image # None,
         \A s \in S.surfaces : image \in s /\ s \ {image} \in T.surfaces,
         T.pic \subseteq S.pic \ {image},
         image \notin S.busy \/ (prg.name = "fbo" /\ prg.n = 0)
  PROVE  Takes(<<eglDestroySurface(image, fails)>>, States(S), States(T), prg)
<1> DEFINE c == eglDestroySurface(image, fails)
<1> SUFFICES ASSUME NEW p \in States(S) PROVE Proper(c, p, prg) /\ After(c, p) \in States(T)
  BY TakesOne
<1>0. c.op = "eglDestroySurface" /\ c.image = image
  BY DEF eglDestroySurface
<1> HIDE DEF c
<1>1. Renders(c, p) = {} /\ Awaited(c, p) = {} /\ Destroyed(c) = {image} /\ Created(c, p) = {}
  BY <1>0 DEF Renders, Awaited, Destroyed, Created, DrawOps
<1>2. p.pic = [x \in DOMAIN p.pic |-> "any"] /\ DOMAIN p.pic \in SUBSET Images /\ S.pic \subseteq DOMAIN p.pic
  BY PicOf
<1>3. \A g \in DOMAIN Fresh \ {"pic", "busy", "surfaces"} : After(c, p)[g] = p[g]
  BY <1>0, PathFields DEF After
<1>4. After(c, p).busy = p.busy /\ After(c, p).surfaces = p.surfaces \ {image}
  BY <1>0, <1>1 DEF After
<1>5. p.surfaces \in S.surfaces /\ p.bound \in S.bound /\ p.surface \in S.surface /\ p.busy \subseteq S.busy
  BY DEF States
<1>6. After(c, p).pic \in Pics(T.pic)
  <2> DEFINE D == DOMAIN p.pic \ {image}
  <2>1. After(c, p).pic = [x \in D |-> "any"]
    BY <1>1 DEF After
  <2>2. D \in SUBSET Images /\ T.pic \subseteq D
    BY <1>2
  <2> QED
    BY <2>1, <2>2 DEF Pics
<1>7. \A g \in DOMAIN Fresh \ {"surfaces", "pic"} : After(c, p)[g] = p[g]
  BY <1>3, <1>4
<1>8. \A g \in Slots \cap {"surfaces", "pic"} : After(c, p)[g] \in T[g]
  BY <1>4, <1>5 DEF Slots
<1>9. After(c, p) \in States(T)
  BY <1>6, <1>7, <1>8, SetsSome
<1>10. Proper(c, p, prg)
  BY <1>0, <1>5 DEF Proper, Followed, Ready, Judges, DrawOps, GlOps
<1> QED
  BY <1>9, <1>10

\* eglDestroyContext, once it is not current.
LEMMA ContextGoneTakes ==
  ASSUME NEW S, NEW T, NEW prg, NEW fails, Grows(S, T, {}), S.on = {FALSE}
  PROVE  Takes(<<eglDestroyContext(fails)>>, States(S), States(T), prg)
<1> DEFINE c == eglDestroyContext(fails)
<1> SUFFICES ASSUME NEW p \in States(S) PROVE Proper(c, p, prg) /\ After(c, p) \in States(T)
  BY TakesOne
<1>0. c.op = "eglDestroyContext"
  BY DEF eglDestroyContext
<1> HIDE DEF c
<1>1. Still(c)
  BY <1>0 DEF Still, DrawOps
<1>2. After(c, p).pic = p.pic /\ After(c, p).busy = p.busy
  BY <1>1, StillKeeps
<1>3. \A g \in DOMAIN Fresh \ {"pic", "busy"} : After(c, p)[g] = p[g]
  BY <1>0, Unmoved DEF Movers
<1>4. \A g \in DOMAIN Fresh : After(c, p)[g] = p[g]
  BY <1>2, <1>3
<1>5. After(c, p) \in States(T)
  BY <1>4, SetsSome
<1>6. ~p.on
  BY DEF States
<1>7. Proper(c, p, prg)
  BY <1>0, <1>6 DEF Proper, Followed, Ready, Judges, DrawOps, GlOps
<1> QED
  BY <1>5, <1>7

\* glDeleteTextures and glDeleteRenderbuffers, of an image nothing renders to.
LEMMA ImageGoneTakes ==
  ASSUME NEW S, NEW T, NEW prg, NEW image, Grows(S, T, {"pic", "bound"}), S.on = {TRUE},
         image \notin S.busy, T.pic \subseteq S.pic \ {image}, None \in T.bound, S.bound \subseteq T.bound
  PROVE  Takes(<<glDelete(image)>>, States(S), States(T), prg)
<1> DEFINE c == glDelete(image)
<1> SUFFICES ASSUME NEW p \in States(S) PROVE Proper(c, p, prg) /\ After(c, p) \in States(T)
  BY TakesOne
<1>0. c.op = "glDeleteImage" /\ c.image = image
  BY DEF glDelete
<1> HIDE DEF c
<1>1. Renders(c, p) = {} /\ Awaited(c, p) = {} /\ Destroyed(c) = {image} /\ Created(c, p) = {}
  BY <1>0 DEF Renders, Awaited, Destroyed, Created, DrawOps
<1>2. p.pic = [x \in DOMAIN p.pic |-> "any"] /\ DOMAIN p.pic \in SUBSET Images /\ S.pic \subseteq DOMAIN p.pic
  BY PicOf
<1>3. \A g \in DOMAIN Fresh \ {"pic", "busy", "bound"} : After(c, p)[g] = p[g]
  BY <1>0, PathFields DEF After
<1>4. After(c, p).busy = p.busy /\ After(c, p).bound \in {p.bound, None}
  BY <1>0, <1>1 DEF After
<1>5. p.on /\ p.bound \in S.bound /\ p.busy \subseteq S.busy
  BY DEF States
<1>6. After(c, p).pic \in Pics(T.pic)
  <2> DEFINE D == DOMAIN p.pic \ {image}
  <2>1. After(c, p).pic = [x \in D |-> "any"]
    BY <1>1 DEF After
  <2>2. D \in SUBSET Images /\ T.pic \subseteq D
    BY <1>2
  <2> QED
    BY <2>1, <2>2 DEF Pics
<1>7. \A g \in DOMAIN Fresh \ {"pic", "bound"} : After(c, p)[g] = p[g]
  BY <1>3, <1>4
<1>8. \A g \in Slots \cap {"pic", "bound"} : After(c, p)[g] \in T[g]
  BY <1>4, <1>5 DEF Slots
<1>9. After(c, p) \in States(T)
  BY <1>6, <1>7, <1>8, SetsSome
<1>10. Proper(c, p, prg)
  BY <1>0, <1>5 DEF Proper, Followed, Ready, Judges, DrawOps, GlOps
<1> QED
  BY <1>9, <1>10

\* glDeleteFramebuffers.
LEMMA FramebufferGoneTakes ==
  ASSUME NEW S, NEW T, NEW prg, NEW fb, Grows(S, T, {"target", "att"}), S.on = {TRUE},
         0 \in T.target, S.target \subseteq T.target,
         \A a \in S.att : Keep(a, DOMAIN a \ {fb}) \in T.att
  PROVE  Takes(<<glDeleteFramebuffers(fb)>>, States(S), States(T), prg)
<1> DEFINE c == glDeleteFramebuffers(fb)
<1> SUFFICES ASSUME NEW p \in States(S) PROVE Proper(c, p, prg) /\ After(c, p) \in States(T)
  BY TakesOne
<1>0. c.op = "glDeleteFramebuffers" /\ c.fb = fb
  BY DEF glDeleteFramebuffers
<1> HIDE DEF c
<1>1. Still(c)
  BY <1>0 DEF Still, DrawOps
<1>2. After(c, p).pic = p.pic /\ After(c, p).busy = p.busy
  BY <1>1, StillKeeps
<1>3. \A g \in DOMAIN Fresh \ {"pic", "busy", "target", "att"} : After(c, p)[g] = p[g]
  BY <1>0, PathFields DEF After
<1>4. After(c, p).target \in {p.target, 0} /\ After(c, p).att = Keep(p.att, DOMAIN p.att \ {fb})
  BY <1>0 DEF After
<1>5. p.on /\ p.target \in S.target /\ p.att \in S.att
  BY DEF States
<1>7. \A g \in DOMAIN Fresh \ {"target", "att"} : After(c, p)[g] = p[g]
  BY <1>2, <1>3
<1>8. \A g \in Slots \cap {"target", "att"} : After(c, p)[g] \in T[g]
  BY <1>4, <1>5
<1>9. After(c, p) \in States(T)
  BY <1>7, <1>8, SetsSome
<1>10. Proper(c, p, prg)
  BY <1>0, <1>5 DEF Proper, Followed, Ready, Judges, DrawOps, GlOps
<1> QED
  BY <1>9, <1>10

\* glBufferSubData keeps the size of the buffer.
LEMMA SubDataTakes ==
  ASSUME NEW S, NEW T, NEW prg, NEW data, Grows(S, T, {"buf"}), S.on = {TRUE}, \A a \in S.abuf : a # 0,
         \A a \in S.abuf, b \in S.buf : Put(b, a, [data EXCEPT !.size = b[a].size]) \in T.buf
  PROVE  Takes(<<glBufferSubData(data)>>, States(S), States(T), prg)
<1> DEFINE c == glBufferSubData(data)
<1> SUFFICES ASSUME NEW p \in States(S) PROVE Proper(c, p, prg) /\ After(c, p) \in States(T)
  BY TakesOne
<1>0. c.op = "glBufferSubData" /\ c.data = data
  BY DEF glBufferSubData
<1> HIDE DEF c
<1>1. Still(c)
  BY <1>0 DEF Still, DrawOps
<1>2. After(c, p).pic = p.pic /\ After(c, p).busy = p.busy
  BY <1>1, StillKeeps
<1>3. \A g \in DOMAIN Fresh \ {"pic", "busy", "buf"} : After(c, p)[g] = p[g]
  BY <1>0, PathFields DEF After
<1>5. p.on /\ p.abuf \in S.abuf /\ p.abuf # 0 /\ p.buf \in S.buf
  BY DEF States
<1>4. After(c, p).buf = Put(p.buf, p.abuf, [data EXCEPT !.size = p.buf[p.abuf].size])
  BY <1>0, <1>5 DEF After
<1>7. \A g \in DOMAIN Fresh \ {"buf"} : After(c, p)[g] = p[g]
  BY <1>2, <1>3
<1>8. \A g \in Slots \cap {"buf"} : After(c, p)[g] \in T[g]
  BY <1>4, <1>5
<1>9. After(c, p) \in States(T)
  BY <1>7, <1>8, SetsSome
<1>10. Proper(c, p, prg)
  BY <1>0, <1>5 DEF Proper, Followed, Ready, Judges, DrawOps, GlOps
<1> QED
  BY <1>9, <1>10

\* What a single call leads to.
LEMMA OneTakes ==
  ASSUME NEW c, NEW P, NEW Q, NEW prg, Takes(<<c>>, P, Q, prg)
  PROVE  \A p \in P : Proper(c, p, prg) /\ After(c, p) \in Q
<1>1. IsSeq(<<c>>) /\ Len(<<c>>) = 1 /\ <<c>>[1] = c
  <2>1. <<c>> \in Seq({c})
    OBVIOUS
  <2> QED
    BY <2>1 DEF IsSeq
<1> QED
  BY <1>1, PathSteps DEF Takes, Keeps, Along

\* Calls of which each leads from the states P[i] to the next.
LEMMA TakesCalls ==
  ASSUME NEW s, IsSeq(s), NEW P, NEW prg,
         \A i \in 1 .. Len(s) : Takes(<<s[i]>>, P[i], P[i + 1], prg)
  PROVE  Takes(s, P[1], P[Len(s) + 1], prg)
<1> DEFINE n == Len(s)
<1>0. n \in Nat
  BY DEF IsSeq
<1>1. \A i \in 1 .. n : \A p \in P[i] : Proper(s[i], p, prg) /\ After(s[i], p) \in P[i + 1]
  BY OneTakes
<1> SUFFICES ASSUME NEW p \in P[1] PROVE Keeps(s, p, prg) /\ Along(s, p) \in P[n + 1]
  BY DEF Takes
<1>2. Path(s, p)[0] = p /\ \A i \in 1 .. n : Path(s, p)[i] = After(s[i], Path(s, p)[i - 1])
  BY PathSteps
<1> DEFINE S == {i \in Nat : i <= n => Path(s, p)[i] \in P[i + 1]}
<1>3. 0 \in S
  BY <1>2
<1>4. ASSUME NEW i \in Nat, i \in S PROVE i + 1 \in S
  <2> SUFFICES ASSUME i + 1 <= n PROVE Path(s, p)[i + 1] \in P[(i + 1) + 1]
    OBVIOUS
  <2>1. i + 1 \in 1 .. n /\ (i + 1) - 1 = i /\ Path(s, p)[i] \in P[i + 1]
    BY <1>0, <1>4
  <2>2. Path(s, p)[i + 1] = After(s[i + 1], Path(s, p)[i])
    BY <1>2, <2>1
  <2> QED
    BY <1>1, <2>1, <2>2
<1>5. Nat \subseteq S
  <2> HIDE DEF S
  <2> QED
    BY <1>3, <1>4, CountUp
<1>6. \A i \in 0 .. n : Path(s, p)[i] \in P[i + 1]
  BY <1>0, <1>5
<1> HIDE DEF S
<1>7. Along(s, p) \in P[n + 1]
  BY <1>0, <1>6 DEF Along
<1>8. Keeps(s, p, prg)
  <2> SUFFICES ASSUME NEW i \in 1 .. n PROVE Proper(s[i], Path(s, p)[i - 1], prg)
    BY DEF Keeps
  <2>1. i - 1 \in 0 .. n /\ (i - 1) + 1 = i
    BY <1>0
  <2> QED
    BY <1>1, <1>6, <2>1
<1> QED
  BY <1>7, <1>8

\* A tuple of calls, one after the other.
LEMMA TakesTwo ==
  ASSUME NEW a, NEW b, NEW P, NEW Q, NEW R, NEW prg,
         Takes(<<a>>, P, Q, prg), Takes(<<b>>, Q, R, prg)
  PROVE  Takes(<<a, b>>, P, R, prg)
<1> SUFFICES ASSUME NEW s, s = <<a, b>>, NEW F, F = <<P, Q, R>> PROVE Takes(s, P, R, prg)
  OBVIOUS
<1>1. <<a, b>> \in Seq({a, b})
  OBVIOUS
<1>2. IsSeq(s) /\ Len(s) = 2 /\ F[1] = P /\ F[3] = R
  BY <1>1 DEF IsSeq
<1>3. ASSUME NEW x \in 1 .. 2 PROVE Takes(<<s[x]>>, F[x], F[x + 1], prg)
  OBVIOUS
<1>4. Takes(s, F[1], F[Len(s) + 1], prg)
  BY <1>2, <1>3, TakesCalls
<1> QED
  BY <1>2, <1>4

\* Pieces of three to ten calls, and programs of four to eleven pieces.
LEMMA TakesThree ==
  ASSUME NEW a, NEW b, NEW c, NEW P, NEW Q, NEW R, NEW S, NEW prg,
         Takes(<<a>>, P, Q, prg), Takes(<<b>>, Q, R, prg), Takes(<<c>>, R, S, prg)
  PROVE  Takes(<<a, b, c>>, P, S, prg)
<1> SUFFICES ASSUME NEW s, s = <<a, b, c>>, NEW F, F = <<P, Q, R, S>> PROVE Takes(s, P, S, prg)
  OBVIOUS
<1>1. <<a, b, c>> \in Seq({a, b, c})
  OBVIOUS
<1>2. IsSeq(s) /\ Len(s) = 3 /\ F[1] = P /\ F[4] = S
  BY <1>1 DEF IsSeq
<1>3. ASSUME NEW x \in 1 .. 3 PROVE Takes(<<s[x]>>, F[x], F[x + 1], prg)
  OBVIOUS
<1>4. Takes(s, F[1], F[Len(s) + 1], prg)
  BY <1>2, <1>3, TakesCalls
<1> QED
  BY <1>2, <1>4

LEMMA TakesFour ==
  ASSUME NEW a, NEW b, NEW c, NEW d, NEW P, NEW Q, NEW R, NEW S, NEW T, NEW prg,
         Takes(<<a>>, P, Q, prg), Takes(<<b>>, Q, R, prg), Takes(<<c>>, R, S, prg), Takes(<<d>>, S, T, prg)
  PROVE  Takes(<<a, b, c, d>>, P, T, prg)
<1> SUFFICES ASSUME NEW s, s = <<a, b, c, d>>, NEW F, F = <<P, Q, R, S, T>> PROVE Takes(s, P, T, prg)
  OBVIOUS
<1>1. <<a, b, c, d>> \in Seq({a, b, c, d})
  OBVIOUS
<1>2. IsSeq(s) /\ Len(s) = 4 /\ F[1] = P /\ F[5] = T
  BY <1>1 DEF IsSeq
<1>3. ASSUME NEW x \in 1 .. 4 PROVE Takes(<<s[x]>>, F[x], F[x + 1], prg)
  OBVIOUS
<1>4. Takes(s, F[1], F[Len(s) + 1], prg)
  BY <1>2, <1>3, TakesCalls
<1> QED
  BY <1>2, <1>4

LEMMA TakesFive ==
  ASSUME NEW a, NEW b, NEW c, NEW d, NEW e, NEW P, NEW Q, NEW R, NEW S, NEW T, NEW U, NEW prg,
         Takes(<<a>>, P, Q, prg), Takes(<<b>>, Q, R, prg), Takes(<<c>>, R, S, prg), Takes(<<d>>, S, T, prg), Takes(<<e>>, T, U, prg)
  PROVE  Takes(<<a, b, c, d, e>>, P, U, prg)
<1> SUFFICES ASSUME NEW s, s = <<a, b, c, d, e>>, NEW F, F = <<P, Q, R, S, T, U>> PROVE Takes(s, P, U, prg)
  OBVIOUS
<1>1. <<a, b, c, d, e>> \in Seq({a, b, c, d, e})
  OBVIOUS
<1>2. IsSeq(s) /\ Len(s) = 5 /\ F[1] = P /\ F[6] = U
  BY <1>1 DEF IsSeq
<1>3. ASSUME NEW x \in 1 .. 5 PROVE Takes(<<s[x]>>, F[x], F[x + 1], prg)
  OBVIOUS
<1>4. Takes(s, F[1], F[Len(s) + 1], prg)
  BY <1>2, <1>3, TakesCalls
<1> QED
  BY <1>2, <1>4

LEMMA TakesSix ==
  ASSUME NEW a, NEW b, NEW c, NEW d, NEW e, NEW f, NEW P, NEW Q, NEW R, NEW S, NEW T, NEW U, NEW V, NEW prg,
         Takes(<<a>>, P, Q, prg), Takes(<<b>>, Q, R, prg), Takes(<<c>>, R, S, prg), Takes(<<d>>, S, T, prg), Takes(<<e>>, T, U, prg), Takes(<<f>>, U, V, prg)
  PROVE  Takes(<<a, b, c, d, e, f>>, P, V, prg)
<1> SUFFICES ASSUME NEW s, s = <<a, b, c, d, e, f>>, NEW F, F = <<P, Q, R, S, T, U, V>> PROVE Takes(s, P, V, prg)
  OBVIOUS
<1>1. <<a, b, c, d, e, f>> \in Seq({a, b, c, d, e, f})
  OBVIOUS
<1>2. IsSeq(s) /\ Len(s) = 6 /\ F[1] = P /\ F[7] = V
  BY <1>1 DEF IsSeq
<1>3. ASSUME NEW x \in 1 .. 6 PROVE Takes(<<s[x]>>, F[x], F[x + 1], prg)
  OBVIOUS
<1>4. Takes(s, F[1], F[Len(s) + 1], prg)
  BY <1>2, <1>3, TakesCalls
<1> QED
  BY <1>2, <1>4

LEMMA TakesSeven ==
  ASSUME NEW a, NEW b, NEW c, NEW d, NEW e, NEW f, NEW g, NEW P, NEW Q, NEW R, NEW S, NEW T, NEW U, NEW V, NEW W, NEW prg,
         Takes(<<a>>, P, Q, prg), Takes(<<b>>, Q, R, prg), Takes(<<c>>, R, S, prg), Takes(<<d>>, S, T, prg), Takes(<<e>>, T, U, prg), Takes(<<f>>, U, V, prg), Takes(<<g>>, V, W, prg)
  PROVE  Takes(<<a, b, c, d, e, f, g>>, P, W, prg)
<1> SUFFICES ASSUME NEW s, s = <<a, b, c, d, e, f, g>>, NEW F, F = <<P, Q, R, S, T, U, V, W>> PROVE Takes(s, P, W, prg)
  OBVIOUS
<1>1. <<a, b, c, d, e, f, g>> \in Seq({a, b, c, d, e, f, g})
  OBVIOUS
<1>2. IsSeq(s) /\ Len(s) = 7 /\ F[1] = P /\ F[8] = W
  BY <1>1 DEF IsSeq
<1>3. ASSUME NEW x \in 1 .. 7 PROVE Takes(<<s[x]>>, F[x], F[x + 1], prg)
  OBVIOUS
<1>4. Takes(s, F[1], F[Len(s) + 1], prg)
  BY <1>2, <1>3, TakesCalls
<1> QED
  BY <1>2, <1>4

LEMMA TakesEight ==
  ASSUME NEW a, NEW b, NEW c, NEW d, NEW e, NEW f, NEW g, NEW h, NEW P, NEW Q, NEW R, NEW S, NEW T, NEW U, NEW V, NEW W, NEW X, NEW prg,
         Takes(<<a>>, P, Q, prg), Takes(<<b>>, Q, R, prg), Takes(<<c>>, R, S, prg), Takes(<<d>>, S, T, prg), Takes(<<e>>, T, U, prg), Takes(<<f>>, U, V, prg), Takes(<<g>>, V, W, prg), Takes(<<h>>, W, X, prg)
  PROVE  Takes(<<a, b, c, d, e, f, g, h>>, P, X, prg)
<1> SUFFICES ASSUME NEW s, s = <<a, b, c, d, e, f, g, h>>, NEW F, F = <<P, Q, R, S, T, U, V, W, X>> PROVE Takes(s, P, X, prg)
  OBVIOUS
<1>1. <<a, b, c, d, e, f, g, h>> \in Seq({a, b, c, d, e, f, g, h})
  OBVIOUS
<1>2. IsSeq(s) /\ Len(s) = 8 /\ F[1] = P /\ F[9] = X
  BY <1>1 DEF IsSeq
<1>3. ASSUME NEW x \in 1 .. 8 PROVE Takes(<<s[x]>>, F[x], F[x + 1], prg)
  OBVIOUS
<1>4. Takes(s, F[1], F[Len(s) + 1], prg)
  BY <1>2, <1>3, TakesCalls
<1> QED
  BY <1>2, <1>4

LEMMA TakesNine ==
  ASSUME NEW a, NEW b, NEW c, NEW d, NEW e, NEW f, NEW g, NEW h, NEW i, NEW P, NEW Q, NEW R, NEW S, NEW T, NEW U, NEW V, NEW W, NEW X, NEW Y, NEW prg,
         Takes(<<a>>, P, Q, prg), Takes(<<b>>, Q, R, prg), Takes(<<c>>, R, S, prg), Takes(<<d>>, S, T, prg), Takes(<<e>>, T, U, prg), Takes(<<f>>, U, V, prg), Takes(<<g>>, V, W, prg), Takes(<<h>>, W, X, prg), Takes(<<i>>, X, Y, prg)
  PROVE  Takes(<<a, b, c, d, e, f, g, h, i>>, P, Y, prg)
<1> SUFFICES ASSUME NEW s, s = <<a, b, c, d, e, f, g, h, i>>, NEW F, F = <<P, Q, R, S, T, U, V, W, X, Y>> PROVE Takes(s, P, Y, prg)
  OBVIOUS
<1>1. <<a, b, c, d, e, f, g, h, i>> \in Seq({a, b, c, d, e, f, g, h, i})
  OBVIOUS
<1>2. IsSeq(s) /\ Len(s) = 9 /\ F[1] = P /\ F[10] = Y
  BY <1>1 DEF IsSeq
<1>3. ASSUME NEW x \in 1 .. 9 PROVE Takes(<<s[x]>>, F[x], F[x + 1], prg)
  OBVIOUS
<1>4. Takes(s, F[1], F[Len(s) + 1], prg)
  BY <1>2, <1>3, TakesCalls
<1> QED
  BY <1>2, <1>4

LEMMA TakesTen ==
  ASSUME NEW a, NEW b, NEW c, NEW d, NEW e, NEW f, NEW g, NEW h, NEW i, NEW j, NEW P, NEW Q, NEW R, NEW S, NEW T, NEW U, NEW V, NEW W, NEW X, NEW Y, NEW Z, NEW prg,
         Takes(<<a>>, P, Q, prg), Takes(<<b>>, Q, R, prg), Takes(<<c>>, R, S, prg), Takes(<<d>>, S, T, prg), Takes(<<e>>, T, U, prg), Takes(<<f>>, U, V, prg), Takes(<<g>>, V, W, prg), Takes(<<h>>, W, X, prg), Takes(<<i>>, X, Y, prg), Takes(<<j>>, Y, Z, prg)
  PROVE  Takes(<<a, b, c, d, e, f, g, h, i, j>>, P, Z, prg)
<1> SUFFICES ASSUME NEW s, s = <<a, b, c, d, e, f, g, h, i, j>>, NEW F, F = <<P, Q, R, S, T, U, V, W, X, Y, Z>> PROVE Takes(s, P, Z, prg)
  OBVIOUS
<1>1. <<a, b, c, d, e, f, g, h, i, j>> \in Seq({a, b, c, d, e, f, g, h, i, j})
  OBVIOUS
<1>2. IsSeq(s) /\ Len(s) = 10 /\ F[1] = P /\ F[11] = Z
  BY <1>1 DEF IsSeq
<1>3. ASSUME NEW x \in 1 .. 10 PROVE Takes(<<s[x]>>, F[x], F[x + 1], prg)
  OBVIOUS
<1>4. Takes(s, F[1], F[Len(s) + 1], prg)
  BY <1>2, <1>3, TakesCalls
<1> QED
  BY <1>2, <1>4

\* Sequences of calls joined, one after the other.
LEMMA JoinThree ==
  ASSUME NEW a, NEW b, NEW c, NEW P, NEW Q, NEW R, NEW S, NEW prg,
         Takes(a, P, Q, prg), Takes(b, Q, R, prg), Takes(c, R, S, prg)
  PROVE  Takes(a \o b \o c, P, S, prg)
<1>1. Takes(a \o b, P, R, prg)
  BY TakesJoin, Zenon
<1> QED
  BY <1>1, TakesJoin, Zenon

LEMMA JoinFour ==
  ASSUME NEW a, NEW b, NEW c, NEW d, NEW P, NEW Q, NEW R, NEW S, NEW T, NEW prg,
         Takes(a, P, Q, prg), Takes(b, Q, R, prg), Takes(c, R, S, prg), Takes(d, S, T, prg)
  PROVE  Takes(a \o b \o c \o d, P, T, prg)
<1>1. Takes(a \o b \o c, P, S, prg)
  BY JoinThree, Zenon
<1> QED
  BY <1>1, TakesJoin, Zenon

LEMMA JoinFive ==
  ASSUME NEW a, NEW b, NEW c, NEW d, NEW e, NEW P, NEW Q, NEW R, NEW S, NEW T, NEW U, NEW prg,
         Takes(a, P, Q, prg), Takes(b, Q, R, prg), Takes(c, R, S, prg), Takes(d, S, T, prg), Takes(e, T, U, prg)
  PROVE  Takes(a \o b \o c \o d \o e, P, U, prg)
<1>1. Takes(a \o b \o c \o d, P, T, prg)
  BY JoinFour, Zenon
<1> QED
  BY <1>1, TakesJoin, Zenon

LEMMA JoinSix ==
  ASSUME NEW a, NEW b, NEW c, NEW d, NEW e, NEW f, NEW P, NEW Q, NEW R, NEW S, NEW T, NEW U, NEW V, NEW prg,
         Takes(a, P, Q, prg), Takes(b, Q, R, prg), Takes(c, R, S, prg), Takes(d, S, T, prg), Takes(e, T, U, prg), Takes(f, U, V, prg)
  PROVE  Takes(a \o b \o c \o d \o e \o f, P, V, prg)
<1>1. Takes(a \o b \o c \o d \o e, P, U, prg)
  BY JoinFive, Zenon
<1> QED
  BY <1>1, TakesJoin, Zenon

LEMMA JoinSeven ==
  ASSUME NEW a, NEW b, NEW c, NEW d, NEW e, NEW f, NEW g, NEW P, NEW Q, NEW R, NEW S, NEW T, NEW U, NEW V, NEW W, NEW prg,
         Takes(a, P, Q, prg), Takes(b, Q, R, prg), Takes(c, R, S, prg), Takes(d, S, T, prg), Takes(e, T, U, prg), Takes(f, U, V, prg), Takes(g, V, W, prg)
  PROVE  Takes(a \o b \o c \o d \o e \o f \o g, P, W, prg)
<1>1. Takes(a \o b \o c \o d \o e \o f, P, V, prg)
  BY JoinSix, Zenon
<1> QED
  BY <1>1, TakesJoin, Zenon

LEMMA JoinEight ==
  ASSUME NEW a, NEW b, NEW c, NEW d, NEW e, NEW f, NEW g, NEW h, NEW P, NEW Q, NEW R, NEW S, NEW T, NEW U, NEW V, NEW W, NEW X, NEW prg,
         Takes(a, P, Q, prg), Takes(b, Q, R, prg), Takes(c, R, S, prg), Takes(d, S, T, prg), Takes(e, T, U, prg), Takes(f, U, V, prg), Takes(g, V, W, prg), Takes(h, W, X, prg)
  PROVE  Takes(a \o b \o c \o d \o e \o f \o g \o h, P, X, prg)
<1>1. Takes(a \o b \o c \o d \o e \o f \o g, P, W, prg)
  BY JoinSeven, Zenon
<1> QED
  BY <1>1, TakesJoin, Zenon

LEMMA JoinNine ==
  ASSUME NEW a, NEW b, NEW c, NEW d, NEW e, NEW f, NEW g, NEW h, NEW i, NEW P, NEW Q, NEW R, NEW S, NEW T, NEW U, NEW V, NEW W, NEW X, NEW Y, NEW prg,
         Takes(a, P, Q, prg), Takes(b, Q, R, prg), Takes(c, R, S, prg), Takes(d, S, T, prg), Takes(e, T, U, prg), Takes(f, U, V, prg), Takes(g, V, W, prg), Takes(h, W, X, prg), Takes(i, X, Y, prg)
  PROVE  Takes(a \o b \o c \o d \o e \o f \o g \o h \o i, P, Y, prg)
<1>1. Takes(a \o b \o c \o d \o e \o f \o g \o h, P, X, prg)
  BY JoinEight, Zenon
<1> QED
  BY <1>1, TakesJoin, Zenon

LEMMA JoinTen ==
  ASSUME NEW a, NEW b, NEW c, NEW d, NEW e, NEW f, NEW g, NEW h, NEW i, NEW j, NEW P, NEW Q, NEW R, NEW S, NEW T, NEW U, NEW V, NEW W, NEW X, NEW Y, NEW Z, NEW prg,
         Takes(a, P, Q, prg), Takes(b, Q, R, prg), Takes(c, R, S, prg), Takes(d, S, T, prg), Takes(e, T, U, prg), Takes(f, U, V, prg), Takes(g, V, W, prg), Takes(h, W, X, prg), Takes(i, X, Y, prg), Takes(j, Y, Z, prg)
  PROVE  Takes(a \o b \o c \o d \o e \o f \o g \o h \o i \o j, P, Z, prg)
<1>1. Takes(a \o b \o c \o d \o e \o f \o g \o h \o i, P, Y, prg)
  BY JoinNine, Zenon
<1> QED
  BY <1>1, TakesJoin, Zenon

LEMMA JoinEleven ==
  ASSUME NEW a, NEW b, NEW c, NEW d, NEW e, NEW f, NEW g, NEW h, NEW i, NEW j, NEW k, NEW P, NEW Q, NEW R, NEW S, NEW T, NEW U, NEW V, NEW W, NEW X, NEW Y, NEW Z, NEW ZZ, NEW prg,
         Takes(a, P, Q, prg), Takes(b, Q, R, prg), Takes(c, R, S, prg), Takes(d, S, T, prg), Takes(e, T, U, prg), Takes(f, U, V, prg), Takes(g, V, W, prg), Takes(h, W, X, prg), Takes(i, X, Y, prg), Takes(j, Y, Z, prg), Takes(k, Z, ZZ, prg)
  PROVE  Takes(a \o b \o c \o d \o e \o f \o g \o h \o i \o j \o k, P, ZZ, prg)
<1>1. Takes(a \o b \o c \o d \o e \o f \o g \o h \o i \o j, P, Z, prg)
  BY JoinTen, Zenon
<1> QED
  BY <1>1, TakesJoin, Zenon

\* eglInitialize and its like.
LEMMA SetupTakes ==
  ASSUME NEW S, NEW T, NEW prg, NEW fails, Grows(S, T, {})
  PROVE  Takes(<<eglSetup(fails)>>, States(S), States(T), prg)
<1>1. eglSetup(fails).op = "eglSetup"
  BY DEF eglSetup
<1>2. eglSetup(fails).op \in IdleOps \ IdleGlOps
  BY <1>1 DEF IdleOps, IdleGlOps
<1> QED
  BY <1>1, <1>2, IdleTakes

\* eglCreateContext.
LEMMA ContextTakes ==
  ASSUME NEW S, NEW T, NEW prg, NEW fails, Grows(S, T, {})
  PROVE  Takes(<<eglCreateContext(fails)>>, States(S), States(T), prg)
<1>1. eglCreateContext(fails).op = "eglCreateContext"
  BY DEF eglCreateContext
<1>2. eglCreateContext(fails).op \in IdleOps \ IdleGlOps
  BY <1>1 DEF IdleOps, IdleGlOps
<1> QED
  BY <1>1, <1>2, IdleTakes

\* eglSwapBuffers.
LEMMA SwapTakes ==
  ASSUME NEW S, NEW T, NEW prg, NEW fails, Grows(S, T, {})
  PROVE  Takes(<<eglSwapBuffers(fails)>>, States(S), States(T), prg)
<1>1. eglSwapBuffers(fails).op = "eglSwapBuffers"
  BY DEF eglSwapBuffers
<1>2. eglSwapBuffers(fails).op \in IdleOps \ IdleGlOps
  BY <1>1 DEF IdleOps, IdleGlOps
<1> QED
  BY <1>1, <1>2, IdleTakes

\* The verdict is printed.
LEMMA VerdictTakes ==
  ASSUME NEW S, NEW T, NEW prg, Grows(S, T, {}), S.on = {TRUE}
  PROVE  Takes(<<Verdict>>, States(S), States(T), prg)
<1>1. Verdict.op = "verdict"
  BY DEF Verdict
<1>2. Verdict.op \in IdleOps \ IdleGlOps
  BY <1>1 DEF IdleOps, IdleGlOps
<1> QED
  BY <1>1, <1>2, IdleTakes

\* glGenVertexArraysOES.
LEMMA ArraysTakes ==
  ASSUME NEW S, NEW T, NEW prg, Grows(S, T, {})
  PROVE  Takes(<<glGenVertexArrays>>, States(S), States(T), prg)
<1>1. glGenVertexArrays.op = "glGenVertexArraysOES"
  BY DEF glGenVertexArrays
<1>2. glGenVertexArrays.op \in IdleOps \ IdleGlOps
  BY <1>1 DEF IdleOps, IdleGlOps
<1> QED
  BY <1>1, <1>2, IdleTakes

\* glViewport.
LEMMA ViewportTakes ==
  ASSUME NEW S, NEW T, NEW prg, NEW x, Grows(S, T, {}), S.on = {TRUE}
  PROVE  Takes(<<glViewport(x)>>, States(S), States(T), prg)
<1>1. glViewport(x).op = "glViewport"
  BY DEF glViewport
<1>2. glViewport(x).op \in IdleGlOps
  BY <1>1 DEF IdleGlOps
<1> QED
  BY <1>1, <1>2, IdleTakes

\* glStencilFunc and glStencilOp.
LEMMA StencilTakes ==
  ASSUME NEW S, NEW T, NEW prg, NEW x, Grows(S, T, {}), S.on = {TRUE}
  PROVE  Takes(<<glStencil(x)>>, States(S), States(T), prg)
<1>1. glStencil(x).op = "glStencil"
  BY DEF glStencil
<1>2. glStencil(x).op \in IdleGlOps
  BY <1>1 DEF IdleGlOps
<1> QED
  BY <1>1, <1>2, IdleTakes

\* glDetachShader.
LEMMA DetachTakes ==
  ASSUME NEW S, NEW T, NEW prg, NEW x, Grows(S, T, {}), S.on = {TRUE}
  PROVE  Takes(<<glDetachShader(x)>>, States(S), States(T), prg)
<1>1. glDetachShader(x).op = "glDetachShader"
  BY DEF glDetachShader
<1>2. glDetachShader(x).op \in IdleGlOps
  BY <1>1 DEF IdleGlOps
<1> QED
  BY <1>1, <1>2, IdleTakes

\* The loop of a count that may be negative.
LEMMA TakesLoopInt ==
  ASSUME NEW n \in Int, NEW turn, DOMAIN turn = 0 .. n - 1, NEW P, NEW prg,
         \A i \in 0 .. n - 1 : Takes(turn[i], P, P, prg)
  PROVE  Takes(Loop(turn), P, P, prg)
<1>1. CASE n \in Nat
  BY <1>1, TakesLoopIn DEF Turns
<1>2. CASE n \notin Nat
  <2>1. 0 .. n - 1 = 0 .. 0 - 1
    BY <1>2
  <2>2. Turns(turn, 0)
    BY <2>1 DEF Turns
  <2>3. \A i \in 0 .. 0 - 1 : Takes(turn[i], P, P, prg)
    OBVIOUS
  <2> QED
    BY <2>2, <2>3, TakesLoopIn
<1> QED
  BY <1>1, <1>2

\* Where every program starts, and where it is with a window and a context.
Began ==
  [on |-> {FALSE}, adrift |-> {FALSE}, target |-> {0}, surface |-> {None}, surfaces |-> {{}},
   att |-> {<<>>}, pic |-> {}, busy |-> {}, bound |-> {None}, buf |-> {<<>>}, abuf |-> {0},
   src |-> {NewContext.src}, kind |-> {<<>>}, prog |-> {0}, given |-> {}]
\* The states of a program with its window current that has no framebuffer.
Windowed(pic, busy, bound, buf, abuf, src, kind, prog, given) ==
  [on |-> {TRUE}, adrift |-> {FALSE}, target |-> {0}, surface |-> {Window}, surfaces |-> {{Window}},
   att |-> {<<>>}, pic |-> pic, busy |-> busy, bound |-> bound, buf |-> buf, abuf |-> abuf,
   src |-> src, kind |-> kind, prog |-> prog, given |-> given]
\* With a surface that is not yet current.
Unopened ==
  [on |-> {FALSE}, adrift |-> {FALSE}, target |-> {0}, surface |-> {None}, surfaces |-> {{Window}},
   att |-> {<<>>}, pic |-> {Window}, busy |-> {}, bound |-> {None}, buf |-> {<<>>}, abuf |-> {0},
   src |-> {NewContext.src}, kind |-> {<<>>}, prog |-> {0}, given |-> {}]
Opened(busy) == Windowed({}, busy, {None}, {<<>>}, {0}, {NewContext.src}, {<<>>}, {0}, {})

\* Every program starts from the same state.
LEMMA FreshBegan == {Fresh} \subseteq States(Began)
<1>1. {} \in SUBSET Images
  OBVIOUS
<1>2. <<>> = [x \in {} |-> "any"]
  OBVIOUS
<1>3. <<>> \in Pics({})
  BY <1>1, <1>2 DEF Pics
<1> QED
  BY <1>3 DEF Fresh, States, Began, Givens

\* Images of different kinds or numbers are different.
LEMMA Names ==
  /\ Window \in Images /\ None \in Images /\ None # Window
  /\ \A i \in Int : Surface(i) \in Images /\ Texture(i) \in Images /\ Renderbuffer(i) \in Images
  /\ \A i \in Int, j \in Int :
       /\ Texture(i) # Surface(j) /\ Texture(i) # None /\ Surface(i) # None
       /\ (Texture(i) = Texture(j)) <=> (i = j)
       /\ (Surface(i) = Surface(j)) <=> (i = j)
  /\ \A i \in Int : Texture(i) # Window
BY DEF Window, Surface, Texture, Renderbuffer, None, Images

\* What three of the tools start with leaves a window current.
LEMMA WindowOpens ==
  ASSUME NEW prg
  PROVE  Takes(OpenWindow, States(Began), States(Opened({Window})), prg)
<1>1. Takes(<<eglSetup("exit")>>, States(Began), States(Began), prg)
  BY SetupTakes DEF Grows
<1>2. Takes(<<eglCreateContext("exit")>>, States(Began), States(Began), prg)
  BY ContextTakes DEF Grows
<1>3. Takes(<<eglCreateSurface(Window)>>, States(Began), States(Unopened), prg)
  BY SurfaceMadeTakes, Names DEF Grows, Began, Unopened
<1>4. Takes(<<eglMakeCurrent(Window, TRUE, "exit")>>, States(Unopened), States(Opened({Window})), prg)
  BY CurrentTakes DEF Grows, Unopened, Opened, Windowed
<1> QED
  BY <1>1, <1>2, <1>3, <1>4, TakesFour DEF OpenWindow

\* A program that gets through from the state it starts in is proper throughout.
LEMMA IsKept ==
  ASSUME NEW s, NEW Q, NEW prg, Takes(s, States(Began), Q, prg)
  PROVE  IsSeq(s) /\ Keeps(s, Fresh, prg)
BY FreshBegan DEF Takes

-----------------------------------------------------------------------------
\* What a draw of a program needs.

\* What a draw needs: its uniforms and texture, and its vertices.
Drawable(S, prg, X) ==
  \A x \in S.prog, kd \in S.kind :
    /\ (prg.name = "tri" /\ prg.rebind /\ ~prg.unif) \/ (x \in DOMAIN kd /\ (kd[x] = "plain" \/ x \in S.given))
    /\ kd[x] \in {"sampler", "uber"} => S.bound \subseteq S.pic /\ S.bound \cap X = {}
Fits(s, b, first, count) ==
  /\ (first + count) * s.stride <= Held(s, b).size
  /\ \E shape \in Held(s, b).shapes : shape.at = first /\ count <= shape.n

\* glDrawArrays with its uniforms given, within one shape of its buffer.
LEMMA DrawArraysTakes ==
  ASSUME NEW S, NEW T, NEW prg, NEW X, NEW first, NEW count, Grows(S, T, {}), S.on = {TRUE},
         TargetIn(S, X), X \subseteq T.busy, Drawable(S, prg, X),
         \A s \in S.src, b \in S.buf : Fits(s, b, first, count)
  PROVE  Takes(<<glDrawArrays(first, count)>>, States(S), States(T), prg)
<1> SUFFICES ASSUME NEW c, c = glDrawArrays(first, count) PROVE Takes(<<c>>, States(S), States(T), prg)
  OBVIOUS
<1>1. c.op = "glDrawArrays" /\ c.first = first /\ c.count = count
  BY DEF glDrawArrays
<1>2. c.op \in DrawOps /\ Extent(c) = count
  BY <1>1 DEF DrawOps, Extent
<1>3. \A s \in S.src, b \in S.buf : Serves(Held(s, b), s.stride, c)
  BY <1>1, <1>2 DEF Fits, Serves
<1> QED
  BY <1>2, <1>3, DrawTakes DEF Drawable

\* The same of glDrawElements.
LEMMA DrawElementsTakes ==
  ASSUME NEW S, NEW T, NEW prg, NEW X, NEW n, NEW verts, Grows(S, T, {}), S.on = {TRUE},
         TargetIn(S, X), X \subseteq T.busy, Drawable(S, prg, X),
         \A s \in S.src, b \in S.buf : Fits(s, b, 0, verts)
  PROVE  Takes(<<glDrawElements(n, verts)>>, States(S), States(T), prg)
<1> SUFFICES ASSUME NEW c, c = glDrawElements(n, verts) PROVE Takes(<<c>>, States(S), States(T), prg)
  OBVIOUS
<1>1. c.op = "glDrawElements" /\ c.first = 0 /\ c.verts = verts
  BY DEF glDrawElements
<1>2. c.op \in DrawOps /\ Extent(c) = verts
  BY <1>1 DEF DrawOps, Extent
<1>3. \A s \in S.src, b \in S.buf : Serves(Held(s, b), s.stride, c)
  BY <1>1, <1>2 DEF Fits, Serves
<1> QED
  BY <1>2, <1>3, DrawTakes DEF Drawable

\* glTexImage2D makes the bound texture one that can be sampled.
LEMMA TexImageTakes ==
  ASSUME NEW S, NEW T, NEW prg, NEW colour, Grows(S, T, {"pic"}), S.on = {TRUE},
         S.bound \subseteq Images, \A x \in T.pic : x \in S.pic \/ S.bound \subseteq {x}
  PROVE  Takes(<<glTexImage2D(colour)>>, States(S), States(T), prg)
<1> SUFFICES ASSUME NEW c, c = glTexImage2D(colour) PROVE Takes(<<c>>, States(S), States(T), prg)
  OBVIOUS
<1>1. c.op = "glTexImage2D"
  BY DEF glTexImage2D
<1> QED
  BY <1>1, AllocatesTakes

\* glRenderbufferStorage.
LEMMA StorageTakes ==
  ASSUME NEW S, NEW T, NEW prg, NEW image, Grows(S, T, {"pic"}), S.on = {TRUE}, image \in Images,
         S.bound \subseteq Images, T.pic \subseteq S.pic \cup {image}
  PROVE  Takes(<<glStorage(image)>>, States(S), States(T), prg)
<1> SUFFICES ASSUME NEW c, c = glStorage(image) PROVE Takes(<<c>>, States(S), States(T), prg)
  OBVIOUS
<1>1. c.op = "glRenderbufferStorage" /\ c.image = image
  BY DEF glStorage
<1> QED
  BY <1>1, AllocatesTakes

\* The later of two assignments counts.
LEMMA PutTwice ==
  ASSUME NEW f, NEW x, NEW y, NEW z
  PROVE  Put(Put(f, x, y), x, z) = Put(f, x, z)
BY DEF Put

\* A function where it was assigned to, and elsewhere.
LEMMA PutAt ==
  ASSUME NEW f, NEW x, NEW y
  PROVE  /\ x \in DOMAIN Put(f, x, y) /\ Put(f, x, y)[x] = y
         /\ \A z \in DOMAIN f : z \in DOMAIN Put(f, x, y) /\ (z # x => Put(f, x, y)[z] = f[z])
         /\ DOMAIN Put(f, x, y) = {x} \cup DOMAIN f
BY DEF Put

-----------------------------------------------------------------------------
\* tri-inline.c.

TriBuf == Put(<<>>, 1, TriVerts)
TriSrc == [from |-> 1, data |-> NoData, stride |-> 16]

\* tri-inline.c:289-297: program, buffer and pointers are bound again.
LEMMA TriBinds ==
  ASSUME NEW prg, NEW bound, NEW kind, NEW given, NEW buf, NEW src, \A b \in buf : Put(b, 1, TriVerts) = TriBuf
  PROVE  Takes(TriBind,
               States(Windowed({Texture(1)}, {Window}, bound, buf, {0}, src, kind, {0}, given)),
               States(Windowed({Texture(1)}, {Window}, bound, {TriBuf}, {1}, {TriSrc}, kind, {1}, given)), prg)
<1> DEFINE W(b, abuf, s, prog) == Windowed({Texture(1)}, {Window}, bound, b, abuf, s, kind, prog, given)
<1>1. Takes(<<glUseProgram(1)>>, States(W(buf, {0}, src, {0})), States(W(buf, {0}, src, {1})), prg)
  BY UseTakes DEF Windowed, Grows
<1>2. Takes(<<glBindBuffer(1)>>, States(W(buf, {0}, src, {1})), States(W(buf, {1}, src, {1})), prg)
  BY BufferTakes DEF Windowed, Grows
<1>3. Takes(<<glBufferData(TriVerts)>>, States(W(buf, {1}, src, {1})), States(W({TriBuf}, {1}, src, {1})), prg)
  <2>1. \A a \in {1}, b \in buf : Put(b, a, TriVerts) \in {TriBuf}
    OBVIOUS
  <2>2. \A a \in {1} : a # 0
    OBVIOUS
  <2> QED
    BY <2>1, <2>2, DataTakes DEF Windowed, Grows
<1>4. Takes(<<glPointer(NoData, 16)>>, States(W({TriBuf}, {1}, src, {1})), States(W({TriBuf}, {1}, {TriSrc}, {1})), prg)
  BY PointerTakes DEF Windowed, Grows, TriSrc
<1> HIDE DEF W
<1>5. Takes(TriBind, States(W(buf, {0}, src, {0})), States(W({TriBuf}, {1}, {TriSrc}, {1})), prg)
  BY <1>1, <1>2, <1>3, <1>4, TakesFour DEF TriBind
<1> QED
  BY <1>5 DEF W

\* tri-inline.c:157-169, 332-340: fan and fringe lie within the eleven vertices.
LEMMA TriFits == Fits(TriSrc, TriBuf, 0, 3) /\ Fits(TriSrc, TriBuf, 3, 8)
<1>1. Held(TriSrc, TriBuf) = TriVerts
  <2>1. 1 \in DOMAIN TriBuf /\ TriBuf[1] = TriVerts
    BY DEF TriBuf, Put
  <2> QED
    BY <2>1 DEF Held, TriSrc
<1>2. TriVerts.size = 176 /\ TriVerts.shapes = {Shape(0, 3, 0, Both), Shape(3, 8, 0, Both)} /\ TriSrc.stride = 16
  BY DEF TriVerts, TriSrc, Data
<1>3. Shape(0, 3, 0, Both).at = 0 /\ Shape(0, 3, 0, Both).n = 3 /\ Shape(3, 8, 0, Both).at = 3 /\ Shape(3, 8, 0, Both).n = 8
  BY DEF Shape
<1> QED
  BY <1>1, <1>2, <1>3 DEF Fits

TriKind == Put(<<>>, 1, "uber")

\* tri-inline.c, for every mask of its state bits and any number of frames.
LEMMA TriKept ==
  ASSUME NEW k \in TriKnobs
  PROVE  IsSeq(TriInline(k)) /\ Keeps(TriInline(k), Fresh, k)
<1> DEFINE prog0 == IF k.rebind THEN {0} ELSE {1}
           abuf0 == IF k.rebind THEN {0} ELSE {1}
           buf0 == IF k.rebind THEN {<<>>, TriBuf} ELSE {TriBuf}
           src0 == IF k.rebind THEN {NewContext.src, TriSrc} ELSE {TriSrc}
           bound0 == IF k.tex THEN {None} ELSE {Texture(1)}
           given0 == IF k.rebind \/ k.unif THEN {} ELSE {1}
           given1 == IF k.rebind /\ ~k.unif THEN {} ELSE {1}
           W(pic, bound, buf, abuf, src, kind, prog, given) ==
             Windowed(pic, {Window}, bound, buf, abuf, src, kind, prog, given)
<1>0. /\ k.rebind \in BOOLEAN /\ k.tex \in BOOLEAN /\ k.unif \in BOOLEAN /\ k.fringe \in BOOLEAN
      /\ k.frames \in Int /\ k.name = "tri"
      /\ (~k.rebind) \in BOOLEAN /\ (~k.tex) \in BOOLEAN /\ (~k.unif) \in BOOLEAN
  BY DEF TriKnobs
<1>1. Texture(1) # Window /\ None # Window /\ Texture(1) # None
  BY Names
<1>2. /\ \A b \in {<<>>} : Put(b, 1, TriVerts) = TriBuf
      /\ k.rebind => \A b \in buf0 : Put(b, 1, TriVerts) = TriBuf
  <2>1. Put(<<>>, 1, TriVerts) = TriBuf /\ Put(TriBuf, 1, TriVerts) = TriBuf
    BY PutTwice DEF TriBuf
  <2> QED
    BY <2>1
<1>3. 1 \in DOMAIN TriKind /\ TriKind[1] = "uber"
  BY DEF TriKind, Put
<1> DEFINE s1 == W({}, {None}, {<<>>}, {0}, {NewContext.src}, {<<>>}, {0}, {})
           s2 == W({}, {None}, {<<>>}, {0}, {NewContext.src}, {TriKind}, {0}, {})
           s3 == W({}, {Texture(1)}, {<<>>}, {0}, {NewContext.src}, {TriKind}, {0}, {})
           s4 == W({Texture(1)}, {Texture(1)}, {<<>>}, {0}, {NewContext.src}, {TriKind}, {0}, {})
           s5 == W({Texture(1)}, {None}, {<<>>}, {0}, {NewContext.src}, {TriKind}, {0}, {})
           s6 == W({Texture(1)}, {None}, buf0, abuf0, src0, {TriKind}, prog0, {})
           s7 == W({Texture(1)}, bound0, buf0, abuf0, src0, {TriKind}, prog0, {})
           s8 == W({Texture(1)}, bound0, buf0, abuf0, src0, {TriKind}, prog0, given0)
           s9 == W({Texture(1)}, bound0, {TriBuf}, {1}, {TriSrc}, {TriKind}, {1}, given0)
           s10 == W({Texture(1)}, bound0, {TriBuf}, {1}, {TriSrc}, {TriKind}, {1}, given1)
           s11 == W({Texture(1)}, {Texture(1)}, {TriBuf}, {1}, {TriSrc}, {TriKind}, {1}, given1)
           s12 == W({Texture(1)}, {Texture(1)}, {TriBuf}, abuf0, {TriSrc}, {TriKind}, {1}, given1)
           s13 == W({Texture(1)}, {Texture(1)}, {TriBuf}, abuf0, {TriSrc}, {TriKind}, prog0, given1)
           s14 == W({Texture(1)}, bound0, {TriBuf}, abuf0, {TriSrc}, {TriKind}, prog0, given1)
<1>10. Takes(OpenWindow, States(Began), States(s1), k)
  BY WindowOpens DEF Opened
<1>11. Takes(<<glLinkProgram(1, "uber"), glBindTexture(Texture(1)), glTexImage2D("yellow"), glBindTexture(None)>>, States(s1), States(s5), k)
  <2>1. Takes(<<glLinkProgram(1, "uber")>>, States(s1), States(s2), k)
    BY LinkTakes DEF Windowed, Grows, TriKind
  <2>2. Takes(<<glBindTexture(Texture(1))>>, States(s2), States(s3), k)
    BY TextureTakes DEF Windowed, Grows
  <2>3. Takes(<<glTexImage2D("yellow")>>, States(s3), States(s4), k)
    <3>1. {Texture(1)} \subseteq Images
      BY Names
    <3>2. \A x \in {Texture(1)} : x \in {} \/ {Texture(1)} \subseteq {x}
      BY Names
    <3> QED
      BY <3>1, <3>2, Names, TexImageTakes DEF Windowed, Grows
  <2>4. Takes(<<glBindTexture(None)>>, States(s4), States(s5), k)
    BY TextureTakes DEF Windowed, Grows
  <2> QED
    BY <2>1, <2>2, <2>3, <2>4, TakesFour
<1>12. Takes(When(~k.rebind, TriBind), States(s5), States(s6), k)
  <2>1. ASSUME ~k.rebind PROVE Takes(TriBind, States(s5), States(s6), k)
    BY <2>1, <1>0, <1>2, TriBinds
  <2>2. ASSUME ~(~k.rebind) PROVE States(s5) \subseteq States(s6)
    BY <2>2, WithinStates DEF Windowed, Grows
  <2> QED
    BY <2>1, <2>2, <1>0, TakesWhen
<1>13. Takes(When(~k.tex, <<glBindTexture(Texture(1))>>), States(s6), States(s7), k)
  <2>1. ASSUME ~k.tex PROVE Takes(<<glBindTexture(Texture(1))>>, States(s6), States(s7), k)
    BY <2>1, TextureTakes DEF Windowed, Grows
  <2>2. ASSUME ~(~k.tex) PROVE States(s6) \subseteq States(s7)
    BY <2>2, WithinStates DEF Windowed, Grows
  <2> QED
    BY <2>1, <2>2, <1>0, TakesWhen
<1>14. Takes(When(~k.unif, <<glUniform("yellow")>>), States(s7), States(s8), k)
  <2>1. ASSUME ~k.unif PROVE Takes(<<glUniform("yellow")>>, States(s7), States(s8), k)
    <3>1. prog0 \subseteq Nat
      BY <2>1
    <3>2. \A x \in given0 : x \in {} \/ (x # 0 /\ prog0 \subseteq {x})
      BY <2>1
    <3> QED
      BY <3>1, <3>2, <2>1, UniformTakes DEF Windowed, Grows
  <2>2. ASSUME ~(~k.unif) PROVE States(s7) \subseteq States(s8)
    BY <2>2, WithinStates DEF Windowed, Grows
  <2> QED
    BY <2>1, <2>2, <1>0, TakesWhen
<1>15. Takes(Loop([f \in 0 .. k.frames - 1 |-> <<glClear("grey")>> \o When(k.rebind, TriBind) \o
      When(k.tex, <<glBindTexture(None)>>) \o When(k.unif, <<glUniform("yellow")>>) \o
      When(k.tex, <<glBindTexture(Texture(1))>>) \o <<glDrawArrays(0, 3)>> \o
      When(k.fringe, <<glDrawArrays(3, 8)>>) \o When(k.rebind, <<glBindBuffer(0), glUseProgram(0)>>) \o
      When(k.tex, <<glBindTexture(None)>>) \o <<eglSwapBuffers("exit")>>]), States(s8), States(s8), k)
  <2> DEFINE turn == [f \in 0 .. k.frames - 1 |-> <<glClear("grey")>> \o When(k.rebind, TriBind) \o
        When(k.tex, <<glBindTexture(None)>>) \o When(k.unif, <<glUniform("yellow")>>) \o
        When(k.tex, <<glBindTexture(Texture(1))>>) \o <<glDrawArrays(0, 3)>> \o
        When(k.fringe, <<glDrawArrays(3, 8)>>) \o When(k.rebind, <<glBindBuffer(0), glUseProgram(0)>>) \o
        When(k.tex, <<glBindTexture(None)>>) \o <<eglSwapBuffers("exit")>>]
  <2>1. ASSUME NEW f \in 0 .. k.frames - 1 PROVE Takes(<<glClear("grey")>> \o When(k.rebind, TriBind) \o
        When(k.tex, <<glBindTexture(None)>>) \o When(k.unif, <<glUniform("yellow")>>) \o
        When(k.tex, <<glBindTexture(Texture(1))>>) \o <<glDrawArrays(0, 3)>> \o
        When(k.fringe, <<glDrawArrays(3, 8)>>) \o When(k.rebind, <<glBindBuffer(0), glUseProgram(0)>>) \o
        When(k.tex, <<glBindTexture(None)>>) \o <<eglSwapBuffers("exit")>>, States(s8), States(s8), k)
    <3>1. Takes(<<glClear("grey")>>, States(s8), States(s8), k)
      BY ClearTakes DEF Windowed, Grows, TargetIn
    <3>2. Takes(When(k.rebind, TriBind), States(s8), States(s9), k)
      <4>1. ASSUME k.rebind PROVE Takes(TriBind, States(s8), States(s9), k)
        BY <4>1, <1>0, <1>2, TriBinds
      <4>2. ASSUME ~k.rebind PROVE States(s8) \subseteq States(s9)
        BY <4>2, WithinStates DEF Windowed, Grows
      <4> QED
        BY <4>1, <4>2, <1>0, TakesWhen
    <3>3. Takes(When(k.tex, <<glBindTexture(None)>>), States(s9), States(s9), k)
      <4>1. ASSUME k.tex PROVE Takes(<<glBindTexture(None)>>, States(s9), States(s9), k)
        BY <4>1, TextureTakes DEF Windowed, Grows
      <4>2. ASSUME ~k.tex PROVE States(s9) \subseteq States(s9)
        OBVIOUS
      <4> QED
        BY <4>1, <4>2, <1>0, TakesWhen
    <3>4. Takes(When(k.unif, <<glUniform("yellow")>>), States(s9), States(s10), k)
      <4>1. ASSUME k.unif PROVE Takes(<<glUniform("yellow")>>, States(s9), States(s10), k)
        <5>1. {1} \subseteq Nat
          BY <4>1
        <5>2. \A x \in given1 : x \in given0 \/ (x # 0 /\ {1} \subseteq {x})
          BY <4>1
        <5> QED
          BY <5>1, <5>2, <4>1, UniformTakes DEF Windowed, Grows
      <4>2. ASSUME ~k.unif PROVE States(s9) \subseteq States(s10)
        BY <4>2, WithinStates DEF Windowed, Grows
      <4> QED
        BY <4>1, <4>2, <1>0, TakesWhen
    <3>5. Takes(When(k.tex, <<glBindTexture(Texture(1))>>), States(s10), States(s11), k)
      <4>1. ASSUME k.tex PROVE Takes(<<glBindTexture(Texture(1))>>, States(s10), States(s11), k)
        BY <4>1, TextureTakes DEF Windowed, Grows
      <4>2. ASSUME ~k.tex PROVE States(s10) \subseteq States(s11)
        BY <4>2, WithinStates DEF Windowed, Grows
      <4> QED
        BY <4>1, <4>2, <1>0, TakesWhen
    <3>6. Takes(<<glDrawArrays(0, 3)>>, States(s11), States(s11), k)
      <4>1. TargetIn(s11, {Window})
        BY DEF TargetIn, Windowed
      <4>2. Drawable(s11, k, {Window})
        BY <1>0, <1>1, <1>3 DEF Drawable, Windowed
      <4>3. \A s \in {TriSrc}, b \in {TriBuf} : Fits(s, b, 0, 3)
        BY TriFits
      <4> QED
        BY <4>1, <4>2, <4>3, DrawArraysTakes DEF Windowed, Grows
    <3>7. Takes(When(k.fringe, <<glDrawArrays(3, 8)>>), States(s11), States(s11), k)
      <4>1. ASSUME k.fringe PROVE Takes(<<glDrawArrays(3, 8)>>, States(s11), States(s11), k)
        <5>1. TargetIn(s11, {Window})
          BY DEF TargetIn, Windowed
        <5>2. Drawable(s11, k, {Window})
          BY <1>0, <1>1, <1>3 DEF Drawable, Windowed
        <5>3. \A s \in {TriSrc}, b \in {TriBuf} : Fits(s, b, 3, 8)
          BY TriFits
        <5> QED
          BY <5>1, <5>2, <5>3, <4>1, DrawArraysTakes DEF Windowed, Grows
      <4>2. ASSUME ~k.fringe PROVE States(s11) \subseteq States(s11)
        OBVIOUS
      <4> QED
        BY <4>1, <4>2, <1>0, TakesWhen
    <3>8. Takes(When(k.rebind, <<glBindBuffer(0), glUseProgram(0)>>), States(s11), States(s13), k)
      <4>1. ASSUME k.rebind PROVE Takes(<<glBindBuffer(0), glUseProgram(0)>>, States(s11), States(s13), k)
        <5>1. Takes(<<glBindBuffer(0)>>, States(s11), States(s12), k)
          BY <4>1, BufferTakes DEF Windowed, Grows
        <5>2. Takes(<<glUseProgram(0)>>, States(s12), States(s13), k)
          BY <4>1, UseTakes DEF Windowed, Grows
        <5> QED
          BY <5>1, <5>2, TakesTwo
      <4>2. ASSUME ~k.rebind PROVE States(s11) \subseteq States(s13)
        BY <4>2, WithinStates DEF Windowed, Grows
      <4> QED
        BY <4>1, <4>2, <1>0, TakesWhen
    <3>9. Takes(When(k.tex, <<glBindTexture(None)>>), States(s13), States(s14), k)
      <4>1. ASSUME k.tex PROVE Takes(<<glBindTexture(None)>>, States(s13), States(s14), k)
        BY <4>1, TextureTakes DEF Windowed, Grows
      <4>2. ASSUME ~k.tex PROVE States(s13) \subseteq States(s14)
        BY <4>2, WithinStates DEF Windowed, Grows
      <4> QED
        BY <4>1, <4>2, <1>0, TakesWhen
    <3>10. Takes(<<eglSwapBuffers("exit")>>, States(s14), States(s8), k)
      BY SwapTakes DEF Windowed, Grows
    <3> QED
      BY <3>1, <3>2, <3>3, <3>4, <3>5, <3>6, <3>7, <3>8, <3>9, <3>10, JoinTen
  <2>2. \A f \in 0 .. k.frames - 1 : Takes(turn[f], States(s8), States(s8), k)
    BY <2>1
  <2>3. DOMAIN turn = 0 .. k.frames - 1
    OBVIOUS
  <2> HIDE DEF turn
  <2>4. Takes(Loop(turn), States(s8), States(s8), k)
    BY <2>2, <2>3, <1>0, TakesLoopInt
  <2> QED
    BY <2>4 DEF turn
<1>19. Takes(TriInline(k), States(Began), States(W({Texture(1)}, bound0, buf0, abuf0, src0, {TriKind}, prog0, given0)), k)
  BY <1>10, <1>11, <1>12, <1>13, <1>14, <1>15, JoinSix DEF TriInline
<1> QED
  BY <1>19, IsKept

-----------------------------------------------------------------------------
\* A draw from the buffer 1.
LEMMA FitsBuffer ==
  ASSUME NEW d, NEW stride, NEW first, NEW count, (first + count) * stride <= d.size,
         \E s \in d.shapes : s.at = first /\ count <= s.n
  PROVE  Fits([from |-> 1, data |-> NoData, stride |-> stride], Put(<<>>, 1, d), first, count)
<1>1. 1 \in DOMAIN Put(<<>>, 1, d) /\ Put(<<>>, 1, d)[1] = d
  BY DEF Put
<1> QED
  BY <1>1 DEF Fits, Held

\* A loop of two turns.
LEMMA TakesTwice ==
  ASSUME NEW turn, DOMAIN turn = 0 .. 1, NEW P, NEW Q, NEW R, NEW prg,
         Takes(turn[0], P, Q, prg), Takes(turn[1], Q, R, prg)
  PROVE  Takes(Loop(turn), P, R, prg)
<1> SUFFICES ASSUME NEW n \in Nat, n = 2 PROVE Takes(Loop(turn), P, R, prg)
  OBVIOUS
<1> SUFFICES ASSUME NEW F, F = [i \in 0 .. 2 |-> IF i = 0 THEN P ELSE IF i = 1 THEN Q ELSE R]
             PROVE  Takes(Loop(turn), P, R, prg)
  OBVIOUS
<1>1. Turns(turn, n)
  BY DEF Turns
<1>2. F[0] = P /\ F[n] = R /\ \A i \in 0 .. n - 1 : Takes(turn[i], F[i], F[i + 1], prg)
  OBVIOUS
<1>3. Takes(Loop(turn), F[0], F[n], prg)
  BY <1>1, <1>2, TakesLoop
<1> QED
  BY <1>2, <1>3

\* The two textures of state-churn and tilerepro.
LEMMA TwoTexturesTake ==
  ASSUME NEW prg, NEW busy, NEW buf, NEW abuf, NEW src, NEW kind, NEW prog, NEW given
  PROVE  Takes(TwoTextures,
               States(Windowed({}, busy, {None}, buf, abuf, src, kind, prog, given)),
               States(Windowed({}, busy, {None, Texture(1), Texture(2)}, buf, abuf, src, kind, prog, given)), prg)
<1> DEFINE W(bound) == Windowed({}, busy, bound, buf, abuf, src, kind, prog, given)
           any == {None, Texture(1), Texture(2)}
           turn == [i \in 0 .. 1 |-> <<glBindTexture(Texture(i + 1)), glTexImage2D("yellow")>>]
<1>1. ASSUME NEW i \in 0 .. 1
      PROVE  Takes(<<glBindTexture(Texture(i + 1)), glTexImage2D("yellow")>>, States(W(any)), States(W(any)), prg)
  <2>1. Texture(i + 1) \in any /\ any \subseteq Images
    BY Names
  <2> HIDE DEF any
  <2>2. Takes(<<glBindTexture(Texture(i + 1))>>, States(W(any)), States(W(any)), prg)
    BY <2>1, TextureTakes DEF Windowed, Grows
  <2>3. Takes(<<glTexImage2D("yellow")>>, States(W(any)), States(W(any)), prg)
    BY <2>1, TexImageTakes DEF Windowed, Grows
  <2> QED
    BY <2>2, <2>3, TakesTwo
<1>2. Takes(turn[0], States(W(any)), States(W(any)), prg) /\ Takes(turn[1], States(W(any)), States(W(any)), prg)
  BY <1>1
<1>3. DOMAIN turn = 0 .. 1
  OBVIOUS
<1> HIDE DEF turn
<1>4. Takes(Loop(turn), States(W(any)), States(W(any)), prg)
  BY <1>2, <1>3, TakesTwice
<1>5. States(W({None})) \subseteq States(W(any))
  BY WithinStates DEF Windowed, Grows
<1> HIDE DEF W, any
<1>6. Takes(Loop(turn), States(W({None})), States(W(any)), prg)
  BY <1>4, <1>5, TakesWithin
<1> QED
  BY <1>6 DEF W, any, turn, TwoTextures

-----------------------------------------------------------------------------
\* state-churn.c.
ChurnKind == Put(Put(<<>>, 1, "plain"), 2, "plain")
ChurnBuf == Put(<<>>, 1, Data(3 * 8, {Shape(0, 3, 0, Both)}))
ChurnSrc == [from |-> 1, data |-> NoData, stride |-> 8]

\* state-churn.c, for any number of draws and frames.
LEMMA ChurnKept ==
  ASSUME NEW k \in ChurnKnobs
  PROVE  IsSeq(StateChurn(k)) /\ Keeps(StateChurn(k), Fresh, k)
<1> DEFINE W(bound, buf, abuf, src, kind, prog) ==
             Windowed({}, {Window}, bound, buf, abuf, src, kind, prog, {})
<1>0. k.prog_switch \in BOOLEAN /\ k.tex_rebind \in BOOLEAN /\ k.frames \in Int /\ k.draws \in Int
  BY DEF ChurnKnobs
<1>1. /\ 1 \in DOMAIN ChurnKind /\ ChurnKind[1] = "plain"
      /\ 2 \in DOMAIN ChurnKind /\ ChurnKind[2] = "plain"
  BY DEF ChurnKind, Put
<1>2. \A s \in {ChurnSrc}, b \in {ChurnBuf} : Fits(s, b, 0, 3)
  <2> DEFINE d == Data(3 * 8, {Shape(0, 3, 0, Both)})
  <2>1. d.size = 24 /\ d.shapes = {Shape(0, 3, 0, Both)} /\ Shape(0, 3, 0, Both).at = 0 /\ Shape(0, 3, 0, Both).n = 3
    BY DEF Data, Shape
  <2> HIDE DEF d
  <2>2. Fits([from |-> 1, data |-> NoData, stride |-> 8], Put(<<>>, 1, d), 0, 3)
    BY <2>1, FitsBuffer
  <2> QED
    BY <2>2 DEF ChurnSrc, ChurnBuf, d
<1> DEFINE s1 == W({None}, {<<>>}, {0}, {NewContext.src}, {<<>>}, {0})
           s2 == W({None}, {<<>>}, {0}, {NewContext.src}, {Put(<<>>, 1, "plain")}, {0})
           s3 == W({None}, {<<>>}, {0}, {NewContext.src}, {ChurnKind}, {0})
           s4 == W({None, Texture(1), Texture(2)}, {<<>>}, {0}, {NewContext.src}, {ChurnKind}, {0})
           s5 == W({None, Texture(1), Texture(2)}, {<<>>}, {1}, {NewContext.src}, {ChurnKind}, {0})
           s6 == W({None, Texture(1), Texture(2)}, {ChurnBuf}, {1}, {NewContext.src}, {ChurnKind}, {0})
           s7 == W({None, Texture(1), Texture(2)}, {ChurnBuf}, {1}, {ChurnSrc}, {ChurnKind}, {0})
           s8 == W({None, Texture(1), Texture(2)}, {ChurnBuf}, {1}, {ChurnSrc}, {ChurnKind}, {1, 2})
<1>10. Takes(OpenWindow, States(Began), States(s1), k)
  BY WindowOpens DEF Opened
<1>11. Takes(<<glLinkProgram(1, "plain"), glLinkProgram(2, "plain")>>, States(s1), States(s3), k)
  <2>1. Takes(<<glLinkProgram(1, "plain")>>, States(s1), States(s2), k)
    BY LinkTakes DEF Windowed, Grows
  <2>2. Takes(<<glLinkProgram(2, "plain")>>, States(s2), States(s3), k)
    BY LinkTakes DEF Windowed, Grows, ChurnKind
  <2> QED
    BY <2>1, <2>2, TakesTwo
<1>12. Takes(TwoTextures, States(s3), States(s4), k)
  BY TwoTexturesTake
<1>13. Takes(<<glBindBuffer(1), glBufferData(Data(3 * 8, {Shape(0, 3, 0, Both)})), glPointer(NoData, 8), glUseProgram(1), glBindTexture(Texture(1))>>, States(s4), States(s8), k)
  <2>1. Takes(<<glBindBuffer(1)>>, States(s4), States(s5), k)
    BY BufferTakes DEF Windowed, Grows
  <2>2. Takes(<<glBufferData(Data(3 * 8, {Shape(0, 3, 0, Both)}))>>, States(s5), States(s6), k)
    <3>1. \A a \in {1} : a # 0
      OBVIOUS
    <3>2. \A a \in {1}, b \in {<<>>} : Put(b, a, Data(3 * 8, {Shape(0, 3, 0, Both)})) \in {ChurnBuf}
      BY DEF ChurnBuf
    <3> QED
      BY <3>1, <3>2, DataTakes DEF Windowed, Grows
  <2>3. Takes(<<glPointer(NoData, 8)>>, States(s6), States(s7), k)
    BY PointerTakes DEF Windowed, Grows, ChurnSrc
  <2>4. Takes(<<glUseProgram(1)>>, States(s7), States(s8), k)
    BY UseTakes DEF Windowed, Grows
  <2>5. Takes(<<glBindTexture(Texture(1))>>, States(s8), States(s8), k)
    BY TextureTakes DEF Windowed, Grows
  <2> QED
    BY <2>1, <2>2, <2>3, <2>4, <2>5, TakesFive
<1>14. Takes(Loop([f \in 0 .. k.frames - 1 |-> <<glClear("black")>> \o
      Loop([i \in 0 .. k.draws - 1 |-> When(k.prog_switch, <<glUseProgram((i % 2) + 1)>>) \o
      When(k.tex_rebind, <<glBindTexture(Texture((i % 2) + 1))>>) \o <<glDrawArrays(0, 3)>>]) \o
      <<eglSwapBuffers("go")>>]), States(s8), States(s8), k)
  <2> DEFINE turn == [f \in 0 .. k.frames - 1 |-> <<glClear("black")>> \o
        Loop([i \in 0 .. k.draws - 1 |-> When(k.prog_switch, <<glUseProgram((i % 2) + 1)>>) \o
        When(k.tex_rebind, <<glBindTexture(Texture((i % 2) + 1))>>) \o <<glDrawArrays(0, 3)>>]) \o
        <<eglSwapBuffers("go")>>]
  <2>1. ASSUME NEW f \in 0 .. k.frames - 1 PROVE Takes(<<glClear("black")>> \o
        Loop([i \in 0 .. k.draws - 1 |-> When(k.prog_switch, <<glUseProgram((i % 2) + 1)>>) \o
        When(k.tex_rebind, <<glBindTexture(Texture((i % 2) + 1))>>) \o <<glDrawArrays(0, 3)>>]) \o
        <<eglSwapBuffers("go")>>, States(s8), States(s8), k)
    <3>1. Takes(<<glClear("black")>>, States(s8), States(s8), k)
      BY ClearTakes DEF Windowed, Grows, TargetIn
    <3>2. Takes(Loop([i \in 0 .. k.draws - 1 |-> When(k.prog_switch, <<glUseProgram((i % 2) + 1)>>) \o
          When(k.tex_rebind, <<glBindTexture(Texture((i % 2) + 1))>>) \o <<glDrawArrays(0, 3)>>]),
          States(s8), States(s8), k)
      <4> DEFINE draws == [i \in 0 .. k.draws - 1 |-> When(k.prog_switch, <<glUseProgram((i % 2) + 1)>>) \o
            When(k.tex_rebind, <<glBindTexture(Texture((i % 2) + 1))>>) \o <<glDrawArrays(0, 3)>>]
      <4>1. ASSUME NEW i \in 0 .. k.draws - 1 PROVE Takes(When(k.prog_switch, <<glUseProgram((i % 2) + 1)>>) \o
            When(k.tex_rebind, <<glBindTexture(Texture((i % 2) + 1))>>) \o <<glDrawArrays(0, 3)>>,
            States(s8), States(s8), k)
        <5>1. Takes(When(k.prog_switch, <<glUseProgram((i % 2) + 1)>>), States(s8), States(s8), k)
          <6>1. ASSUME k.prog_switch PROVE Takes(<<glUseProgram((i % 2) + 1)>>, States(s8), States(s8), k)
            <7>1. (i % 2) + 1 \in {1, 2}
              BY <1>0
            <7> QED
              BY <7>1, <6>1, UseTakes DEF Windowed, Grows
          <6>2. ASSUME ~k.prog_switch PROVE States(s8) \subseteq States(s8)
            OBVIOUS
          <6> QED
            BY <6>1, <6>2, <1>0, TakesWhen
        <5>2. Takes(When(k.tex_rebind, <<glBindTexture(Texture((i % 2) + 1))>>), States(s8), States(s8), k)
          <6>1. ASSUME k.tex_rebind PROVE Takes(<<glBindTexture(Texture((i % 2) + 1))>>, States(s8), States(s8), k)
            <7>1. (i % 2) + 1 \in {1, 2}
              BY <1>0
            <7>2. Texture((i % 2) + 1) \in {None, Texture(1), Texture(2)}
              BY <6>1
            <7> QED
              BY <7>1, <7>2, <6>1, TextureTakes DEF Windowed, Grows
          <6>2. ASSUME ~k.tex_rebind PROVE States(s8) \subseteq States(s8)
            OBVIOUS
          <6> QED
            BY <6>1, <6>2, <1>0, TakesWhen
        <5>3. Takes(<<glDrawArrays(0, 3)>>, States(s8), States(s8), k)
          <6>1. TargetIn(s8, {Window})
            BY DEF TargetIn, Windowed
          <6>2. Drawable(s8, k, {Window})
            BY <1>1 DEF Drawable, Windowed
          <6>3. \A s \in {ChurnSrc}, b \in {ChurnBuf} : Fits(s, b, 0, 3)
            BY <1>2
          <6> QED
            BY <6>1, <6>2, <6>3, DrawArraysTakes DEF Windowed, Grows
        <5> QED
          BY <5>1, <5>2, <5>3, JoinThree
      <4>2. \A i \in 0 .. k.draws - 1 : Takes(draws[i], States(s8), States(s8), k)
        BY <4>1
      <4>3. DOMAIN draws = 0 .. k.draws - 1
        OBVIOUS
      <4> HIDE DEF draws
      <4>4. Takes(Loop(draws), States(s8), States(s8), k)
        BY <4>2, <4>3, <1>0, TakesLoopInt
      <4> QED
        BY <4>4 DEF draws
    <3>3. Takes(<<eglSwapBuffers("go")>>, States(s8), States(s8), k)
      BY SwapTakes DEF Windowed, Grows
    <3> QED
      BY <3>1, <3>2, <3>3, JoinThree
  <2>2. \A f \in 0 .. k.frames - 1 : Takes(turn[f], States(s8), States(s8), k)
    BY <2>1
  <2>3. DOMAIN turn = 0 .. k.frames - 1
    OBVIOUS
  <2> HIDE DEF turn
  <2>4. Takes(Loop(turn), States(s8), States(s8), k)
    BY <2>2, <2>3, <1>0, TakesLoopInt
  <2> QED
    BY <2>4 DEF turn
<1>19. Takes(StateChurn(k), States(Began), States(s8), k)
  BY <1>10, <1>11, <1>12, <1>13, <1>14, JoinFive DEF StateChurn
<1> QED
  BY <1>19, IsKept

-----------------------------------------------------------------------------
\* tilerepro.c.
TileKind == Put(Put(<<>>, 1, "fill"), 2, "fill")
TileSrc == [from |-> 1, data |-> NoData, stride |-> 8]

\* tilerepro.c, for any number of tiles, segments and frames.
LEMMA TileKept ==
  ASSUME NEW k \in TileKnobs
  PROVE  IsSeq(TileRepro(k)) /\ Keeps(TileRepro(k), Fresh, k)
<1> DEFINE W(bound, buf, abuf, src, kind, prog, given) ==
             Windowed({}, {Window}, bound, buf, abuf, src, kind, prog, given)
           TileBuf == Put(<<>>, 1, TileData(k))
           per == IF k.fringe THEN 2 ELSE 1
           Switch(idx) == When(k.churn, << glUseProgram((idx % 2) + 1), glUniform("yellow"),
                                           glBindTexture(Texture((idx % 2) + 1)) >>)
           At(i) == i * (FillN(k) + FringeN(k))
<1>0. /\ k.fringe \in BOOLEAN /\ k.churn \in BOOLEAN /\ k.reupload \in BOOLEAN /\ k.frames \in Int
      /\ k.tiles \in Int
  BY DEF TileKnobs
<1>1. /\ 1 \in DOMAIN TileKind /\ TileKind[1] = "fill"
      /\ 2 \in DOMAIN TileKind /\ TileKind[2] = "fill"
  BY DEF TileKind, Put
<1>2. ASSUME NEW i \in 0 .. k.tiles - 1
      PROVE  /\ \A s \in {TileSrc}, b \in {TileBuf} : Fits(s, b, At(i), FillN(k))
             /\ \A s \in {TileSrc}, b \in {TileBuf} : Fits(s, b, At(i) + FillN(k), FringeN(k))
  <2> DEFINE d == TileData(k)
             o == At(i)
  <2>1. /\ Shape(o, FillN(k), 0, Both) \in d.shapes /\ Shape(o + FillN(k), FringeN(k), 0, Both) \in d.shapes
        /\ (o + FillN(k) + FringeN(k)) * 8 <= d.size
    BY TileDrawsWithin
  <2>2. FillN(k) \in Nat /\ FringeN(k) \in Nat /\ o \in Int /\ d.size \in Int
    <3>1. FillN(k) \in Nat /\ FringeN(k) \in Nat
      BY DEF TileKnobs, FillN, FringeN, Perimeter
    <3>2. d.size = 2 * 4 * k.tiles * (FillN(k) + FringeN(k))
      BY DEF TileData, Data
    <3> QED
      BY <1>0, <3>1, <3>2
  <2>3. /\ Shape(o, FillN(k), 0, Both).at = o /\ Shape(o, FillN(k), 0, Both).n = FillN(k)
        /\ Shape(o + FillN(k), FringeN(k), 0, Both).at = o + FillN(k)
        /\ Shape(o + FillN(k), FringeN(k), 0, Both).n = FringeN(k)
    BY DEF Shape
  <2> HIDE DEF d, o
  <2>4. (o + FillN(k)) * 8 <= d.size
    BY <2>1, <2>2
  <2>5. FillN(k) <= FillN(k) /\ FringeN(k) <= FringeN(k)
    BY <2>2
  <2>6. Fits([from |-> 1, data |-> NoData, stride |-> 8], Put(<<>>, 1, d), o, FillN(k))
    BY <2>1, <2>3, <2>4, <2>5, FitsBuffer
  <2>7. Fits([from |-> 1, data |-> NoData, stride |-> 8], Put(<<>>, 1, d), o + FillN(k), FringeN(k))
    BY <2>1, <2>3, <2>5, FitsBuffer
  <2> QED
    BY <2>6, <2>7 DEF TileSrc, d, o
<1>3. \A b \in {<<>>, TileBuf} : Put(b, 1, TileData(k)) = TileBuf
  BY PutTwice
<1> DEFINE s1 == W({None}, {<<>>}, {0}, {NewContext.src}, {<<>>}, {0}, {})
           s2 == W({None}, {<<>>}, {0}, {NewContext.src}, {Put(<<>>, 1, "fill")}, {0}, {})
           s3 == W({None}, {<<>>}, {0}, {NewContext.src}, {TileKind}, {0}, {})
           s4 == W({None, Texture(1), Texture(2)}, {<<>>}, {0}, {NewContext.src}, {TileKind}, {0}, {})
           s5 == W({None, Texture(1), Texture(2)}, {<<>>}, {1}, {NewContext.src}, {TileKind}, {0}, {})
           s6 == W({None, Texture(1), Texture(2)}, {TileBuf}, {1}, {NewContext.src}, {TileKind}, {0}, {})
           s7 == W({None, Texture(1), Texture(2)}, {TileBuf}, {1}, {TileSrc}, {TileKind}, {0}, {})
           s8 == W({None, Texture(1), Texture(2)}, {TileBuf}, {1}, {TileSrc}, {TileKind}, {1}, {})
           s9 == W({None, Texture(1), Texture(2)}, {TileBuf}, {1}, {TileSrc}, {TileKind}, {1}, {1})
           s10 == W({None, Texture(1), Texture(2)}, {TileBuf}, {1}, {TileSrc}, {TileKind}, {2}, {1})
           s11 == W({None, Texture(1), Texture(2)}, {TileBuf}, {1}, {TileSrc}, {TileKind}, {2}, {1, 2})
           s12 == W({None, Texture(1), Texture(2)}, {TileBuf}, {1}, {TileSrc}, {TileKind}, {1, 2}, {1, 2})
<1>10. Takes(<<eglSetup("exit"), eglCreateContext("go"), eglCreateSurface(Window), eglMakeCurrent(Window, TRUE, "exit"), glLinkProgram(1, "fill"), glLinkProgram(2, "fill")>>, States(Began), States(s3), k)
  <2>1. Takes(<<eglSetup("exit")>>, States(Began), States(Began), k)
    BY SetupTakes DEF Windowed, Grows
  <2>2. Takes(<<eglCreateContext("go")>>, States(Began), States(Began), k)
    BY ContextTakes DEF Windowed, Grows
  <2>3. Takes(<<eglCreateSurface(Window)>>, States(Began), States(Unopened), k)
    BY Names, SurfaceMadeTakes DEF Windowed, Grows, Began, Unopened
  <2>4. Takes(<<eglMakeCurrent(Window, TRUE, "exit")>>, States(Unopened), States(s1), k)
    BY CurrentTakes DEF Windowed, Grows, Unopened
  <2>5. Takes(<<glLinkProgram(1, "fill")>>, States(s1), States(s2), k)
    BY LinkTakes DEF Windowed, Grows
  <2>6. Takes(<<glLinkProgram(2, "fill")>>, States(s2), States(s3), k)
    BY LinkTakes DEF Windowed, Grows, TileKind
  <2> QED
    BY <2>1, <2>2, <2>3, <2>4, <2>5, <2>6, TakesSix
<1>11. Takes(TwoTextures, States(s3), States(s4), k)
  BY TwoTexturesTake
<1>12. Takes(<<glBindBuffer(1), glBufferData(TileData(k)), glPointer(NoData, 8), glUseProgram(1), glUniform("yellow"), glUseProgram(2), glUniform("yellow"), glUseProgram(1), glBindTexture(Texture(1))>>, States(s4), States(s12), k)
  <2>1. Takes(<<glBindBuffer(1)>>, States(s4), States(s5), k)
    BY BufferTakes DEF Windowed, Grows
  <2>2. Takes(<<glBufferData(TileData(k))>>, States(s5), States(s6), k)
    <3>1. \A a \in {1} : a # 0
      OBVIOUS
    <3>2. \A a \in {1}, b \in {<<>>} : Put(b, a, TileData(k)) \in {TileBuf}
      BY <1>3
    <3> QED
      BY <3>1, <3>2, DataTakes DEF Windowed, Grows
  <2>3. Takes(<<glPointer(NoData, 8)>>, States(s6), States(s7), k)
    BY PointerTakes DEF Windowed, Grows, TileSrc
  <2>4. Takes(<<glUseProgram(1)>>, States(s7), States(s8), k)
    BY UseTakes DEF Windowed, Grows
  <2>5. Takes(<<glUniform("yellow")>>, States(s8), States(s9), k)
    <3>1. {1} \subseteq Nat
      OBVIOUS
    <3>2. \A x \in {1} : x \in {} \/ (x # 0 /\ {1} \subseteq {x})
      OBVIOUS
    <3> QED
      BY <3>1, <3>2, UniformTakes DEF Windowed, Grows
  <2>6. Takes(<<glUseProgram(2)>>, States(s9), States(s10), k)
    BY UseTakes DEF Windowed, Grows
  <2>7. Takes(<<glUniform("yellow")>>, States(s10), States(s11), k)
    <3>1. {2} \subseteq Nat
      OBVIOUS
    <3>2. \A x \in {1, 2} : x \in {1} \/ (x # 0 /\ {2} \subseteq {x})
      OBVIOUS
    <3> QED
      BY <3>1, <3>2, UniformTakes DEF Windowed, Grows
  <2>8. Takes(<<glUseProgram(1)>>, States(s11), States(s12), k)
    BY UseTakes DEF Windowed, Grows
  <2>9. Takes(<<glBindTexture(Texture(1))>>, States(s12), States(s12), k)
    BY TextureTakes DEF Windowed, Grows
  <2> QED
    BY <2>1, <2>2, <2>3, <2>4, <2>5, <2>6, <2>7, <2>8, <2>9, TakesNine
<1>14. ASSUME NEW x \in Int
      PROVE Takes(When(k.churn, <<glUseProgram((x % 2) + 1), glUniform("yellow"), glBindTexture(Texture((x % 2) + 1))>>), States(s12), States(s12), k)
  <2>1. ASSUME k.churn
        PROVE Takes(<<glUseProgram((x % 2) + 1), glUniform("yellow"), glBindTexture(Texture((x % 2) + 1))>>, States(s12), States(s12), k)
    <3>1. Takes(<<glUseProgram((x % 2) + 1)>>, States(s12), States(s12), k)
      <4>1. (x % 2) + 1 \in {1, 2}
        OBVIOUS
      <4> QED
        BY <4>1, <2>1, UseTakes DEF Windowed, Grows
    <3>2. Takes(<<glUniform("yellow")>>, States(s12), States(s12), k)
      <4>1. {1, 2} \subseteq Nat
        BY <2>1
      <4>2. \A y \in {1, 2} : y \in {1, 2} \/ (y # 0 /\ {1, 2} \subseteq {y})
        BY <2>1
      <4> QED
        BY <4>1, <4>2, <2>1, UniformTakes DEF Windowed, Grows
    <3>3. Takes(<<glBindTexture(Texture((x % 2) + 1))>>, States(s12), States(s12), k)
      <4>1. (x % 2) + 1 \in {1, 2}
        OBVIOUS
      <4>2. Texture((x % 2) + 1) \in {None, Texture(1), Texture(2)}
        BY <4>1
      <4> QED
        BY <4>1, <4>2, <2>1, TextureTakes DEF Windowed, Grows
    <3> QED
      BY <3>1, <3>2, <3>3, TakesThree
  <2>2. ASSUME ~k.churn PROVE States(s12) \subseteq States(s12)
    OBVIOUS
  <2> QED
    BY <2>1, <2>2, <1>0, TakesWhen
<1>15. ASSUME NEW f \in 0 .. k.frames - 1, NEW i \in 0 .. k.tiles - 1
      PROVE  /\ Takes(Switch((f * k.tiles + i) * per), States(s12), States(s12), k)
             /\ Takes(Switch((f * k.tiles + i) * per + 1), States(s12), States(s12), k)
  <2>1. (f * k.tiles + i) * per \in Int /\ (f * k.tiles + i) * per + 1 \in Int
    <3>1. f * k.tiles + i \in Int
      BY <1>0
    <3> HIDE DEF per
    <3>2. per \in Int
      BY DEF per
    <3>3. \A a \in Int, b \in Int : a * b \in Int
      OBVIOUS
    <3> QED
      BY <3>1, <3>2, <3>3
  <2> QED
    BY <2>1, <1>14
<1> HIDE DEF Switch, TileBuf, At
<1>16. Takes(Loop([f \in 0 .. k.frames - 1 |-> <<glClear("black")>> \o
      When(k.reupload, <<glBufferData(TileData(k))>>) \o
      Loop([i \in 0 .. k.tiles - 1 |-> Switch((f * k.tiles + i) * per) \o <<glDrawArrays(At(i), FillN(k))>> \o
      When(k.fringe, Switch((f * k.tiles + i) * per + 1) \o <<glDrawArrays(At(i) + FillN(k), FringeN(k))>>)]) \o
      <<eglSwapBuffers("go")>>]), States(s12), States(s12), k)
  <2> DEFINE turn == [f \in 0 .. k.frames - 1 |-> <<glClear("black")>> \o
        When(k.reupload, <<glBufferData(TileData(k))>>) \o
        Loop([i \in 0 .. k.tiles - 1 |-> Switch((f * k.tiles + i) * per) \o <<glDrawArrays(At(i), FillN(k))>> \o
        When(k.fringe, Switch((f * k.tiles + i) * per + 1) \o
        <<glDrawArrays(At(i) + FillN(k), FringeN(k))>>)]) \o <<eglSwapBuffers("go")>>]
  <2>1. ASSUME NEW f \in 0 .. k.frames - 1 PROVE Takes(<<glClear("black")>> \o
        When(k.reupload, <<glBufferData(TileData(k))>>) \o
        Loop([i \in 0 .. k.tiles - 1 |-> Switch((f * k.tiles + i) * per) \o <<glDrawArrays(At(i), FillN(k))>> \o
        When(k.fringe, Switch((f * k.tiles + i) * per + 1) \o
        <<glDrawArrays(At(i) + FillN(k), FringeN(k))>>)]) \o <<eglSwapBuffers("go")>>, States(s12), States(s12), k)
    <3>1. Takes(<<glClear("black")>>, States(s12), States(s12), k)
      BY ClearTakes DEF Windowed, Grows, TargetIn
    <3>2. Takes(When(k.reupload, <<glBufferData(TileData(k))>>), States(s12), States(s12), k)
      <4>1. ASSUME k.reupload PROVE Takes(<<glBufferData(TileData(k))>>, States(s12), States(s12), k)
        <5>1. \A a \in {1} : a # 0
          OBVIOUS
        <5>2. \A a \in {1}, b \in {TileBuf} : Put(b, a, TileData(k)) \in {TileBuf}
          BY <1>3
        <5> QED
          BY <5>1, <5>2, <4>1, DataTakes DEF Windowed, Grows
      <4>2. ASSUME ~k.reupload PROVE States(s12) \subseteq States(s12)
        OBVIOUS
      <4> QED
        BY <4>1, <4>2, <1>0, TakesWhen
    <3>3. Takes(Loop([i \in 0 .. k.tiles - 1 |-> Switch((f * k.tiles + i) * per) \o
          <<glDrawArrays(At(i), FillN(k))>> \o When(k.fringe, Switch((f * k.tiles + i) * per + 1) \o
          <<glDrawArrays(At(i) + FillN(k), FringeN(k))>>)]), States(s12), States(s12), k)
      <4> DEFINE draws == [i \in 0 .. k.tiles - 1 |-> Switch((f * k.tiles + i) * per) \o
            <<glDrawArrays(At(i), FillN(k))>> \o When(k.fringe, Switch((f * k.tiles + i) * per + 1) \o
            <<glDrawArrays(At(i) + FillN(k), FringeN(k))>>)]
      <4>1. ASSUME NEW i \in 0 .. k.tiles - 1 PROVE Takes(Switch((f * k.tiles + i) * per) \o
            <<glDrawArrays(At(i), FillN(k))>> \o When(k.fringe, Switch((f * k.tiles + i) * per + 1) \o
            <<glDrawArrays(At(i) + FillN(k), FringeN(k))>>), States(s12), States(s12), k)
        <5>1. Takes(Switch((f * k.tiles + i) * per), States(s12), States(s12), k)
          BY <1>15
        <5>2. Takes(<<glDrawArrays(At(i), FillN(k))>>, States(s12), States(s12), k)
          <6>1. TargetIn(s12, {Window})
            BY DEF TargetIn, Windowed
          <6>2. Drawable(s12, k, {Window})
            BY <1>1 DEF Drawable, Windowed
          <6>3. \A s \in {TileSrc}, b \in {TileBuf} : Fits(s, b, At(i), FillN(k))
            BY <1>2
          <6> QED
            BY <6>1, <6>2, <6>3, DrawArraysTakes DEF Windowed, Grows
        <5>3. Takes(When(k.fringe, Switch((f * k.tiles + i) * per + 1) \o
              <<glDrawArrays(At(i) + FillN(k), FringeN(k))>>), States(s12), States(s12), k)
          <6>1. ASSUME k.fringe PROVE Takes(Switch((f * k.tiles + i) * per + 1) \o
                <<glDrawArrays(At(i) + FillN(k), FringeN(k))>>, States(s12), States(s12), k)
            <7>1. Takes(Switch((f * k.tiles + i) * per + 1), States(s12), States(s12), k)
              BY <6>1, <1>15
            <7>2. Takes(<<glDrawArrays(At(i) + FillN(k), FringeN(k))>>, States(s12), States(s12), k)
              <8>1. TargetIn(s12, {Window})
                BY DEF TargetIn, Windowed
              <8>2. Drawable(s12, k, {Window})
                BY <1>1 DEF Drawable, Windowed
              <8>3. \A s \in {TileSrc}, b \in {TileBuf} : Fits(s, b, At(i) + FillN(k), FringeN(k))
                BY <1>2
              <8> QED
                BY <8>1, <8>2, <8>3, <6>1, DrawArraysTakes DEF Windowed, Grows
            <7> QED
              BY <7>1, <7>2, TakesJoin
          <6>2. ASSUME ~k.fringe PROVE States(s12) \subseteq States(s12)
            OBVIOUS
          <6> QED
            BY <6>1, <6>2, <1>0, TakesWhen
        <5> QED
          BY <5>1, <5>2, <5>3, JoinThree
      <4>2. \A i \in 0 .. k.tiles - 1 : Takes(draws[i], States(s12), States(s12), k)
        BY <4>1
      <4>3. DOMAIN draws = 0 .. k.tiles - 1
        OBVIOUS
      <4> HIDE DEF draws
      <4>4. Takes(Loop(draws), States(s12), States(s12), k)
        BY <4>2, <4>3, <1>0, TakesLoopInt
      <4> QED
        BY <4>4 DEF draws
    <3>4. Takes(<<eglSwapBuffers("go")>>, States(s12), States(s12), k)
      BY SwapTakes DEF Windowed, Grows
    <3> QED
      BY <3>1, <3>2, <3>3, <3>4, JoinFour
  <2>2. \A f \in 0 .. k.frames - 1 : Takes(turn[f], States(s12), States(s12), k)
    BY <2>1
  <2>3. DOMAIN turn = 0 .. k.frames - 1
    OBVIOUS
  <2> HIDE DEF turn
  <2>4. Takes(Loop(turn), States(s12), States(s12), k)
    BY <2>2, <2>3, <1>0, TakesLoopInt
  <2> QED
    BY <2>4 DEF turn
<1>19. Takes(TileRepro(k), States(Began), States(s12), k)
  BY <1>10, <1>11, <1>12, <1>16, JoinFour DEF TileRepro, Switch, At
<1> QED
  BY <1>19, IsKept

\* A loop whose first turn prepares what the others find.
LEMMA TakesLoopFrom ==
  ASSUME NEW n \in Int, NEW turn, DOMAIN turn = 0 .. n - 1, NEW P, NEW Q, NEW R, NEW prg,
         n > 0 => Takes(turn[0], P, Q, prg),
         \A i \in 1 .. n - 1 : Takes(turn[i], Q, Q, prg), n > 0 \/ P \subseteq R, Q \subseteq R
  PROVE  Takes(Loop(turn), P, R, prg)
<1>1. CASE n > 0
  <2> SUFFICES ASSUME NEW F, F = [i \in 0 .. n |-> IF i = 0 THEN P ELSE Q]
               PROVE  Takes(Loop(turn), P, R, prg)
    OBVIOUS
  <2>1. Turns(turn, n)
    BY <1>1 DEF Turns
  <2>2. F[0] = P /\ F[n] = Q
    BY <1>1
  <2>3. ASSUME NEW i \in 0 .. n - 1 PROVE Takes(turn[i], F[i], F[i + 1], prg)
    <3>1. F[i + 1] = Q /\ (i # 0 => i \in 1 .. n - 1 /\ F[i] = Q)
      BY <1>1
    <3> QED
      BY <1>1, <2>2, <3>1
  <2>4. Takes(Loop(turn), F[0], F[n], prg)
    BY <2>1, <2>3, TakesLoop
  <2>5. Takes(Loop(turn), P, Q, prg)
    BY <2>2, <2>4
  <2> QED
    BY <2>5, TakesWithin
<1>2. CASE ~(n > 0)
  <2>1. \A i \in 0 .. n - 1 : Takes(turn[i], P, P, prg)
    BY <1>2
  <2>2. Takes(Loop(turn), P, P, prg)
    BY <2>1, TakesLoopInt
  <2> QED
    BY <1>2, <2>2, TakesWithin
<1> QED
  BY <1>1, <1>2

-----------------------------------------------------------------------------
\* sgx-window-swap.c.

\* What the cycles share: the drawing state, and the surface that may be current.
Drawing(pic, bound, buf, abuf, src, kind, prog, given) ==
  [pic |-> pic, bound |-> bound, buf |-> buf, abuf |-> abuf, src |-> src, kind |-> kind,
   prog |-> prog, given |-> given]
Swapping(on, adrift, x, all, busy, d) ==
  [on |-> {on}, adrift |-> adrift, target |-> {0}, surface |-> {x}, surfaces |-> {all},
   att |-> {<<>>}, pic |-> d.pic, busy |-> busy, bound |-> d.bound, buf |-> d.buf, abuf |-> d.abuf,
   src |-> d.src, kind |-> d.kind, prog |-> d.prog, given |-> d.given]
Showing(x, d) == Swapping(TRUE, {FALSE}, x, {x}, {x}, d)
Waiting(d)    == Swapping(FALSE, {FALSE}, None, {}, {}, d)

SwapTri == Data(24, {Shape(0, 3, 0, Both)})
SwapTex == Data(64, {Shape(0, 4, 0, Both)})
Undrawn == Drawing({}, {None}, {<<>>}, {0}, {NewContext.src}, {<<>>}, {0}, {})
TriDrawn ==
  Drawing({}, {None}, {Put(<<>>, 1, SwapTri)}, {1}, {[from |-> 1, data |-> NoData, stride |-> 8]},
          {Put(<<>>, 1, "fill")}, {1}, {})
TexDrawn ==
  Drawing({Texture(1)}, {Texture(1)}, {Put(<<>>, 2, SwapTex)}, {2},
          {[from |-> 2, data |-> NoData, stride |-> 16]}, {Put(<<>>, 2, "sampler")}, {2}, {2})
Drawn_In(k) == IF k.texture THEN TexDrawn ELSE IF k.triangle THEN TriDrawn ELSE Undrawn

\* The triangle's program and buffer.
LEMMA TriangleSetupTakes ==
  ASSUME NEW prg, NEW image
  PROVE  Takes(TriangleSetup, States(Showing(image, Undrawn)), States(Showing(image, TriDrawn)), prg)
<1> DEFINE W(pic, bound, buf, abuf, src, kind, prog, given) ==
             Showing(image, Drawing(pic, bound, buf, abuf, src, kind, prog, given))
<1> DEFINE s1 == W({}, {None}, {<<>>}, {0}, {NewContext.src}, {<<>>}, {0}, {})
           s2 == W({}, {None}, {<<>>}, {0}, {NewContext.src}, {Put(<<>>, 1, "fill")}, {0}, {})
           s3 == W({}, {None}, {<<>>}, {1}, {NewContext.src}, {Put(<<>>, 1, "fill")}, {0}, {})
           s4 == W({}, {None}, {Put(<<>>, 1, SwapTri)}, {1}, {NewContext.src}, {Put(<<>>, 1, "fill")}, {0}, {})
           s5 == W({}, {None}, {Put(<<>>, 1, SwapTri)}, {1}, {NewContext.src}, {Put(<<>>, 1, "fill")}, {1}, {})
           s6 == W({}, {None}, {Put(<<>>, 1, SwapTri)}, {1}, {[from |-> 1, data |-> NoData, stride |-> 8]}, {Put(<<>>, 1, "fill")}, {1}, {})
<1>1. Takes(<<glLinkProgram(1, "fill"), glBindBuffer(1), glBufferData(SwapTri), glUseProgram(1), glPointer(NoData, 8)>>, States(s1), States(s6), prg)
  <2>1. Takes(<<glLinkProgram(1, "fill")>>, States(s1), States(s2), prg)
    BY LinkTakes DEF Showing, Swapping, Drawing, Grows
  <2>2. Takes(<<glBindBuffer(1)>>, States(s2), States(s3), prg)
    BY BufferTakes DEF Showing, Swapping, Drawing, Grows
  <2>3. Takes(<<glBufferData(SwapTri)>>, States(s3), States(s4), prg)
    <3>1. \A a \in {1} : a # 0
      OBVIOUS
    <3>2. \A a \in {1}, b \in {<<>>} : Put(b, a, SwapTri) \in {Put(<<>>, 1, SwapTri)}
      OBVIOUS
    <3> QED
      BY <3>1, <3>2, DataTakes DEF Showing, Swapping, Drawing, Grows
  <2>4. Takes(<<glUseProgram(1)>>, States(s4), States(s5), prg)
    BY UseTakes DEF Showing, Swapping, Drawing, Grows
  <2>5. Takes(<<glPointer(NoData, 8)>>, States(s5), States(s6), prg)
    <3>1. \A a \in {1} : [from |-> a, data |-> NoData, stride |-> 8] \in {[from |-> 1, data |-> NoData, stride |-> 8]}
      OBVIOUS
    <3> QED
      BY <3>1, PointerTakes DEF Showing, Swapping, Drawing, Grows
  <2> QED
    BY <2>1, <2>2, <2>3, <2>4, <2>5, TakesFive
<1>2. s1 = Showing(image, Undrawn) /\ s6 = Showing(image, TriDrawn)
  BY DEF Undrawn, TriDrawn
<1> HIDE DEF s1, s2, s3, s4, s5, s6
<1> QED
  BY <1>1, <1>2 DEF TriangleSetup, SwapTri

\* The textured quad's.
LEMMA TextureSetupTakes ==
  ASSUME NEW prg, NEW image
  PROVE  Takes(TextureSetup, States(Showing(image, Undrawn)), States(Showing(image, TexDrawn)), prg)
<1> DEFINE W(pic, bound, buf, abuf, src, kind, prog, given) ==
             Showing(image, Drawing(pic, bound, buf, abuf, src, kind, prog, given))
<1> DEFINE s1 == W({}, {None}, {<<>>}, {0}, {NewContext.src}, {<<>>}, {0}, {})
           s2 == W({}, {None}, {<<>>}, {0}, {NewContext.src}, {Put(<<>>, 2, "sampler")}, {0}, {})
           s3 == W({}, {None}, {<<>>}, {2}, {NewContext.src}, {Put(<<>>, 2, "sampler")}, {0}, {})
           s4 == W({}, {None}, {Put(<<>>, 2, SwapTex)}, {2}, {NewContext.src}, {Put(<<>>, 2, "sampler")}, {0}, {})
           s5 == W({}, {Texture(1)}, {Put(<<>>, 2, SwapTex)}, {2}, {NewContext.src}, {Put(<<>>, 2, "sampler")}, {0}, {})
           s6 == W({Texture(1)}, {Texture(1)}, {Put(<<>>, 2, SwapTex)}, {2}, {NewContext.src}, {Put(<<>>, 2, "sampler")}, {0}, {})
           s7 == W({Texture(1)}, {Texture(1)}, {Put(<<>>, 2, SwapTex)}, {2}, {NewContext.src}, {Put(<<>>, 2, "sampler")}, {2}, {})
           s8 == W({Texture(1)}, {Texture(1)}, {Put(<<>>, 2, SwapTex)}, {2}, {[from |-> 2, data |-> NoData, stride |-> 16]}, {Put(<<>>, 2, "sampler")}, {2}, {})
           s9 == W({Texture(1)}, {Texture(1)}, {Put(<<>>, 2, SwapTex)}, {2}, {[from |-> 2, data |-> NoData, stride |-> 16]}, {Put(<<>>, 2, "sampler")}, {2}, {2})
<1>1. Takes(<<glLinkProgram(2, "sampler"), glBindBuffer(2), glBufferData(SwapTex), glBindTexture(Texture(1)), glTexImage2D("yellow"), glUseProgram(2), glBindBuffer(2), glPointer(NoData, 16), glBindTexture(Texture(1)), glUniform("sampler")>>, States(s1), States(s9), prg)
  <2>1. Takes(<<glLinkProgram(2, "sampler")>>, States(s1), States(s2), prg)
    BY LinkTakes DEF Showing, Swapping, Drawing, Grows
  <2>2. Takes(<<glBindBuffer(2)>>, States(s2), States(s3), prg)
    BY BufferTakes DEF Showing, Swapping, Drawing, Grows
  <2>3. Takes(<<glBufferData(SwapTex)>>, States(s3), States(s4), prg)
    <3>1. \A a \in {2} : a # 0
      OBVIOUS
    <3>2. \A a \in {2}, b \in {<<>>} : Put(b, a, SwapTex) \in {Put(<<>>, 2, SwapTex)}
      OBVIOUS
    <3> QED
      BY <3>1, <3>2, DataTakes DEF Showing, Swapping, Drawing, Grows
  <2>4. Takes(<<glBindTexture(Texture(1))>>, States(s4), States(s5), prg)
    BY TextureTakes DEF Showing, Swapping, Drawing, Grows
  <2>5. Takes(<<glTexImage2D("yellow")>>, States(s5), States(s6), prg)
    <3>1. {Texture(1)} \subseteq Images
      BY Names
    <3>2. \A x \in {Texture(1)} : x \in {} \/ {Texture(1)} \subseteq {x}
      BY Names
    <3> QED
      BY <3>1, <3>2, Names, TexImageTakes DEF Showing, Swapping, Drawing, Grows
  <2>6. Takes(<<glUseProgram(2)>>, States(s6), States(s7), prg)
    BY UseTakes DEF Showing, Swapping, Drawing, Grows
  <2>7. Takes(<<glBindBuffer(2)>>, States(s7), States(s7), prg)
    BY BufferTakes DEF Showing, Swapping, Drawing, Grows
  <2>8. Takes(<<glPointer(NoData, 16)>>, States(s7), States(s8), prg)
    <3>1. \A a \in {2} : [from |-> a, data |-> NoData, stride |-> 16] \in {[from |-> 2, data |-> NoData, stride |-> 16]}
      OBVIOUS
    <3> QED
      BY <3>1, PointerTakes DEF Showing, Swapping, Drawing, Grows
  <2>9. Takes(<<glBindTexture(Texture(1))>>, States(s8), States(s8), prg)
    BY TextureTakes DEF Showing, Swapping, Drawing, Grows
  <2>10. Takes(<<glUniform("sampler")>>, States(s8), States(s9), prg)
    <3>1. {2} \subseteq Nat
      OBVIOUS
    <3>2. \A x \in {2} : x \in {} \/ (x # 0 /\ {2} \subseteq {x})
      OBVIOUS
    <3> QED
      BY <3>1, <3>2, UniformTakes DEF Showing, Swapping, Drawing, Grows
  <2> QED
    BY <2>1, <2>2, <2>3, <2>4, <2>5, <2>6, <2>7, <2>8, <2>9, <2>10, TakesTen
<1>2. s1 = Showing(image, Undrawn) /\ s9 = Showing(image, TexDrawn)
  BY DEF Undrawn, TexDrawn
<1> HIDE DEF s1, s2, s3, s4, s5, s6, s7, s8, s9
<1> QED
  BY <1>1, <1>2 DEF TextureSetup, SwapTex

\* A frame of whichever kind leaves the drawing state as it is.
LEMMA SwapFrameTakes ==
  ASSUME NEW k \in SwapKnobs, NEW c \in Int
  PROVE  Takes(SwapFrame(k), States(Showing(Surface(c), Drawn_In(k))), States(Showing(Surface(c), Drawn_In(k))), k)
<1> DEFINE image == Surface(c)
           tex == Showing(image, TexDrawn)
           tri == Showing(image, TriDrawn)
           tri1 == Showing(image, Drawing({}, {None}, {Put(<<>>, 1, SwapTri)}, {1},
                                         {[from |-> 1, data |-> NoData, stride |-> 8]}, {Put(<<>>, 1, "fill")}, {1}, {1}))
           any == Showing(image, Drawn_In(k))
<1>0. k.texture \in BOOLEAN /\ k.triangle \in BOOLEAN /\ k.blend \in BOOLEAN /\ k.swap \in BOOLEAN
  BY DEF SwapKnobs
<1>1. image # Texture(1) /\ image # None
  BY Names
<1>2. /\ 1 \in DOMAIN Put(<<>>, 1, "fill") /\ Put(<<>>, 1, "fill")[1] = "fill"
      /\ 2 \in DOMAIN Put(<<>>, 2, "sampler") /\ Put(<<>>, 2, "sampler")[2] = "sampler"
  BY DEF Put
<1>3. Fits([from |-> 1, data |-> NoData, stride |-> 8], Put(<<>>, 1, SwapTri), 0, 3)
  <2>1. SwapTri.size = 24 /\ SwapTri.shapes = {Shape(0, 3, 0, Both)} /\ Shape(0, 3, 0, Both).at = 0 /\ Shape(0, 3, 0, Both).n = 3
    BY DEF SwapTri, Data, Shape
  <2> QED
    BY <2>1, FitsBuffer
<1>4. Fits([from |-> 2, data |-> NoData, stride |-> 16], Put(<<>>, 2, SwapTex), 0, 4)
  <2>1. SwapTex.size = 64 /\ SwapTex.shapes = {Shape(0, 4, 0, Both)} /\ Shape(0, 4, 0, Both).at = 0 /\ Shape(0, 4, 0, Both).n = 4
    BY DEF SwapTex, Data, Shape
  <2>2. 2 \in DOMAIN Put(<<>>, 2, SwapTex) /\ Put(<<>>, 2, SwapTex)[2] = SwapTex
    BY DEF Put
  <2> QED
    BY <2>1, <2>2 DEF Fits, Held
<1>10. Takes(<<glClear("grey"), glUseProgram(2), glUniform("sampler"), glDrawElements(6, 4)>> \o
      When(k.blend, <<glUniform("sampler"), glDrawElements(6, 4)>>), States(tex), States(tex), k)
  <2>1. Takes(<<glClear("grey"), glUseProgram(2), glUniform("sampler"), glDrawElements(6, 4)>>,
        States(tex), States(tex), k)
    <3>1. Takes(<<glClear("grey")>>, States(tex), States(tex), k)
      BY ClearTakes DEF Showing, Swapping, Drawing, TexDrawn, TriDrawn, Undrawn, Drawn_In, Grows, TargetIn
    <3>2. Takes(<<glUseProgram(2)>>, States(tex), States(tex), k)
      BY UseTakes DEF Showing, Swapping, Drawing, TexDrawn, TriDrawn, Undrawn, Drawn_In, Grows
    <3>3. Takes(<<glUniform("sampler")>>, States(tex), States(tex), k)
      <4>1. Grows(tex, tex, {"given"}) /\ tex.on = {TRUE}
        BY DEF Grows, Showing, Swapping, Drawing, TexDrawn, TriDrawn, Undrawn, Drawn_In
      <4>2. tex.prog \subseteq Nat
        BY 2 \in Nat DEF Showing, Swapping, Drawing, TexDrawn, TriDrawn, Undrawn, Drawn_In
      <4>3. \A x \in tex.given : x \in tex.given \/ (x # 0 /\ tex.prog \subseteq {x})
        BY DEF Showing, Swapping, Drawing, TexDrawn, TriDrawn, Undrawn, Drawn_In
      <4> QED
        BY <4>1, <4>2, <4>3, UniformTakes
    <3>4. Takes(<<glDrawElements(6, 4)>>, States(tex), States(tex), k)
      <4>1. TargetIn(tex, {image})
        BY DEF TargetIn, Showing, Swapping
      <4>2. Drawable(tex, k, {image})
        BY <1>1, <1>2 DEF Drawable, Showing, Swapping, Drawing, TexDrawn, TriDrawn
      <4>3. \A s \in tex.src, b \in tex.buf : Fits(s, b, 0, 4)
        BY <1>4 DEF Showing, Swapping, Drawing, TexDrawn, TriDrawn
      <4> QED
        BY <4>1, <4>2, <4>3, DrawElementsTakes DEF Showing, Swapping, Drawing, TexDrawn, TriDrawn, Undrawn, Drawn_In, Grows
    <3> QED
      BY <3>1, <3>2, <3>3, <3>4, TakesFour
  <2>2. Takes(When(k.blend, <<glUniform("sampler"), glDrawElements(6, 4)>>), States(tex), States(tex), k)
    <3>1. ASSUME k.blend PROVE Takes(<<glUniform("sampler"), glDrawElements(6, 4)>>, States(tex), States(tex), k)
      <4>1. Takes(<<glUniform("sampler")>>, States(tex), States(tex), k)
        <5>1. Grows(tex, tex, {"given"}) /\ tex.on = {TRUE}
          BY DEF Grows, Showing, Swapping, Drawing, TexDrawn, TriDrawn, Undrawn, Drawn_In
        <5>2. tex.prog \subseteq Nat
          BY 2 \in Nat DEF Showing, Swapping, Drawing, TexDrawn, TriDrawn, Undrawn, Drawn_In
        <5>3. \A x \in tex.given : x \in tex.given \/ (x # 0 /\ tex.prog \subseteq {x})
          BY DEF Showing, Swapping, Drawing, TexDrawn, TriDrawn, Undrawn, Drawn_In
        <5> QED
          BY <5>1, <5>2, <5>3, <3>1, UniformTakes
      <4>2. Takes(<<glDrawElements(6, 4)>>, States(tex), States(tex), k)
        <5>1. TargetIn(tex, {image})
          BY DEF TargetIn, Showing, Swapping
        <5>2. Drawable(tex, k, {image})
          BY <1>1, <1>2 DEF Drawable, Showing, Swapping, Drawing, TexDrawn, TriDrawn
        <5>3. \A s \in tex.src, b \in tex.buf : Fits(s, b, 0, 4)
          BY <1>4 DEF Showing, Swapping, Drawing, TexDrawn, TriDrawn
        <5> QED
          BY <5>1, <5>2, <5>3, <3>1, DrawElementsTakes DEF Showing, Swapping, Drawing, TexDrawn, TriDrawn, Undrawn, Drawn_In, Grows
      <4> QED
        BY <4>1, <4>2, TakesTwo
    <3>2. ASSUME ~k.blend PROVE States(tex) \subseteq States(tex)
      OBVIOUS
    <3> QED
      BY <3>1, <3>2, <1>0, TakesWhen
  <2> QED
    BY <2>1, <2>2, TakesJoin
<1>11. Takes(<<glClear("grey"), glUniform("yellow"), glDrawArrays(0, 3)>>, States(tri), States(tri), k)
  <2>1. Takes(<<glClear("grey")>>, States(tri), States(tri), k)
    BY ClearTakes DEF Showing, Swapping, Drawing, TexDrawn, TriDrawn, Undrawn, Drawn_In, Grows, TargetIn
  <2>2. Takes(<<glUniform("yellow")>>, States(tri), States(tri1), k)
    <3>1. Grows(tri, tri1, {"given"}) /\ tri.on = {TRUE}
      BY DEF Grows, Showing, Swapping, Drawing, TexDrawn, TriDrawn, Undrawn, Drawn_In
    <3>2. tri.prog \subseteq Nat
      BY 1 \in Nat DEF Showing, Swapping, Drawing, TexDrawn, TriDrawn, Undrawn, Drawn_In
    <3>3. \A x \in tri1.given : x \in tri.given \/ (x # 0 /\ tri.prog \subseteq {x})
      BY DEF Showing, Swapping, Drawing, TexDrawn, TriDrawn, Undrawn, Drawn_In
    <3> QED
      BY <3>1, <3>2, <3>3, UniformTakes
  <2>3. Takes(<<glDrawArrays(0, 3)>>, States(tri1), States(tri), k)
    <3>1. TargetIn(tri1, {image})
      BY DEF TargetIn, Showing, Swapping
    <3>2. Drawable(tri1, k, {image})
      BY <1>1, <1>2 DEF Drawable, Showing, Swapping, Drawing, TexDrawn, TriDrawn
    <3>3. \A s \in tri1.src, b \in tri1.buf : Fits(s, b, 0, 3)
      BY <1>3 DEF Showing, Swapping, Drawing, TexDrawn, TriDrawn
    <3> QED
      BY <3>1, <3>2, <3>3, DrawArraysTakes DEF Showing, Swapping, Drawing, TexDrawn, TriDrawn, Undrawn, Drawn_In, Grows
  <2> QED
    BY <2>1, <2>2, <2>3, TakesThree
<1>12. Takes(<<glClear("blue")>>, States(Showing(image, Undrawn)), States(Showing(image, Undrawn)), k)
  BY ClearTakes DEF Showing, Swapping, Drawing, TexDrawn, TriDrawn, Undrawn, Drawn_In, Grows, TargetIn
<1>13. Takes(<<eglSwapBuffers("exit")>>, States(any), States(any), k)
  <2>1. Grows(any, any, {}) /\ Grows(any, any, {"busy"})
    BY DEF Grows
  <2>2. any.on = {TRUE}
    BY DEF Showing, Swapping
  <2> QED
    BY <2>1, <2>2, SwapTakes DEF Grows
<1>14. Takes(<<glFinish>>, States(any), States(any), k)
  <2>1. Grows(any, any, {}) /\ Grows(any, any, {"busy"})
    BY DEF Grows
  <2>2. any.on = {TRUE}
    BY DEF Showing, Swapping
  <2> QED
    BY <2>1, <2>2, FinishTakes DEF Grows
<1> DEFINE frame == IF k.texture
                    THEN << glClear("grey"), glUseProgram(2), glUniform("sampler"), glDrawElements(6, 4) >> \o
                         When(k.blend, <<glUniform("sampler"), glDrawElements(6, 4)>>)
                    ELSE IF k.triangle THEN << glClear("grey"), glUniform("yellow"), glDrawArrays(0, 3) >>
                    ELSE << glClear("blue") >>
           end == IF k.swap THEN <<eglSwapBuffers("exit")>> ELSE <<glFinish>>
<1>15. Takes(frame, States(any), States(any), k)
  <2> HIDE DEF tri
  <2>1. CASE k.texture
    BY <2>1, <1>10 DEF Drawn_In
  <2>2. CASE ~k.texture /\ k.triangle
    BY <2>2, <1>11 DEF Drawn_In, tri
  <2>3. CASE ~k.texture /\ ~k.triangle
    BY <2>3, <1>12 DEF Drawn_In
  <2> QED
    BY <1>0, <2>1, <2>2, <2>3
<1>16. Takes(end, States(any), States(any), k)
  BY <1>0, <1>13, <1>14
<1>17. SwapFrame(k) = frame \o end
  BY DEF SwapFrame
<1> HIDE DEF frame, end, any
<1>18. Takes(frame \o end, States(any), States(any), k)
  BY <1>15, <1>16, TakesJoin
<1> QED
  BY <1>17, <1>18 DEF any

\* A cycle, from the drawing state of the first or of a later one.
LEMMA SwapCycleTakes ==
  ASSUME NEW k \in SwapKnobs, NEW c \in Nat
  PROVE  Takes(SwapCycle(k, c), States(Waiting(IF c = 0 THEN Undrawn ELSE Drawn_In(k))),
               States(Waiting(Drawn_In(k))), k)
<1> DEFINE image == Surface(c)
           d0 == IF c = 0 THEN Undrawn ELSE Drawn_In(k)
           d1 == IF k.triangle /\ ~k.texture THEN Drawn_In(k) ELSE d0
           d2 == Drawn_In(k)
           made(d) == Swapping(FALSE, {FALSE}, None, {image}, {}, d)
           done(d) == Swapping(TRUE, {FALSE}, image, {image}, {}, d)
           left(d) == Swapping(FALSE, {FALSE}, None, {image}, {}, d)
<1>0. k.texture \in BOOLEAN /\ k.triangle \in BOOLEAN /\ k.frames \in Int
  BY DEF SwapKnobs
<1>1. image # Texture(1) /\ image # None /\ image \in Images
  BY Names
<1>2. d2.bound \subseteq {None, Texture(1)} /\ d2.pic \subseteq {Texture(1)}
  BY DEF Drawn_In, Undrawn, TriDrawn, TexDrawn, Drawing
<1>3. /\ k.triangle /\ ~k.texture /\ c = 0 => d0 = Undrawn /\ d1 = TriDrawn
      /\ ~(k.triangle /\ ~k.texture /\ c = 0) => d1 = d0
      /\ k.texture /\ c = 0 => d1 = Undrawn /\ d2 = TexDrawn
      /\ ~(k.texture /\ c = 0) => d2 = d1
  BY <1>0 DEF Drawn_In
<1> HIDE DEF d0, d1, d2
<1>10. Takes(<<eglCreateSurface(Surface(c)), eglMakeCurrent(Surface(c), TRUE, "exit"), glViewport(0)>>,
             States(Waiting(d0)), States(Showing(image, d0)), k)
  <2>1. Takes(<<eglCreateSurface(Surface(c))>>, States(Waiting(d0)), States(made(d0)), k)
    BY <1>1, SurfaceMadeTakes DEF Waiting, Swapping, Grows
  <2>2. Takes(<<eglMakeCurrent(Surface(c), TRUE, "exit")>>, States(made(d0)), States(Showing(image, d0)), k)
    BY CurrentTakes DEF Showing, Swapping, Grows
  <2>3. Takes(<<glViewport(0)>>, States(Showing(image, d0)), States(Showing(image, d0)), k)
    BY ViewportTakes DEF Showing, Swapping, Grows
  <2> QED
    BY <2>1, <2>2, <2>3, TakesThree
<1>11. Takes(When(k.triangle /\ ~k.texture /\ c = 0, TriangleSetup), States(Showing(image, d0)), States(Showing(image, d1)), k)
  BY <1>0, <1>3, TriangleSetupTakes, TakesWhen
<1>12. Takes(When(k.texture /\ c = 0, TextureSetup), States(Showing(image, d1)), States(Showing(image, d2)), k)
  BY <1>0, <1>3, TextureSetupTakes, TakesWhen
<1>13. Takes(Loop([f \in 0 .. k.frames - 1 |-> SwapFrame(k)]), States(Showing(image, d2)), States(Showing(image, d2)), k)
  <2> DEFINE turn == [f \in 0 .. k.frames - 1 |-> SwapFrame(k)]
  <2>1. Takes(SwapFrame(k), States(Showing(image, d2)), States(Showing(image, d2)), k)
    BY SwapFrameTakes DEF d2
  <2>2. DOMAIN turn = 0 .. k.frames - 1 /\ \A f \in 0 .. k.frames - 1 : turn[f] = SwapFrame(k)
    OBVIOUS
  <2> HIDE DEF turn
  <2>3. Takes(Loop(turn), States(Showing(image, d2)), States(Showing(image, d2)), k)
    BY <1>0, <2>1, <2>2, TakesLoopInt
  <2> QED
    BY <2>3 DEF turn
<1>14. Takes(<<glFinish, eglMakeCurrent(None, FALSE, "exit"), eglDestroySurface(Surface(c), "exit")>>,
             States(Showing(image, d2)), States(Waiting(d2)), k)
  <2>1. Takes(<<glFinish>>, States(Showing(image, d2)), States(done(d2)), k)
    BY FinishTakes DEF Showing, Swapping, Grows
  <2>2. Takes(<<eglMakeCurrent(None, FALSE, "exit")>>, States(done(d2)), States(left(d2)), k)
    BY CurrentTakes DEF Swapping, Grows
  <2>3. Takes(<<eglDestroySurface(Surface(c), "exit")>>, States(left(d2)), States(Waiting(d2)), k)
    <3>1. image \notin d2.bound /\ d2.pic \subseteq d2.pic \ {image}
      BY <1>1, <1>2
    <3>2. {image} \ {image} = {}
      OBVIOUS
    <3> QED
      BY <1>1, <3>1, <3>2, SurfaceGoneTakes DEF Waiting, Swapping, Grows
  <2> QED
    BY <2>1, <2>2, <2>3, TakesThree
<1>15. Takes(SwapCycle(k, c), States(Waiting(d0)), States(Waiting(d2)), k)
  BY <1>10, <1>11, <1>12, <1>13, <1>14, JoinFive DEF SwapCycle
<1> QED
  BY <1>15 DEF d0, d2

\* sgx-window-swap.c, for any number of frames and cycles, each with its own
\* surface.
LEMMA SwapKept ==
  ASSUME NEW k \in SwapKnobs
  PROVE  IsSeq(WindowSwap(k)) /\ Keeps(WindowSwap(k), Fresh, k)
<1> DEFINE d == Drawn_In(k)
           of(a, b) == Drawing({}, a.bound \cup b.bound, a.buf \cup b.buf, a.abuf \cup b.abuf,
                               a.src \cup b.src, a.kind \cup b.kind, a.prog \cup b.prog, {})
           either == of(Undrawn, d)
           over == Swapping(FALSE, {FALSE, TRUE}, None, {}, {}, either)
           once == Swapping(TRUE, {TRUE}, None, {}, {}, either)
           turn == [cycle \in 0 .. k.cycles - 1 |-> SwapCycle(k, cycle)]
<1>0. k.triangle \in BOOLEAN /\ k.cycles \in Int /\ k.name = "swap"
  BY DEF SwapKnobs
<1>1. Takes(<<eglSetup("exit"), eglCreateContext("exit")>>, States(Began), States(Waiting(Undrawn)), k)
  <2>1. Takes(<<eglSetup("exit")>>, States(Began), States(Began), k)
    BY SetupTakes DEF Began, Grows
  <2>2. Takes(<<eglCreateContext("exit")>>, States(Began), States(Waiting(Undrawn)), k)
    BY ContextTakes DEF Began, Waiting, Swapping, Undrawn, Drawing, Grows
  <2> QED
    BY <2>1, <2>2, TakesTwo
<1>2. Takes(Loop(turn), States(Waiting(Undrawn)), States(Waiting(either)), k)
  <2>0. ASSUME NEW a, NEW b
        PROVE  States(Waiting(a)) \subseteq States(Waiting(of(a, b))) /\ States(Waiting(b)) \subseteq States(Waiting(of(a, b)))
    <3>1. Grows(Waiting(a), Waiting(of(a, b)), {}) /\ Grows(Waiting(b), Waiting(of(a, b)), {})
      BY DEF Waiting, Swapping, Drawing, Grows
    <3> HIDE DEF of
    <3> QED
      BY <3>1, WithinStates
  <2> HIDE DEF of
  <2>1. \A c \in 0 .. k.cycles - 1 :
          Takes(turn[c], States(Waiting(IF c = 0 THEN Undrawn ELSE d)), States(Waiting(d)), k)
    BY SwapCycleTakes
  <2>2. k.cycles > 0 => Takes(turn[0], States(Waiting(Undrawn)), States(Waiting(d)), k)
    BY <1>0, <2>1
  <2>3. \A c \in 1 .. k.cycles - 1 : Takes(turn[c], States(Waiting(d)), States(Waiting(d)), k)
    BY <2>1
  <2>4. States(Waiting(Undrawn)) \subseteq States(Waiting(either))
    BY <2>0
  <2>5. States(Waiting(d)) \subseteq States(Waiting(either))
    BY <2>0
  <2>6. DOMAIN turn = 0 .. k.cycles - 1
    OBVIOUS
  <2> HIDE DEF turn, d, either
  <2> QED
    BY <1>0, <2>2, <2>3, <2>4, <2>5, <2>6, TakesLoopFrom
<1> HIDE DEF d, either, of
<1>3. Takes(When(k.triangle, << eglMakeCurrent(None, TRUE, "go"), eglMakeCurrent(None, FALSE, "go") >>),
            States(Waiting(either)), States(over), k)
  <2>1. Takes(<<eglMakeCurrent(None, TRUE, "go")>>, States(Waiting(either)), States(once), k)
    BY <1>0, CurrentTakes DEF Waiting, Swapping, Grows
  <2>2. Takes(<<eglMakeCurrent(None, FALSE, "go")>>, States(once), States(over), k)
    BY CurrentTakes DEF Swapping, Grows
  <2>3. States(Waiting(either)) \subseteq States(over)
    <3>1. Grows(Waiting(either), over, {})
      BY DEF Waiting, Swapping, Grows
    <3> HIDE DEF over
    <3> QED
      BY <3>1, WithinStates
  <2> HIDE DEF over, once
  <2> QED
    BY <1>0, <2>1, <2>2, <2>3, TakesTwo, TakesWhen
<1>4. Takes(<<eglDestroyContext("exit"), eglSetup("exit")>>, States(over), States(over), k)
  <2>1. Takes(<<eglDestroyContext("exit")>>, States(over), States(over), k)
    BY ContextGoneTakes DEF Swapping, Grows
  <2>2. Takes(<<eglSetup("exit")>>, States(over), States(over), k)
    BY SetupTakes DEF Grows
  <2> HIDE DEF over
  <2> QED
    BY <2>1, <2>2, TakesTwo
<1>19. Takes(WindowSwap(k), States(Began), States(over), k)
  BY <1>1, <1>2, <1>3, <1>4, JoinFour DEF WindowSwap
<1> QED
  BY <1>19, IsKept

-----------------------------------------------------------------------------
\* sgx-pbuffer-latency.c.

\* Nothing is lit: only targets, surfaces and the bound texture matter.
Alternating(on, aims, surface, all, att, busy, bound) ==
  [on |-> {on}, adrift |-> {FALSE}, target |-> aims, surface |-> surface, surfaces |-> {all},
   att |-> att, pic |-> {}, busy |-> busy, bound |-> bound, buf |-> {<<>>}, abuf |-> {0},
   src |-> {NewContext.src}, kind |-> {<<>>}, prog |-> {0}, given |-> {}]

\* sgx-pbuffer-latency.c, for any number of iterations, on pbuffers or attachments.
LEMMA PbufferKept ==
  ASSUME NEW k \in PbufferKnobs
  PROVE  IsSeq(PbufferLatency(k)) /\ Keeps(PbufferLatency(k), Fresh, k)
<1> DEFINE aims == IF k.fbo THEN {1} ELSE {0}
           targets == IF k.fbo THEN {0, 1} ELSE {0}
           all == IF k.window THEN {Surface(0)} ELSE {Surface(0), Surface(1)}
           to(i) == Put(<<>>, 1, Attachment(k, i))
           att == {<<>>, to(0), to(1)}
           gone == att \cup {Keep(a, DOMAIN a \ {1}) : a \in att}
           surface == {Surface(0), Surface(1)}
           lit == {None, Surface(0), Surface(1), Attachment(k, 0), Attachment(k, 1)}
           bound == {None, Texture(0), Texture(1)}
           started == Alternating(FALSE, {0}, {None}, {Surface(0)}, {<<>>}, {}, {None})
           ready == Alternating(FALSE, {0}, {None}, all, {<<>>}, {}, {None})
           current == Alternating(TRUE, {0}, surface, all, att, {}, bound)
           aimed == Alternating(TRUE, {1}, surface, all, att, {}, bound)
           running == Alternating(TRUE, aims, surface, all, att, {}, bound)
           cleared == Alternating(TRUE, aims, surface, all, att, lit, bound)
           deleted == Alternating(TRUE, targets, surface, all, gone, {}, bound)
           apart == Alternating(FALSE, targets, {None}, all, gone, {}, bound)
           single == Alternating(FALSE, targets, {None}, {Surface(0)}, gone, {}, bound)
           over == Alternating(FALSE, targets, {None}, {}, gone, {}, bound)
<1>0. /\ k.fbo \in BOOLEAN /\ k.texture \in BOOLEAN /\ k.window \in BOOLEAN /\ k.skip \in BOOLEAN /\ k.rebind \in BOOLEAN
      /\ k.alternate \in BOOLEAN /\ k.iterations \in Int /\ (~k.window) \in BOOLEAN /\ (~k.skip) \in BOOLEAN
  BY DEF PbufferKnobs
<1>1. /\ Surface(0) # Surface(1) /\ \A i \in {0, 1} : Surface(i) \in Images /\ Surface(i) # None
      /\ \A i \in {0, 1} : Texture(i) \in Images /\ Renderbuffer(i) \in Images /\ Surface(i) \notin bound
      /\ bound \subseteq Images
  BY Names
<1>2. ASSUME NEW a \in att, NEW i \in {0, 1} PROVE Put(a, 1, Attachment(k, i)) \in att
  <2>1. Put(a, 1, Attachment(k, i)) = to(i)
    <3>1. \A j \in {0, 1} : Put(to(j), 1, Attachment(k, i)) = to(i)
      BY PutTwice
    <3> QED
      BY <3>1
  <2> QED
    BY <2>1
<1>3. ASSUME NEW a \in att PROVE (IF 1 \in DOMAIN a THEN a[1] ELSE None) \in lit
  <2>1. \A i \in {0, 1} : to(i)[1] = Attachment(k, i)
    BY DEF Put
  <2>2. DOMAIN <<>> = {}
    OBVIOUS
  <2> HIDE DEF to
  <2> QED
    BY <2>1, <2>2
<1> HIDE DEF att, bound
<1>10. Takes(<<eglSetup("exit"), eglCreateContext("exit"), eglCreateSurface(Surface(0))>>, States(Began), States(started), k)
  <2>1. Takes(<<eglSetup("exit")>>, States(Began), States(Began), k)
    BY SetupTakes DEF Began, Grows
  <2>2. Takes(<<eglCreateContext("exit")>>, States(Began), States(Began), k)
    BY ContextTakes DEF Began, Grows
  <2>3. Takes(<<eglCreateSurface(Surface(0))>>, States(Began), States(started), k)
    BY <1>1, SurfaceMadeTakes DEF Began, Alternating, Grows
  <2> HIDE DEF started
  <2> QED
    BY <2>1, <2>2, <2>3, TakesThree
<1>11. Takes(When(~k.window, <<eglCreateSurface(Surface(1))>>), States(started), States(ready), k)
  <2>1. ASSUME ~k.window PROVE Takes(<<eglCreateSurface(Surface(1))>>, States(started), States(ready), k)
    BY <1>1, <2>1, SurfaceMadeTakes DEF Alternating, Grows
  <2>2. ASSUME ~(~k.window) PROVE States(started) \subseteq States(ready)
    BY <2>2, WithinStates DEF Alternating, Grows
  <2> QED
    BY <2>1, <2>2, <1>0, TakesWhen
<1>12. Takes(<<eglMakeCurrent(Surface(0), TRUE, "exit")>>, States(ready), States(current), k)
  <2>1. <<>> \in att /\ None \in bound
    BY DEF att, bound
  <2> QED
    BY <2>1, CurrentTakes DEF Alternating, Grows
<1>13. Takes(When(k.fbo, PbufferSetup(k)), States(current), States(running), k)
  <2> DEFINE turn == [index \in 0 .. 1 |->
        (IF k.texture THEN << glBindTexture(Texture(index)), glTexImage2D("undef") >>
         ELSE << glStorage(Renderbuffer(index)) >>) \o <<glAttach(Attachment(k, index))>>]
  <2>1. Takes(<<glBindFramebuffer(1)>>, States(current), States(aimed), k)
    BY FramebufferTakes DEF Alternating, Grows
  <2>2. ASSUME NEW i \in {0, 1} PROVE Takes(turn[i], States(aimed), States(aimed), k)
    <3> DEFINE image == IF k.texture THEN << glBindTexture(Texture(i)), glTexImage2D("undef") >>
                        ELSE << glStorage(Renderbuffer(i)) >>
    <3>1. Takes(<<glBindTexture(Texture(i))>>, States(aimed), States(aimed), k)
      <4>1. Texture(i) \in bound
        BY DEF bound
      <4> QED
        BY <4>1, TextureTakes DEF Alternating, Grows
    <3>2. Takes(<<glTexImage2D("undef")>>, States(aimed), States(aimed), k)
      BY <1>1, TexImageTakes DEF Alternating, Grows
    <3>3. Takes(<<glStorage(Renderbuffer(i))>>, States(aimed), States(aimed), k)
      BY <1>1, StorageTakes DEF Alternating, Grows
    <3>4. Takes(<<glAttach(Attachment(k, i))>>, States(aimed), States(aimed), k)
      <4>1. \A t \in {1} : t # 0
        OBVIOUS
      <4>2. \A t \in {1}, a \in att : Put(a, t, Attachment(k, i)) \in att
        BY <1>2
      <4> QED
        BY <4>1, <4>2, AttachTakes DEF Alternating, Grows
    <3>5. turn[i] = image \o <<glAttach(Attachment(k, i))>>
      OBVIOUS
    <3> HIDE DEF aimed
    <3>6. Takes(<< glBindTexture(Texture(i)), glTexImage2D("undef") >>, States(aimed), States(aimed), k)
      BY <3>1, <3>2, TakesTwo
    <3>7. Takes(image, States(aimed), States(aimed), k)
      BY <3>3, <3>6
    <3> HIDE DEF image, turn
    <3>8. Takes(image \o <<glAttach(Attachment(k, i))>>, States(aimed), States(aimed), k)
      BY <3>4, <3>7, TakesJoin
    <3> QED
      BY <3>5, <3>8
  <2>3. DOMAIN turn = 0 .. 1 /\ Takes(turn[0], States(aimed), States(aimed), k) /\ Takes(turn[1], States(aimed), States(aimed), k)
    BY <2>2
  <2> HIDE DEF turn
  <2>4. Takes(Loop(turn), States(aimed), States(aimed), k)
    BY <2>3, TakesTwice
  <2>5. Takes(PbufferSetup(k), States(current), States(aimed), k)
    BY <2>1, <2>4, TakesJoin DEF PbufferSetup, turn
  <2>6. (k.fbo => aimed = running) /\ (~k.fbo => current = running)
    OBVIOUS
  <2> HIDE DEF aimed, running, current
  <2> QED
    BY <2>5, <2>6, <1>0, TakesWhen
<1>14. ASSUME NEW frame \in 0 .. k.iterations - 1
       PROVE  Takes(PbufferFrame(k, frame), States(running), States(running), k)
  <2> SUFFICES ASSUME NEW i \in {0, 1}, i = IF k.alternate THEN frame % 2 ELSE 0
               PROVE  Takes(PbufferFrame(k, frame), States(running), States(running), k)
    <3>1. (IF k.alternate THEN frame % 2 ELSE 0) \in {0, 1}
      BY <1>0
    <3> QED
      BY <3>1
  <2> DEFINE select == IF k.fbo /\ (k.rebind \/ frame = 0) THEN <<glAttach(Attachment(k, i))>>
                       ELSE <<eglMakeCurrent(Pbuffer(k, i), TRUE, "exit")>>
             draw == << glClear(IF i = 1 THEN "blue" ELSE "grey"), glFinish >>
  <2>1. ASSUME k.fbo PROVE Takes(<<glAttach(Attachment(k, i))>>, States(running), States(running), k)
    <3>1. aims = {1} /\ \A t \in aims : t # 0
      BY <2>1
    <3>2. \A t \in aims, a \in att : Put(a, t, Attachment(k, i)) \in att
      BY <1>2, <3>1
    <3> HIDE DEF aims
    <3> QED
      BY <3>1, <3>2, AttachTakes DEF Alternating, Grows
  <2>2. Takes(<<eglMakeCurrent(Pbuffer(k, i), TRUE, "exit")>>, States(running), States(running), k)
    <3>1. Pbuffer(k, i) \in surface
      BY DEF Pbuffer
    <3> HIDE DEF surface, aims, all
    <3> QED
      BY <3>1, CurrentTakes DEF Alternating, Grows
  <2>3. Takes(<<glClear(IF i = 1 THEN "blue" ELSE "grey")>>, States(running), States(cleared), k)
    <3>1. TargetIn(running, lit)
      <4>1. \A t \in aims \ {0} : t = 1
        OBVIOUS
      <4>2. surface \subseteq lit
        OBVIOUS
      <4> HIDE DEF aims, surface, lit
      <4> QED
        BY <1>3, <4>1, <4>2 DEF TargetIn, Alternating
    <3> QED
      BY <3>1, ClearTakes DEF Alternating, Grows
  <2>4. Takes(<<glFinish>>, States(cleared), States(running), k)
    BY FinishTakes DEF Alternating, Grows
  <2> HIDE DEF running, cleared
  <2>5. Takes(draw, States(running), States(running), k)
    BY <2>3, <2>4, TakesTwo
  <2>6. Takes(select, States(running), States(running), k)
    BY <2>1, <2>2
  <2>7. PbufferFrame(k, frame) = select \o When(~k.skip, draw)
    BY DEF PbufferFrame
  <2> HIDE DEF select, draw
  <2>8. Takes(When(~k.skip, draw), States(running), States(running), k)
    BY <2>5, <1>0, TakesWhen
  <2>9. Takes(select \o When(~k.skip, draw), States(running), States(running), k)
    BY <2>6, <2>8, TakesJoin
  <2> QED
    BY <2>7, <2>9
<1>15. Takes(Loop([frame \in 0 .. k.iterations - 1 |-> PbufferFrame(k, frame)]), States(running), States(running), k)
  <2> DEFINE turn == [frame \in 0 .. k.iterations - 1 |-> PbufferFrame(k, frame)]
  <2>1. DOMAIN turn = 0 .. k.iterations - 1 /\ \A i \in 0 .. k.iterations - 1 : Takes(turn[i], States(running), States(running), k)
    BY <1>14
  <2> HIDE DEF turn, running
  <2>2. Takes(Loop(turn), States(running), States(running), k)
    BY <1>0, <2>1, TakesLoopInt
  <2> QED
    BY <2>2 DEF turn
<1>16. Takes(When(k.fbo, << glDelete(Attachment(k, 0)), glDelete(Attachment(k, 1)), glDeleteFramebuffers(1) >>),
             States(running), States(deleted), k)
  <2>1. ASSUME NEW i \in {0, 1} PROVE Takes(<<glDelete(Attachment(k, i))>>, States(running), States(running), k)
    <3>1. None \in bound
      BY DEF bound
    <3> QED
      BY <3>1, ImageGoneTakes DEF Alternating, Grows
  <2>2. Takes(<<glDeleteFramebuffers(1)>>, States(running), States(deleted), k)
    <3>1. 0 \in targets /\ aims \subseteq targets
      OBVIOUS
    <3>2. \A a \in att : Keep(a, DOMAIN a \ {1}) \in gone
      OBVIOUS
    <3> HIDE DEF targets, gone, aims
    <3> QED
      BY <3>1, <3>2, FramebufferGoneTakes DEF Alternating, Grows
  <2>3. States(running) \subseteq States(deleted)
    <3>1. Grows(running, deleted, {})
      BY DEF Alternating, Grows
    <3> HIDE DEF running, deleted
    <3> QED
      BY <3>1, WithinStates
  <2> HIDE DEF running, deleted
  <2>4. Takes(<< glDelete(Attachment(k, 0)), glDelete(Attachment(k, 1)), glDeleteFramebuffers(1) >>, States(running), States(deleted), k)
    BY <2>1, <2>2, TakesThree
  <2> QED
    BY <2>3, <2>4, <1>0, TakesWhen
<1>17. Takes(<<glFinish, eglMakeCurrent(None, FALSE, "exit")>>, States(deleted), States(apart), k)
  <2>1. Takes(<<glFinish>>, States(deleted), States(deleted), k)
    BY FinishTakes DEF Alternating, Grows
  <2>2. Takes(<<eglMakeCurrent(None, FALSE, "exit")>>, States(deleted), States(apart), k)
    BY CurrentTakes DEF Alternating, Grows
  <2> HIDE DEF deleted, apart
  <2> QED
    BY <2>1, <2>2, TakesTwo
<1>18. Takes(When(~k.window, <<eglDestroySurface(Surface(1), "exit")>>), States(apart), States(single), k)
  <2>1. ASSUME ~k.window PROVE Takes(<<eglDestroySurface(Surface(1), "exit")>>, States(apart), States(single), k)
    <3>1. \A s \in {all} : Surface(1) \in s /\ s \ {Surface(1)} \in {{Surface(0)}}
      BY <1>1, <2>1
    <3> HIDE DEF all, gone, targets
    <3> QED
      BY <1>1, <3>1, SurfaceGoneTakes DEF Alternating, Grows
  <2>2. ASSUME ~(~k.window) PROVE apart = single
    BY <2>2
  <2> HIDE DEF apart, single
  <2> QED
    BY <2>1, <2>2, <1>0, TakesWhen
<1>19. Takes(<< eglDestroySurface(Surface(0), "exit"), eglDestroyContext("exit"), eglSetup("exit") >>, States(single), States(over), k)
  <2>1. Takes(<<eglDestroySurface(Surface(0), "exit")>>, States(single), States(over), k)
    <3>1. \A s \in {{Surface(0)}} : Surface(0) \in s /\ s \ {Surface(0)} \in {{}}
      OBVIOUS
    <3> HIDE DEF gone, targets
    <3> QED
      BY <1>1, <3>1, SurfaceGoneTakes DEF Alternating, Grows
  <2>2. Takes(<<eglDestroyContext("exit")>>, States(over), States(over), k)
    BY ContextGoneTakes DEF Alternating, Grows
  <2>3. Takes(<<eglSetup("exit")>>, States(over), States(over), k)
    BY SetupTakes DEF Alternating, Grows
  <2> HIDE DEF single, over
  <2> QED
    BY <2>1, <2>2, <2>3, TakesThree
<1> HIDE DEF started, ready, current, running, deleted, apart, single, over
<1>20. Takes(PbufferLatency(k), States(Began), States(over), k)
  BY <1>10, <1>11, <1>12, <1>13, <1>15, <1>16, <1>17, <1>18, <1>19, JoinNine DEF PbufferLatency
<1> QED
  BY <1>20, IsKept

-----------------------------------------------------------------------------
\* fbo-reentry-test.c.

\* Framebuffer i, once made, has texture i.
Atts == {[i \in D |-> Texture(i)] : D \in SUBSET Nat}
\* The image of aims t, and every image but the window's.
Aim(t) == IF t = 0 THEN {Window} ELSE {Texture(t), None}
Calm == {None} \cup {Texture(i) : i \in Nat}
Full == Calm \cup {Window}
FboKind == Put(Put(<<>>, 1, "fill"), 2, "sampler")
ClientSrcs == {[from |-> 0, data |-> Data(4 * 8, {Shape(0, 4, 0, halves)}), stride |-> 8] : halves \in SUBSET Halves}

Reentering(aims, pic, busy, bound, src, prog, given) ==
  [on |-> {TRUE}, adrift |-> {TRUE}, target |-> aims, surface |-> {Window}, surfaces |-> {{Window}},
   att |-> Atts, pic |-> pic, busy |-> busy, bound |-> bound, buf |-> {<<>>}, abuf |-> {0},
   src |-> src, kind |-> {FboKind}, prog |-> prog, given |-> given]
\* Between two steps of a case.
In(aims, pic, busy) ==
  Reentering(aims, pic, busy, {None}, ClientSrcs \cup {NewContext.src}, {0, 1, 2}, {})

\* More targets, more images, more that may be busy.
LEMMA InGrows ==
  ASSUME NEW T, NEW TT, T \subseteq TT, NEW pic, NEW ppic, ppic \subseteq pic, NEW b, NEW bb, b \subseteq bb
  PROVE  States(In(T, pic, b)) \subseteq States(In(TT, ppic, bb))
<1>1. Grows(In(T, pic, b), In(TT, ppic, bb), {})
  BY DEF In, Reentering, Grows
<1> QED
  BY <1>1, WithinStates

\* Attaching texture i to framebuffer i keeps every framebuffer with its own
\* texture.
LEMMA AttsPut ==
  ASSUME NEW a \in Atts, NEW t \in Nat
  PROVE  Put(a, t, Texture(t)) \in Atts /\ (t \in DOMAIN a => a[t] = Texture(t))
<1>1. PICK D \in SUBSET Nat : a = [i \in D |-> Texture(i)]
  BY DEF Atts
<1>2. Put(a, t, Texture(t)) = [i \in D \cup {t} |-> Texture(i)] /\ D \cup {t} \in SUBSET Nat
  BY <1>1 DEF Put
<1> QED
  BY <1>1, <1>2 DEF Atts

\* Where rendering goes while framebuffer t is bound.
LEMMA Aimed ==
  ASSUME NEW t \in Nat, NEW pic, NEW busy, NEW bound, NEW src, NEW prog, NEW given
  PROVE  TargetIn(Reentering({t}, pic, busy, bound, src, prog, given), Aim(t))
<1>1. \A a \in Atts : t # 0 => (IF t \in DOMAIN a THEN a[t] ELSE None) \in Aim(t)
  BY AttsPut DEF Aim
<1> QED
  BY <1>1 DEF TargetIn, Reentering, Aim

\* A quad in client memory has the four vertices a draw reads.
LEMMA ClientFits ==
  ASSUME NEW s \in ClientSrcs, NEW b
  PROVE  Fits(s, b, 0, 4)
<1>1. PICK halves \in SUBSET Halves : s = [from |-> 0, data |-> Data(4 * 8, {Shape(0, 4, 0, halves)}), stride |-> 8]
  BY DEF ClientSrcs
<1>2. Held(s, b) = Data(4 * 8, {Shape(0, 4, 0, halves)})
  BY <1>1 DEF Held
<1>3. /\ Held(s, b).size = 32 /\ Shape(0, 4, 0, halves) \in Held(s, b).shapes
      /\ Shape(0, 4, 0, halves).at = 0 /\ Shape(0, 4, 0, halves).n = 4
  BY <1>2 DEF Data, Shape
<1> QED
  BY <1>1, <1>3 DEF Fits

\* What the two programs of fbo-reentry-test read.
LEMMA FboKinds ==
  /\ 1 \in DOMAIN FboKind /\ FboKind[1] = "fill"
  /\ 2 \in DOMAIN FboKind /\ FboKind[2] = "sampler"
BY DEF FboKind, Put

\* Binding a aims.
LEMMA BindTakes ==
  ASSUME NEW prg, NEW T, NEW t, NEW pic, NEW busy
  PROVE  Takes(<<glBindFramebuffer(t)>>, States(In(T, pic, busy)), States(In({t}, pic, busy)), prg)
<1> DEFINE s1 == Reentering(T, pic, busy, {None}, ClientSrcs \cup {NewContext.src}, {0, 1, 2}, {})
           s2 == Reentering({t}, pic, busy, {None}, ClientSrcs \cup {NewContext.src}, {0, 1, 2}, {})
<1>9. Takes(<<glBindFramebuffer(t)>>, States(s1), States(s2), prg)
  BY FramebufferTakes DEF Reentering, Grows
<1>10. s1 = In(T, pic, busy) /\ s2 = In({t}, pic, busy)
  BY DEF In
<1> HIDE DEF s1, s2
<1> QED
  BY <1>9, <1>10

\* Clearing it.
LEMMA ClearTargetTakes ==
  ASSUME NEW prg, NEW t \in Nat, NEW pic, NEW busy, NEW colour, Aim(t) \subseteq busy
  PROVE  Takes(ClearTarget(colour), States(In({t}, pic, busy)), States(In({t}, pic, busy)), prg)
<1> DEFINE s1 == Reentering({t}, pic, busy, {None}, ClientSrcs \cup {NewContext.src}, {0, 1, 2}, {})
<1>9. Takes(<<glViewport(0), glClear(colour)>>, States(s1), States(s1), prg)
  <2>1. Takes(<<glViewport(0)>>, States(s1), States(s1), prg)
    BY ViewportTakes DEF Reentering, Grows
  <2>2. Takes(<<glClear(colour)>>, States(s1), States(s1), prg)
    <3>1. TargetIn(s1, Aim(t))
      BY Aimed
    <3>2. TargetIn(s1, busy)
      BY <3>1 DEF TargetIn
    <3> QED
      BY <3>1, <3>2, ClearTakes DEF Reentering, Grows
  <2> QED
    BY <2>1, <2>2, TakesTwo
<1>10. s1 = In({t}, pic, busy) /\ s1 = In({t}, pic, busy)
  BY DEF In
<1> HIDE DEF s1
<1> QED
  BY <1>9, <1>10 DEF ClearTarget

\* Filling it.
LEMMA QuadTakes ==
  ASSUME NEW prg, NEW t \in Nat, NEW pic, NEW busy, NEW halves \in SUBSET Halves, NEW colour, Aim(t) \subseteq busy
  PROVE  Takes(Quad(halves, colour), States(In({t}, pic, busy)), States(In({t}, pic, busy)), prg)
<1> DEFINE s1 == Reentering({t}, pic, busy, {None}, ClientSrcs \cup {NewContext.src}, {0, 1, 2}, {})
           s2 == Reentering({t}, pic, busy, {None}, ClientSrcs \cup {NewContext.src}, {1}, {})
           s3 == Reentering({t}, pic, busy, {None}, ClientSrcs \cup {NewContext.src}, {1}, {1})
           s4 == Reentering({t}, pic, busy, {None}, ClientSrcs, {1}, {1})
<1>9. Takes(<<glViewport(0), glUseProgram(1), glUniform(colour), glPointer(Data(4 * 8, {Shape(0, 4, 0, halves)}), 8), glDrawArrays(0, 4)>>, States(s1), States(s1), prg)
  <2>1. Takes(<<glViewport(0)>>, States(s1), States(s1), prg)
    BY ViewportTakes DEF Reentering, Grows
  <2>2. Takes(<<glUseProgram(1)>>, States(s1), States(s2), prg)
    BY UseTakes DEF Reentering, Grows
  <2>3. Takes(<<glUniform(colour)>>, States(s2), States(s3), prg)
    <3>1. {1} \subseteq Nat
      OBVIOUS
    <3>2. \A x \in {1} : x \in {} \/ (x # 0 /\ {1} \subseteq {x})
      OBVIOUS
    <3> QED
      BY <3>1, <3>2, UniformTakes DEF Reentering, Grows
  <2>4. Takes(<<glPointer(Data(4 * 8, {Shape(0, 4, 0, halves)}), 8)>>, States(s3), States(s4), prg)
    <3>1. \A a \in {0} : [from |-> a, data |-> Data(4 * 8, {Shape(0, 4, 0, halves)}), stride |-> 8] \in ClientSrcs
      BY DEF ClientSrcs
    <3>2. ClientSrcs \subseteq ClientSrcs \cup {NewContext.src}
      OBVIOUS
    <3> QED
      BY <3>1, <3>2, PointerTakes DEF Reentering, Grows
  <2>5. Takes(<<glDrawArrays(0, 4)>>, States(s4), States(s1), prg)
    <3>1. TargetIn(s4, Aim(t))
      BY Aimed
    <3>2. Drawable(s4, prg, Aim(t))
      BY FboKinds DEF Drawable, Reentering
    <3>3. \A s \in ClientSrcs, b \in {<<>>} : Fits(s, b, 0, 4)
      BY ClientFits
    <3>4. ClientSrcs \subseteq ClientSrcs \cup {NewContext.src}
      OBVIOUS
    <3> QED
      BY <3>1, <3>2, <3>3, <3>4, DrawArraysTakes DEF Reentering, Grows
  <2> QED
    BY <2>1, <2>2, <2>3, <2>4, <2>5, TakesFive
<1>10. s1 = In({t}, pic, busy) /\ s1 = In({t}, pic, busy)
  BY DEF In
<1> HIDE DEF s1, s2, s3, s4
<1> QED
  BY <1>9, <1>10 DEF Quad, ClientQuad

\* Sampling another image into it.
LEMMA TQuadTakes ==
  ASSUME NEW prg, NEW t \in Nat, NEW pic, NEW busy, NEW cell, NEW halves \in SUBSET Halves, NEW i \in Nat, Aim(t) \subseteq busy,
         i # t, Texture(i) \in pic
  PROVE  Takes(TQuad(cell, halves, i), States(In({t}, pic, busy)), States(In({t}, pic, busy)), prg)
<1>1. Texture(i) \notin Aim(t)
  BY Names DEF Aim
<1> DEFINE s1 == Reentering({t}, pic, busy, {None}, ClientSrcs \cup {NewContext.src}, {0, 1, 2}, {})
           s2 == Reentering({t}, pic, busy, {None}, ClientSrcs \cup {NewContext.src}, {2}, {})
           s3 == Reentering({t}, pic, busy, {Texture(i)}, ClientSrcs \cup {NewContext.src}, {2}, {})
           s4 == Reentering({t}, pic, busy, {Texture(i)}, ClientSrcs \cup {NewContext.src}, {2}, {2})
           s5 == Reentering({t}, pic, busy, {Texture(i)}, ClientSrcs, {2}, {2})
<1>9. Takes(<<glViewport(cell), glUseProgram(2), glBindTexture(Texture(i)), glUniform("sampler"), glPointer(Data(4 * 8, {Shape(0, 4, 0, halves)}), 8), glDrawArrays(0, 4), glBindTexture(None)>>, States(s1), States(s1), prg)
  <2>1. Takes(<<glViewport(cell)>>, States(s1), States(s1), prg)
    BY ViewportTakes DEF Reentering, Grows
  <2>2. Takes(<<glUseProgram(2)>>, States(s1), States(s2), prg)
    BY UseTakes DEF Reentering, Grows
  <2>3. Takes(<<glBindTexture(Texture(i))>>, States(s2), States(s3), prg)
    BY TextureTakes DEF Reentering, Grows
  <2>4. Takes(<<glUniform("sampler")>>, States(s3), States(s4), prg)
    <3>1. {2} \subseteq Nat
      OBVIOUS
    <3>2. \A x \in {2} : x \in {} \/ (x # 0 /\ {2} \subseteq {x})
      OBVIOUS
    <3> QED
      BY <3>1, <3>2, UniformTakes DEF Reentering, Grows
  <2>5. Takes(<<glPointer(Data(4 * 8, {Shape(0, 4, 0, halves)}), 8)>>, States(s4), States(s5), prg)
    <3>1. \A a \in {0} : [from |-> a, data |-> Data(4 * 8, {Shape(0, 4, 0, halves)}), stride |-> 8] \in ClientSrcs
      BY DEF ClientSrcs
    <3>2. ClientSrcs \subseteq ClientSrcs \cup {NewContext.src}
      OBVIOUS
    <3> QED
      BY <3>1, <3>2, PointerTakes DEF Reentering, Grows
  <2>6. Takes(<<glDrawArrays(0, 4)>>, States(s5), States(s5), prg)
    <3>1. TargetIn(s5, Aim(t))
      BY Aimed
    <3>2. Drawable(s5, prg, Aim(t))
      BY FboKinds, <1>1 DEF Drawable, Reentering
    <3>3. \A s \in ClientSrcs, b \in {<<>>} : Fits(s, b, 0, 4)
      BY ClientFits
    <3>4. ClientSrcs \subseteq ClientSrcs \cup {NewContext.src}
      OBVIOUS
    <3> QED
      BY <3>1, <3>2, <3>3, <3>4, DrawArraysTakes DEF Reentering, Grows
  <2>7. Takes(<<glBindTexture(None)>>, States(s5), States(s1), prg)
    BY TextureTakes DEF Reentering, Grows
  <2> QED
    BY <2>1, <2>2, <2>3, <2>4, <2>5, <2>6, <2>7, TakesSeven
<1>10. s1 = In({t}, pic, busy) /\ s1 = In({t}, pic, busy)
  BY DEF In
<1> HIDE DEF s1, s2, s3, s4, s5
<1> QED
  BY <1>9, <1>10 DEF TQuad, ClientQuad

\* Making one.
LEMMA MakeTargetTakes ==
  ASSUME NEW prg, NEW T, NEW i \in Nat \ {0}, NEW pic, NEW busy
  PROVE  Takes(MakeTarget(i), States(In(T, pic, busy)), States(In({0}, pic \cup {Texture(i)}, busy)), prg)
<1> DEFINE s1 == Reentering(T, pic, busy, {None}, ClientSrcs \cup {NewContext.src}, {0, 1, 2}, {})
           s2 == Reentering(T, pic, busy, {Texture(i)}, ClientSrcs \cup {NewContext.src}, {0, 1, 2}, {})
           s3 == Reentering(T, pic \cup {Texture(i)}, busy, {Texture(i)}, ClientSrcs \cup {NewContext.src}, {0, 1, 2}, {})
           s4 == Reentering(T, pic \cup {Texture(i)}, busy, {None}, ClientSrcs \cup {NewContext.src}, {0, 1, 2}, {})
           s5 == Reentering({i}, pic \cup {Texture(i)}, busy, {None}, ClientSrcs \cup {NewContext.src}, {0, 1, 2}, {})
           s6 == Reentering({0}, pic \cup {Texture(i)}, busy, {None}, ClientSrcs \cup {NewContext.src}, {0, 1, 2}, {})
<1>9. Takes(<<glBindTexture(Texture(i)), glTexImage2D("black"), glBindTexture(None), glBindFramebuffer(i), glAttach(Texture(i)), glBindFramebuffer(0)>>, States(s1), States(s6), prg)
  <2>1. Takes(<<glBindTexture(Texture(i))>>, States(s1), States(s2), prg)
    BY TextureTakes DEF Reentering, Grows
  <2>2. Takes(<<glTexImage2D("black")>>, States(s2), States(s3), prg)
    <3>1. {Texture(i)} \subseteq Images
      BY Names
    <3>2. \A x \in pic \cup {Texture(i)} : x \in pic \/ {Texture(i)} \subseteq {x}
      BY Names
    <3> QED
      BY <3>1, <3>2, Names, TexImageTakes DEF Reentering, Grows
  <2>3. Takes(<<glBindTexture(None)>>, States(s3), States(s4), prg)
    BY TextureTakes DEF Reentering, Grows
  <2>4. Takes(<<glBindFramebuffer(i)>>, States(s4), States(s5), prg)
    BY FramebufferTakes DEF Reentering, Grows
  <2>5. Takes(<<glAttach(Texture(i))>>, States(s5), States(s5), prg)
    <3>1. \A t \in {i} : t # 0
      OBVIOUS
    <3>2. \A t \in {i}, a \in Atts : Put(a, t, Texture(i)) \in Atts
      BY AttsPut
    <3> QED
      BY <3>1, <3>2, AttachTakes DEF Reentering, Grows
  <2>6. Takes(<<glBindFramebuffer(0)>>, States(s5), States(s6), prg)
    BY FramebufferTakes DEF Reentering, Grows
  <2> QED
    BY <2>1, <2>2, <2>3, <2>4, <2>5, <2>6, TakesSix
<1>10. s1 = In(T, pic, busy) /\ s6 = In({0}, pic \cup {Texture(i)}, busy)
  BY DEF In
<1> HIDE DEF s1, s2, s3, s4, s5, s6
<1> QED
  BY <1>9, <1>10 DEF MakeTarget

\* Reading from it; the window's rendering has been waited for then.
LEMMA CheckTakes ==
  ASSUME NEW prg, NEW T, NEW t \in Nat, NEW pic, NEW busy, NEW rest, NEW cell, NEW l, NEW r,
         busy \subseteq rest \/ (t = 0 /\ busy \subseteq rest \cup {Window}), l # "black", r # "black"
  PROVE  Takes(Check(t, cell, l, r), States(In(T, pic, busy)), States(In({t}, pic, rest)), prg)
<1> DEFINE s1 == Reentering(T, pic, busy, {None}, ClientSrcs \cup {NewContext.src}, {0, 1, 2}, {})
           s2 == Reentering({t}, pic, busy, {None}, ClientSrcs \cup {NewContext.src}, {0, 1, 2}, {})
           s3 == Reentering({t}, pic, rest, {None}, ClientSrcs \cup {NewContext.src}, {0, 1, 2}, {})
<1>9. Takes(<<glBindFramebuffer(t), glReadPixels(<<cell, "left">>, {l}), glBindFramebuffer(t), glReadPixels(<<cell, "right">>, {r})>>, States(s1), States(s3), prg)
  <2>1. Takes(<<glBindFramebuffer(t)>>, States(s1), States(s2), prg)
    BY FramebufferTakes DEF Reentering, Grows
  <2>2. Takes(<<glReadPixels(<<cell, "left">>, {l})>>, States(s2), States(s3), prg)
    <3>1. t = 0 => TargetIn(s2, {Window})
      BY Aimed DEF Aim
    <3>2. busy \subseteq rest \/ (TargetIn(s2, {Window}) /\ busy \subseteq rest \cup {Window})
      BY <3>1
    <3> QED
      BY <3>1, <3>2, ReadTakes DEF Reentering, Grows
  <2>3. Takes(<<glBindFramebuffer(t)>>, States(s3), States(s3), prg)
    BY FramebufferTakes DEF Reentering, Grows
  <2>4. Takes(<<glReadPixels(<<cell, "right">>, {r})>>, States(s3), States(s3), prg)
    BY ReadTakes DEF Reentering, Grows
  <2> QED
    BY <2>1, <2>2, <2>3, <2>4, TakesFour
<1>10. s1 = In(T, pic, busy) /\ s3 = In({t}, pic, rest)
  BY DEF In
<1> HIDE DEF s1, s2, s3
<1> QED
  BY <1>9, <1>10 DEF Check

\* Targets A and B of a case.
LEMMA AandB ==
  ASSUME NEW n \in Nat \ {0}
  PROVE  A(n) \in Nat \ {0} /\ B(n) \in Nat \ {0} /\ A(n) # B(n) /\ A(n) \in Nat /\ B(n) \in Nat
BY DEF A, B

\* Only the window itself is not a texture.
LEMMA AimCalm ==
  /\ \A t \in Nat \ {0} : \A b : Calm \subseteq b => Aim(t) \subseteq b
  /\ \A b : Full \subseteq b => Calm \subseteq b /\ Aim(0) \subseteq b
BY DEF Aim, Calm, Full

\* A cleared.
LEMMA ClearATakes ==
  ASSUME NEW prg, NEW n \in Nat \ {0}, NEW T, NEW pic, NEW b, Calm \subseteq b
  PROVE  Takes(ClearA(n), States(In(T, pic, b)), States(In({A(n)}, pic, b)), prg)
<1>0. A(n) \in Nat \ {0} /\ B(n) \in Nat \ {0} /\ A(n) # B(n) /\ A(n) \in Nat /\ B(n) \in Nat
  BY AandB
<1>a. Aim(A(n)) \subseteq b /\ Aim(B(n)) \subseteq b
  BY <1>0, AimCalm
<1>b. {"left"} \in SUBSET Halves /\ Both \in SUBSET Halves
  BY DEF Halves, Both
<1>1. Takes(<<glBindFramebuffer(A(n))>>, States(In(T, pic, b)), States(In({A(n)}, pic, b)), prg)
  BY BindTakes
<1>2. Takes(ClearTarget("red"), States(In({A(n)}, pic, b)), States(In({A(n)}, pic, b)), prg)
  BY <1>0, <1>a, ClearTargetTakes
<1> QED
  BY <1>1, <1>2, TakesJoin DEF ClearA

\* B cleared and filled.
LEMMA DrawBTakes ==
  ASSUME NEW prg, NEW n \in Nat \ {0}, NEW T, NEW pic, NEW b, Calm \subseteq b
  PROVE  Takes(DrawB(n), States(In(T, pic, b)), States(In({B(n)}, pic, b)), prg)
<1>0. A(n) \in Nat \ {0} /\ B(n) \in Nat \ {0} /\ A(n) # B(n) /\ A(n) \in Nat /\ B(n) \in Nat
  BY AandB
<1>a. Aim(A(n)) \subseteq b /\ Aim(B(n)) \subseteq b
  BY <1>0, AimCalm
<1>b. {"left"} \in SUBSET Halves /\ Both \in SUBSET Halves
  BY DEF Halves, Both
<1>1. Takes(<<glBindFramebuffer(B(n))>>, States(In(T, pic, b)), States(In({B(n)}, pic, b)), prg)
  BY BindTakes
<1>2. Takes(ClearTarget("green"), States(In({B(n)}, pic, b)), States(In({B(n)}, pic, b)), prg)
  BY <1>0, <1>a, ClearTargetTakes
<1>3. Takes(Quad(Both, "yellow"), States(In({B(n)}, pic, b)), States(In({B(n)}, pic, b)), prg)
  BY <1>0, <1>a, <1>b, QuadTakes
<1> QED
  BY <1>1, <1>2, <1>3, JoinThree DEF DrawB

\* A again, half of it filled.
LEMMA BackToATakes ==
  ASSUME NEW prg, NEW n \in Nat \ {0}, NEW T, NEW pic, NEW b, Calm \subseteq b
  PROVE  Takes(BackToA(n), States(In(T, pic, b)), States(In({A(n)}, pic, b)), prg)
<1>0. A(n) \in Nat \ {0} /\ B(n) \in Nat \ {0} /\ A(n) # B(n) /\ A(n) \in Nat /\ B(n) \in Nat
  BY AandB
<1>a. Aim(A(n)) \subseteq b /\ Aim(B(n)) \subseteq b
  BY <1>0, AimCalm
<1>b. {"left"} \in SUBSET Halves /\ Both \in SUBSET Halves
  BY DEF Halves, Both
<1>1. Takes(<<glBindFramebuffer(A(n))>>, States(In(T, pic, b)), States(In({A(n)}, pic, b)), prg)
  BY BindTakes
<1>2. Takes(Quad(L, "blue"), States(In({A(n)}, pic, b)), States(In({A(n)}, pic, b)), prg)
  BY <1>0, <1>a, <1>b, QuadTakes DEF L
<1> QED
  BY <1>1, <1>2, TakesJoin DEF BackToA

\* A again, sampling B.
LEMMA SampleBTakes ==
  ASSUME NEW prg, NEW n \in Nat \ {0}, NEW T, NEW pic, NEW b, Calm \subseteq b, Texture(B(n)) \in pic
  PROVE  Takes(SampleB(n), States(In(T, pic, b)), States(In({A(n)}, pic, b)), prg)
<1>0. A(n) \in Nat \ {0} /\ B(n) \in Nat \ {0} /\ A(n) # B(n) /\ A(n) \in Nat /\ B(n) \in Nat
  BY AandB
<1>a. Aim(A(n)) \subseteq b /\ Aim(B(n)) \subseteq b
  BY <1>0, AimCalm
<1>b. {"left"} \in SUBSET Halves /\ Both \in SUBSET Halves
  BY DEF Halves, Both
<1>1. Takes(<<glBindFramebuffer(A(n))>>, States(In(T, pic, b)), States(In({A(n)}, pic, b)), prg)
  BY BindTakes
<1>2. Takes(TQuad(0, L, B(n)), States(In({A(n)}, pic, b)), States(In({A(n)}, pic, b)), prg)
  BY <1>0, <1>a, <1>b, TQuadTakes DEF L
<1> QED
  BY <1>1, <1>2, TakesJoin DEF SampleB

\* A into the window.
LEMMA ComposeTakes ==
  ASSUME NEW prg, NEW n \in Nat \ {0}, NEW T, NEW pic, NEW b, Full \subseteq b, Texture(A(n)) \in pic
  PROVE  Takes(Compose(n), States(In(T, pic, b)), States(In({0}, pic, b)), prg)
<1>0. A(n) \in Nat \ {0} /\ B(n) \in Nat \ {0} /\ A(n) # B(n) /\ A(n) \in Nat /\ B(n) \in Nat
  BY AandB
<1>a. Aim(0) \subseteq b /\ 0 \in Nat
  BY <1>0, AimCalm
<1>b. {"left"} \in SUBSET Halves /\ Both \in SUBSET Halves
  BY DEF Halves, Both
<1>1. Takes(<<glBindFramebuffer(0)>>, States(In(T, pic, b)), States(In({0}, pic, b)), prg)
  BY BindTakes
<1>2. Takes(ClearTarget("black"), States(In({0}, pic, b)), States(In({0}, pic, b)), prg)
  BY <1>a, ClearTargetTakes
<1>3. Takes(TQuad(0, Both, A(n)), States(In({0}, pic, b)), States(In({0}, pic, b)), prg)
  BY <1>0, <1>a, <1>b, TQuadTakes
<1> QED
  BY <1>1, <1>2, <1>3, JoinThree DEF Compose

\* Both made.
LEMMA PairTakes ==
  ASSUME NEW prg, NEW n \in Nat \ {0}, NEW T, NEW pic, NEW b
  PROVE  Takes(Pair(n), States(In(T, pic, b)), States(In({0}, (pic \cup {Texture(A(n))}) \cup {Texture(B(n))}, b)), prg)
<1>0. A(n) \in Nat \ {0} /\ B(n) \in Nat \ {0} /\ A(n) # B(n) /\ A(n) \in Nat /\ B(n) \in Nat
  BY AandB
<1>1. Takes(MakeTarget(A(n)), States(In(T, pic, b)), States(In({0}, pic \cup {Texture(A(n))}, b)), prg)
  BY <1>0, MakeTargetTakes
<1>2. Takes(MakeTarget(B(n)), States(In({0}, pic \cup {Texture(A(n))}, b)), States(In({0}, (pic \cup {Texture(A(n))}) \cup {Texture(B(n))}, b)), prg)
  BY <1>0, MakeTargetTakes
<1> QED
  BY <1>1, <1>2, TakesJoin DEF Pair

\* Calls that leave the path where it is.
LEMMA StaysTakes ==
  ASSUME NEW prg, NEW T, NEW pic, NEW b, NEW x
  PROVE  /\ Takes(<<glFinish>>, States(In(T, pic, b)), States(In(T, pic, b)), prg)
         /\ Takes(<<glStencil(x)>>, States(In(T, pic, b)), States(In(T, pic, b)), prg)
         /\ Takes(<<eglSwapBuffers("go")>>, States(In(T, pic, b)), States(In(T, pic, b)), prg)
<1>1. In(T, pic, b).on = {TRUE} /\ Grows(In(T, pic, b), In(T, pic, b), {}) /\ Grows(In(T, pic, b), In(T, pic, b), {"busy"})
      /\ In(T, pic, b).busy \subseteq In(T, pic, b).busy
  BY DEF In, Reentering, Grows
<1>2. Takes(<<glFinish>>, States(In(T, pic, b)), States(In(T, pic, b)), prg)
  BY <1>1, FinishTakes
<1>3. Takes(<<glStencil(x)>>, States(In(T, pic, b)), States(In(T, pic, b)), prg)
  BY <1>1, StencilTakes
<1>4. Takes(<<eglSwapBuffers("go")>>, States(In(T, pic, b)), States(In(T, pic, b)), prg)
  BY <1>1, SwapTakes
<1> QED
  BY <1>2, <1>3, <1>4

\* Stencil, then cover.
LEMMA StencilTakesB ==
  ASSUME NEW prg, NEW n \in Nat \ {0}, NEW pic, NEW b, Calm \subseteq b
  PROVE  Takes(StencilFill, States(In({B(n)}, pic, b)), States(In({B(n)}, pic, b)), prg)
<1>0. A(n) \in Nat \ {0} /\ B(n) \in Nat \ {0} /\ A(n) # B(n) /\ A(n) \in Nat /\ B(n) \in Nat
  BY AandB
<1>a. Aim(A(n)) \subseteq b /\ Aim(B(n)) \subseteq b
  BY <1>0, AimCalm
<1>b. {"left"} \in SUBSET Halves /\ Both \in SUBSET Halves
  BY DEF Halves, Both
<1>1. Takes(<<glStencil("mark")>>, States(In({B(n)}, pic, b)), States(In({B(n)}, pic, b)), prg)
  BY StaysTakes
<1>2. Takes(Quad(Both, "yellow"), States(In({B(n)}, pic, b)), States(In({B(n)}, pic, b)), prg)
  BY <1>0, <1>a, <1>b, QuadTakes
<1>3. Takes(<<glStencil("cover")>>, States(In({B(n)}, pic, b)), States(In({B(n)}, pic, b)), prg)
  BY StaysTakes
<1>4. Takes(Quad(Both, "yellow"), States(In({B(n)}, pic, b)), States(In({B(n)}, pic, b)), prg)
  BY <1>0, <1>a, <1>b, QuadTakes
<1>5. Takes(<<glStencil("plain")>>, States(In({B(n)}, pic, b)), States(In({B(n)}, pic, b)), prg)
  BY StaysTakes
<1> QED
  BY <1>1, <1>2, <1>3, <1>4, <1>5, JoinFive DEF StencilFill

\* A layer and its cache.
LEMMA BakeLayerTakes ==
  ASSUME NEW prg, NEW n \in Nat \ {0}, NEW T, NEW pic, NEW b, Calm \subseteq b, NEW stencil
  PROVE  Takes(BakeLayer(n, stencil), States(In(T, pic, b)), States(In({A(n)}, (pic \cup {Texture(A(n))}) \cup {Texture(B(n))}, b)), prg)
<1>0. A(n) \in Nat \ {0} /\ B(n) \in Nat \ {0} /\ A(n) # B(n) /\ A(n) \in Nat /\ B(n) \in Nat
  BY AandB
<1>a. Aim(A(n)) \subseteq b /\ Aim(B(n)) \subseteq b
  BY <1>0, AimCalm
<1>b. {"left"} \in SUBSET Halves /\ Both \in SUBSET Halves
  BY DEF Halves, Both
<1>1. Takes(MakeTarget(A(n)), States(In(T, pic, b)), States(In({0}, pic \cup {Texture(A(n))}, b)), prg)
  BY <1>0, MakeTargetTakes
<1>2. Takes(ClearA(n), States(In({0}, pic \cup {Texture(A(n))}, b)), States(In({A(n)}, pic \cup {Texture(A(n))}, b)), prg)
  BY ClearATakes
<1>3. Takes(MakeTarget(B(n)), States(In({A(n)}, pic \cup {Texture(A(n))}, b)), States(In({0}, (pic \cup {Texture(A(n))}) \cup {Texture(B(n))}, b)), prg)
  BY <1>0, MakeTargetTakes
<1>4. Takes(<<glBindFramebuffer(B(n))>>, States(In({0}, (pic \cup {Texture(A(n))}) \cup {Texture(B(n))}, b)), States(In({B(n)}, (pic \cup {Texture(A(n))}) \cup {Texture(B(n))}, b)), prg)
  BY BindTakes
<1>5. Takes(ClearTarget("green"), States(In({B(n)}, (pic \cup {Texture(A(n))}) \cup {Texture(B(n))}, b)), States(In({B(n)}, (pic \cup {Texture(A(n))}) \cup {Texture(B(n))}, b)), prg)
  BY <1>0, <1>a, ClearTargetTakes
<1>6. Takes((IF stencil THEN StencilFill ELSE Quad(Both, "yellow")), States(In({B(n)}, (pic \cup {Texture(A(n))}) \cup {Texture(B(n))}, b)), States(In({B(n)}, (pic \cup {Texture(A(n))}) \cup {Texture(B(n))}, b)), prg)
  BY <1>0, <1>a, <1>b, QuadTakes, StencilTakesB
<1>7. Takes(SampleB(n), States(In({B(n)}, (pic \cup {Texture(A(n))}) \cup {Texture(B(n))}, b)), States(In({A(n)}, (pic \cup {Texture(A(n))}) \cup {Texture(B(n))}, b)), prg)
  BY SampleBTakes
<1> QED
  BY <1>1, <1>2, <1>3, <1>4, <1>5, <1>6, <1>7, JoinSeven DEF BakeLayer

\* The images that may be busy between two cases: the window is read back in
\* each case that renders to it, unless a burst has no layer.
Rest(n) == IF n = 0 THEN Full ELSE Calm

\* A burst of no layers leaves the window busy, and any other is read back.
LEMMA RestIs ==
  ASSUME NEW n \in Nat
  PROVE  Calm \subseteq Rest(n) /\ Rest(n) \subseteq Full /\ Full \subseteq Rest(n) \cup {Window} /\ (n # 0 => Rest(n) = Calm)
BY DEF Rest, Full

\* Composing leaves all targets as they were.
LEMMA ComposeGrows ==
  ASSUME NEW prg, NEW n \in Nat \ {0}, NEW T, NEW pic, NEW b, b \subseteq Full, Texture(A(n)) \in pic
  PROVE  Takes(Compose(n), States(In(T, pic, b)), States(In({0}, pic, Full)), prg)
<1>1. States(In(T, pic, b)) \subseteq States(In(T, pic, Full))
  BY InGrows
<1>2. Takes(Compose(n), States(In(T, pic, Full)), States(In({0}, pic, Full)), prg)
  BY ComposeTakes
<1> QED
  BY <1>1, <1>2, TakesWithin

\* fbo-reentry-test.c:227-364: each case makes its own targets and reads them back.
LEMMA Case1Takes ==
  ASSUME NEW prg, NEW N \in Nat, NEW stencil
  PROVE  Takes(Case(1, N, stencil), States(In(Nat, {}, Rest(N))), States(In(Nat, {}, Rest(N))), prg)
<1> DEFINE s0 == States(In(Nat, {}, Rest(N)))
           s1 == States(In({0}, {} \cup {Texture(A(1))}, Rest(N)))
           s2 == States(In({A(1)}, {} \cup {Texture(A(1))}, Rest(N)))
<1>0. Calm \subseteq Rest(N) /\ Rest(N) \subseteq Full /\ Full \subseteq Rest(N) \cup {Window}
  BY RestIs
<1>1. Takes(MakeTarget(A(1)), s0, s1, prg)
  BY AandB, MakeTargetTakes
<1>2. Takes(ClearA(1), s1, s2, prg)
  BY <1>0, ClearATakes
<1>3. Takes(Quad(L, "blue"), s2, s2, prg)
  BY <1>0, AandB, AimCalm, QuadTakes DEF L, Halves
<1>4. Takes(Check(A(1), 0, "blue", "red"), s2, s2, prg)
  BY <1>0, AandB, CheckTakes
<1>5. s2 \subseteq s0
  BY AandB, InGrows
<1> HIDE DEF s0, s1, s2
<1>6. Takes(MakeTarget(A(1)) \o ClearA(1) \o Quad(L, "blue") \o Check(A(1), 0, "blue", "red"), s0, s2, prg)
  BY <1>1, <1>2, <1>3, <1>4, JoinFour
<1>7. Case(1, N, stencil) = MakeTarget(A(1)) \o ClearA(1) \o Quad(L, "blue") \o Check(A(1), 0, "blue", "red")
  BY DEF Case
<1>8. Takes(Case(1, N, stencil), s0, s0, prg)
  BY <1>5, <1>6, <1>7, TakesWithin
<1> QED
  BY <1>8 DEF s0

LEMMA Case2Takes ==
  ASSUME NEW prg, NEW N \in Nat, NEW stencil
  PROVE  Takes(Case(2, N, stencil), States(In(Nat, {}, Rest(N))), States(In(Nat, {}, Rest(N))), prg)
<1> DEFINE s0 == States(In(Nat, {}, Rest(N)))
           s1 == States(In({0}, ({} \cup {Texture(A(2))}) \cup {Texture(B(2))}, Rest(N)))
           s2 == States(In({A(2)}, ({} \cup {Texture(A(2))}) \cup {Texture(B(2))}, Rest(N)))
           s3 == States(In({B(2)}, ({} \cup {Texture(A(2))}) \cup {Texture(B(2))}, Rest(N)))
<1>0. Calm \subseteq Rest(N) /\ Rest(N) \subseteq Full /\ Full \subseteq Rest(N) \cup {Window}
  BY RestIs
<1>1. Takes(Pair(2), s0, s1, prg)
  BY <1>0, PairTakes
<1>2. Takes(ClearA(2), s1, s2, prg)
  BY <1>0, ClearATakes
<1>3. Takes(<<glBindFramebuffer(B(2))>>, s2, s3, prg)
  BY BindTakes
<1>4. Takes(ClearTarget("green"), s3, s3, prg)
  BY <1>0, AandB, AimCalm, ClearTargetTakes
<1>5. Takes(BackToA(2), s3, s2, prg)
  BY <1>0, BackToATakes
<1>6. Takes(Check(A(2), 0, "blue", "red"), s2, s2, prg)
  BY <1>0, AandB, CheckTakes
<1>7. s2 \subseteq s0
  BY AandB, InGrows
<1> HIDE DEF s0, s1, s2, s3
<1>8. Takes(Pair(2) \o ClearA(2) \o <<glBindFramebuffer(B(2))>> \o ClearTarget("green") \o BackToA(2) \o Check(A(2), 0, "blue", "red"), s0, s2, prg)
  BY <1>1, <1>2, <1>3, <1>4, <1>5, <1>6, JoinSix
<1>9. Case(2, N, stencil) = Pair(2) \o ClearA(2) \o <<glBindFramebuffer(B(2))>> \o ClearTarget("green") \o BackToA(2) \o Check(A(2), 0, "blue", "red")
  BY DEF Case
<1>10. Takes(Case(2, N, stencil), s0, s0, prg)
  BY <1>7, <1>8, <1>9, TakesWithin
<1> QED
  BY <1>10 DEF s0

LEMMA Case3Takes ==
  ASSUME NEW prg, NEW N \in Nat, NEW stencil
  PROVE  Takes(Case(3, N, stencil), States(In(Nat, {}, Rest(N))), States(In(Nat, {}, Rest(N))), prg)
<1> DEFINE s0 == States(In(Nat, {}, Rest(N)))
           s1 == States(In({0}, ({} \cup {Texture(A(3))}) \cup {Texture(B(3))}, Rest(N)))
           s2 == States(In({A(3)}, ({} \cup {Texture(A(3))}) \cup {Texture(B(3))}, Rest(N)))
           s3 == States(In({B(3)}, ({} \cup {Texture(A(3))}) \cup {Texture(B(3))}, Rest(N)))
<1>0. Calm \subseteq Rest(N) /\ Rest(N) \subseteq Full /\ Full \subseteq Rest(N) \cup {Window}
  BY RestIs
<1>1. Takes(Pair(3), s0, s1, prg)
  BY <1>0, PairTakes
<1>2. Takes(ClearA(3), s1, s2, prg)
  BY <1>0, ClearATakes
<1>3. Takes(DrawB(3), s2, s3, prg)
  BY <1>0, DrawBTakes
<1>4. Takes(BackToA(3), s3, s2, prg)
  BY <1>0, BackToATakes
<1>5. Takes(Check(A(3), 0, "blue", "red"), s2, s2, prg)
  BY <1>0, AandB, CheckTakes
<1>6. Takes(Check(B(3), 0, "yellow", "yellow"), s2, s3, prg)
  BY <1>0, AandB, CheckTakes
<1>7. s3 \subseteq s0
  BY AandB, InGrows
<1> HIDE DEF s0, s1, s2, s3
<1>8. Takes(Pair(3) \o ClearA(3) \o DrawB(3) \o BackToA(3) \o Check(A(3), 0, "blue", "red") \o Check(B(3), 0, "yellow", "yellow"), s0, s3, prg)
  BY <1>1, <1>2, <1>3, <1>4, <1>5, <1>6, JoinSix
<1>9. Case(3, N, stencil) = Pair(3) \o ClearA(3) \o DrawB(3) \o BackToA(3) \o Check(A(3), 0, "blue", "red") \o Check(B(3), 0, "yellow", "yellow")
  BY DEF Case
<1>10. Takes(Case(3, N, stencil), s0, s0, prg)
  BY <1>7, <1>8, <1>9, TakesWithin
<1> QED
  BY <1>10 DEF s0

LEMMA Case4Takes ==
  ASSUME NEW prg, NEW N \in Nat, NEW stencil
  PROVE  Takes(Case(4, N, stencil), States(In(Nat, {}, Rest(N))), States(In(Nat, {}, Rest(N))), prg)
<1> DEFINE s0 == States(In(Nat, {}, Rest(N)))
           s1 == States(In({0}, ({} \cup {Texture(A(4))}) \cup {Texture(B(4))}, Rest(N)))
           s2 == States(In({A(4)}, ({} \cup {Texture(A(4))}) \cup {Texture(B(4))}, Rest(N)))
           s3 == States(In({B(4)}, ({} \cup {Texture(A(4))}) \cup {Texture(B(4))}, Rest(N)))
<1>0. Calm \subseteq Rest(N) /\ Rest(N) \subseteq Full /\ Full \subseteq Rest(N) \cup {Window}
  BY RestIs
<1>1. Takes(Pair(4), s0, s1, prg)
  BY <1>0, PairTakes
<1>2. Takes(ClearA(4), s1, s2, prg)
  BY <1>0, ClearATakes
<1>3. Takes(<<glFinish>>, s2, s2, prg)
  BY StaysTakes
<1>4. Takes(DrawB(4), s2, s3, prg)
  BY <1>0, DrawBTakes
<1>5. Takes(<<glFinish>>, s3, s3, prg)
  BY StaysTakes
<1>6. Takes(BackToA(4), s3, s2, prg)
  BY <1>0, BackToATakes
<1>7. Takes(Check(A(4), 0, "blue", "red"), s2, s2, prg)
  BY <1>0, AandB, CheckTakes
<1>8. s2 \subseteq s0
  BY AandB, InGrows
<1> HIDE DEF s0, s1, s2, s3
<1>9. Takes(Pair(4) \o ClearA(4) \o <<glFinish>> \o DrawB(4) \o <<glFinish>>, s0, s3, prg)
  BY <1>1, <1>2, <1>3, <1>4, <1>5, JoinFive
<1>10. Takes(Pair(4) \o ClearA(4) \o <<glFinish>> \o DrawB(4) \o <<glFinish>> \o BackToA(4) \o Check(A(4), 0, "blue", "red"), s0, s2, prg)
  BY <1>9, <1>6, <1>7, JoinThree
<1>11. Case(4, N, stencil) = Pair(4) \o ClearA(4) \o <<glFinish>> \o DrawB(4) \o <<glFinish>> \o BackToA(4) \o Check(A(4), 0, "blue", "red")
  BY DEF Case
<1>12. Takes(Case(4, N, stencil), s0, s0, prg)
  BY <1>8, <1>10, <1>11, TakesWithin
<1> QED
  BY <1>12 DEF s0

LEMMA Case5Takes ==
  ASSUME NEW prg, NEW N \in Nat, NEW stencil
  PROVE  Takes(Case(5, N, stencil), States(In(Nat, {}, Rest(N))), States(In(Nat, {}, Rest(N))), prg)
<1> DEFINE s0 == States(In(Nat, {}, Rest(N)))
           s1 == States(In({0}, ({} \cup {Texture(A(5))}) \cup {Texture(B(5))}, Rest(N)))
           s2 == States(In({A(5)}, ({} \cup {Texture(A(5))}) \cup {Texture(B(5))}, Rest(N)))
           s3 == States(In({B(5)}, ({} \cup {Texture(A(5))}) \cup {Texture(B(5))}, Rest(N)))
<1>0. Calm \subseteq Rest(N) /\ Rest(N) \subseteq Full /\ Full \subseteq Rest(N) \cup {Window}
  BY RestIs
<1>1. Takes(Pair(5), s0, s1, prg)
  BY <1>0, PairTakes
<1>2. Takes(ClearA(5), s1, s2, prg)
  BY <1>0, ClearATakes
<1>3. Takes(DrawB(5), s2, s3, prg)
  BY <1>0, DrawBTakes
<1>4. Takes(Check(A(5), 0, "red", "red"), s3, s2, prg)
  BY <1>0, AandB, CheckTakes
<1>5. s2 \subseteq s0
  BY AandB, InGrows
<1> HIDE DEF s0, s1, s2, s3
<1>6. Takes(Pair(5) \o ClearA(5) \o DrawB(5) \o Check(A(5), 0, "red", "red"), s0, s2, prg)
  BY <1>1, <1>2, <1>3, <1>4, JoinFour
<1>7. Case(5, N, stencil) = Pair(5) \o ClearA(5) \o DrawB(5) \o Check(A(5), 0, "red", "red")
  BY DEF Case
<1>8. Takes(Case(5, N, stencil), s0, s0, prg)
  BY <1>5, <1>6, <1>7, TakesWithin
<1> QED
  BY <1>8 DEF s0

LEMMA Case6Takes ==
  ASSUME NEW prg, NEW N \in Nat, NEW stencil
  PROVE  Takes(Case(6, N, stencil), States(In(Nat, {}, Rest(N))), States(In(Nat, {}, Rest(N))), prg)
<1> DEFINE s0 == States(In(Nat, {}, Rest(N)))
           s1 == States(In({0}, ({} \cup {Texture(A(6))}) \cup {Texture(B(6))}, Rest(N)))
           s2 == States(In({A(6)}, ({} \cup {Texture(A(6))}) \cup {Texture(B(6))}, Rest(N)))
           s3 == States(In({B(6)}, ({} \cup {Texture(A(6))}) \cup {Texture(B(6))}, Rest(N)))
<1>0. Calm \subseteq Rest(N) /\ Rest(N) \subseteq Full /\ Full \subseteq Rest(N) \cup {Window}
  BY RestIs
<1>1. Takes(Pair(6), s0, s1, prg)
  BY <1>0, PairTakes
<1>2. Takes(ClearA(6), s1, s2, prg)
  BY <1>0, ClearATakes
<1>3. Takes(DrawB(6), s2, s3, prg)
  BY <1>0, DrawBTakes
<1>4. Takes(SampleB(6), s3, s2, prg)
  BY <1>0, SampleBTakes
<1>5. Takes(Check(A(6), 0, "yellow", "red"), s2, s2, prg)
  BY <1>0, AandB, CheckTakes
<1>6. s2 \subseteq s0
  BY AandB, InGrows
<1> HIDE DEF s0, s1, s2, s3
<1>7. Takes(Pair(6) \o ClearA(6) \o DrawB(6) \o SampleB(6) \o Check(A(6), 0, "yellow", "red"), s0, s2, prg)
  BY <1>1, <1>2, <1>3, <1>4, <1>5, JoinFive
<1>8. Case(6, N, stencil) = Pair(6) \o ClearA(6) \o DrawB(6) \o SampleB(6) \o Check(A(6), 0, "yellow", "red")
  BY DEF Case
<1>9. Takes(Case(6, N, stencil), s0, s0, prg)
  BY <1>6, <1>7, <1>8, TakesWithin
<1> QED
  BY <1>9 DEF s0

LEMMA Case7Takes ==
  ASSUME NEW prg, NEW N \in Nat, NEW stencil
  PROVE  Takes(Case(7, N, stencil), States(In(Nat, {}, Rest(N))), States(In(Nat, {}, Rest(N))), prg)
<1> DEFINE s0 == States(In(Nat, {}, Rest(N)))
           s1 == States(In({0}, ({} \cup {Texture(A(7))}) \cup {Texture(B(7))}, Rest(N)))
           s2 == States(In({A(7)}, ({} \cup {Texture(A(7))}) \cup {Texture(B(7))}, Rest(N)))
           s3 == States(In({B(7)}, ({} \cup {Texture(A(7))}) \cup {Texture(B(7))}, Rest(N)))
           s4 == States(In({0}, ({} \cup {Texture(A(7))}) \cup {Texture(B(7))}, Full))
<1>0. Calm \subseteq Rest(N) /\ Rest(N) \subseteq Full /\ Full \subseteq Rest(N) \cup {Window}
  BY RestIs
<1>1. Takes(Pair(7), s0, s1, prg)
  BY <1>0, PairTakes
<1>2. Takes(ClearA(7), s1, s2, prg)
  BY <1>0, ClearATakes
<1>3. Takes(DrawB(7), s2, s3, prg)
  BY <1>0, DrawBTakes
<1>4. Takes(BackToA(7), s3, s2, prg)
  BY <1>0, BackToATakes
<1>5. Takes(Compose(7), s2, s4, prg)
  BY <1>0, ComposeGrows
<1>6. Takes(Check(0, 0, "blue", "red"), s4, s1, prg)
  BY <1>0, CheckTakes
<1>7. s1 \subseteq s0
  BY AandB, InGrows
<1> HIDE DEF s0, s1, s2, s3, s4
<1>8. Takes(Pair(7) \o ClearA(7) \o DrawB(7) \o BackToA(7) \o Compose(7) \o Check(0, 0, "blue", "red"), s0, s1, prg)
  BY <1>1, <1>2, <1>3, <1>4, <1>5, <1>6, JoinSix
<1>9. Case(7, N, stencil) = Pair(7) \o ClearA(7) \o DrawB(7) \o BackToA(7) \o Compose(7) \o Check(0, 0, "blue", "red")
  BY DEF Case
<1>10. Takes(Case(7, N, stencil), s0, s0, prg)
  BY <1>7, <1>8, <1>9, TakesWithin
<1> QED
  BY <1>10 DEF s0

LEMMA Case8Takes ==
  ASSUME NEW prg, NEW N \in Nat, NEW stencil
  PROVE  Takes(Case(8, N, stencil), States(In(Nat, {}, Rest(N))), States(In(Nat, {}, Rest(N))), prg)
<1> DEFINE s0 == States(In(Nat, {}, Rest(N)))
           s1 == States(In({0}, ({} \cup {Texture(A(8))}) \cup {Texture(B(8))}, Rest(N)))
           s2 == States(In({A(8)}, ({} \cup {Texture(A(8))}) \cup {Texture(B(8))}, Rest(N)))
           s3 == States(In({B(8)}, ({} \cup {Texture(A(8))}) \cup {Texture(B(8))}, Rest(N)))
           s4 == States(In({0}, ({} \cup {Texture(A(8))}) \cup {Texture(B(8))}, Full))
<1>0. Calm \subseteq Rest(N) /\ Rest(N) \subseteq Full /\ Full \subseteq Rest(N) \cup {Window}
  BY RestIs
<1>1. Takes(Pair(8), s0, s1, prg)
  BY <1>0, PairTakes
<1>2. Takes(ClearA(8), s1, s2, prg)
  BY <1>0, ClearATakes
<1>3. Takes(DrawB(8), s2, s3, prg)
  BY <1>0, DrawBTakes
<1>4. Takes(SampleB(8), s3, s2, prg)
  BY <1>0, SampleBTakes
<1>5. Takes(Compose(8), s2, s4, prg)
  BY <1>0, ComposeGrows
<1>6. Takes(Check(0, 0, "yellow", "red"), s4, s1, prg)
  BY <1>0, CheckTakes
<1>7. Takes(<<eglSwapBuffers("go")>>, s1, s1, prg)
  BY StaysTakes
<1>8. Takes(Compose(8), s1, s4, prg)
  BY <1>0, ComposeGrows
<1>9. Takes(Check(0, 0, "yellow", "red"), s4, s1, prg)
  BY <1>0, CheckTakes
<1>10. s1 \subseteq s0
  BY AandB, InGrows
<1> HIDE DEF s0, s1, s2, s3, s4
<1>11. Takes(Pair(8) \o ClearA(8) \o DrawB(8) \o SampleB(8) \o Compose(8), s0, s4, prg)
  BY <1>1, <1>2, <1>3, <1>4, <1>5, JoinFive
<1>12. Takes(Pair(8) \o ClearA(8) \o DrawB(8) \o SampleB(8) \o Compose(8) \o Check(0, 0, "yellow", "red") \o <<eglSwapBuffers("go")>> \o Compose(8) \o Check(0, 0, "yellow", "red"), s0, s1, prg)
  BY <1>11, <1>6, <1>7, <1>8, <1>9, JoinFive
<1>13. Case(8, N, stencil) = Pair(8) \o ClearA(8) \o DrawB(8) \o SampleB(8) \o Compose(8) \o Check(0, 0, "yellow", "red") \o <<eglSwapBuffers("go")>> \o Compose(8) \o Check(0, 0, "yellow", "red")
  BY DEF Case
<1>14. Takes(Case(8, N, stencil), s0, s0, prg)
  BY <1>10, <1>12, <1>13, TakesWithin
<1> QED
  BY <1>14 DEF s0

LEMMA Case10Takes ==
  ASSUME NEW prg, NEW N \in Nat, NEW stencil
  PROVE  Takes(Case(10, N, stencil), States(In(Nat, {}, Rest(N))), States(In(Nat, {}, Rest(N))), prg)
<1> DEFINE s0 == States(In(Nat, {}, Rest(N)))
           s1 == States(In({0}, {} \cup {Texture(A(10))}, Rest(N)))
           s2 == States(In({A(10)}, {} \cup {Texture(A(10))}, Rest(N)))
           s3 == States(In({0}, ({} \cup {Texture(A(10))}) \cup {Texture(B(10))}, Rest(N)))
           s4 == States(In({B(10)}, ({} \cup {Texture(A(10))}) \cup {Texture(B(10))}, Rest(N)))
           s5 == States(In({A(10)}, ({} \cup {Texture(A(10))}) \cup {Texture(B(10))}, Rest(N)))
           s6 == States(In({0}, ({} \cup {Texture(A(10))}) \cup {Texture(B(10))}, Full))
<1>0. Calm \subseteq Rest(N) /\ Rest(N) \subseteq Full /\ Full \subseteq Rest(N) \cup {Window}
  BY RestIs
<1>1. Takes(MakeTarget(A(10)), s0, s1, prg)
  BY AandB, MakeTargetTakes
<1>2. Takes(ClearA(10), s1, s2, prg)
  BY <1>0, ClearATakes
<1>3. Takes(MakeTarget(B(10)), s2, s3, prg)
  BY AandB, MakeTargetTakes
<1>4. Takes(DrawB(10), s3, s4, prg)
  BY <1>0, DrawBTakes
<1>5. Takes(SampleB(10), s4, s5, prg)
  BY <1>0, SampleBTakes
<1>6. Takes(Compose(10), s5, s6, prg)
  BY <1>0, ComposeGrows
<1>7. Takes(Check(0, 0, "yellow", "red"), s6, s3, prg)
  BY <1>0, CheckTakes
<1>8. Takes(Check(A(10), 0, "yellow", "red"), s3, s5, prg)
  BY <1>0, AandB, CheckTakes
<1>9. s5 \subseteq s0
  BY AandB, InGrows
<1> HIDE DEF s0, s1, s2, s3, s4, s5, s6
<1>10. Takes(MakeTarget(A(10)) \o ClearA(10) \o MakeTarget(B(10)) \o DrawB(10) \o SampleB(10), s0, s5, prg)
  BY <1>1, <1>2, <1>3, <1>4, <1>5, JoinFive
<1>11. Takes(MakeTarget(A(10)) \o ClearA(10) \o MakeTarget(B(10)) \o DrawB(10) \o SampleB(10) \o Compose(10) \o Check(0, 0, "yellow", "red") \o Check(A(10), 0, "yellow", "red"), s0, s5, prg)
  BY <1>10, <1>6, <1>7, <1>8, JoinFour
<1>12. Case(10, N, stencil) = MakeTarget(A(10)) \o ClearA(10) \o MakeTarget(B(10)) \o DrawB(10) \o SampleB(10) \o Compose(10) \o Check(0, 0, "yellow", "red") \o Check(A(10), 0, "yellow", "red")
  BY DEF Case
<1>13. Takes(Case(10, N, stencil), s0, s0, prg)
  BY <1>9, <1>11, <1>12, TakesWithin
<1> QED
  BY <1>13 DEF s0

\* The burst: layers whose caches pile up, then two frames of all of them.
LEMMA BurstTakes ==
  ASSUME NEW prg, NEW N \in Nat, NEW stencil
  PROVE  Takes(Burst(N, stencil), States(In(Nat, {}, Rest(N))), States(In(Nat, {}, Rest(N))), prg)
<1> SUFFICES ASSUME NEW nl \in Nat, nl = IF N > 32 THEN 32 ELSE N
             PROVE  Takes(Burst(N, stencil), States(In(Nat, {}, Rest(N))), States(In(Nat, {}, Rest(N))), prg)
  OBVIOUS
<1> DEFINE done(i) == {Texture(A(11 + j)) : j \in 0 .. i - 1}
           P == [i \in 0 .. nl |-> States(In(Nat, done(i), Rest(N)))]
           layer == [i \in 0 .. nl - 1 |-> BakeLayer(11 + i, stencil)]
           quads == [i \in 0 .. nl - 1 |-> TQuad(i % 9, Both, A(11 + i))]
           checks == [i \in 0 .. nl - 1 |-> Check(0, i % 9, "yellow", "red")]
           show == <<glBindFramebuffer(0)>> \o ClearTarget("black") \o Loop(quads) \o Loop(checks) \o
                   <<eglSwapBuffers("go")>>
           frames == [frame \in 0 .. 1 |-> show]
           s0 == States(In(Nat, {}, Rest(N)))
           baked == States(In(Nat, done(nl), Rest(N)))
           aimed == States(In({0}, done(nl), Full))
           shown == States(In({0}, done(nl), Rest(N)))
           checked == States(In({0}, done(nl), Calm))
<1>0. /\ Calm \subseteq Rest(N) /\ Rest(N) \subseteq Full /\ Full \subseteq Calm \cup {Window}
      /\ nl > 0 \/ Rest(N) = Full
  BY RestIs DEF Rest, Full
<1>1. Takes(Loop(layer), s0, baked, prg)
  <2>1. ASSUME NEW i \in 0 .. nl - 1 PROVE Takes(layer[i], P[i], P[i + 1], prg)
    <3>1. 11 + i \in Nat \ {0} /\ i \in 0 .. nl /\ i + 1 \in 0 .. nl
      OBVIOUS
    <3>2. Takes(layer[i], States(In(Nat, done(i), Rest(N))),
                States(In({A(11 + i)}, (done(i) \cup {Texture(A(11 + i))}) \cup {Texture(B(11 + i))}, Rest(N))), prg)
      BY <1>0, <3>1, BakeLayerTakes
    <3>3. done(i + 1) \subseteq (done(i) \cup {Texture(A(11 + i))}) \cup {Texture(B(11 + i))}
      OBVIOUS
    <3>4. {A(11 + i)} \subseteq Nat
      BY <3>1, AandB
    <3> HIDE DEF layer, done
    <3> DEFINE more == (done(i) \cup {Texture(A(11 + i))}) \cup {Texture(B(11 + i))}
    <3>5. States(In({A(11 + i)}, more, Rest(N))) \subseteq States(In(Nat, done(i + 1), Rest(N)))
      BY <3>3, <3>4, InGrows
    <3>6. Takes(layer[i], States(In(Nat, done(i), Rest(N))), States(In({A(11 + i)}, more, Rest(N))), prg)
      BY <3>2
    <3> HIDE DEF more
    <3>7. Takes(layer[i], States(In(Nat, done(i), Rest(N))), States(In(Nat, done(i + 1), Rest(N))), prg)
      BY <3>5, <3>6, TakesWithin
    <3> QED
      BY <3>1, <3>7
  <2>2. Turns(layer, nl)
    BY DEF Turns
  <2>3. P[0] = States(In(Nat, done(0), Rest(N))) /\ P[nl] = baked
    OBVIOUS
  <2>4. done(0) = {}
    OBVIOUS
  <2> HIDE DEF layer, P, done, baked
  <2>5. Takes(Loop(layer), P[0], P[nl], prg)
    BY <2>1, <2>2, TakesLoop
  <2> QED
    BY <2>3, <2>4, <2>5
<1>2. Takes(<<glBindFramebuffer(0)>>, baked, shown, prg)
  BY BindTakes
<1>3. shown \subseteq aimed
  BY <1>0, InGrows
<1>4. Takes(ClearTarget("black"), aimed, aimed, prg)
  BY AimCalm, ClearTargetTakes
<1>5. Takes(Loop(quads), aimed, aimed, prg)
  <2>1. ASSUME NEW i \in 0 .. nl - 1 PROVE Takes(quads[i], aimed, aimed, prg)
    <3>1. A(11 + i) \in Nat \ {0} /\ Both \in SUBSET Halves /\ Aim(0) \subseteq Full /\ Texture(A(11 + i)) \in done(nl)
      BY AandB, AimCalm DEF Both
    <3> HIDE DEF done
    <3>2. Takes(TQuad(i % 9, Both, A(11 + i)), States(In({0}, done(nl), Full)), States(In({0}, done(nl), Full)), prg)
      BY <3>1, TQuadTakes
    <3> QED
      BY <3>2
  <2>2. DOMAIN quads = 0 .. nl - 1
    OBVIOUS
  <2> HIDE DEF quads, aimed
  <2>3. nl \in Int /\ \A i \in 0 .. nl - 1 : Takes(quads[i], aimed, aimed, prg)
    BY <2>1
  <2> QED
    BY <2>2, <2>3, TakesLoopInt
<1>6. Takes(Loop(checks), aimed, shown, prg)
  <2>1. ASSUME NEW i \in 0 .. nl - 1
        PROVE  Takes(checks[i], aimed, checked, prg) /\ Takes(checks[i], checked, checked, prg)
    <3>1. Takes(Check(0, i % 9, "yellow", "red"), aimed, checked, prg)
      BY <1>0, CheckTakes
    <3>2. Takes(Check(0, i % 9, "yellow", "red"), checked, checked, prg)
      BY CheckTakes
    <3> HIDE DEF aimed, checked
    <3> QED
      BY <3>1, <3>2
  <2> HIDE DEF checks, aimed, checked
  <2>2. nl > 0 => Takes(checks[0], aimed, checked, prg)
    BY <2>1
  <2>3. \A i \in 1 .. nl - 1 : Takes(checks[i], checked, checked, prg)
    BY <2>1
  <2> USE DEF checks, aimed, checked
  <2>4. checked \subseteq shown
    BY <1>0, InGrows
  <2>5. nl > 0 \/ aimed \subseteq shown
    BY <1>0
  <2>6. DOMAIN checks = 0 .. nl - 1 /\ nl \in Int
    OBVIOUS
  <2> HIDE DEF checks, aimed, shown, checked
  <2> QED
    BY <2>2, <2>3, <2>4, <2>5, <2>6, TakesLoopFrom
<1>7. Takes(<<eglSwapBuffers("go")>>, shown, shown, prg)
  BY StaysTakes
<1>8. shown \subseteq baked /\ baked \subseteq s0
  BY InGrows
<1>9. Burst(N, stencil) = Loop(layer) \o Loop(frames)
  BY DEF Burst
<1> HIDE DEF s0, baked, aimed, shown, checked, layer, quads, checks
<1>10. Takes(<<glBindFramebuffer(0)>>, baked, aimed, prg)
  BY <1>2, <1>3, TakesWithin
<1>11. Takes(show, baked, shown, prg)
  BY <1>4, <1>5, <1>6, <1>7, <1>10, JoinFive
<1>12. Takes(show, baked, baked, prg)
  BY <1>8, <1>11, TakesWithin
<1>13. Takes(Loop(frames), baked, baked, prg)
  <2> HIDE DEF show
  <2>1. DOMAIN frames = 0 .. 1 /\ frames[0] = show /\ frames[1] = show
    OBVIOUS
  <2> HIDE DEF frames
  <2> QED
    BY <1>12, <2>1, TakesTwice
<1> HIDE DEF show, frames
<1>14. Takes(Loop(layer) \o Loop(frames), s0, baked, prg)
  BY <1>1, <1>13, TakesJoin
<1>15. Takes(Burst(N, stencil), s0, s0, prg)
  BY <1>8, <1>9, <1>14, TakesWithin
<1> QED
  BY <1>15 DEF s0

\* Whichever cases are run.
LEMMA CaseTakes ==
  ASSUME NEW prg, NEW N \in Nat, NEW stencil, NEW n \in 1 .. 11
  PROVE  Takes(Case(n, N, stencil), States(In(Nat, {}, Rest(N))), States(In(Nat, {}, Rest(N))), prg)
<1>1. Takes(Case(9, N, stencil), States(In(Nat, {}, Rest(N))), States(In(Nat, {}, Rest(N))), prg)
  BY TakesNothing DEF Case
<1>2. Takes(Case(11, N, stencil), States(In(Nat, {}, Rest(N))), States(In(Nat, {}, Rest(N))), prg)
  BY BurstTakes DEF Case
<1>3. n \in {1, 2, 3, 4, 5, 6, 7, 8, 9, 10, 11}
  OBVIOUS
<1> QED
  BY <1>1, <1>2, <1>3, Case1Takes, Case2Takes, Case3Takes, Case4Takes, Case5Takes, Case6Takes, Case7Takes,
     Case8Takes, Case10Takes

\* fbo-reentry-test.c, for any case and any number of layers.
LEMMA FboKept ==
  ASSUME NEW k \in FboKnobs
  PROVE  IsSeq(FboReentry(k)) /\ Keeps(FboReentry(k), Fresh, k)
<1> DEFINE current(kind) ==
             [on |-> {TRUE}, adrift |-> {TRUE}, target |-> {0}, surface |-> {Window}, surfaces |-> {{Window}},
              att |-> {<<>>}, pic |-> {}, busy |-> {}, bound |-> {None}, buf |-> {<<>>}, abuf |-> {0},
              src |-> {NewContext.src}, kind |-> {kind}, prog |-> {0}, given |-> {}]
           head == In(Nat, {}, Rest(k.n))
           left(surfaces) == [head EXCEPT !.on = {FALSE}, !.surface = {None}, !.surfaces = surfaces]
           turn == [i \in 0 .. 10 |-> When(k.only \in {0, i + 1}, Case(i + 1, k.n, k.stencil))]
           begin == << eglSetup("exit"), eglCreateSurface(Window), eglCreateContext("exit"),
                       eglMakeCurrent(Window, TRUE, "go"), glLinkProgram(1, "fill"), glLinkProgram(2, "sampler") >>
           end == << Verdict, eglMakeCurrent(None, FALSE, "go"), eglDestroySurface(Window, "go"),
                     eglDestroyContext("go"), eglSetup("go") >>
<1>0. k.n \in Nat /\ k.name = "fbo" /\ k.only \in Nat
  BY DEF FboKnobs
<1>1. Takes(begin, States(Began), States(head), k)
  <2> DEFINE k1 == Put(<<>>, 1, "fill")
             c0 == current(<<>>)
             c1 == current(k1)
             c2 == current(FboKind)
  <2>1. Takes(<<eglSetup("exit")>>, States(Began), States(Began), k)
    BY SetupTakes DEF Began, Grows
  <2>2. Takes(<<eglCreateSurface(Window)>>, States(Began), States(Unopened), k)
    BY Names, SurfaceMadeTakes DEF Began, Unopened, Grows
  <2>3. Takes(<<eglCreateContext("exit")>>, States(Unopened), States(Unopened), k)
    BY ContextTakes DEF Unopened, Grows
  <2>4. Takes(<<eglMakeCurrent(Window, TRUE, "go")>>, States(Unopened), States(c0), k)
    BY <1>0, CurrentTakes DEF Unopened, Grows
  <2>5. Takes(<<glLinkProgram(1, "fill")>>, States(c0), States(c1), k)
    BY LinkTakes DEF Grows
  <2>6. Takes(<<glLinkProgram(2, "sampler")>>, States(c1), States(c2), k)
    BY LinkTakes DEF Grows, FboKind
  <2>7. States(c2) \subseteq States(head)
    <3>1. <<>> \in Atts
      BY DEF Atts
    <3>2. Grows(c2, head, {})
      BY <3>1 DEF In, Reentering, Grows
    <3> HIDE DEF c2, head
    <3> QED
      BY <3>2, WithinStates
  <2> HIDE DEF c0, c1, c2, head
  <2>8. Takes(<<eglSetup("exit"), eglCreateSurface(Window), eglCreateContext("exit"), eglMakeCurrent(Window, TRUE, "go"),
                glLinkProgram(1, "fill"), glLinkProgram(2, "sampler")>>, States(Began), States(c2), k)
    BY <2>1, <2>2, <2>3, <2>4, <2>5, <2>6, TakesSix
  <2> QED
    BY <2>7, <2>8, TakesWithin
<1>2. Takes(Loop(turn), States(head), States(head), k)
  <2>1. ASSUME NEW i \in 0 .. 10 PROVE Takes(turn[i], States(head), States(head), k)
    <3>1. i + 1 \in 1 .. 11 /\ (k.only \in {0, i + 1}) \in BOOLEAN
      OBVIOUS
    <3>2. Takes(Case(i + 1, k.n, k.stencil), States(head), States(head), k)
      BY <1>0, <3>1, CaseTakes
    <3>3. turn[i] = When(k.only \in {0, i + 1}, Case(i + 1, k.n, k.stencil))
      OBVIOUS
    <3> HIDE DEF turn, head
    <3>4. Takes(When(k.only \in {0, i + 1}, Case(i + 1, k.n, k.stencil)), States(head), States(head), k)
      BY <3>1, <3>2, TakesWhen
    <3> QED
      BY <3>3, <3>4
  <2>2. DOMAIN turn = 0 .. 10 /\ 11 \in Int /\ 0 .. 10 = 0 .. 11 - 1
    OBVIOUS
  <2> HIDE DEF turn, head
  <2> SUFFICES ASSUME NEW n \in Int, n = 11 PROVE Takes(Loop(turn), States(head), States(head), k)
    OBVIOUS
  <2>3. DOMAIN turn = 0 .. n - 1 /\ \A i \in 0 .. n - 1 : Takes(turn[i], States(head), States(head), k)
    BY <2>1, <2>2
  <2> QED
    BY <2>3, TakesLoopInt
<1>3. Takes(end, States(head), States(left({{}})), k)
  <2> DEFINE apart == left({{Window}})
             over == left({{}})
  <2>1. Takes(<<Verdict>>, States(head), States(head), k)
    BY VerdictTakes DEF In, Reentering, Grows
  <2>2. Takes(<<eglMakeCurrent(None, FALSE, "go")>>, States(head), States(apart), k)
    BY CurrentTakes DEF In, Reentering, Grows
  <2>3. Takes(<<eglDestroySurface(Window, "go")>>, States(apart), States(over), k)
    <3>1. Window \notin Rest(k.n) \/ k.n = 0
      BY Names DEF Rest, Calm
    <3>2. \A s \in {{Window}} : Window \in s /\ s \ {Window} \in {{}}
      OBVIOUS
    <3> QED
      BY <1>0, <3>1, <3>2, Names, SurfaceGoneTakes DEF In, Reentering, Grows
  <2>4. Takes(<<eglDestroyContext("go")>>, States(over), States(over), k)
    BY ContextGoneTakes DEF In, Reentering, Grows
  <2>5. Takes(<<eglSetup("go")>>, States(over), States(over), k)
    BY SetupTakes DEF Grows
  <2> HIDE DEF apart, over, head
  <2>6. Takes(<<Verdict, eglMakeCurrent(None, FALSE, "go"), eglDestroySurface(Window, "go"),
                eglDestroyContext("go"), eglSetup("go")>>, States(head), States(over), k)
    BY <2>1, <2>2, <2>3, <2>4, <2>5, TakesFive
  <2> QED
    BY <2>6 DEF over
<1>4. FboReentry(k) = begin \o Loop(turn) \o end
  BY Zenon DEF FboReentry
<1> HIDE DEF head, left, turn, begin, end
<1>5. Takes(FboReentry(k), States(Began), States(left({{}})), k)
  BY <1>1, <1>2, <1>3, <1>4, JoinThree
<1> QED
  BY <1>5, IsKept

-----------------------------------------------------------------------------
\* vbo-respec-repro.c, whose knobs are VboKnobs.
\* The vertex buffer, once filled, and the pointers SetAttribs sets.
Bufs(k, D) == IF k.client THEN {<<>>} ELSE {Put(<<>>, 1, d) : d \in D}
Bigs(k) == {Big(k, -4), Big(k, 0), Big(k, 4)}
From(k, data) == [from |-> IF k.client THEN 0 ELSE 1, data |-> data, stride |-> Vertex]
Ptrs(k) == {NewContext.src, From(k, NoData), From(k, Big(k, 0)), From(k, Small(k))}
\* Framebuffers 1 to 2 n sample or fill textures 1 to 2 n.
Made(n) == {Texture(j) : j \in 1 .. 2 * n}

Baking(aims, pic, bound, buf, abuf, src, prog, given) ==
  [on |-> {TRUE}, adrift |-> {FALSE}, target |-> aims, surface |-> {Window}, surfaces |-> {{Window}},
   att |-> Atts, pic |-> pic, busy |-> Full, bound |-> bound, buf |-> buf, abuf |-> abuf,
   src |-> src, kind |-> {FboKind}, prog |-> prog, given |-> given]
\* Between two tiles, and between two frames.
Tile(k, pic) == Baking(Nat, pic, Calm, Bufs(k, Bigs(k)), {0, 1}, Ptrs(k), {0, 1, 2}, {})
Frame(k, pic) == Baking(Nat, pic, Calm, Bufs(k, Bigs(k) \cup {Small(k)}), {0, 1}, Ptrs(k), {0, 1, 2}, {})

\* Where rendering goes while framebuffer t is bound, and that it is never the
\* texture sampled.
LEMMA AimedAtTile ==
  ASSUME NEW t \in Nat, NEW pic, NEW bound, NEW buf, NEW abuf, NEW src, NEW prog, NEW given
  PROVE  TargetIn(Baking({t}, pic, bound, buf, abuf, src, prog, given), Aim(t)) /\ Aim(t) \subseteq Full
<1>1. \A a \in Atts : t # 0 => (IF t \in DOMAIN a THEN a[t] ELSE None) \in Aim(t)
  BY AttsPut DEF Aim
<1> QED
  BY <1>1 DEF TargetIn, Baking, Aim, Full, Calm

\* vbo-respec-repro.c:274-301: each tile has two framebuffers that no other has.
LEMMA CacheAndLayer ==
  ASSUME NEW i \in Nat
  PROVE  /\ Cache(i) \in Nat \ {0} /\ Layer(i) \in Nat \ {0} /\ Cache(i) # Layer(i)
         /\ \A n \in Nat : i < n => Texture(Cache(i)) \in Made(n) /\ Texture(Layer(i)) \in Made(n)
         /\ Made(i + 1) = (Made(i) \cup {Texture(Layer(i))}) \cup {Texture(Cache(i))}
         /\ Made(i + 1) = (Made(i) \cup {Texture(Cache(i))}) \cup {Texture(Layer(i))}
         /\ Made(0) = {}
<1>1. Cache(i) = 2 * i + 1 /\ Layer(i) = 2 * i + 2
  BY DEF Cache, Layer
<1>2. 1 .. 2 * (i + 1) = (1 .. 2 * i) \cup {2 * i + 1, 2 * i + 2} /\ 1 .. 2 * 0 = {}
  OBVIOUS
<1>3. \A n \in Nat : i < n => 2 * i + 1 \in 1 .. 2 * n /\ 2 * i + 2 \in 1 .. 2 * n
  OBVIOUS
<1> QED
  BY <1>1, <1>2, <1>3 DEF Made

\* The one vertex buffer holds what it was filled with.
LEMMA OneBuffer ==
  ASSUME NEW d, NEW b, b = Put(<<>>, 1, d)
  PROVE  1 \in DOMAIN b /\ b[1] = d
BY DEF Put

\* What the draws of a tile and of the window read is there.
LEMMA TileQuads ==
  ASSUME NEW k \in VboKnobs, NEW i \in Tiles(k), NEW b \in Bufs(k, Bigs(k))
  PROVE  /\ Fits(From(k, Big(k, 0)), b, FillAt(k, i), 6) /\ Fits(From(k, Big(k, 0)), b, FillAt(k, i), 4)
         /\ Fits(From(k, Big(k, 0)), b, LayerAt(k, i), 6)
<1>1. PICK more \in {-4, 0, 4} : Held(From(k, Big(k, 0)), b) = Big(k, more)
  <2>1. CASE k.client
    BY <2>1 DEF Held, From, VboKnobs
  <2>2. CASE ~k.client
    <3>1. PICK d \in Bigs(k) : b = Put(<<>>, 1, d)
      BY <2>2 DEF Bufs
    <3>2. Held(From(k, Big(k, 0)), b) = d
      <4>1. 1 \in DOMAIN b /\ b[1] = d
        BY <3>1, OneBuffer
      <4> QED
        BY <2>2, <4>1 DEF Held, From
    <3> QED
      BY <3>2 DEF Bigs
  <2> QED
    BY <2>1, <2>2
<1>2. /\ Shape(FillAt(k, i), 6, 0, Both) \in Big(k, more).shapes
      /\ Shape(LayerAt(k, i), 6, 0, Both) \in Big(k, more).shapes
  BY DEF Big, BigShapes, Data
<1>3. \A v : Shape(v, 6, 0, Both).at = v /\ Shape(v, 6, 0, Both).n = 6
  BY DEF Shape
<1>4. /\ (FillAt(k, i) + 6) * Vertex <= Big(k, more).size /\ (FillAt(k, i) + 4) * Vertex <= Big(k, more).size
      /\ (LayerAt(k, i) + 6) * Vertex <= Big(k, more).size
  <2>1. BigBytes(k) \in Int /\ Big(k, more).size = BigBytes(k) + more
    <3>1. LayerAt(k, k.n - 1) \in Int /\ k.big \in Int
      BY DEF VboKnobs, LayerAt, FillAt, Lead
    <3> QED
      BY <3>1 DEF BigBytes, Big, Data, Vertex
  <2>2. Big(k, more).size \in Int
    BY <2>1
  <2> QED
    BY <2>2, VboReadsWithin, VboLayout DEF Vertex
<1>5. From(k, Big(k, 0)).stride = Vertex
  BY DEF From
<1> HIDE DEF Shape
<1> QED
  BY <1>1, <1>2, <1>3, <1>4, <1>5 DEF Fits

\* vbo-respec-repro.c:348-371: the window's quads are in the small buffer.
LEMMA WindowQuads ==
  ASSUME NEW k \in VboKnobs, NEW i \in Tiles(k), NEW b \in Bufs(k, {Small(k)})
  PROVE  Fits(From(k, Small(k)), b, 6 * (i + 1), 6)
<1>1. Held(From(k, Small(k)), b) = Small(k)
  <2>1. CASE k.client
    BY <2>1 DEF Held, From, VboKnobs
  <2>2. CASE ~k.client
    <3>1. b = Put(<<>>, 1, Small(k))
      BY <2>2 DEF Bufs
    <3>2. 1 \in DOMAIN b /\ b[1] = Small(k)
      BY <3>1, OneBuffer
    <3> QED
      BY <2>2, <3>2 DEF Held, From
  <2> QED
    BY <2>1, <2>2
<1>2. Shape(6 * (i + 1), 6, i, Both) \in Small(k).shapes
  BY DEF Small, Data
<1>3. Shape(6 * (i + 1), 6, i, Both).at = 6 * (i + 1) /\ Shape(6 * (i + 1), 6, i, Both).n = 6
  BY DEF Shape
<1>4. (6 * (i + 1) + 6) * Vertex <= Small(k).size
  BY VboReadsWithin
<1>5. From(k, Small(k)).stride = Vertex
  BY DEF From
<1> QED
  BY <1>1, <1>2, <1>3, <1>4, <1>5 DEF Fits

\* Making a framebuffer.
LEMMA MakeFboTakes ==
  ASSUME NEW prg, NEW T, NEW pic, NEW bd, NEW X, NEW ab, NEW src, NEW pr, NEW gv, NEW i \in Nat \ {0}
  PROVE  Takes(MakeFbo(i), States(Baking(T, pic, bd, X, ab, src, pr, gv)),
               States(Baking({i}, pic \cup {Texture(i)}, {Texture(i)}, X, ab, src, pr, gv)), prg)
<1> DEFINE s1 == Baking(T, pic, bd, X, ab, src, pr, gv)
           s2 == Baking(T, pic, {Texture(i)}, X, ab, src, pr, gv)
           s3 == Baking(T, pic \cup {Texture(i)}, {Texture(i)}, X, ab, src, pr, gv)
           s4 == Baking({i}, pic \cup {Texture(i)}, {Texture(i)}, X, ab, src, pr, gv)
<1>9. Takes(<<glBindTexture(Texture(i)), glTexImage2D("black"), glBindFramebuffer(i), glAttach(Texture(i))>>, States(s1), States(s4), prg)
  <2>1. Takes(<<glBindTexture(Texture(i))>>, States(s1), States(s2), prg)
    BY TextureTakes DEF Baking, Grows
  <2>2. Takes(<<glTexImage2D("black")>>, States(s2), States(s3), prg)
    <3>1. {Texture(i)} \subseteq Images
      BY Names
    <3>2. \A x \in pic \cup {Texture(i)} : x \in pic \/ {Texture(i)} \subseteq {x}
      BY Names
    <3> QED
      BY <3>1, <3>2, Names, TexImageTakes DEF Baking, Grows
  <2>3. Takes(<<glBindFramebuffer(i)>>, States(s3), States(s4), prg)
    BY FramebufferTakes DEF Baking, Grows
  <2>4. Takes(<<glAttach(Texture(i))>>, States(s4), States(s4), prg)
    <3>1. \A t \in {i} : t # 0
      OBVIOUS
    <3>2. \A t \in {i}, a \in Atts : Put(a, t, Texture(i)) \in Atts
      BY AttsPut
    <3> QED
      BY <3>1, <3>2, AttachTakes DEF Baking, Grows
  <2> QED
    BY <2>1, <2>2, <2>3, <2>4, TakesFour
<1> QED
  BY <1>9 DEF MakeFbo

\* Filling the buffer, whatever it held.
LEMMA FillTakes ==
  ASSUME NEW prg, NEW T, NEW pic, NEW bd, NEW X, NEW src, NEW pr, NEW gv, NEW d, NEW Y,
         \A b \in X : b = <<>> \/ \E e : b = Put(<<>>, 1, e), Put(<<>>, 1, d) \in Y
  PROVE  Takes(<<glBufferData(d)>>, States(Baking(T, pic, bd, X, {1}, src, pr, gv)),
               States(Baking(T, pic, bd, Y, {1}, src, pr, gv)), prg)
<1>1. \A b \in X : Put(b, 1, d) = Put(<<>>, 1, d)
  BY PutTwice
<1>2. \A a \in {1} : a # 0
  OBVIOUS
<1>3. \A a \in {1}, b \in X : Put(b, a, d) \in Y
  BY <1>1
<1> QED
  BY <1>2, <1>3, DataTakes DEF Baking, Grows

\* Rewriting what it holds keeps its size.
LEMMA RefillTakes ==
  ASSUME NEW prg, NEW k \in VboKnobs, NEW T, NEW pic, NEW bd, NEW X, NEW src, NEW pr, NEW gv,
         \A b \in X : \E more \in {-4, 0, 4} : \E S : b = Put(<<>>, 1, Data(BigBytes(k) + more, S))
  PROVE  Takes(<<glBufferSubData(Big(k, 0))>>, States(Baking(T, pic, bd, X, {1}, src, pr, gv)),
               States(Baking(T, pic, bd, {Put(<<>>, 1, d) : d \in Bigs(k)}, {1}, src, pr, gv)), prg)
<1> DEFINE Y == {Put(<<>>, 1, d) : d \in Bigs(k)}
<1>1. ASSUME NEW b \in X PROVE Put(b, 1, [Big(k, 0) EXCEPT !.size = b[1].size]) \in Y
  <2>0. PICK more \in {-4, 0, 4} : \E S : b = Put(<<>>, 1, Data(BigBytes(k) + more, S))
    OBVIOUS
  <2>1. PICK S : b = Put(<<>>, 1, Data(BigBytes(k) + more, S))
    BY <2>0
  <2>2. b[1].size = BigBytes(k) + more
    <3>1. b[1] = Data(BigBytes(k) + more, S)
      BY <2>1, OneBuffer
    <3> QED
      BY <3>1 DEF Data
  <2>3. [Big(k, 0) EXCEPT !.size = b[1].size] = Big(k, more)
    BY <2>2 DEF Big, Data
  <2>4. Put(b, 1, Big(k, more)) = Put(<<>>, 1, Big(k, more))
    BY <2>1, PutTwice
  <2> QED
    BY <2>3, <2>4 DEF Bigs
<1>2. \A a \in {1} : a # 0
  OBVIOUS
<1>3. \A a \in {1}, b \in X : Put(b, a, [Big(k, 0) EXCEPT !.size = b[a].size]) \in Y
  BY <1>1
<1> HIDE DEF Y
<1>4. Takes(<<glBufferSubData(Big(k, 0))>>, States(Baking(T, pic, bd, X, {1}, src, pr, gv)),
            States(Baking(T, pic, bd, Y, {1}, src, pr, gv)), prg)
  BY <1>2, <1>3, SubDataTakes DEF Baking, Grows
<1> QED
  BY <1>4 DEF Y

\* What baking adds to a state.
LEMMA BakingGrows ==
  ASSUME NEW T, NEW pic, NEW bd, NEW X, NEW ab, NEW src, NEW pr, NEW gv,
         NEW TT, NEW ppic, NEW bbd, NEW XX, NEW aab, NEW ssrc, NEW ppr, NEW ggv,
         T \subseteq TT, ppic \subseteq pic, bd \subseteq bbd, X \subseteq XX, ab \subseteq aab, src \subseteq ssrc,
         pr \subseteq ppr, ggv \subseteq gv
  PROVE  States(Baking(T, pic, bd, X, ab, src, pr, gv)) \subseteq States(Baking(TT, ppic, bbd, XX, aab, ssrc, ppr, ggv))
<1>1. Grows(Baking(T, pic, bd, X, ab, src, pr, gv), Baking(TT, ppic, bbd, XX, aab, ssrc, ppr, ggv), {})
  BY DEF Baking, Grows
<1> QED
  BY <1>1, WithinStates

\* vbo-respec-repro.c:149-156: pointers are set to the buffer, or to client memory.
LEMMA SetAttribsTakes ==
  ASSUME NEW prg, NEW k \in VboKnobs, NEW data, NEW T, NEW pic, NEW bd, NEW X, NEW ab, NEW src, NEW pr, NEW gv
  PROVE  Takes(SetAttribs(k, data), States(Baking(T, pic, bd, X, ab, src, pr, gv)),
               States(Baking(T, pic, bd, X, {0, 1}, {From(k, data)}, pr, gv)), prg)
<1> DEFINE c == IF k.client THEN 0 ELSE 1
           s0 == Baking(T, pic, bd, X, ab, src, pr, gv)
           s1 == Baking(T, pic, bd, X, {c}, src, pr, gv)
           s2 == Baking(T, pic, bd, X, {0, 1}, {From(k, data)}, pr, gv)
<1>1. Takes(<<glBindBuffer(c)>>, States(s0), States(s1), prg)
  BY BufferTakes DEF Baking, Grows
<1>2. Takes(<<glPointer(data, Vertex)>>, States(s1), States(s2), prg)
  <2>1. c \in {0, 1}
    OBVIOUS
  <2>2. \A a \in {c} : [from |-> a, data |-> data, stride |-> Vertex] \in {From(k, data)}
    BY DEF From
  <2> HIDE DEF c
  <2> QED
    BY <2>1, <2>2, PointerTakes DEF Baking, Grows
<1> HIDE DEF s0, s1, s2
<1>3. Takes(<<glBindBuffer(c), glPointer(data, Vertex)>>, States(s0), States(s2), prg)
  BY <1>1, <1>2, TakesTwo
<1> QED
  BY <1>3 DEF SetAttribs, s0, s2

\* Uploading, when there is a buffer to upload to.
LEMMA UploadTakes ==
  ASSUME NEW prg, NEW k \in VboKnobs, NEW data, NEW T, NEW pic, NEW bd, NEW X, NEW ab, NEW src, NEW pr, NEW gv,
         \A b \in X : b = <<>> \/ \E e : b = Put(<<>>, 1, e), k.client => X \subseteq {<<>>}, ab \subseteq {0, 1}
  PROVE  Takes(Upload(k, data), States(Baking(T, pic, bd, X, ab, src, pr, gv)),
               States(Baking(T, pic, bd, Bufs(k, {data}), {0, 1}, src, pr, gv)), prg)
<1> DEFINE s0 == Baking(T, pic, bd, X, ab, src, pr, gv)
           s1 == Baking(T, pic, bd, X, {1}, src, pr, gv)
           s2 == Baking(T, pic, bd, Bufs(k, {data}), {1}, src, pr, gv)
           s3 == Baking(T, pic, bd, Bufs(k, {data}), {0, 1}, src, pr, gv)
<1>0. k.client \in BOOLEAN /\ (~k.client) \in BOOLEAN
  BY DEF VboKnobs
<1>1. Takes(<<glBindBuffer(1)>>, States(s0), States(s1), prg)
  BY BufferTakes DEF Baking, Grows
<1>2. ASSUME ~k.client PROVE Takes(<<glBufferData(data)>>, States(s1), States(s2), prg)
  <2>1. Put(<<>>, 1, data) \in Bufs(k, {data})
    BY <1>2 DEF Bufs
  <2> QED
    BY <2>1, FillTakes
<1>3. States(s2) \subseteq States(s3)
  BY BakingGrows
<1>4. ASSUME k.client PROVE States(s0) \subseteq States(s3)
  <2>1. X \subseteq Bufs(k, {data})
    BY <1>4 DEF Bufs
  <2>2. Grows(s0, s3, {})
    BY <2>1 DEF Baking, Grows
  <2> HIDE DEF s0, s3
  <2> QED
    BY <2>2, WithinStates
<1> HIDE DEF s0, s1, s2, s3
<1>5. ASSUME ~k.client PROVE Takes(<<glBindBuffer(1), glBufferData(data)>>, States(s0), States(s3), prg)
  <2>1. Takes(<<glBindBuffer(1), glBufferData(data)>>, States(s0), States(s2), prg)
    BY <1>1, <1>2, <1>5, TakesTwo
  <2> QED
    BY <1>3, <2>1, TakesWithin
<1>6. Takes(When(~k.client, <<glBindBuffer(1), glBufferData(data)>>), States(s0), States(s3), prg)
  BY <1>0, <1>4, <1>5, TakesWhen
<1> QED
  BY <1>6 DEF Upload, s0, s3

\* The modes of REPRO_RESPEC keep what the draws read.
LEMMA RespecTakes ==
  ASSUME NEW prg, NEW k \in VboKnobs, NEW T, NEW pic, NEW bd, NEW pr, NEW gv
  PROVE  Takes(Respec(k), States(Baking(T, pic, bd, Bufs(k, Bigs(k)), {0, 1}, {From(k, Big(k, 0))}, pr, gv)),
               States(Baking(T, pic, bd, Bufs(k, Bigs(k)), {0, 1}, Ptrs(k), pr, gv)), prg)
<1> DEFINE src == {From(k, Big(k, 0))}
           held(D) == {Put(<<>>, 1, d) : d \in D}
           s0 == States(Baking(T, pic, bd, Bufs(k, Bigs(k)), {0, 1}, src, pr, gv))
           s1 == States(Baking(T, pic, bd, Bufs(k, Bigs(k)), {1}, src, pr, gv))
           on(D) == States(Baking(T, pic, bd, held(D), {1}, src, pr, gv))
           s3 == States(Baking(T, pic, bd, held(Bigs(k)), {0, 1}, {From(k, NoData)}, pr, gv))
           s4 == States(Baking(T, pic, bd, Bufs(k, Bigs(k)), {0, 1}, Ptrs(k), pr, gv))
           modes == CASE k.respec = 1 -> << glBufferData(Small(k)), glBufferData(Big(k, 0)) >>
                      [] k.respec = 2 -> << glBufferData(Big(k, 0)), glBufferData(Big(k, 0)) >>
                      [] k.respec = 3 -> << glBufferData(Big(k, 0)) >>
                      [] k.respec = 4 -> << glBufferData(Big(k, 4)) >>
                      [] k.respec = 5 -> << glBufferData(Big(k, -4)) >>
                      [] k.respec = 6 -> << glBufferData(Data(BigBytes(k), {})), glBufferSubData(Big(k, 0)) >>
                      [] k.respec = 7 -> << glBufferSubData(Big(k, 0)) >>
                      [] OTHER -> <<>>
           orphan == Data(BigBytes(k), {})
<1>0. k.client \in BOOLEAN /\ (~k.client /\ k.respec # 0) \in BOOLEAN /\ BigBytes(k) \in Int
  <2>1. LayerAt(k, k.n - 1) \in Int /\ k.big \in Int
    BY DEF VboKnobs, LayerAt, FillAt, Lead
  <2> QED
    BY <2>1 DEF BigBytes, Vertex, VboKnobs
<1>1. Takes(<<glBindBuffer(1)>>, s0, s1, prg)
  BY BufferTakes DEF Baking, Grows
<1>2. ASSUME NEW D, NEW d, NEW E, d \in E PROVE Takes(<<glBufferData(d)>>, on(D), on(E), prg)
  <2>1. \A b \in held(D) : b = <<>> \/ \E e : b = Put(<<>>, 1, e)
    OBVIOUS
  <2>2. Put(<<>>, 1, d) \in held(E)
    BY <1>2
  <2> HIDE DEF held
  <2> QED
    BY <2>1, <2>2, FillTakes
<1>3. ASSUME NEW D, \A d \in D : \E more \in {-4, 0, 4} : \E S : d = Data(BigBytes(k) + more, S)
      PROVE  Takes(<<glBufferSubData(Big(k, 0))>>, on(D), on(Bigs(k)), prg)
  <2>1. \A b \in held(D) : \E more \in {-4, 0, 4} : \E S : b = Put(<<>>, 1, Data(BigBytes(k) + more, S))
    BY <1>3
  <2> DEFINE X == held(D)
  <2> HIDE DEF X
  <2>2. Takes(<<glBufferSubData(Big(k, 0))>>, States(Baking(T, pic, bd, X, {1}, src, pr, gv)),
              States(Baking(T, pic, bd, held(Bigs(k)), {1}, src, pr, gv)), prg)
    BY <2>1, RefillTakes DEF X
  <2> QED
    BY <2>2 DEF X
<1>4. ASSUME ~k.client PROVE s1 = on(Bigs(k)) /\ s3 \subseteq s4
  <2>1. Bufs(k, Bigs(k)) = held(Bigs(k))
    BY <1>4 DEF Bufs
  <2>2. {From(k, NoData)} \subseteq Ptrs(k)
    BY DEF Ptrs
  <2> HIDE DEF held
  <2> QED
    BY <2>1, <2>2, BakingGrows
<1>5. ASSUME ~k.client PROVE s0 \subseteq s4
  <2>1. {From(k, Big(k, 0))} \subseteq Ptrs(k)
    BY DEF Ptrs
  <2> QED
    BY <2>1, BakingGrows
<1>6. ASSUME k.client PROVE s0 \subseteq s4
  <2>1. {From(k, Big(k, 0))} \subseteq Ptrs(k)
    BY DEF Ptrs
  <2> QED
    BY <2>1, BakingGrows
<1>7. Big(k, -4) \in Bigs(k) /\ Big(k, 0) \in Bigs(k) /\ Big(k, 4) \in Bigs(k)
  BY DEF Bigs
<1>8. ASSUME NEW d \in Bigs(k) PROVE \E more \in {-4, 0, 4} : \E S : d = Data(BigBytes(k) + more, S)
  BY DEF Bigs, Big
<1>9. \E more \in {-4, 0, 4} : \E S : orphan = Data(BigBytes(k) + more, S)
  <2>1. BigBytes(k) + 0 = BigBytes(k)
    BY <1>0
  <2> QED
    BY <2>1
<1>10. Takes(SetAttribs(k, NoData), on(Bigs(k)), s3, prg)
  BY SetAttribsTakes
<1> HIDE DEF s0, s1, s3, s4, on, orphan
<1>11. Takes(modes, on(Bigs(k)), on(Bigs(k)), prg)
  <2>1. ASSUME NEW d \in Bigs(k) PROVE Takes(<<glBufferData(d)>>, on(Bigs(k)), on(Bigs(k)), prg)
    BY <1>2
  <2>2. Takes(<<glBufferData(Small(k)), glBufferData(Big(k, 0))>>, on(Bigs(k)), on(Bigs(k)), prg)
    <3>1. Takes(<<glBufferData(Small(k))>>, on(Bigs(k)), on({Small(k)}), prg)
      BY <1>2
    <3>2. Takes(<<glBufferData(Big(k, 0))>>, on({Small(k)}), on(Bigs(k)), prg)
      BY <1>2, <1>7
    <3> QED
      BY <3>1, <3>2, TakesTwo
  <2>3. Takes(<<glBufferData(Big(k, 0)), glBufferData(Big(k, 0))>>, on(Bigs(k)), on(Bigs(k)), prg)
    BY <1>7, <2>1, TakesTwo
  <2>4. Takes(<<glBufferSubData(Big(k, 0))>>, on(Bigs(k)), on(Bigs(k)), prg)
    BY <1>3, <1>8
  <2>5. Takes(<<glBufferData(Data(BigBytes(k), {})), glBufferSubData(Big(k, 0))>>, on(Bigs(k)), on(Bigs(k)), prg)
    <3>1. Takes(<<glBufferData(orphan)>>, on(Bigs(k)), on({orphan}), prg)
      BY <1>2
    <3>2. Takes(<<glBufferSubData(Big(k, 0))>>, on({orphan}), on(Bigs(k)), prg)
      BY <1>3, <1>9
    <3>3. Takes(<<glBufferData(orphan), glBufferSubData(Big(k, 0))>>, on(Bigs(k)), on(Bigs(k)), prg)
      BY <3>1, <3>2, TakesTwo
    <3> QED
      BY <3>3 DEF orphan
  <2>6. Takes(<<>>, on(Bigs(k)), on(Bigs(k)), prg)
    BY TakesNothing
  <2>7. CASE k.respec \in {1, 2, 3}
    BY <1>7, <2>1, <2>2, <2>3, <2>7
  <2>8. CASE k.respec \in {4, 5, 6, 7}
    BY <1>7, <2>1, <2>4, <2>5, <2>8
  <2>9. CASE k.respec \notin {1, 2, 3, 4, 5, 6, 7}
    BY <2>6, <2>9
  <2> QED
    BY <2>7, <2>8, <2>9
<1>12. Respec(k) = When(~k.client /\ k.respec # 0, <<glBindBuffer(1)>> \o modes \o SetAttribs(k, NoData))
  BY Zenon DEF Respec
<1> HIDE DEF modes
<1>13. ASSUME ~k.client PROVE Takes(<<glBindBuffer(1)>> \o modes \o SetAttribs(k, NoData), s0, s4, prg)
  <2>1. Takes(<<glBindBuffer(1)>>, s0, on(Bigs(k)), prg)
    BY <1>1, <1>4, <1>13
  <2>2. Takes(<<glBindBuffer(1)>> \o modes \o SetAttribs(k, NoData), s0, s3, prg)
    BY <1>10, <1>11, <2>1, JoinThree
  <2> QED
    BY <1>4, <1>13, <2>2, TakesWithin
<1>14. Takes(Respec(k), s0, s4, prg)
  BY <1>0, <1>5, <1>6, <1>12, <1>13, TakesWhen
<1> QED
  BY <1>14 DEF s0, s4

\* The images made before tile i is baked.
MadeBefore(k, i) == Made(IF k.interleave THEN i ELSE k.n)

\* vbo-respec-repro.c:303-346: one tile is drawn into its cache and the cache
\* into its layer, whatever the buffer goes through in between.
LEMMA BakeTileTakes ==
  ASSUME NEW k \in VboKnobs, NEW i \in Tiles(k)
  PROVE  Takes(BakeTile(k, i), States(Tile(k, MadeBefore(k, i))), States(Tile(k, MadeBefore(k, i + 1))), k)
<1> DEFINE bare(aims, pic, bound, src, prog, given) ==
             Baking(aims, pic, bound, Bufs(k, Bigs(k)), {0, 1}, src, prog, given)
           C == Cache(i)
           Y == Layer(i)
           big == {From(k, Big(k, 0))}
           pic0 == MadeBefore(k, i)
           pic1 == MadeBefore(k, i + 1)
           pic2 == pic0 \cup {Texture(Y)}
           pic3 == pic2 \cup {Texture(C)}
           t0 == bare(Nat, pic0, Calm, Ptrs(k), {0, 1, 2}, {})
           t1 == bare(Nat, pic1, Calm, Ptrs(k), {0, 1, 2}, {})
           a1 == bare({Y}, pic2, {Texture(Y)}, Ptrs(k), {0, 1, 2}, {})
           a2 == bare({C}, pic3, {Texture(C)}, Ptrs(k), {0, 1, 2}, {})
           c1 == bare({C}, pic1, Calm, Ptrs(k), {0, 1, 2}, {})
           c2 == bare({C}, pic1, Calm, Ptrs(k), {1}, {})
           c3 == bare({C}, pic1, Calm, Ptrs(k), {1}, {1})
           c4 == bare({C}, pic1, Calm, big, {1}, {1})
           l1 == bare({Y}, pic1, Calm, Ptrs(k), {1}, {1})
           l2 == bare({Y}, pic1, Calm, Ptrs(k), {2}, {1})
           l3 == bare({Y}, pic1, {Texture(C)}, Ptrs(k), {2}, {1})
           l4 == bare({Y}, pic1, {Texture(C)}, Ptrs(k), {2}, {2})
           l5 == bare({Y}, pic1, {Texture(C)}, big, {2}, {2})
<1>0. /\ k.interleave \in BOOLEAN /\ (~k.interleave) \in BOOLEAN /\ k.fill2 \in BOOLEAN
      /\ k.n \in Nat /\ i \in Nat /\ i < k.n
  BY DEF VboKnobs, Tiles
<1>1. C \in Nat \ {0} /\ Y \in Nat \ {0} /\ C \in Nat /\ Y \in Nat /\ C # Y
  BY <1>0, CacheAndLayer
<1>2. (k.interleave => pic1 = pic3) /\ (~k.interleave => pic1 = pic0) /\ Texture(C) \in pic1
  BY <1>0, CacheAndLayer DEF MadeBefore
<1>3. /\ Texture(C) \notin Aim(Y) /\ Texture(C) \in Calm /\ Texture(Y) \in Calm
      /\ Aim(C) \subseteq Full /\ Aim(Y) \subseteq Full
  BY <1>1, Names, AimCalm DEF Aim, Calm, Full
<1>4. big \subseteq Ptrs(k) /\ From(k, Big(k, 0)) \in Ptrs(k)
  BY DEF Ptrs
<1> HIDE DEF C, Y, big, pic0, pic1, pic2, pic3
<1>5. ASSUME NEW t \in {C, Y}, NEW pic, NEW bd, NEW src, NEW pr, NEW gv
      PROVE  /\ TargetIn(bare({t}, pic, bd, src, pr, gv), Aim(t)) /\ TargetIn(bare({t}, pic, bd, src, pr, gv), Full)
             /\ Aim(t) \subseteq Full
  <2>1. TargetIn(bare({t}, pic, bd, src, pr, gv), Aim(t)) /\ Aim(t) \subseteq Full
    BY <1>1, AimedAtTile
  <2> QED
    BY <2>1 DEF TargetIn
<1>6. ASSUME NEW s \in big, NEW b \in Bufs(k, Bigs(k))
      PROVE  Fits(s, b, FillAt(k, i), 6) /\ Fits(s, b, FillAt(k, i), 4) /\ Fits(s, b, LayerAt(k, i), 6)
  BY TileQuads DEF big
<1>10. Takes(When(k.interleave, MakeFbo(Y) \o <<glClear("black")>> \o MakeFbo(C)), States(t0), States(t1), k)
  <2>1. Takes(MakeFbo(Y), States(t0), States(a1), k)
    BY <1>1, MakeFboTakes DEF pic2
  <2>2. Takes(<<glClear("black")>>, States(a1), States(a1), k)
    BY <1>5, ClearTakes DEF Baking, Grows
  <2>3. Takes(MakeFbo(C), States(a1), States(a2), k)
    BY <1>1, MakeFboTakes DEF pic3
  <2>4. ASSUME k.interleave PROVE States(a2) \subseteq States(t1)
    <3>1. Grows(a2, t1, {})
      BY <1>1, <1>2, <1>3, <2>4 DEF Baking, Grows
    <3> HIDE DEF a2, t1
    <3> QED
      BY <3>1, WithinStates
  <2>5. ASSUME ~k.interleave PROVE t0 = t1
    BY <1>2, <2>5
  <2> HIDE DEF t0, t1, a1, a2
  <2>6. Takes(MakeFbo(Y) \o <<glClear("black")>> \o MakeFbo(C), States(t0), States(a2), k)
    BY <2>1, <2>2, <2>3, JoinThree
  <2>7. ASSUME k.interleave
        PROVE  Takes(MakeFbo(Y) \o <<glClear("black")>> \o MakeFbo(C), States(t0), States(t1), k)
    BY <2>4, <2>6, <2>7, TakesWithin
  <2> QED
    BY <1>0, <2>5, <2>7, TakesWhen
<1>11. Takes(<<glBindFramebuffer(C), glClear("black"), glUseProgram(1), glUniform(Pal(i))>>, States(t1), States(c3), k)
  <2>1. Takes(<<glBindFramebuffer(C)>>, States(t1), States(c1), k)
    BY FramebufferTakes DEF Baking, Grows
  <2>2. Takes(<<glClear("black")>>, States(c1), States(c1), k)
    BY <1>5, ClearTakes DEF Baking, Grows
  <2>3. Takes(<<glUseProgram(1)>>, States(c1), States(c2), k)
    BY UseTakes DEF Baking, Grows
  <2>4. Takes(<<glUniform(Pal(i))>>, States(c2), States(c3), k)
    <3>1. {1} \subseteq Nat /\ \A x \in {1} : x \in {} \/ (x # 0 /\ {1} \subseteq {x})
      OBVIOUS
    <3> QED
      BY <3>1, UniformTakes DEF Baking, Grows
  <2> HIDE DEF t1, c1, c2, c3
  <2> QED
    BY <2>1, <2>2, <2>3, <2>4, TakesFour
<1>12. Takes(SetAttribs(k, Big(k, 0)), States(c3), States(c4), k)
  BY SetAttribsTakes DEF big
<1>13. ASSUME NEW count \in {4, 6} PROVE Takes(<<glDrawArrays(FillAt(k, i), count)>>, States(c4), States(c4), k)
  <2>1. TargetIn(c4, Aim(C)) /\ Aim(C) \subseteq Full
    BY <1>5
  <2>2. Drawable(c4, k, Aim(C))
    BY FboKinds DEF Drawable, Baking
  <2>3. \A s \in big, b \in Bufs(k, Bigs(k)) : Fits(s, b, FillAt(k, i), count)
    BY <1>6
  <2> QED
    BY <2>1, <2>2, <2>3, DrawArraysTakes DEF Baking, Grows
<1>14. Takes(When(k.fill2, <<glDrawArrays(FillAt(k, i), 4)>>), States(c4), States(c4), k)
  BY <1>0, <1>13, TakesWhen
<1>15. Takes(Respec(k), States(c4), States(c3), k)
  BY RespecTakes DEF big
<1>16. Takes(<<glBindFramebuffer(Y)>>, States(c3), States(l1), k)
  BY FramebufferTakes DEF Baking, Grows
<1>17. Takes(When(~k.interleave, <<glClear("black")>>), States(l1), States(l1), k)
  <2>1. Takes(<<glClear("black")>>, States(l1), States(l1), k)
    BY <1>5, ClearTakes DEF Baking, Grows
  <2> QED
    BY <1>0, <2>1, TakesWhen
<1>18. Takes(<<glUseProgram(2), glBindTexture(Texture(C)), glUniform("sampler")>>, States(l1), States(l4), k)
  <2>1. Takes(<<glUseProgram(2)>>, States(l1), States(l2), k)
    BY UseTakes DEF Baking, Grows
  <2>2. Takes(<<glBindTexture(Texture(C))>>, States(l2), States(l3), k)
    BY TextureTakes DEF Baking, Grows
  <2>3. Takes(<<glUniform("sampler")>>, States(l3), States(l4), k)
    <3>1. {2} \subseteq Nat /\ \A x \in {2} : x \in {1} \/ (x # 0 /\ {2} \subseteq {x})
      OBVIOUS
    <3> QED
      BY <3>1, UniformTakes DEF Baking, Grows
  <2> HIDE DEF l1, l2, l3, l4
  <2> QED
    BY <2>1, <2>2, <2>3, TakesThree
<1>19. Takes(SetAttribs(k, Big(k, 0)), States(l4), States(l5), k)
  BY SetAttribsTakes DEF big
<1>20. Takes(<<glDrawArrays(LayerAt(k, i), 6)>>, States(l5), States(l5), k)
  <2>1. TargetIn(l5, Aim(Y)) /\ Aim(Y) \subseteq Full
    BY <1>5
  <2>2. Drawable(l5, k, Aim(Y))
    BY <1>2, <1>3, FboKinds DEF Drawable, Baking
  <2>3. \A s \in big, b \in Bufs(k, Bigs(k)) : Fits(s, b, LayerAt(k, i), 6)
    BY <1>6
  <2> QED
    BY <2>1, <2>2, <2>3, DrawArraysTakes DEF Baking, Grows
<1>21. States(l5) \subseteq States(t1)
  <2>1. Grows(l5, t1, {})
    BY <1>1, <1>3, <1>4 DEF Baking, Grows
  <2> HIDE DEF l5, t1
  <2> QED
    BY <2>1, WithinStates
<1> DEFINE first == When(k.interleave, MakeFbo(Y) \o <<glClear("black")>> \o MakeFbo(C)) \o
                    <<glBindFramebuffer(C), glClear("black"), glUseProgram(1), glUniform(Pal(i))>> \o
                    SetAttribs(k, Big(k, 0)) \o <<glDrawArrays(FillAt(k, i), 6)>> \o
                    When(k.fill2, <<glDrawArrays(FillAt(k, i), 4)>>)
<1>22. BakeTile(k, i) = first \o Respec(k) \o <<glBindFramebuffer(Y)>> \o When(~k.interleave, <<glClear("black")>>) \o
         <<glUseProgram(2), glBindTexture(Texture(C)), glUniform("sampler")>> \o
         SetAttribs(k, Big(k, 0)) \o <<glDrawArrays(LayerAt(k, i), 6)>>
  BY DEF BakeTile, C, Y
<1>23. t0 = Tile(k, MadeBefore(k, i)) /\ t1 = Tile(k, MadeBefore(k, i + 1))
  BY DEF Tile, pic0, pic1
<1> HIDE DEF t0, t1, c3, c4, l1, l4, l5
<1>24. Takes(first, States(t0), States(c4), k)
  BY <1>10, <1>11, <1>12, <1>13, <1>14, JoinFive
<1> HIDE DEF first
<1>25. Takes(BakeTile(k, i), States(t0), States(l5), k)
  BY <1>15, <1>16, <1>17, <1>18, <1>19, <1>20, <1>22, <1>24, JoinSeven
<1> QED
  BY <1>21, <1>23, <1>25, TakesWithin

\* vbo-respec-repro.c:348-371: all layers are drawn to the window.
LEMMA CompositeFrameTakes ==
  ASSUME NEW k \in VboKnobs, NEW f
  PROVE  Takes(CompositeFrame(k, f), States(Frame(k, Made(k.n))), States(Frame(k, Made(k.n))), k)
<1> DEFINE pic == Made(k.n)
           any == Bufs(k, Bigs(k) \cup {Small(k)})
           small == Bufs(k, {Small(k)})
           from == {From(k, Small(k))}
           bare(aims, bound, buf, src, prog, given) == Baking(aims, pic, bound, buf, {0, 1}, src, prog, given)
           t0 == bare(Nat, Calm, any, Ptrs(k), {0, 1, 2}, {})
           w1 == bare({0}, Calm, any, Ptrs(k), {0, 1, 2}, {})
           w2 == bare({0}, Calm, small, Ptrs(k), {0, 1, 2}, {})
           w3 == bare({0}, Calm, small, Ptrs(k), {2}, {})
           w4 == bare({0}, Calm, small, Ptrs(k), {2}, {2})
           w5 == bare({0}, Calm, small, from, {2}, {2})
           w6(i) == bare({0}, {Texture(Layer(i))}, small, from, {2}, {2})
           turn == [i \in 0 .. k.n - 1 |-> <<glBindTexture(Texture(Layer(i))), glDrawArrays(6 * (i + 1), 6)>>]
<1>0. k.n \in Nat /\ k.n \in Int /\ (f = 0 /\ k.swap) \in BOOLEAN /\ (f + 1 < k.frames) \in BOOLEAN
  BY DEF VboKnobs
<1>1. ASSUME NEW bd, NEW X, NEW src, NEW pr, NEW gv
      PROVE  /\ TargetIn(bare({0}, bd, X, src, pr, gv), Aim(0)) /\ TargetIn(bare({0}, bd, X, src, pr, gv), Full)
             /\ Aim(0) \subseteq Full
  <2>1. TargetIn(bare({0}, bd, X, src, pr, gv), Aim(0)) /\ Aim(0) \subseteq Full
    BY AimedAtTile
  <2> QED
    BY <2>1 DEF TargetIn
<1>2. ASSUME NEW i \in 0 .. k.n - 1
      PROVE  /\ Texture(Layer(i)) \in pic /\ Texture(Layer(i)) \in Calm /\ Texture(Layer(i)) \notin Aim(0)
             /\ \A s \in from, b \in small : Fits(s, b, 6 * (i + 1), 6)
  <2>1. i \in Nat /\ i < k.n /\ i \in Tiles(k)
    BY <1>0 DEF Tiles
  <2>2. Texture(Layer(i)) \in pic /\ Layer(i) \in Nat
    BY <1>0, <2>1, CacheAndLayer
  <2>3. \A s \in from, b \in small : Fits(s, b, 6 * (i + 1), 6)
    BY <2>1, WindowQuads
  <2>4. Texture(Layer(i)) \in Calm /\ Texture(Layer(i)) \notin Aim(0)
    BY <2>2, Names DEF Aim, Calm
  <2> QED
    BY <2>2, <2>3, <2>4
<1>3. /\ \A b \in any : b = <<>> \/ \E e : b = Put(<<>>, 1, e)
      /\ k.client => any \subseteq {<<>>}
      /\ small \subseteq any /\ from \subseteq Ptrs(k)
  BY DEF Bufs, Ptrs
<1> HIDE DEF pic, any, small, from
<1>10. Takes(<<glBindFramebuffer(0), glClear("grey")>>, States(t0), States(w1), k)
  <2>1. Takes(<<glBindFramebuffer(0)>>, States(t0), States(w1), k)
    BY FramebufferTakes DEF Baking, Grows
  <2>2. Takes(<<glClear("grey")>>, States(w1), States(w1), k)
    BY <1>1, ClearTakes DEF Baking, Grows
  <2> HIDE DEF t0, w1
  <2> QED
    BY <2>1, <2>2, TakesTwo
<1>11. Takes(When(f = 0 /\ k.swap, <<eglSwapBuffers("go"), glClear("grey")>>), States(w1), States(w1), k)
  <2>1. Takes(<<eglSwapBuffers("go")>>, States(w1), States(w1), k)
    BY SwapTakes DEF Baking, Grows
  <2>2. Takes(<<glClear("grey")>>, States(w1), States(w1), k)
    BY <1>1, ClearTakes DEF Baking, Grows
  <2> HIDE DEF w1
  <2> QED
    BY <1>0, <2>1, <2>2, TakesTwo, TakesWhen
<1>12. Takes(Upload(k, Small(k)), States(w1), States(w2), k)
  BY <1>3, UploadTakes DEF small
<1>13. Takes(<<glUseProgram(2), glUniform("sampler")>>, States(w2), States(w4), k)
  <2>1. Takes(<<glUseProgram(2)>>, States(w2), States(w3), k)
    BY UseTakes DEF Baking, Grows
  <2>2. Takes(<<glUniform("sampler")>>, States(w3), States(w4), k)
    <3>1. {2} \subseteq Nat /\ \A x \in {2} : x \in {} \/ (x # 0 /\ {2} \subseteq {x})
      OBVIOUS
    <3> QED
      BY <3>1, UniformTakes DEF Baking, Grows
  <2> HIDE DEF w2, w3, w4
  <2> QED
    BY <2>1, <2>2, TakesTwo
<1>14. Takes(SetAttribs(k, Small(k)), States(w4), States(w5), k)
  BY SetAttribsTakes DEF from
<1>15. Takes(Loop(turn), States(w5), States(w5), k)
  <2>1. ASSUME NEW i \in 0 .. k.n - 1 PROVE Takes(turn[i], States(w5), States(w5), k)
    <3>1. Takes(<<glBindTexture(Texture(Layer(i)))>>, States(w5), States(w6(i)), k)
      BY TextureTakes DEF Baking, Grows
    <3>2. Takes(<<glDrawArrays(6 * (i + 1), 6)>>, States(w6(i)), States(w5), k)
      <4>1. TargetIn(w6(i), Aim(0)) /\ Aim(0) \subseteq Full
        BY <1>1
      <4>2. Drawable(w6(i), k, Aim(0))
        BY <1>2, FboKinds DEF Drawable, Baking
      <4>3. \A s \in from, b \in small : Fits(s, b, 6 * (i + 1), 6)
        BY <1>2
      <4>4. {Texture(Layer(i))} \subseteq Calm
        BY <1>2
      <4> QED
        BY <4>1, <4>2, <4>3, <4>4, DrawArraysTakes DEF Baking, Grows
    <3>3. turn[i] = <<glBindTexture(Texture(Layer(i))), glDrawArrays(6 * (i + 1), 6)>>
      OBVIOUS
    <3> HIDE DEF w5, w6, turn
    <3>4. Takes(<<glBindTexture(Texture(Layer(i))), glDrawArrays(6 * (i + 1), 6)>>, States(w5), States(w5), k)
      BY <3>1, <3>2, TakesTwo
    <3> QED
      BY <3>3, <3>4
  <2>2. DOMAIN turn = 0 .. k.n - 1
    OBVIOUS
  <2> HIDE DEF turn, w5
  <2>3. \A i \in 0 .. k.n - 1 : Takes(turn[i], States(w5), States(w5), k)
    BY <2>1
  <2> QED
    BY <1>0, <2>2, <2>3, TakesLoopInt
<1>16. Takes(When(f + 1 < k.frames, <<eglSwapBuffers("go")>>), States(w5), States(w5), k)
  <2>1. Takes(<<eglSwapBuffers("go")>>, States(w5), States(w5), k)
    BY SwapTakes DEF Baking, Grows
  <2> QED
    BY <1>0, <2>1, TakesWhen
<1>17. States(w5) \subseteq States(t0)
  <2>1. Grows(w5, t0, {})
    BY <1>3 DEF Baking, Grows
  <2> HIDE DEF w5, t0
  <2> QED
    BY <2>1, WithinStates
<1>18. t0 = Frame(k, Made(k.n))
  BY DEF Frame, pic, any
<1> DEFINE first == <<glBindFramebuffer(0), glClear("grey")>> \o
                    When(f = 0 /\ k.swap, <<eglSwapBuffers("go"), glClear("grey")>>) \o
                    Upload(k, Small(k)) \o <<glUseProgram(2), glUniform("sampler")>> \o SetAttribs(k, Small(k))
<1>19. CompositeFrame(k, f) = first \o Loop(turn) \o When(f + 1 < k.frames, <<eglSwapBuffers("go")>>)
  BY Zenon DEF CompositeFrame
<1> HIDE DEF t0, w1, w2, w4, w5, turn
<1>20. Takes(first, States(t0), States(w5), k)
  BY <1>10, <1>11, <1>12, <1>13, <1>14, JoinFive
<1> HIDE DEF first
<1>21. Takes(CompositeFrame(k, f), States(t0), States(w5), k)
  BY <1>15, <1>16, <1>19, <1>20, JoinThree
<1> QED
  BY <1>17, <1>18, <1>21, TakesWithin

\* vbo-respec-repro.c, for any number of tiles and frames, any size and any mode.
LEMMA VboKept ==
  ASSUME NEW k \in VboKnobs
  PROVE  IsSeq(VboRespec(k)) /\ Keeps(VboRespec(k), Fresh, k)
<1> DEFINE opened == Opened({Window})
           start(kind) == [opened EXCEPT !.kind = {kind}]
           bare(T, pic) == Baking(T, pic, Calm, {<<>>}, {0}, {NewContext.src}, {0}, {})
           begun == start(FboKind)
           made == bare(Nat, MadeBefore(k, 0))
           full == Baking(Nat, MadeBefore(k, 0), Calm, Bufs(k, {Big(k, 0)}), {0, 1}, {NewContext.src}, {0}, {})
           aimed == Baking(Nat, MadeBefore(k, 0), Calm, Bufs(k, {Big(k, 0)}), {0, 1}, {From(k, Big(k, 0))}, {0}, {})
           tile(i) == Tile(k, MadeBefore(k, i))
           frame == Frame(k, Made(k.n))
           over == [frame EXCEPT !.on = {FALSE}, !.surface = {None}, !.adrift = {TRUE}]
           fbos == [i \in 0 .. k.n - 1 |-> MakeFbo(Cache(i)) \o MakeFbo(Layer(i))]
           bakes == [i \in 0 .. k.n - 1 |-> BakeTile(k, i)]
           frames == [f \in 0 .. k.frames - 1 |-> CompositeFrame(k, f)]
           reads == [i \in 0 .. k.n - 1 |-> <<glReadPixels(<<i, "left">>, Lit)>>]
           setup == (IF k.interleave THEN <<glBindFramebuffer(0), glClear("grey")>> ELSE Loop(fbos))
<1>0. /\ k.interleave \in BOOLEAN /\ k.detaches \in BOOLEAN /\ k.n \in Nat /\ k.n \in Int /\ k.frames \in Int
     /\ k.name = "vbo"
  BY DEF VboKnobs
<1>1. Takes(OpenWindow, States(Began), States(opened), k)
  BY WindowOpens
<1>2. Takes(<<glLinkProgram(1, "fill"), glLinkProgram(2, "sampler")>>, States(opened), States(begun), k)
  <2> DEFINE k1 == Put(<<>>, 1, "fill")
             c1 == start(k1)
  <2>1. Takes(<<glLinkProgram(1, "fill")>>, States(opened), States(c1), k)
    BY LinkTakes DEF Grows, Opened, Windowed
  <2>2. Takes(<<glLinkProgram(2, "sampler")>>, States(c1), States(begun), k)
    BY LinkTakes DEF Grows, FboKind, Opened, Windowed
  <2> HIDE DEF opened, c1, begun
  <2> QED
    BY <2>1, <2>2, TakesTwo
<1>3. Takes(When(k.detaches, <<glDetachShader(1), glDetachShader(2), glGenVertexArrays>>), States(begun), States(begun), k)
  <2>1. ASSUME NEW p PROVE Takes(<<glDetachShader(p)>>, States(begun), States(begun), k)
    BY DetachTakes DEF Grows, Opened, Windowed
  <2>2. Takes(<<glGenVertexArrays>>, States(begun), States(begun), k)
    BY ArraysTakes DEF Grows, Opened, Windowed
  <2> HIDE DEF begun
  <2> QED
    BY <1>0, <2>1, <2>2, TakesThree, TakesWhen
<1>4. ASSUME NEW T, 0 \in T PROVE States(begun) \subseteq States(bare(T, {}))
  <2>1. <<>> \in Atts /\ None \in Calm /\ Window \in Full
    BY DEF Atts, Calm, Full
  <2>2. Grows(begun, bare(T, {}), {})
    BY <1>4, <2>1 DEF Baking, Opened, Windowed, Grows
  <2> HIDE DEF begun, bare
  <2> QED
    BY <2>2, WithinStates
<1>5. Takes(setup, States(begun), States(made), k)
  <2>1. CASE k.interleave
    <3> DEFINE s0 == bare({0}, {})
    <3>1. MadeBefore(k, 0) = {}
      BY <2>1, CacheAndLayer DEF MadeBefore
    <3>2. States(begun) \subseteq States(s0)
      BY <1>4
    <3>3. Takes(<<glBindFramebuffer(0)>>, States(s0), States(s0), k)
      BY FramebufferTakes DEF Baking, Grows
    <3>4. Takes(<<glClear("grey")>>, States(s0), States(s0), k)
      <4>1. TargetIn(s0, Aim(0)) /\ Aim(0) \subseteq Full
        BY AimedAtTile
      <4>2. TargetIn(s0, Full)
        BY <4>1 DEF TargetIn
      <4> QED
        BY <4>2, ClearTakes DEF Baking, Grows
    <3>5. States(s0) \subseteq States(made)
      <4>1. {0} \subseteq Nat
        OBVIOUS
      <4>2. Grows(s0, made, {})
        BY <3>1, <4>1 DEF Baking, Grows
      <4> HIDE DEF s0, made
      <4> QED
        BY <4>2, WithinStates
    <3> HIDE DEF s0, begun, made, bare
    <3>6. Takes(<<glBindFramebuffer(0), glClear("grey")>>, States(s0), States(s0), k)
      BY <3>3, <3>4, TakesTwo
    <3>7. Takes(<<glBindFramebuffer(0), glClear("grey")>>, States(begun), States(made), k)
      BY <3>2, <3>5, <3>6, TakesWithin
    <3> QED
      BY <2>1, <3>7
  <2>2. CASE ~k.interleave
    <3> DEFINE P == [i \in 0 .. k.n |-> States(bare(Nat, Made(i)))]
    <3>1. ASSUME NEW i \in 0 .. k.n - 1 PROVE Takes(fbos[i], P[i], P[i + 1], k)
      <4> DEFINE s0 == bare(Nat, Made(i))
                 s1 == Baking({Cache(i)}, Made(i) \cup {Texture(Cache(i))}, {Texture(Cache(i))}, {<<>>}, {0},
                              {NewContext.src}, {0}, {})
                 s2 == Baking({Layer(i)}, (Made(i) \cup {Texture(Cache(i))}) \cup {Texture(Layer(i))},
                              {Texture(Layer(i))}, {<<>>}, {0}, {NewContext.src}, {0}, {})
                 s3 == bare(Nat, Made(i + 1))
      <4>1. i \in Nat /\ i \in 0 .. k.n /\ i + 1 \in 0 .. k.n
        BY <1>0
      <4>2. Takes(MakeFbo(Cache(i)), States(s0), States(s1), k)
        BY <4>1, CacheAndLayer, MakeFboTakes
      <4>3. Takes(MakeFbo(Layer(i)), States(s1), States(s2), k)
        BY <4>1, CacheAndLayer, MakeFboTakes
      <4>4. States(s2) \subseteq States(s3)
        <5>1. Made(i + 1) = (Made(i) \cup {Texture(Cache(i))}) \cup {Texture(Layer(i))}
          BY <4>1, CacheAndLayer
        <5>2. Texture(Layer(i)) \in Calm /\ Layer(i) \in Nat
          BY <4>1, CacheAndLayer DEF Calm
        <5>3. Grows(s2, s3, {})
          BY <5>1, <5>2 DEF Baking, Grows
        <5> HIDE DEF s2, s3
        <5> QED
          BY <5>3, WithinStates
      <4>5. fbos[i] = MakeFbo(Cache(i)) \o MakeFbo(Layer(i)) /\ P[i] = States(s0) /\ P[i + 1] = States(s3)
        BY <4>1
      <4> HIDE DEF fbos, P, s0, s1, s2, s3
      <4>6. Takes(MakeFbo(Cache(i)) \o MakeFbo(Layer(i)), States(s0), States(s2), k)
        BY <4>2, <4>3, TakesJoin
      <4>7. Takes(fbos[i], States(s0), States(s3), k)
        BY <4>4, <4>5, <4>6, TakesWithin
      <4> QED
        BY <4>5, <4>7
    <3>2. Turns(fbos, k.n)
      BY <1>0 DEF Turns
    <3>3. P[0] = States(bare(Nat, {})) /\ P[k.n] = States(made)
      <4>1. Made(0) = {}
        BY CacheAndLayer
      <4>2. MadeBefore(k, 0) = Made(k.n)
        BY <2>2 DEF MadeBefore
      <4>3. made = bare(Nat, Made(k.n))
        BY <4>2
      <4>4. 0 \in 0 .. k.n /\ k.n \in 0 .. k.n
        BY <1>0
      <4> HIDE DEF bare, made
      <4>5. P[0] = States(bare(Nat, Made(0))) /\ P[k.n] = States(bare(Nat, Made(k.n)))
        BY <4>4
      <4> HIDE DEF P
      <4> QED
        BY <4>1, <4>3, <4>5
    <3>4. States(begun) \subseteq States(bare(Nat, {}))
      BY <1>4
    <3> HIDE DEF fbos, P, made, begun, bare
    <3>5. Takes(Loop(fbos), P[0], P[k.n], k)
      BY <3>1, <3>2, TakesLoop
    <3>6. Takes(Loop(fbos), States(begun), States(made), k)
      BY <3>3, <3>4, <3>5, TakesWithin
    <3> QED
      BY <2>2, <3>6
  <2> QED
    BY <1>0, <2>1, <2>2
<1>6. Takes(Upload(k, Big(k, 0)), States(made), States(full), k)
  <2>1. \A b \in {<<>>} : b = <<>> \/ \E e : b = Put(<<>>, 1, e)
    OBVIOUS
  <2>2. k.client => {<<>>} \subseteq {<<>>}
    OBVIOUS
  <2>3. {0} \subseteq {0, 1}
    OBVIOUS
  <2> DEFINE X == {<<>>}
  <2> HIDE DEF X
  <2>4. Takes(Upload(k, Big(k, 0)), States(Baking(Nat, MadeBefore(k, 0), Calm, X, {0}, {NewContext.src}, {0}, {})), States(full), k)
    BY <2>1, <2>2, <2>3, UploadTakes DEF X
  <2> QED
    BY <2>4 DEF X
<1>7. Takes(SetAttribs(k, Big(k, 0)), States(full), States(tile(0)), k)
  <2>1. Takes(SetAttribs(k, Big(k, 0)), States(full), States(aimed), k)
    BY SetAttribsTakes
  <2>2. States(aimed) \subseteq States(tile(0))
    <3>1. Bufs(k, {Big(k, 0)}) \subseteq Bufs(k, Bigs(k)) /\ From(k, Big(k, 0)) \in Ptrs(k)
      BY DEF Bufs, Bigs, Ptrs
    <3>2. Grows(aimed, tile(0), {})
      BY <3>1 DEF Baking, Tile, Grows
    <3> HIDE DEF aimed, tile
    <3> QED
      BY <3>2, WithinStates
  <2> HIDE DEF full, aimed, tile
  <2> QED
    BY <2>1, <2>2, TakesWithin
<1>8. Takes(Loop(bakes), States(tile(0)), States(frame), k)
  <2> DEFINE P == [i \in 0 .. k.n |-> States(tile(i))]
  <2>1. ASSUME NEW i \in 0 .. k.n - 1 PROVE Takes(bakes[i], P[i], P[i + 1], k)
    <3>1. i \in Tiles(k) /\ i \in 0 .. k.n /\ i + 1 \in 0 .. k.n
      BY <1>0 DEF Tiles
    <3> QED
      BY <3>1, BakeTileTakes
  <2>2. Turns(bakes, k.n)
    BY <1>0 DEF Turns
  <2>3. P[0] = States(tile(0)) /\ P[k.n] = States(tile(k.n))
    BY <1>0
  <2>4. States(tile(k.n)) \subseteq States(frame)
    <3>1. Bufs(k, Bigs(k)) \subseteq Bufs(k, Bigs(k) \cup {Small(k)}) /\ MadeBefore(k, k.n) = Made(k.n)
      BY DEF Bufs, MadeBefore
    <3>2. Grows(tile(k.n), frame, {})
      BY <3>1 DEF Baking, Tile, Frame, Grows
    <3> HIDE DEF tile, frame
    <3> QED
      BY <3>2, WithinStates
  <2> HIDE DEF bakes, P, tile, frame
  <2>5. Takes(Loop(bakes), P[0], P[k.n], k)
    BY <2>1, <2>2, TakesLoop
  <2> QED
    BY <2>3, <2>4, <2>5, TakesWithin
<1>9. Takes(Loop(frames), States(frame), States(frame), k)
  <2>1. DOMAIN frames = 0 .. k.frames - 1 /\ \A f \in 0 .. k.frames - 1 : Takes(frames[f], States(frame), States(frame), k)
    BY CompositeFrameTakes
  <2> HIDE DEF frames, frame
  <2> QED
    BY <1>0, <2>1, TakesLoopInt
<1>10. Takes(Loop(reads), States(frame), States(frame), k)
  <2>1. ASSUME NEW i PROVE Takes(<<glReadPixels(<<i, "left">>, Lit)>>, States(frame), States(frame), k)
    BY <1>0, ReadTakes DEF Frame, Baking, Grows, Lit
  <2>2. DOMAIN reads = 0 .. k.n - 1 /\ \A i \in 0 .. k.n - 1 : reads[i] = <<glReadPixels(<<i, "left">>, Lit)>>
    OBVIOUS
  <2> HIDE DEF reads, frame
  <2>3. \A i \in 0 .. k.n - 1 : Takes(reads[i], States(frame), States(frame), k)
    BY <2>1, <2>2
  <2> QED
    BY <1>0, <2>2, <2>3, TakesLoopInt
<1>11. Takes(<<Verdict, eglMakeCurrent(None, FALSE, "go")>>, States(frame), States(over), k)
  <2>1. Takes(<<Verdict>>, States(frame), States(frame), k)
    BY VerdictTakes DEF Frame, Baking, Grows
  <2>2. Takes(<<eglMakeCurrent(None, FALSE, "go")>>, States(frame), States(over), k)
    BY CurrentTakes DEF Frame, Baking, Grows
  <2> HIDE DEF frame, over
  <2> QED
    BY <2>1, <2>2, TakesTwo
<1> DEFINE first == OpenWindow \o <<glLinkProgram(1, "fill"), glLinkProgram(2, "sampler")>> \o
                    When(k.detaches, <<glDetachShader(1), glDetachShader(2), glGenVertexArrays>>) \o setup \o
                    Upload(k, Big(k, 0))
<1>12. VboRespec(k) = first \o SetAttribs(k, Big(k, 0)) \o Loop(bakes) \o Loop(frames) \o Loop(reads) \o
                      <<Verdict, eglMakeCurrent(None, FALSE, "go")>>
  BY Zenon DEF VboRespec
<1> HIDE DEF opened, begun, made, full, tile, frame, over, setup, bakes, frames, reads
<1>13. Takes(first, States(Began), States(full), k)
  BY <1>1, <1>2, <1>3, <1>5, <1>6, JoinFive
<1> HIDE DEF first
<1>14. Takes(VboRespec(k), States(Began), States(over), k)
  BY <1>7, <1>8, <1>9, <1>10, <1>11, <1>12, <1>13, JoinSix
<1> QED
  BY <1>14, IsKept

-----------------------------------------------------------------------------
\* Whatever its knobs, a program of GlPrograms makes every call when it may.
LEMMA ProgramPaved ==
  ASSUME NEW a, IsProgram(a, Code(a))
  PROVE  Paved(a)
<1>1. SUFFICES ASSUME a.name # "free" PROVE IsSeq(Code(a)) /\ Keeps(Code(a), Fresh, a)
  <2>1. a \in FboKnobs \cup VboKnobs \cup TriKnobs \cup ChurnKnobs \cup TileKnobs \cup SwapKnobs \cup PbufferKnobs =>
        a.name # "free"
    BY DEF FboKnobs, VboKnobs, TriKnobs, ChurnKnobs, TileKnobs, SwapKnobs, PbufferKnobs
  <2> QED
    BY <1>1, <2>1 DEF Paved, IsProgram
<1>2. CASE a \in FboKnobs /\ Code(a) = FboReentry(a)
  BY <1>2, FboKept
<1>3. CASE a \in VboKnobs /\ Code(a) = VboRespec(a)
  BY <1>3, VboKept
<1>4. CASE a \in TriKnobs /\ Code(a) = TriInline(a)
  BY <1>4, TriKept
<1>5. CASE a \in ChurnKnobs /\ Code(a) = StateChurn(a)
  BY <1>5, ChurnKept
<1>6. CASE a \in TileKnobs /\ Code(a) = TileRepro(a)
  BY <1>6, TileKept
<1>7. CASE a \in SwapKnobs /\ Code(a) = WindowSwap(a)
  BY <1>7, SwapKept
<1>8. CASE a \in PbufferKnobs /\ Code(a) = PbufferLatency(a)
  BY <1>8, PbufferKept
<1> QED
  BY <1>1, <1>2, <1>3, <1>4, <1>5, <1>6, <1>7, <1>8 DEF IsProgram

\* The drawing programs of tools/, for any number of draws, tiles, layers,
\* frames and cycles and every mode they have, on any driver, with any
\* interposer and whichever EGL calls fail: a draw is issued with its uniforms
\* given, inside the buffer as last specified, at the start of a shape put
\* there, and sampling an image that is not its target.
THEOREM ProgramsDrawReady == Spec => []DrawsReady
<1>1. \A a \in Apps : Paved(a)
  BY ProgramsAssumption, ProgramPaved
<1> QED
  BY <1>1, PavedDrawsReady

\* And for as many: what they destroy, surfaces, textures and renderbuffers
\* (sgx-window-swap.c:783-787, sgx-pbuffer-latency.c:484-500, fbo-reentry-test.c:423), is
\* not current and has no rendering that nothing waited for, and no context is
\* destroyed while current, unless the release that should have come before
\* failed and the program went on (fbo-reentry-test.c:422, sgx-window-swap.c:799).
THEOREM ProgramsTeardown == Spec => []QuietTeardown
<1>1. \A a \in Apps : Paved(a)
  BY ProgramsAssumption, ProgramPaved
<1> QED
  BY <1>1, PavedTeardown

\* No test that has read back a pixel prints PASS about a surface it could not draw to: the
\* eglMakeCurrent() of fbo-reentry-test.c (line 208) is not checked, but each check then reads
\* black, which is no colour it asks for; vbo-respec-repro.c checks its own and stops.
THEOREM ProgramsSeeVerdicts == Spec => []VerdictSeen
<1>1. \A a \in Apps : Paved(a)
  BY ProgramsAssumption, ProgramPaved
<1> QED
  BY <1>1, PavedVerdictSeen
==============================================================================
