-------------------------------- MODULE GlRecord --------------------------------
(***************************************************************************)
(* The GL call recorder, tools/gl-record.c: a library preloaded into an    *)
(* application that prints each GL call to a text file and the data it     *)
(* refers to to a second one, until GLREC_FRAMES frames are recorded.  The *)
(* application may end, or be killed, at any time.                         *)
(*                                                                         *)
(* A line has the arguments the recorder prints and, beside them, what the *)
(* call meant when the application made it (`means'): which object, not    *)
(* by what name.                                                           *)
(***************************************************************************)
EXTENDS Integers, Sequences, FiniteSets

CONSTANTS
  Kinds,      \* kinds of objects: "fb", "prog" and others
  Names,      \* names the driver gives to objects
  None,       \* the name 0
  Unis,       \* uniforms of a program, as the locations this driver gives them
  MaxFrames,  \* GLREC_FRAMES
  MaxObjs,    \* bound: objects the application makes
  MaxLines,   \* bound: lines before the recording's end
  Mixes,      \* bound: kinds of objects and most lines of an operation in a recording
  MaxData     \* bound: bytes of data

Ops == {"gen", "del", "use", "getuni", "uni", "data", "draw", "frame", "clear", "end"}

ASSUME GlRecordAssumption ==
  /\ {"fb", "prog"} \subseteq Kinds
  /\ None \notin Names
  /\ Unis \subseteq Nat
  /\ Mixes \subseteq [kinds : SUBSET Kinds, most : [Ops -> Nat]]
  /\ MaxFrames \in Nat /\ MaxObjs \in Nat /\ MaxLines \in Nat /\ MaxData \in Nat

VARIABLES
  stage,        \* where the application is: in a call of finish(), or at its end
  object,       \* the object the driver knows by a name, 0 for none
  made,         \* objects made so far: they are numbered
  fb, prog,     \* framebuffer that is bound, program in use; 0 for none
  rec, frames, curFb,
  text, boff,   \* the lines printed, and the bytes of data
  disk,         \* how many of each are in the files
  mix           \* bound: the calls this application makes

driverVars == <<object, made, fb, prog>>
fileVars   == <<driverVars, rec, frames, curFb, text, boff, disk, mix>>
recordVars == <<stage, fileVars>>

Objs == 1 .. MaxObjs

RecordInit ==
  /\ stage = "app"
  /\ object = [k \in Kinds |-> [n \in Names |-> 0]] /\ made = 0 /\ fb = 0 /\ prog = 0
  /\ rec = TRUE /\ frames = 0 /\ curFb = None
  /\ text = <<>> /\ boff = 0
  /\ disk = [lines |-> 0, data |-> 0]
  /\ mix \in Mixes

-----------------------------------------------------------------------------
\* A line: operation, kind and name of an object, uniform location, place and
\* length of data, and what the call meant.
Line(op, kind, name, loc, off, len, means) ==
  [op |-> op, kind |-> kind, name |-> name, loc |-> loc, off |-> off, len |-> len,
   means |-> means]

Named(op, kind, name, means) == Line(op, kind, name, 0, -1, 0, means)
Plain(op, means)             == Line(op, "fb", None, 0, -1, 0, means)

LinesOf(op) == {i \in DOMAIN text : text[i].op = op}
Room(op)    == Len(text) < MaxLines /\ Cardinality(LinesOf(op)) < mix.most[op]

R(line) ==
  /\ rec => Room(line.op)
  /\ text' = IF rec THEN Append(text, line) ELSE text

\* The object the application's driver knows by this name.
ObjectOf(kind, name) == IF name = None THEN 0 ELSE object[kind][name]

-----------------------------------------------------------------------------
(* Objects.                                                                *)

\* glGen*, glCreateProgram and glCreateShader: the driver picks a free name.
Gen(kind) ==
  /\ stage = "app" /\ made < MaxObjs
  /\ made' = made + 1
  /\ \E n \in Names :
       /\ object[kind][n] = 0
       /\ object' = [object EXCEPT ![kind][n] = made + 1]
       /\ R(Named("gen", kind, n, <<made + 1, 0>>))
  /\ UNCHANGED <<stage, fb, prog, rec, frames, curFb, boff, disk>>

\* glDelete*.  The framebuffer that is bound may be deleted, which binds the
\* default one; a program is not deleted while it is in use.
Delete(kind, n) ==
  /\ stage = "app" /\ object[kind][n] # 0
  /\ kind = "prog" => object[kind][n] # prog
  /\ object' = [object EXCEPT ![kind][n] = 0]
  /\ fb' = IF kind = "fb" /\ object[kind][n] = fb THEN 0 ELSE fb
  /\ R(Named("del", kind, n, <<object[kind][n], fb>>))
  /\ UNCHANGED <<stage, made, prog, rec, frames, curFb, boff, disk>>

\* The framebuffer glBindFramebuffer notes.  A bug to be caught: only if there is one.
CurFb_IfAny(kind, n) == IF kind = "fb" /\ n # None THEN n ELSE curFb
CurFb(kind, n) == IF kind = "fb" THEN n ELSE curFb

\* The calls that name an object: glBind*, glUseProgram, glAttachShader and others.
Use(kind, n) ==
  /\ stage = "app" /\ (n # None => object[kind][n] # 0)
  /\ fb' = IF kind = "fb" THEN ObjectOf(kind, n) ELSE fb
  /\ curFb' = CurFb(kind, n)
  /\ prog' = IF kind = "prog" THEN ObjectOf(kind, n) ELSE prog
  /\ R(Named("use", kind, n, <<ObjectOf(kind, n), 0>>))
  /\ UNCHANGED <<stage, object, made, rec, frames, boff, disk>>

glGetUniformLocation(n, u) ==
  /\ stage = "app" /\ object["prog"][n] # 0
  /\ R(Line("getuni", "prog", n, u, -1, 0, <<object["prog"][n], u>>))
  /\ UNCHANGED <<stage, driverVars, rec, frames, curFb, boff, disk>>

\* The application has asked for the location it sets.
Uniform(u) ==
  /\ stage = "app" /\ prog # 0
  /\ \E i \in 1 .. Len(text) : text[i].op = "getuni" /\ text[i].means = <<prog, u>>
  /\ R(Line("uni", "prog", None, u, -1, 0, <<prog, u>>))
  /\ UNCHANGED <<stage, driverVars, rec, frames, curFb, boff, disk>>

-----------------------------------------------------------------------------
(* Data.                                                                   *)

\* glShaderSource, glBufferData, glTexImage2D and others; a null pointer has no data.
Data(len) ==
  LET off == IF len = 0 THEN -1 ELSE boff IN
  /\ stage = "app" /\ boff + len <= MaxData
  /\ boff' = IF rec THEN boff + len ELSE boff
  /\ R(Line("data", "fb", None, 0, off, len, <<off, len>>))
  /\ UNCHANGED <<stage, driverVars, rec, frames, curFb, disk>>

-----------------------------------------------------------------------------
(* Drawing, frames and the end of the recording.                           *)

\* glDrawArrays, and the calls that set state and name no object.
Draw ==
  /\ stage = "app"
  /\ R(Plain("draw", <<fb, prog>>))
  /\ UNCHANGED <<stage, driverVars, rec, frames, curFb, boff, disk>>

\* A bug to be caught: the data is left to the C library, which writes it at exit.
Flush_TextOnly == [disk EXCEPT !.lines = Len(text)]
Flush == [lines |-> Len(text), data |-> boff]

\* finish() prints END and flushes the text; then the data.
FinishText(next) ==
  /\ text' = Append(text, Plain("end", <<0, 0>>))
  /\ disk' = [disk EXCEPT !.lines = Len(text) + 1]
  /\ stage' = next
  /\ UNCHANGED frames

\* What rec is once finish() is done.  A bug to be caught: it stays set.
RecAfter_StillOn == rec
RecAfter == FALSE

\* The process is gone, and its driver's objects with it.
Vanish ==
  /\ stage' = "gone"
  /\ object' = [k \in Kinds |-> [n \in Names |-> 0]] /\ made' = 0 /\ fb' = 0 /\ prog' = 0
  /\ curFb' = None

FinishData ==
  /\ stage \in {"finish", "fini"}
  /\ disk' = Flush
  /\ rec' = RecAfter
  /\ IF stage = "fini" THEN Vanish ELSE stage' = "app" /\ UNCHANGED <<driverVars, curFb>>
  /\ UNCHANGED <<frames, text, boff>>

\* When glClear() begins a frame.  A bug to be caught: one frame too many.
LastFrame_OneMore == frames > MaxFrames
LastFrame == frames >= MaxFrames

glClear ==
  /\ stage = "app"
  /\ \/ /\ rec /\ curFb = None /\ LastFrame
        /\ FinishText("finish")
     \/ /\ rec /\ curFb = None /\ ~LastFrame
        /\ Len(text) + 1 < MaxLines /\ Room("clear")
        /\ text' = text \o <<Plain("frame", <<0, 0>>), Plain("clear", <<fb, prog>>)>>
        /\ frames' = frames + 1
        /\ UNCHANGED <<stage, disk>>
     \/ /\ ~rec \/ curFb # None
        /\ R(Plain("clear", <<fb, prog>>))
        /\ UNCHANGED <<stage, frames, disk>>
  /\ UNCHANGED <<driverVars, rec, curFb, boff>>

\* The application ends; fini() runs.
Exit ==
  /\ stage = "app"
  /\ \/ rec /\ FinishText("fini") /\ UNCHANGED <<driverVars, curFb>>
     \/ ~rec /\ Vanish /\ UNCHANGED <<text, frames, disk>>
  /\ UNCHANGED <<rec, boff>>

\* It is killed: of what has not been flushed, any beginning is in the files, whole
\* lines of it, and the rest is lost.
Kill ==
  /\ stage \in {"app", "finish", "fini"}
  /\ Vanish
  /\ \E l \in disk.lines .. Len(text), d \in disk.data .. boff :
       /\ disk' = [lines |-> l, data |-> d]
       /\ text' = SubSeq(text, 1, l)
       /\ boff' = d
  /\ frames' = IF rec THEN 0 ELSE frames
  /\ UNCHANGED rec

-----------------------------------------------------------------------------
Call ==
  \/ \E k \in mix.kinds : Gen(k)
  \/ \E k \in mix.kinds, n \in Names : Delete(k, n)
  \/ \E k \in mix.kinds, n \in Names \cup {None} : Use(k, n)
  \/ \E n \in Names, u \in Unis : glGetUniformLocation(n, u)
  \/ \E u \in Unis : Uniform(u)
  \/ \E len \in 0 .. MaxData : Data(len)
  \/ Draw \/ glClear

RecordNext == (Call \/ FinishData \/ Exit \/ Kill) /\ UNCHANGED mix

=============================================================================
