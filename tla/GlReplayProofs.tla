------------------------------ MODULE GlReplayProofs ------------------------------
(***************************************************************************)
(* What holds of GlRecord and GlReplay for every application, driver,      *)
(* bound and place of a kill.                                              *)
(*                                                                         *)
(* The text is all the replayer knows of the application.  TextOK says     *)
(* what a text tells: there are a framebuffer bound and a program in use   *)
(* before each of its lines, F[i] and P[i], such that each line is one the *)
(* application could print then (Fits).  A line is judged by the lines     *)
(* before it only, so that what a kill leaves of a text is a text.         *)
(*                                                                         *)
(* While a text is replayed, the replayer's maps and its driver are at     *)
(* each line what the text up to there makes of them (MapInv, SlotInv,     *)
(* BoundInv).                                                              *)
(***************************************************************************)
EXTENDS GlReplay, FiniteSetTheorems, WellFoundedInduction, TLAPS

Lines == [op : Ops, kind : Kinds, name : Names \cup {None}, loc : Nat, off : Int, len : Nat,
          means : Int \X Int]

\* The framebuffer bound and the program in use after a line.
NextFb(f, l) ==
  IF l.op = "use" /\ l.kind = "fb" THEN l.means[1]
  ELSE IF l.op = "del" /\ l.kind = "fb" /\ l.means[1] = f THEN 0 ELSE f
NextProg(p, l) == IF l.op = "use" /\ l.kind = "prog" THEN l.means[1] ELSE p

IsGen(l, k, n, o) == l.op = "gen" /\ l.kind = k /\ l.name = n /\ l.means[1] = o
IsDel(l, k, o)    == l.op = "del" /\ l.kind = k /\ l.means[1] = o
IsBoundDel(l)     == l.op = "del" /\ l.kind = "fb" /\ l.means[1] = l.means[2]

(* A line l that may follow the first m of t, with f bound and p in use.   *)

FitsBinding(f, p, l) ==
  /\ l.op = "del" => l.means[2] = f
  /\ l.op \in {"draw", "clear"} => l.means = <<f, p>>
  /\ l.op = "uni" => l.means[1] = p

\* Objects are numbered as they are made.
FitsGen(t, m, l) ==
  l.op = "gen" =>
    /\ l.name \in Names /\ l.means[1] \in Objs
    /\ \A g \in 1 .. m : t[g].op = "gen" => t[g].means[1] < l.means[1]

\* A name is that of an object made before under it and not deleted.
FitsName(t, m, l) ==
  l.op \in {"use", "del", "getuni"} =>
    /\ l.op = "use" => l.means[2] = 0
    /\ \/ l.op = "use" /\ l.name = None /\ l.means[1] = 0
       \/ /\ l.name \in Names
          /\ \E g \in 1 .. m : IsGen(t[g], l.kind, l.name, l.means[1])
          /\ \A d \in 1 .. m : ~IsDel(t[d], l.kind, l.means[1])

\* A uniform is set after its location was asked for.
FitsUniform(t, m, l) ==
  /\ l.op = "getuni" => l.kind = "prog"
  /\ l.op \in {"getuni", "uni"} => l.loc \in Unis /\ l.means[2] = l.loc
  /\ l.op = "uni" => l.means[1] # 0 /\ \E j \in 1 .. m : t[j].op = "getuni" /\ t[j].means = l.means

FitsData(l) ==
  l.op = "data" =>
    /\ l.means = <<l.off, l.len>>
    /\ (l.off = -1 /\ l.len = 0) \/ (l.off >= 0 /\ l.len > 0)

FitsMark(t, m, l) ==
  l.op = "clear" /\ (\A d \in 1 .. m : ~IsBoundDel(t[d])) =>
    (l.means[1] = 0 <=> m > 0 /\ t[m].op = "frame")

FitsEnd(t, m) == \A j \in 1 .. m : t[j].op # "end"

Fits(t, m, f, p, l) ==
  /\ FitsBinding(f, p, l) /\ FitsGen(t, m, l) /\ FitsName(t, m, l) /\ FitsUniform(t, m, l)
  /\ FitsData(l) /\ FitsMark(t, m, l) /\ FitsEnd(t, m)

LineOK(t, F, P, i) ==
  /\ F[i + 1] = NextFb(F[i], t[i]) /\ P[i + 1] = NextProg(P[i], t[i])
  /\ Fits(t, i - 1, F[i], P[i], t[i])

TextOK(t, F, P) ==
  /\ t \in Seq(Lines) /\ F \in [Nat -> Int] /\ P \in [Nat -> Int]
  /\ F[1] = 0 /\ P[1] = 0
  /\ \A i \in 1 .. Len(t) : LineOK(t, F, P, i)

-----------------------------------------------------------------------------
(* Texts.                                                                  *)

\* A line is judged by the lines before it.
LEMMA FitsBefore ==
  ASSUME NEW t, NEW u, NEW m \in Nat, NEW f, NEW p, NEW l,
         \A j \in 1 .. m : t[j] = u[j], Fits(t, m, f, p, l)
  PROVE  Fits(u, m, f, p, l)
<1>1. FitsGen(u, m, l) /\ FitsUniform(u, m, l) /\ FitsEnd(u, m)
  BY DEF Fits, FitsGen, FitsUniform, FitsEnd
<1>2. FitsName(u, m, l)
  BY DEF Fits, FitsName
<1>3. FitsMark(u, m, l)
  <2>1. m > 0 => t[m] = u[m]
    OBVIOUS
  <2> QED
    BY <2>1 DEF Fits, FitsMark
<1> QED
  BY <1>1, <1>2, <1>3 DEF Fits

\* What a line has in its fields.
LEMMA Fields ==
  ASSUME NEW l \in Lines
  PROVE  /\ l.op \in Ops /\ l.kind \in Kinds /\ l.name \in Names \cup {None} /\ l.loc \in Nat
         /\ l.off \in Int /\ l.len \in Nat /\ l.means[1] \in Int /\ l.means[2] \in Int
         /\ l.means = <<l.means[1], l.means[2]>>
BY DEF Lines

\* What is bound and in use after a line is a number.
LEMMA NextTyped ==
  ASSUME NEW l \in Lines, NEW f \in Int
  PROVE  NextFb(f, l) \in Int /\ NextProg(f, l) \in Int
<1>1. l.means[1] \in Int
  BY Fields
<1> QED
  BY <1>1 DEF NextFb, NextProg

\* A line that fits may be added.
LEMMA AddedOK ==
  ASSUME NEW t, NEW F, NEW P, TextOK(t, F, P), NEW l \in Lines,
         Fits(t, Len(t), F[Len(t) + 1], P[Len(t) + 1], l)
  PROVE  \E G, Q : /\ TextOK(Append(t, l), G, Q)
                   /\ G[Len(t) + 2] = NextFb(F[Len(t) + 1], l)
                   /\ Q[Len(t) + 2] = NextProg(P[Len(t) + 1], l)
<1> DEFINE n == Len(t)
           G == [F EXCEPT ![n + 2] = NextFb(F[n + 1], l)]
           Q == [P EXCEPT ![n + 2] = NextProg(P[n + 1], l)]
           u == Append(t, l)
<1>0. t \in Seq(Lines) /\ F \in [Nat -> Int] /\ P \in [Nat -> Int]
  BY DEF TextOK
<1>1. n \in Nat
  BY <1>0
<1>2. NextFb(F[n + 1], l) \in Int /\ NextProg(P[n + 1], l) \in Int
  <2>1. F[n + 1] \in Int /\ P[n + 1] \in Int
    <3>1. n + 1 \in Nat
      BY <1>1
    <3> QED
      BY <1>0, <3>1
  <2> QED
    BY <2>1, NextTyped
<1>3. G \in [Nat -> Int] /\ Q \in [Nat -> Int]
  <2>1. G \in [Nat -> Int]
    BY <1>0, <1>2
  <2>2. Q \in [Nat -> Int]
    BY <1>0, <1>2
  <2> QED
    BY <2>1, <2>2
<1>4. G[n + 2] = NextFb(F[n + 1], l) /\ Q[n + 2] = NextProg(P[n + 1], l)
  BY <1>0, <1>1
<1>5. ASSUME NEW j \in Nat, j <= n + 1 PROVE G[j] = F[j] /\ Q[j] = P[j]
  BY <1>0, <1>1, <1>5
<1>6. u \in Seq(Lines) /\ Len(u) = n + 1 /\ u[n + 1] = l
  BY <1>0
<1>7. ASSUME NEW j \in 1 .. n PROVE u[j] = t[j]
  BY <1>0, <1>7
<1> HIDE DEF n, G, Q, u
<1>8. ASSUME NEW i \in 1 .. n PROVE LineOK(u, G, Q, i)
  <2>1. i \in Nat /\ i - 1 \in Nat /\ i + 1 \in Nat /\ i <= n + 1 /\ i + 1 <= n + 1
    BY <1>1
  <2>2. LineOK(t, F, P, i)
    BY DEF TextOK, n
  <2>3. u[i] = t[i] /\ G[i] = F[i] /\ Q[i] = P[i] /\ G[i + 1] = F[i + 1] /\ Q[i + 1] = P[i + 1]
    BY <1>5, <1>7, <2>1
  <2>4. \A j \in 1 .. i - 1 : t[j] = u[j]
    BY <1>1, <1>7, <2>1
  <2>5. Fits(u, i - 1, F[i], P[i], t[i])
    BY <2>1, <2>2, <2>4, FitsBefore DEF LineOK
  <2> QED
    BY <2>2, <2>3, <2>5 DEF LineOK
<1>9. LineOK(u, G, Q, n + 1)
  <2>1. \A j \in 1 .. n : t[j] = u[j]
    BY <1>7
  <2>2. Fits(u, n, F[n + 1], P[n + 1], l)
    BY <1>1, <2>1, FitsBefore DEF n
  <2>3. n + 1 \in Nat /\ n + 1 <= n + 1 /\ n + 1 - 1 = n /\ n + 1 + 1 = n + 2
    BY <1>1
  <2>4. G[n + 1] = F[n + 1] /\ Q[n + 1] = P[n + 1]
    BY <1>5, <2>3
  <2> QED
    BY <1>1, <1>4, <1>6, <2>2, <2>3, <2>4 DEF LineOK
<1>10. G[1] = 0 /\ Q[1] = 0
  <2>1. 1 \in Nat /\ 1 <= n + 1
    BY <1>1
  <2> QED
    BY <1>5, <2>1 DEF TextOK
<1>11. \A i \in 1 .. Len(u) : LineOK(u, G, Q, i)
  BY <1>1, <1>6, <1>8, <1>9
<1>12. TextOK(u, G, Q)
  BY <1>3, <1>6, <1>10, <1>11 DEF TextOK
<1> QED
  BY <1>4, <1>12 DEF n, u

\* What a kill leaves of a text is a text.
LEMMA CutOK ==
  ASSUME NEW t, NEW F, NEW P, TextOK(t, F, P), NEW l \in 0 .. Len(t)
  PROVE  TextOK(SubSeq(t, 1, l), F, P)
<1> DEFINE u == SubSeq(t, 1, l)
<1>1. t \in Seq(Lines) /\ l \in Nat /\ Len(t) \in Nat
  BY DEF TextOK
<1>2. u \in Seq(Lines) /\ Len(u) = l /\ \A j \in 1 .. l : u[j] = t[j]
  BY <1>1
<1> HIDE DEF u
<1>3. ASSUME NEW i \in 1 .. l PROVE LineOK(u, F, P, i)
  <2>1. LineOK(t, F, P, i) /\ i - 1 \in Nat
    BY <1>1 DEF TextOK
  <2>2. u[i] = t[i] /\ \A j \in 1 .. i - 1 : t[j] = u[j]
    BY <1>1, <1>2
  <2> QED
    BY <2>1, <2>2, FitsBefore DEF LineOK
<1> QED
  BY <1>1, <1>2, <1>3 DEF TextOK, u

\* Each line of a text fits the lines before it.
LEMMA LineFits ==
  ASSUME NEW t, NEW F, NEW P, TextOK(t, F, P), NEW i \in 1 .. Len(t)
  PROVE  /\ Fits(t, i - 1, F[i], P[i], t[i]) /\ i \in Nat /\ i - 1 \in Nat /\ t[i] \in Lines
         /\ F[i + 1] = NextFb(F[i], t[i]) /\ P[i + 1] = NextProg(P[i], t[i])
         /\ 1 .. i - 1 \subseteq 1 .. Len(t)
<1>1. LineOK(t, F, P, i) /\ t \in Seq(Lines)
  BY DEF TextOK
<1>2. i \in Nat /\ i - 1 \in Nat /\ t[i] \in Lines /\ 1 .. i - 1 \subseteq 1 .. Len(t)
  BY <1>1
<1> QED
  BY <1>1, <1>2 DEF LineOK

-----------------------------------------------------------------------------
(* The application and its recorder.                                       *)

Stages == {"app", "finish", "fini", "gone", "replay", "done"}

DriverTypes ==
  /\ object \in [Kinds -> [Names -> 0 .. MaxObjs]] /\ made \in 0 .. MaxObjs
  /\ fb \in 0 .. MaxObjs /\ prog \in 0 .. MaxObjs /\ curFb \in Names \cup {None}

FileTypes ==
  /\ stage \in Stages /\ rec \in BOOLEAN /\ frames \in 0 .. MaxFrames /\ mix \in Mixes
  /\ text \in Seq(Lines) /\ Len(text) <= MaxLines + 1
  /\ boff \in 0 .. MaxData
  /\ disk \in [lines : Nat, data : Nat] /\ disk.lines <= Len(text) /\ disk.data <= boff

Recording == rec /\ stage \in {"app", "finish", "fini"}

\* The objects that exist were made and not deleted.
Known ==
  \A k \in Kinds, n \in Names : object[k][n] # 0 =>
    /\ \E g \in 1 .. Len(text) : IsGen(text[g], k, n, object[k][n])
    /\ \A d \in 1 .. Len(text) : ~IsDel(text[d], k, object[k][n])
Newest == \A g \in 1 .. Len(text) : text[g].op = "gen" => text[g].means[1] <= made

\* curFb is no name as long as no framebuffer is bound, unless one was deleted bound.
Marked == (\A d \in 1 .. Len(text) : ~IsBoundDel(text[d])) => (fb = 0 <=> curFb = None)

DriverInv == Recording => Known /\ Newest /\ Marked

\* The text tells what is bound and in use now.
Current(F, P) == Recording => F[Len(text) + 1] = fb /\ P[Len(text) + 1] = prog
TextInv(F, P) == TextOK(text, F, P) /\ Current(F, P)
Told == \E F, P : TextInv(F, P)

\* END is printed once, by finish(), and then both files are written.
EndInv ==
  /\ Recording /\ stage = "app" =>
       /\ Len(text) <= MaxLines
       /\ \A i \in 1 .. Len(text) : text[i].op # "end"
       /\ Len(text) > 0 => text[Len(text)].op # "frame"
  /\ stage \in {"finish", "fini"} => rec
  /\ stage \in {"finish", "fini"} \/ ~rec => Len(text) > 0 /\ text[Len(text)].op = "end"
  /\ ~rec => disk = [lines |-> Len(text), data |-> boff]

DataInv ==
  Recording \/ ~rec =>
    \A i \in 1 .. Len(text) : text[i].op = "data" => text[i].off + text[i].len <= boff

CountInv == Recording \/ ~rec => Cardinality(LinesOf("frame")) = frames

RecordInv == DriverTypes /\ FileTypes /\ DriverInv /\ Told /\ EndInv /\ DataInv /\ CountInv

\* An empty text tells of an application that has done nothing.
LEMMA RecordStarts == RecordInit => RecordInv
<1> SUFFICES ASSUME RecordInit PROVE RecordInv
  OBVIOUS
<1> USE GlRecordAssumption DEF RecordInit
<1>1. text = <<>> /\ Len(text) = 0 /\ text \in Seq(Lines)
  OBVIOUS
<1>2. DriverTypes /\ FileTypes
  BY <1>1 DEF DriverTypes, FileTypes, Stages
<1>3. DriverInv
  BY <1>1 DEF DriverInv, Known, Newest, Marked
<1>4. Told
  <2> DEFINE Z == [i \in Nat |-> 0]
  <2>1. Z \in [Nat -> Int] /\ Z[1] = 0
    OBVIOUS
  <2> HIDE DEF Z
  <2>2. TextInv(Z, Z)
    BY <1>1, <2>1 DEF TextInv, TextOK, Current
  <2> QED
    BY <2>2 DEF Told
<1>5. EndInv /\ DataInv
  BY <1>1 DEF EndInv, DataInv
<1>6. LinesOf("frame") = {}
  BY <1>1 DEF LinesOf
<1>7. CountInv
  BY <1>6, FS_EmptySet DEF CountInv
<1> QED
  BY <1>2, <1>3, <1>4, <1>5, <1>7 DEF RecordInv

\* A text that is one line longer.
LEMMA Longer ==
  ASSUME NEW t \in Seq(Lines), NEW l \in Lines
  PROVE  /\ Append(t, l) \in Seq(Lines) /\ Len(Append(t, l)) = Len(t) + 1
         /\ Append(t, l)[Len(t) + 1] = l
         /\ \A i \in 1 .. Len(t) : Append(t, l)[i] = t[i]
OBVIOUS

\* A text has so many lines of a kind.
LEMMA FramesFinite ==
  ASSUME text \in Seq(Lines), NEW op
  PROVE  IsFiniteSet(LinesOf(op)) /\ Cardinality(LinesOf(op)) \in Nat
<1>1. IsFiniteSet(1 .. Len(text))
  BY FS_Interval
<1>2. LinesOf(op) \subseteq 1 .. Len(text)
  BY DEF LinesOf
<1> QED
  BY <1>1, <1>2, FS_Subset, FS_CardinalityType

\* A line that is added is one more of its kind.
LEMMA LinesGrow ==
  ASSUME text \in Seq(Lines), NEW l \in Lines, text' = Append(text, l), NEW op
  PROVE  LinesOf(op)' = IF l.op = op THEN LinesOf(op) \cup {Len(text) + 1} ELSE LinesOf(op)
<1>1. DOMAIN text = 1 .. Len(text) /\ DOMAIN text' = 1 .. Len(text) + 1 /\ Len(text) \in Nat
  BY Longer
<1>2. text'[Len(text) + 1] = l /\ \A i \in 1 .. Len(text) : text'[i] = text[i]
  BY Longer
<1> QED
  BY <1>1, <1>2 DEF LinesOf

-----------------------------------------------------------------------------
(* A call prints one line while it is recorded.                            *)

Prints(l) ==
  /\ rec /\ stage = "app" /\ l \in Lines /\ l.op \notin {"frame", "end"}
  /\ text' = Append(text, l) /\ Len(text) < MaxLines
  /\ Fits(text, Len(text), fb, prog, l)
  /\ fb' = NextFb(fb, l) /\ prog' = NextProg(prog, l)
  /\ DriverTypes' /\ DriverInv'
  /\ boff' \in boff .. MaxData
  /\ l.op = "data" => l.off + l.len <= boff'
  /\ UNCHANGED <<stage, rec, frames, disk, mix>>

\* A call whose line may follow keeps the recording's invariant.
LEMMA PrintKeeps ==
  ASSUME RecordInv, NEW l, Prints(l)
  PROVE  RecordInv'
<1>0. /\ text \in Seq(Lines) /\ Len(text) \in Nat /\ l \in Lines /\ Recording /\ Recording'
      /\ MaxLines \in Nat /\ boff \in Nat /\ boff' \in Nat /\ MaxData \in Nat
  BY GlRecordAssumption DEF RecordInv, FileTypes, Prints, Recording
<1>1. /\ text' \in Seq(Lines) /\ Len(text') = Len(text) + 1 /\ text'[Len(text) + 1] = l
      /\ \A i \in 1 .. Len(text) : text'[i] = text[i]
  BY <1>0, Longer DEF Prints
<1>2. DriverTypes' /\ DriverInv'
  BY DEF Prints
<1>3. FileTypes'
  BY <1>0, <1>1 DEF RecordInv, FileTypes, Prints, EndInv
<1>4. Told'
  <2>1. PICK F, P : TextInv(F, P)
    BY DEF RecordInv, Told
  <2>2. TextOK(text, F, P) /\ F[Len(text) + 1] = fb /\ P[Len(text) + 1] = prog
    BY <1>0, <2>1 DEF TextInv, Current
  <2>3. Fits(text, Len(text), F[Len(text) + 1], P[Len(text) + 1], l)
    BY <2>2 DEF Prints
  <2>4. PICK G, Q : /\ TextOK(Append(text, l), G, Q)
                    /\ G[Len(text) + 2] = NextFb(F[Len(text) + 1], l)
                    /\ Q[Len(text) + 2] = NextProg(P[Len(text) + 1], l)
    BY <1>0, <2>2, <2>3, AddedOK
  <2>5. TextOK(text', G, Q)
    BY <2>4 DEF Prints
  <2>6. Len(text') + 1 = Len(text) + 2
    BY <1>0, <1>1
  <2>7. G[Len(text') + 1] = fb' /\ Q[Len(text') + 1] = prog'
    BY <2>2, <2>4, <2>6 DEF Prints
  <2>8. TextInv(G, Q)'
    BY <2>5, <2>7 DEF TextInv, Current
  <2> QED
    BY <2>8 DEF Told
<1>5. EndInv'
  BY <1>0, <1>1 DEF RecordInv, EndInv, Prints
<1>6. DataInv'
  <2>1. \A i \in 1 .. Len(text) : text[i].op = "data" => text[i].off + text[i].len <= boff
    BY <1>0 DEF RecordInv, DataInv
  <2>2. \A i \in 1 .. Len(text) : text[i].off \in Int /\ text[i].len \in Int
    <3>1. \A i \in 1 .. Len(text) : text[i] \in Lines
      BY <1>0
    <3> QED
      BY <3>1, Fields
  <2>3. boff <= boff' /\ (l.op = "data" => l.off + l.len <= boff')
    BY <1>0 DEF Prints
  <2>4. ASSUME NEW i \in 1 .. Len(text'), text'[i].op = "data"
        PROVE  text'[i].off + text'[i].len <= boff'
    <3>1. CASE i \in 1 .. Len(text)
      BY <1>0, <1>1, <2>1, <2>2, <2>3, <2>4, <3>1
    <3>2. CASE i = Len(text) + 1
      BY <1>1, <2>3, <2>4, <3>2
    <3> QED
      BY <1>0, <1>1, <3>1, <3>2
  <2> QED
    BY <2>4 DEF DataInv
<1>7. CountInv'
  <2>1. l.op # "frame" /\ text' = Append(text, l) /\ frames' = frames
    BY DEF Prints
  <2>2. LinesOf("frame")' = LinesOf("frame")
    BY <1>0, <2>1, LinesGrow
  <2> QED
    BY <1>0, <2>1, <2>2 DEF RecordInv, CountInv
<1> QED
  BY <1>2, <1>3, <1>4, <1>5, <1>6, <1>7 DEF RecordInv

\* A line made of fields has them.
LEMMA LineTyped ==
  ASSUME NEW op \in Ops, NEW kind \in Kinds, NEW name \in Names \cup {None}, NEW loc \in Nat,
         NEW off \in Int, NEW len \in Nat, NEW o \in Int, NEW x \in Int
  PROVE  LET l == Line(op, kind, name, loc, off, len, <<o, x>>) IN
         /\ l \in Lines
         /\ l.op = op /\ l.kind = kind /\ l.name = name /\ l.loc = loc /\ l.off = off /\ l.len = len
         /\ l.means = <<o, x>> /\ l.means[1] = o /\ l.means[2] = x
BY DEF Line, Lines

\* What holds while a call is recorded.
LEMMA Started ==
  ASSUME RecordInv, rec, stage = "app"
  PROVE  /\ Recording /\ Known /\ Newest /\ Marked
         /\ text \in Seq(Lines) /\ Len(text) \in Nat /\ \A i \in 1 .. Len(text) : text[i] \in Lines
         /\ FitsEnd(text, Len(text))
         /\ Len(text) > 0 => text[Len(text)].op # "frame"
         /\ DriverTypes /\ mix.kinds \subseteq Kinds /\ {"fb", "prog"} \subseteq Kinds
         /\ fb \in Int /\ prog \in Int /\ made \in Int
         /\ \A k \in Kinds, n \in Names : object[k][n] \in 0 .. MaxObjs
         /\ boff \in 0 .. MaxData /\ Unis \subseteq Nat
         /\ stage \in Stages
<1>1. Recording
  BY DEF Recording
<1>2. DriverTypes /\ FileTypes /\ DriverInv /\ EndInv
  BY DEF RecordInv
<1>3. Known /\ Newest /\ Marked
  BY <1>1, <1>2 DEF DriverInv
<1>4. FitsEnd(text, Len(text)) /\ (Len(text) > 0 => text[Len(text)].op # "frame")
  BY <1>1, <1>2 DEF EndInv, FitsEnd
<1>5. mix.kinds \subseteq Kinds /\ Unis \subseteq Nat
  BY <1>2, GlRecordAssumption DEF FileTypes
<1>6. text \in Seq(Lines) /\ Len(text) \in Nat /\ boff \in 0 .. MaxData /\ stage \in Stages
  BY <1>2 DEF FileTypes
<1>7. \A i \in 1 .. Len(text) : text[i] \in Lines
  BY <1>6
<1>8. /\ fb \in Int /\ prog \in Int /\ made \in Int
      /\ \A k \in Kinds, n \in Names : object[k][n] \in 0 .. MaxObjs
  BY <1>2, GlRecordAssumption DEF DriverTypes
<1> QED
  BY <1>1, <1>2, <1>3, <1>4, <1>5, <1>6, <1>7, <1>8, GlRecordAssumption

\* A line that makes and deletes nothing leaves what is known of the objects.
LEMMA KnownStays ==
  ASSUME RecordInv, rec, stage = "app", NEW l \in Lines, l.op \notin {"gen", "del"},
         text' = Append(text, l), UNCHANGED <<object, made>>
  PROVE  Known' /\ Newest'
<1>1. /\ Len(text') = Len(text) + 1 /\ Len(text) \in Nat /\ text'[Len(text) + 1] = l
      /\ \A i \in 1 .. Len(text) : text'[i] = text[i]
  BY Started, Longer
<1>2. Known /\ Newest
  BY Started
<1>3. ASSUME NEW i \in 1 .. Len(text')
      PROVE  i \in 1 .. Len(text) \/ text'[i] = l
  BY <1>1
<1>4. 1 .. Len(text) \subseteq 1 .. Len(text')
  BY <1>1
<1>5. Known'
  BY <1>1, <1>2, <1>3, <1>4 DEF Known, IsGen, IsDel
<1>6. Newest'
  BY <1>1, <1>2, <1>3 DEF Newest
<1> QED
  BY <1>5, <1>6

\* curFb still tells whether a framebuffer is bound.
LEMMA MarkedStays ==
  ASSUME RecordInv, rec, stage = "app", NEW l \in Lines,
         text' = Append(text, l), ~IsBoundDel(l) => ((fb = 0 <=> curFb = None) => (fb' = 0 <=> curFb' = None))
  PROVE  Marked'
<1>1. /\ Len(text') = Len(text) + 1 /\ Len(text) \in Nat /\ text'[Len(text) + 1] = l
      /\ \A i \in 1 .. Len(text) : text'[i] = text[i]
  BY Started, Longer
<1>2. Marked
  BY Started
<1>3. 1 .. Len(text) \subseteq 1 .. Len(text') /\ Len(text) + 1 \in 1 .. Len(text')
  BY <1>1
<1> QED
  BY <1>1, <1>2, <1>3 DEF Marked

\* The calls that make, delete and bind nothing print a line that fits.
LEMMA PlainPrints ==
  ASSUME RecordInv, rec, stage = "app", NEW l \in Lines,
         l.op \in {"getuni", "uni", "data", "draw", "clear"},
         R(l), FitsBinding(fb, prog, l), FitsName(text, Len(text), l),
         FitsUniform(text, Len(text), l), FitsData(l), FitsMark(text, Len(text), l),
         boff' \in boff .. MaxData, l.op = "data" => l.off + l.len <= boff',
         UNCHANGED <<stage, driverVars, rec, frames, curFb, disk, mix>>
  PROVE  Prints(l)
<1>1. text' = Append(text, l) /\ Len(text) < MaxLines /\ UNCHANGED <<object, made, fb, prog>>
  BY DEF R, Room, driverVars
<1>2. Known' /\ Newest' /\ Marked'
  BY <1>1, KnownStays, MarkedStays
<1>3. DriverTypes' /\ DriverInv'
  BY <1>1, <1>2, Started DEF DriverTypes, DriverInv
<1>4. Fits(text, Len(text), fb, prog, l)
  BY Started DEF Fits, FitsGen
<1>5. fb' = NextFb(fb, l) /\ prog' = NextProg(prog, l)
  BY <1>1 DEF NextFb, NextProg
<1> QED
  BY <1>1, <1>3, <1>4, <1>5 DEF Prints

\* The location of a uniform is asked for in a program that exists.
LEMMA GetUniformPrints ==
  ASSUME RecordInv, rec, NEW n \in Names, NEW u \in Unis, glGetUniformLocation(n, u), UNCHANGED mix
  PROVE  \E l : Prints(l)
<1> DEFINE l == Line("getuni", "prog", n, u, -1, 0, <<object["prog"][n], u>>)
<1>1. stage = "app" /\ object["prog"][n] # 0 /\ R(l)
  BY DEF glGetUniformLocation
<1>2. /\ l \in Lines /\ l.op = "getuni" /\ l.kind = "prog" /\ l.name = n /\ l.loc = u
      /\ l.means[1] = object["prog"][n] /\ l.means[2] = u
  <2>1. object["prog"][n] \in Int /\ u \in Nat /\ "prog" \in Kinds
    BY <1>1, Started
  <2>2. "getuni" \in Ops /\ n \in Names \cup {None} /\ -1 \in Int /\ 0 \in Nat
    BY DEF Ops
  <2> QED
    BY <2>1, <2>2, LineTyped
<1> HIDE DEF l
<1>3. FitsName(text, Len(text), l)
  BY <1>1, <1>2, Started DEF FitsName, Known
<1>4. FitsBinding(fb, prog, l) /\ FitsUniform(text, Len(text), l) /\ FitsData(l)
      /\ FitsMark(text, Len(text), l)
  BY <1>2 DEF FitsBinding, FitsUniform, FitsData, FitsMark
<1>5. boff' \in boff .. MaxData /\ UNCHANGED <<stage, driverVars, rec, frames, curFb, disk, mix>>
  BY <1>1, Started, GlRecordAssumption DEF glGetUniformLocation
<1>6. Prints(l)
  BY <1>1, <1>2, <1>3, <1>4, <1>5, PlainPrints
<1> QED
  BY <1>6

\* A uniform is set in the program in use.
LEMMA UniformPrints ==
  ASSUME RecordInv, rec, NEW u \in Unis, Uniform(u), UNCHANGED mix
  PROVE  \E l : Prints(l)
<1> DEFINE l == Line("uni", "prog", None, u, -1, 0, <<prog, u>>)
<1>1. /\ stage = "app" /\ prog # 0 /\ R(l)
      /\ \E i \in 1 .. Len(text) : text[i].op = "getuni" /\ text[i].means = <<prog, u>>
  BY DEF Uniform
<1>2. /\ l \in Lines /\ l.op = "uni" /\ l.loc = u /\ l.means = <<prog, u>>
      /\ l.means[1] = prog /\ l.means[2] = u
  <2>1. prog \in Int /\ u \in Nat /\ u \in Int /\ "prog" \in Kinds
    BY <1>1, Started
  <2>2. "uni" \in Ops /\ None \in Names \cup {None} /\ -1 \in Int /\ 0 \in Nat
    BY DEF Ops
  <2> QED
    BY <2>1, <2>2, LineTyped
<1> HIDE DEF l
<1>3. FitsUniform(text, Len(text), l)
  BY <1>1, <1>2 DEF FitsUniform
<1>4. FitsBinding(fb, prog, l) /\ FitsName(text, Len(text), l) /\ FitsData(l)
      /\ FitsMark(text, Len(text), l)
  BY <1>2 DEF FitsBinding, FitsName, FitsData, FitsMark
<1>5. boff' \in boff .. MaxData /\ UNCHANGED <<stage, driverVars, rec, frames, curFb, disk, mix>>
  BY <1>1, Started, GlRecordAssumption DEF Uniform
<1>6. Prints(l)
  BY <1>1, <1>2, <1>3, <1>4, <1>5, PlainPrints
<1> QED
  BY <1>6

\* Data lies after all the data before it.
LEMMA DataPrints ==
  ASSUME RecordInv, rec, NEW len \in 0 .. MaxData, Data(len), UNCHANGED mix
  PROVE  \E l : Prints(l)
<1>2. PICK off : off = IF len = 0 THEN -1 ELSE boff
  OBVIOUS
<1>3. PICK l : l = Line("data", "fb", None, 0, off, len, <<off, len>>)
  OBVIOUS
<1>4. stage = "app" /\ boff + len <= MaxData /\ boff' = boff + len /\ R(l)
  BY <1>2, <1>3 DEF Data
<1>0. len \in Nat /\ len \in Int /\ MaxData \in Nat /\ boff \in 0 .. MaxData
  BY <1>4, Started, GlRecordAssumption
<1>1. off \in Int /\ ((off = -1 /\ len = 0) \/ (off >= 0 /\ len > 0)) /\ off + len <= boff'
  BY <1>0, <1>2, <1>4
<1>5. l \in Lines /\ l.op = "data" /\ l.off = off /\ l.len = len /\ l.means = <<off, len>>
  <2>1. "fb" \in Kinds
    BY <1>4, Started
  <2>2. "data" \in Ops /\ None \in Names \cup {None} /\ 0 \in Nat
    BY DEF Ops
  <2> QED
    BY <1>0, <1>1, <1>3, <2>1, <2>2, LineTyped
<1>6. FitsData(l)
  BY <1>1, <1>5 DEF FitsData
<1>7. FitsBinding(fb, prog, l) /\ FitsName(text, Len(text), l) /\ FitsUniform(text, Len(text), l)
      /\ FitsMark(text, Len(text), l)
  BY <1>5 DEF FitsBinding, FitsName, FitsUniform, FitsMark
<1>8. /\ boff' \in boff .. MaxData /\ l.off + l.len <= boff'
      /\ UNCHANGED <<stage, driverVars, rec, frames, curFb, disk, mix>>
  BY <1>0, <1>1, <1>4, <1>5 DEF Data
<1>9. Prints(l)
  BY <1>4, <1>5, <1>6, <1>7, <1>8, PlainPrints
<1> QED
  BY <1>9

\* A line that names no object.
LEMMA PlainLine ==
  ASSUME RecordInv, rec, stage = "app", NEW op \in Ops, NEW f \in Int, NEW p \in Int
  PROVE  /\ Plain(op, <<f, p>>) \in Lines /\ Plain(op, <<f, p>>).op = op
         /\ Plain(op, <<f, p>>).means = <<f, p>> /\ Plain(op, <<f, p>>).means[1] = f
<1>1. "fb" \in Kinds /\ None \in Names \cup {None} /\ 0 \in Nat /\ -1 \in Int
  BY Started
<1> QED
  BY <1>1, LineTyped DEF Plain

\* A clear that begins no frame is one of a framebuffer, unless a bound one was deleted.
LEMMA PlainOK ==
  ASSUME RecordInv, rec, stage = "app", NEW op \in {"draw", "clear"}, R(Plain(op, <<fb, prog>>)),
         op = "clear" => curFb # None,
         UNCHANGED <<stage, driverVars, rec, frames, curFb, boff, disk, mix>>
  PROVE  \E l : Prints(l)
<1> DEFINE l == Plain(op, <<fb, prog>>)
<1>1. l \in Lines /\ l.op = op /\ l.means = <<fb, prog>> /\ l.means[1] = fb
  <2>1. op \in Ops /\ fb \in Int /\ prog \in Int
    BY Started DEF Ops
  <2> QED
    BY <2>1, PlainLine
<1>2. R(l)
  OBVIOUS
<1> HIDE DEF l
<1>3. FitsMark(text, Len(text), l)
  BY <1>1, Started DEF FitsMark, Marked
<1>4. FitsBinding(fb, prog, l) /\ FitsName(text, Len(text), l) /\ FitsUniform(text, Len(text), l)
      /\ FitsData(l)
  BY <1>1 DEF FitsBinding, FitsName, FitsUniform, FitsData
<1>5. boff' \in boff .. MaxData
  BY Started, GlRecordAssumption
<1>6. Prints(l)
  BY <1>1, <1>2, <1>3, <1>4, <1>5, PlainPrints
<1> QED
  BY <1>6

\* An object that is made has the next number and a name that was free.
LEMMA GenPrints ==
  ASSUME RecordInv, rec, NEW k \in Kinds, Gen(k), UNCHANGED mix
  PROVE  \E l : Prints(l)
<1>0. stage = "app" /\ made < MaxObjs /\ made' = made + 1
  BY DEF Gen
<1>1. PICK n \in Names : /\ object[k][n] = 0 /\ object' = [object EXCEPT ![k][n] = made + 1]
                         /\ R(Named("gen", k, n, <<made + 1, 0>>))
  BY DEF Gen
<1>2. PICK l : l = Named("gen", k, n, <<made + 1, 0>>)
  OBVIOUS
<1>3. /\ made \in 0 .. MaxObjs /\ made + 1 \in Objs /\ made' \in 0 .. MaxObjs /\ MaxObjs \in Nat
      /\ made + 1 \in 0 .. MaxObjs /\ made + 1 # 0
  <2>1. made \in 0 .. MaxObjs /\ MaxObjs \in Nat
    BY <1>0, Started, GlRecordAssumption DEF DriverTypes
  <2>2. made + 1 \in 1 .. MaxObjs
    BY <1>0, <2>1
  <2> QED
    BY <1>0, <2>1, <2>2 DEF Objs
<1>4. l \in Lines /\ l.op = "gen" /\ l.kind = k /\ l.name = n /\ l.means[1] = made + 1
  <2>1. "gen" \in Ops /\ n \in Names \cup {None} /\ 0 \in Nat /\ 0 \in Int /\ -1 \in Int
    BY DEF Ops
  <2>2. PICK o \in Int : o = made + 1
    BY <1>3
  <2>3. l = Line("gen", k, n, 0, -1, 0, <<o, 0>>)
    BY <1>2, <2>2 DEF Named
  <2>4. /\ Line("gen", k, n, 0, -1, 0, <<o, 0>>) \in Lines
        /\ Line("gen", k, n, 0, -1, 0, <<o, 0>>).op = "gen"
        /\ Line("gen", k, n, 0, -1, 0, <<o, 0>>).kind = k
        /\ Line("gen", k, n, 0, -1, 0, <<o, 0>>).name = n
        /\ Line("gen", k, n, 0, -1, 0, <<o, 0>>).means[1] = o
    BY <2>1, LineTyped
  <2> QED
    BY <2>2, <2>3, <2>4
<1>5. text' = Append(text, l) /\ Len(text) < MaxLines
  BY <1>1, <1>2 DEF R, Room
<1>6. /\ text \in Seq(Lines) /\ Len(text) \in Nat /\ \A i \in 1 .. Len(text) : text[i] \in Lines
      /\ Known /\ Newest
  BY <1>0, Started
<1>7. /\ Len(text') = Len(text) + 1 /\ text'[Len(text) + 1] = l
      /\ \A i \in 1 .. Len(text) : text'[i] = text[i]
      /\ 1 .. Len(text) \subseteq 1 .. Len(text') /\ Len(text) + 1 \in 1 .. Len(text')
      /\ \A i \in 1 .. Len(text') : i \in 1 .. Len(text) \/ text'[i] = l
  BY <1>4, <1>5, <1>6, Longer
<1>8. \A i \in 1 .. Len(text) : text[i].means[1] \in Int
  BY <1>6, Fields
<1>9. DriverTypes'
  <2>1. object' \in [Kinds -> [Names -> 0 .. MaxObjs]]
    BY <1>0, <1>1, <1>3, Started DEF DriverTypes
  <2> QED
    BY <1>0, <1>3, <2>1, Started DEF DriverTypes, Gen
<1>10. FitsGen(text, Len(text), l)
  BY <1>3, <1>4, <1>6, <1>8 DEF FitsGen, Newest
<1>11. Fits(text, Len(text), fb, prog, l)
  BY <1>0, <1>4, <1>10, Started
     DEF Fits, FitsBinding, FitsName, FitsUniform, FitsData, FitsMark
<1>12. \A d \in 1 .. Len(text), j \in Kinds : text[d].op = "del" => text[d].means[1] # made + 1
  <2> SUFFICES ASSUME NEW d \in 1 .. Len(text), text[d].op = "del" PROVE text[d].means[1] # made + 1
    OBVIOUS
  <2>1. PICK F, P : TextOK(text, F, P)
    BY DEF RecordInv, Told, TextInv
  <2>2. FitsName(text, d - 1, text[d]) /\ d - 1 \in Int
    BY <2>1, LineFits DEF Fits
  <2>3. PICK g \in 1 .. d - 1 : text[g].op = "gen" /\ text[g].means[1] = text[d].means[1]
    BY <2>2 DEF FitsName, IsGen
  <2>4. g \in 1 .. Len(text)
    BY <1>6
  <2> QED
    BY <1>3, <1>6, <1>8, <2>3, <2>4 DEF Newest
<1>13. Known'
  <2> SUFFICES ASSUME NEW j \in Kinds, NEW x \in Names, object'[j][x] # 0
               PROVE  /\ \E g \in 1 .. Len(text') : IsGen(text'[g], j, x, object'[j][x])
                      /\ \A d \in 1 .. Len(text') : ~IsDel(text'[d], j, object'[j][x])
    BY DEF Known
  <2>0. object \in [Kinds -> [Names -> 0 .. MaxObjs]]
    BY <1>0, Started DEF DriverTypes
  <2>1. CASE j = k /\ x = n
    <3>1. object'[j][x] = made + 1
      BY <1>1, <2>0, <2>1
    <3> QED
      BY <1>4, <1>7, <1>12, <2>1, <3>1 DEF IsGen, IsDel
  <2>2. CASE ~(j = k /\ x = n)
    <3>1. object'[j][x] = object[j][x]
      BY <1>1, <2>0, <2>2
    <3> QED
      BY <1>4, <1>6, <1>7, <3>1 DEF Known, IsGen, IsDel
  <2> QED
    BY <2>1, <2>2
<1>14. Newest'
  <2> SUFFICES ASSUME NEW i \in 1 .. Len(text'), text'[i].op = "gen"
               PROVE  text'[i].means[1] <= made'
    BY DEF Newest
  <2>1. CASE i \in 1 .. Len(text)
    BY <1>0, <1>3, <1>6, <1>7, <1>8, <2>1 DEF Newest
  <2>2. CASE text'[i] = l
    BY <1>0, <1>3, <1>4, <2>2
  <2> QED
    BY <1>7, <2>1, <2>2
<1>15. Marked'
  BY <1>0, <1>4, <1>5, MarkedStays DEF Gen
<1>16. DriverInv'
  BY <1>13, <1>14, <1>15 DEF DriverInv
<1>17. boff' \in boff .. MaxData /\ UNCHANGED <<stage, rec, frames, disk, mix, fb, prog>>
  BY <1>0, Started, GlRecordAssumption DEF Gen
<1>18. fb' = NextFb(fb, l) /\ prog' = NextProg(prog, l)
  BY <1>4, <1>17 DEF NextFb, NextProg
<1>19. Prints(l)
  BY <1>0, <1>4, <1>5, <1>9, <1>11, <1>16, <1>17, <1>18 DEF Prints
<1> QED
  BY <1>19

\* Objects have one name each.
LEMMA OneName ==
  ASSUME RecordInv, rec, stage = "app", NEW k \in Kinds, NEW n \in Names, NEW x \in Names,
         object[k][n] # 0, object[k][n] = object[k][x]
  PROVE  n = x
<1>1. Known /\ \A i \in 1 .. Len(text) : text[i] \in Lines
  BY Started
<1>2. PICK g \in 1 .. Len(text), h \in 1 .. Len(text) :
        IsGen(text[g], k, n, object[k][n]) /\ IsGen(text[h], k, x, object[k][n])
  BY <1>1 DEF Known
<1>3. PICK F, P : TextOK(text, F, P)
  BY DEF RecordInv, Told, TextInv
<1>4. FitsGen(text, g - 1, text[g]) /\ FitsGen(text, h - 1, text[h])
  BY <1>3 DEF TextOK, LineOK, Fits
<1>5. text[g].means[1] \in Int /\ text[h].means[1] \in Int
  BY <1>1, Fields
<1>6. ~(g < h) /\ ~(h < g)
  BY <1>2, <1>4, <1>5 DEF FitsGen, IsGen
<1>7. g = h
  BY <1>6
<1> QED
  BY <1>2, <1>7 DEF IsGen

\* An object that is deleted was known by its name.
LEMMA DeletePrints ==
  ASSUME RecordInv, rec, NEW k \in Kinds, NEW n \in Names, Delete(k, n), UNCHANGED mix
  PROVE  \E l : Prints(l)
<1>1. PICK o : o = object[k][n]
  OBVIOUS
<1>0. /\ stage = "app" /\ o # 0 /\ object' = [object EXCEPT ![k][n] = 0]
      /\ fb' = (IF k = "fb" /\ o = fb THEN 0 ELSE fb)
      /\ UNCHANGED <<stage, made, prog, rec, frames, curFb, boff, disk>>
  BY <1>1 DEF Delete
<1>2. PICK l : l = Named("del", k, n, <<o, fb>>)
  OBVIOUS
<1>3. o \in 0 .. MaxObjs /\ o \in Int /\ fb \in Int /\ MaxObjs \in Nat
  BY <1>0, <1>1, Started, GlRecordAssumption
<1>4. l \in Lines /\ l.op = "del" /\ l.kind = k /\ l.name = n /\ l.means[1] = o /\ l.means[2] = fb
  <2>1. "del" \in Ops /\ n \in Names \cup {None} /\ 0 \in Nat /\ -1 \in Int
    BY DEF Ops
  <2> QED
    BY <1>2, <1>3, <2>1, LineTyped DEF Named
<1>5. text' = Append(text, l) /\ Len(text) < MaxLines
  BY <1>0, <1>1, <1>2 DEF R, Room, Delete
<1>6. /\ text \in Seq(Lines) /\ Len(text) \in Nat /\ Known /\ Newest
      /\ object \in [Kinds -> [Names -> 0 .. MaxObjs]]
  BY <1>0, Started DEF DriverTypes
<1>7. /\ Len(text') = Len(text) + 1 /\ text'[Len(text) + 1] = l
      /\ \A i \in 1 .. Len(text) : text'[i] = text[i]
      /\ 1 .. Len(text) \subseteq 1 .. Len(text') /\ Len(text) + 1 \in 1 .. Len(text')
      /\ \A i \in 1 .. Len(text') : i \in 1 .. Len(text) \/ text'[i] = l
  BY <1>4, <1>5, <1>6, Longer
<1>8. DriverTypes'
  <2>1. object' \in [Kinds -> [Names -> 0 .. MaxObjs]]
    BY <1>0, <1>3, <1>6
  <2> QED
    BY <1>0, <1>3, <2>1, Started DEF DriverTypes
<1>9. FitsName(text, Len(text), l)
  BY <1>0, <1>1, <1>4, <1>6 DEF FitsName, Known
<1>10. Fits(text, Len(text), fb, prog, l)
  BY <1>0, <1>4, <1>9, Started
     DEF Fits, FitsBinding, FitsGen, FitsUniform, FitsData, FitsMark
<1>11. Known'
  <2> SUFFICES ASSUME NEW j \in Kinds, NEW x \in Names, object'[j][x] # 0
               PROVE  /\ \E g \in 1 .. Len(text') : IsGen(text'[g], j, x, object'[j][x])
                      /\ \A d \in 1 .. Len(text') : ~IsDel(text'[d], j, object'[j][x])
    BY DEF Known
  <2>1. ~(j = k /\ x = n) /\ object'[j][x] = object[j][x]
    BY <1>0, <1>6
  <2>2. j = k => object[j][x] # o
    BY <1>0, <1>1, <2>1, OneName
  <2>3. ~IsDel(l, j, object[j][x])
    BY <1>4, <2>2 DEF IsDel
  <2>4. /\ \E g \in 1 .. Len(text) : IsGen(text[g], j, x, object[j][x])
        /\ \A d \in 1 .. Len(text) : ~IsDel(text[d], j, object[j][x])
    BY <1>6, <2>1 DEF Known
  <2> QED
    BY <1>7, <2>1, <2>3, <2>4
<1>12. Newest'
  BY <1>0, <1>4, <1>6, <1>7 DEF Newest
<1>13. Marked'
  <2>1. ~IsBoundDel(l) => fb' = fb
    BY <1>0, <1>4 DEF IsBoundDel
  <2> QED
    BY <1>0, <1>4, <1>5, <2>1, MarkedStays
<1>14. DriverInv'
  BY <1>11, <1>12, <1>13 DEF DriverInv
<1>15. boff' \in boff .. MaxData
  BY <1>0, Started, GlRecordAssumption
<1>16. fb' = NextFb(fb, l) /\ prog' = NextProg(prog, l)
  BY <1>0, <1>4 DEF NextFb, NextProg
<1>17. Prints(l)
  BY <1>0, <1>4, <1>5, <1>8, <1>10, <1>14, <1>15, <1>16 DEF Prints
<1> QED
  BY <1>17

\* An object that is bound is known by its name.
LEMMA UsePrints ==
  ASSUME RecordInv, rec, NEW k \in Kinds, NEW n \in Names \cup {None}, Use(k, n), UNCHANGED mix
  PROVE  \E l : Prints(l)
<1>1. PICK o : o = ObjectOf(k, n)
  OBVIOUS
<1>2. PICK l : l = Named("use", k, n, <<o, 0>>)
  OBVIOUS
<1>0. /\ stage = "app" /\ (n # None => object[k][n] # 0)
      /\ fb' = (IF k = "fb" THEN o ELSE fb) /\ curFb' = (IF k = "fb" THEN n ELSE curFb)
      /\ prog' = (IF k = "prog" THEN o ELSE prog) /\ R(l)
      /\ UNCHANGED <<stage, object, made, rec, frames, boff, disk>>
  BY <1>1, <1>2 DEF Use, CurFb
<1>3. o \in 0 .. MaxObjs /\ o \in Int /\ MaxObjs \in Nat /\ (o = 0 <=> n = None)
  BY <1>0, <1>1, Started, GlRecordAssumption DEF ObjectOf
<1>4. /\ l \in Lines /\ l.op = "use" /\ l.kind = k /\ l.name = n
      /\ l.means[1] = o /\ l.means[2] = 0
  <2>1. "use" \in Ops /\ 0 \in Nat /\ 0 \in Int /\ -1 \in Int
    BY DEF Ops
  <2> QED
    BY <1>2, <1>3, <2>1, LineTyped DEF Named
<1>5. text' = Append(text, l) /\ Len(text) < MaxLines
  BY <1>0 DEF R, Room
<1>6. DriverTypes'
  BY <1>0, <1>3, Started DEF DriverTypes
<1>7. FitsName(text, Len(text), l)
  <2>1. CASE n = None
    BY <1>3, <1>4, <2>1 DEF FitsName
  <2>2. CASE n # None
    <3>1. n \in Names /\ object[k][n] = o /\ o # 0 /\ Known
      BY <1>0, <1>1, <1>3, <2>2, Started DEF ObjectOf
    <3> QED
      BY <1>4, <3>1 DEF FitsName, Known
  <2> QED
    BY <2>1, <2>2
<1>8. Fits(text, Len(text), fb, prog, l)
  BY <1>0, <1>4, <1>7, Started
     DEF Fits, FitsBinding, FitsGen, FitsUniform, FitsData, FitsMark
<1>9. Known' /\ Newest'
  BY <1>0, <1>4, <1>5, KnownStays
<1>10. Marked'
  BY <1>0, <1>3, <1>4, <1>5, MarkedStays
<1>11. DriverInv'
  BY <1>9, <1>10 DEF DriverInv
<1>12. boff' \in boff .. MaxData
  BY <1>0, Started, GlRecordAssumption
<1>13. fb' = NextFb(fb, l) /\ prog' = NextProg(prog, l)
  BY <1>0, <1>4 DEF NextFb, NextProg
<1>14. Prints(l)
  BY <1>0, <1>4, <1>5, <1>6, <1>8, <1>11, <1>12, <1>13 DEF Prints
<1> QED
  BY <1>14

-----------------------------------------------------------------------------
(* The other steps.                                                        *)

\* A clear that begins a frame prints two lines.
LEMMA FrameKeeps ==
  ASSUME RecordInv, rec, stage = "app", curFb = None, ~LastFrame, Len(text) + 1 < MaxLines,
         text' = text \o <<Plain("frame", <<0, 0>>), Plain("clear", <<fb, prog>>)>>,
         frames' = frames + 1,
         UNCHANGED <<stage, driverVars, rec, curFb, boff, disk, mix>>
  PROVE  RecordInv'
<1>1. PICK a, b : a = Plain("frame", <<0, 0>>) /\ b = Plain("clear", <<fb, prog>>)
  OBVIOUS
<1>2. /\ text \in Seq(Lines) /\ Len(text) \in Nat /\ Known /\ Newest /\ Marked /\ Recording
      /\ \A i \in 1 .. Len(text) : text[i] \in Lines
  BY Started
<1>3. a \in Lines /\ a.op = "frame"
  <2>1. "frame" \in Ops /\ 0 \in Int
    BY DEF Ops
  <2>2. Plain("frame", <<0, 0>>) \in Lines /\ Plain("frame", <<0, 0>>).op = "frame"
    BY <2>1, PlainLine
  <2> QED
    BY <1>1, <2>2
<1>4. b \in Lines /\ b.op = "clear" /\ b.means = <<fb, prog>> /\ b.means[1] = fb
  <2>1. "clear" \in Ops /\ fb \in Int /\ prog \in Int
    BY Started DEF Ops
  <2> QED
    BY <1>1, <2>1, PlainLine
<1>5. PICK t : t = Append(text, a)
  OBVIOUS
<1>6. t \in Seq(Lines) /\ Len(t) = Len(text) + 1 /\ t[Len(text) + 1] = a /\ \A i \in 1 .. Len(text) : t[i] = text[i]
  BY <1>2, <1>3, <1>5, Longer
<1>7. text' = Append(t, b)
  <2>1. text' = text \o <<a, b>>
    BY <1>1
  <2>2. text \o <<a, b>> = Append(Append(text, a), b)
    BY <1>2, <1>3, <1>4
  <2> QED
    BY <1>5, <2>1, <2>2
<1>8. /\ text' \in Seq(Lines) /\ Len(text') = Len(text) + 2 /\ text'[Len(text) + 2] = b
      /\ text'[Len(text) + 1] = a /\ \A i \in 1 .. Len(text) : text'[i] = text[i]
      /\ \A i \in 1 .. Len(text') : i \in 1 .. Len(text) \/ text'[i] = a \/ text'[i] = b
      /\ 1 .. Len(text) \subseteq 1 .. Len(text')
  <2>1. /\ text' \in Seq(Lines) /\ Len(text') = Len(t) + 1 /\ text'[Len(t) + 1] = b
        /\ \A i \in 1 .. Len(t) : text'[i] = t[i]
    <3>1. /\ Append(t, b) \in Seq(Lines) /\ Len(Append(t, b)) = Len(t) + 1
          /\ Append(t, b)[Len(t) + 1] = b
          /\ \A i \in 1 .. Len(t) : Append(t, b)[i] = t[i]
      BY <1>4, <1>6, Longer
    <3> QED
      BY <1>7, <3>1
  <2>2. Len(text') = Len(text) + 2 /\ text'[Len(text) + 2] = b
    BY <1>2, <1>6, <2>1
  <2>3. text'[Len(text) + 1] = a /\ \A i \in 1 .. Len(text) : text'[i] = text[i]
    BY <1>2, <1>6, <2>1
  <2>4. \A i \in 1 .. Len(text') : i \in 1 .. Len(text) \/ i = Len(text) + 1 \/ i = Len(text) + 2
    BY <1>2, <2>2
  <2> QED
    BY <1>2, <2>1, <2>2, <2>3, <2>4
<1>9. UNCHANGED <<object, made, fb, prog>>
  BY DEF driverVars
<1>10. DriverTypes'
  BY <1>9, Started DEF DriverTypes
<1>11. FileTypes'
  <2>1. FileTypes /\ MaxLines \in Nat /\ MaxFrames \in Nat
    BY GlRecordAssumption DEF RecordInv
  <2>2. frames' \in 0 .. MaxFrames
    BY <2>1 DEF FileTypes, LastFrame
  <2>3. Len(text') <= MaxLines + 1 /\ disk'.lines <= Len(text')
    BY <1>2, <1>8, <2>1 DEF FileTypes
  <2> QED
    BY <1>8, <2>1, <2>2, <2>3 DEF FileTypes
<1>12. Told'
  <2>1. PICK F, P : TextInv(F, P)
    BY DEF RecordInv, Told
  <2>2. TextOK(text, F, P) /\ F[Len(text) + 1] = fb /\ P[Len(text) + 1] = prog
    BY <1>2, <2>1 DEF TextInv, Current
  <2>3. Fits(text, Len(text), fb, prog, a)
    BY <1>3, Started DEF Fits, FitsBinding, FitsGen, FitsName, FitsUniform, FitsData, FitsMark
  <2>4. PICK G, Q : /\ TextOK(t, G, Q)
                    /\ G[Len(text) + 2] = NextFb(fb, a)
                    /\ Q[Len(text) + 2] = NextProg(prog, a)
    BY <1>3, <1>5, <2>2, <2>3, AddedOK
  <2>5. NextFb(fb, a) = fb /\ NextProg(prog, a) = prog
    BY <1>3 DEF NextFb, NextProg
  <2>6. Fits(t, Len(text) + 1, fb, prog, b)
    <3>1. FitsEnd(t, Len(text) + 1)
      <4>1. FitsEnd(text, Len(text))
        BY Started
      <4> QED
        BY <1>2, <1>3, <1>6, <4>1 DEF FitsEnd
    <3>2. FitsMark(t, Len(text) + 1, b)
      <4>1. (\A d \in 1 .. Len(text) + 1 : ~IsBoundDel(t[d])) => fb = 0
        <5>1. \A i \in 1 .. Len(text) : i \in 1 .. Len(text) + 1 /\ t[i] = text[i]
          BY <1>2, <1>6
        <5> QED
          BY <1>2, <5>1 DEF Marked
      <4>2. Len(text) + 1 > 0 /\ t[Len(text) + 1].op = "frame"
        BY <1>2, <1>3, <1>6
      <4> QED
        BY <1>4, <4>1, <4>2 DEF FitsMark
    <3> QED
      BY <1>4, <3>1, <3>2 DEF Fits, FitsBinding, FitsGen, FitsName, FitsUniform, FitsData
  <2>7. Len(t) = Len(text) + 1 /\ Len(t) + 1 = Len(text) + 2 /\ Len(t) + 2 = Len(text) + 3
    BY <1>2, <1>6
  <2>8. Fits(t, Len(t), G[Len(t) + 1], Q[Len(t) + 1], b)
    BY <2>4, <2>5, <2>6, <2>7
  <2>9. PICK H, S : /\ TextOK(Append(t, b), H, S)
                    /\ H[Len(t) + 2] = NextFb(G[Len(t) + 1], b)
                    /\ S[Len(t) + 2] = NextProg(Q[Len(t) + 1], b)
    BY <1>4, <2>4, <2>8, AddedOK
  <2>10. NextFb(fb, b) = fb /\ NextProg(prog, b) = prog
    BY <1>4 DEF NextFb, NextProg
  <2>11. Len(text') + 1 = Len(text) + 3
    BY <1>2, <1>8
  <2>12. H[Len(text') + 1] = fb' /\ S[Len(text') + 1] = prog'
    BY <1>9, <2>4, <2>5, <2>7, <2>9, <2>10, <2>11
  <2>13. TextInv(H, S)'
    BY <1>7, <2>9, <2>12 DEF TextInv, Current
  <2> QED
    BY <2>13 DEF Told
<1>13. DriverInv'
  <2>1. Known'
    BY <1>2, <1>3, <1>4, <1>8, <1>9 DEF Known, IsGen, IsDel
  <2>2. Newest'
    BY <1>2, <1>3, <1>4, <1>8, <1>9 DEF Newest
  <2>3. Marked'
    BY <1>2, <1>8, <1>9 DEF Marked
  <2> QED
    BY <2>1, <2>2, <2>3 DEF DriverInv
<1>14. EndInv'
  <2>1. EndInv
    BY DEF RecordInv
  <2>2. \A i \in 1 .. Len(text') : text'[i].op # "end"
    BY <1>2, <1>3, <1>4, <1>8, <2>1 DEF EndInv
  <2>3. Len(text') <= MaxLines /\ text'[Len(text')].op = "clear"
    BY <1>2, <1>4, <1>8, GlRecordAssumption
  <2> QED
    BY <2>1, <2>2, <2>3 DEF EndInv
<1>15. DataInv'
  <2>1. DataInv
    BY DEF RecordInv
  <2> QED
    BY <1>2, <1>3, <1>4, <1>8, <2>1 DEF DataInv
<1>16. CountInv'
  <2>1. LinesOf("frame")' = LinesOf("frame") \cup {Len(text) + 1}
    <3>1. DOMAIN text = 1 .. Len(text) /\ DOMAIN text' = 1 .. Len(text) + 2
      BY <1>2, <1>8
    <3>2. a.op = "frame" /\ b.op # "frame"
      BY <1>3, <1>4
    <3> QED
      BY <1>2, <1>8, <3>1, <3>2 DEF LinesOf
  <2>2. Len(text) + 1 \notin LinesOf("frame")
    BY <1>2 DEF LinesOf
  <2>3. Cardinality(LinesOf("frame")) = frames /\ IsFiniteSet(LinesOf("frame"))
    BY <1>2, FramesFinite DEF RecordInv, CountInv
  <2> QED
    BY <2>1, <2>2, <2>3, FS_AddElement DEF CountInv
<1> QED
  BY <1>10, <1>11, <1>12, <1>13, <1>14, <1>15, <1>16 DEF RecordInv

\* finish() prints END.
LEMMA FinishKeeps ==
  ASSUME RecordInv, rec, stage = "app", NEW next \in {"finish", "fini"}, FinishText(next),
         UNCHANGED <<driverVars, rec, curFb, boff, mix>>
  PROVE  RecordInv'
<1>1. PICK l : l = Plain("end", <<0, 0>>)
  OBVIOUS
<1>2. /\ text' = Append(text, l) /\ stage' = next /\ disk' = [disk EXCEPT !.lines = Len(text) + 1]
      /\ UNCHANGED <<frames, object, made, fb, prog>>
  BY <1>1 DEF FinishText, driverVars
<1>3. /\ text \in Seq(Lines) /\ Len(text) \in Nat /\ Known /\ Newest /\ Marked /\ Recording
      /\ Recording' /\ \A i \in 1 .. Len(text) : text[i] \in Lines
  BY <1>2, Started DEF Recording
<1>4. l \in Lines /\ l.op = "end"
  BY <1>1, PlainLine DEF Ops
<1>5. /\ text' \in Seq(Lines) /\ Len(text') = Len(text) + 1 /\ text'[Len(text) + 1] = l
      /\ \A i \in 1 .. Len(text) : text'[i] = text[i]
      /\ \A i \in 1 .. Len(text') : i \in 1 .. Len(text) \/ text'[i] = l
  BY <1>2, <1>3, <1>4, Longer
<1>6. DriverTypes'
  BY <1>2, Started DEF DriverTypes
<1>7. EndInv /\ FileTypes /\ DataInv /\ CountInv
  BY DEF RecordInv
<1>8. FileTypes'
  <2>1. Len(text) <= MaxLines /\ MaxLines \in Nat
    BY <1>3, <1>7, GlRecordAssumption DEF EndInv
  <2>2. disk' \in [lines : Nat, data : Nat] /\ disk'.lines = Len(text') /\ disk'.data = disk.data
    BY <1>2, <1>3, <1>5, <1>7 DEF FileTypes
  <2> QED
    BY <1>2, <1>3, <1>5, <1>7, <2>1, <2>2 DEF FileTypes, Stages
<1>9. Told'
  <2>1. PICK F, P : TextInv(F, P)
    BY DEF RecordInv, Told
  <2>2. TextOK(text, F, P) /\ F[Len(text) + 1] = fb /\ P[Len(text) + 1] = prog
    BY <1>3, <2>1 DEF TextInv, Current
  <2>3. Fits(text, Len(text), fb, prog, l)
    BY <1>4, Started DEF Fits, FitsBinding, FitsGen, FitsName, FitsUniform, FitsData, FitsMark
  <2>4. PICK G, Q : /\ TextOK(Append(text, l), G, Q)
                    /\ G[Len(text) + 2] = NextFb(fb, l)
                    /\ Q[Len(text) + 2] = NextProg(prog, l)
    BY <1>4, <2>2, <2>3, AddedOK
  <2>5. NextFb(fb, l) = fb /\ NextProg(prog, l) = prog
    BY <1>4 DEF NextFb, NextProg
  <2>6. Len(text') + 1 = Len(text) + 2
    BY <1>3, <1>5
  <2>7. TextInv(G, Q)'
    BY <1>2, <2>4, <2>5, <2>6 DEF TextInv, Current
  <2> QED
    BY <2>7 DEF Told
<1>10. DriverInv'
  <2>1. Known' /\ Newest'
    BY <1>2, <1>4, KnownStays
  <2>2. Marked'
    BY <1>2, <1>4, MarkedStays
  <2> QED
    BY <2>1, <2>2 DEF DriverInv
<1>11. EndInv'
  BY <1>2, <1>3, <1>4, <1>5 DEF EndInv
<1>12. DataInv'
  BY <1>3, <1>4, <1>5, <1>7 DEF DataInv
<1>13. CountInv'
  <2>1. LinesOf("frame")' = LinesOf("frame")
    BY <1>2, <1>3, <1>4, LinesGrow
  <2> QED
    BY <1>2, <1>3, <1>7, <2>1 DEF CountInv
<1> QED
  BY <1>6, <1>8, <1>9, <1>10, <1>11, <1>12, <1>13 DEF RecordInv

\* finish() writes the data, and the recording is over.
LEMMA FinishDataKeeps ==
  ASSUME RecordInv, FinishData, UNCHANGED mix
  PROVE  RecordInv'
<1>1. /\ stage \in {"finish", "fini"} /\ rec' = FALSE /\ disk' = [lines |-> Len(text), data |-> boff]
      /\ UNCHANGED <<frames, text, boff>> /\ stage' \in {"app", "gone"}
  BY DEF FinishData, RecAfter, Flush, Vanish
<1>2. DriverTypes /\ FileTypes /\ EndInv /\ DataInv /\ CountInv /\ Told
  BY DEF RecordInv
<1>3. Recording /\ ~Recording'
  BY <1>1, <1>2 DEF EndInv, Recording
<1>4. DriverTypes'
  BY <1>2, GlRecordAssumption DEF FinishData, Vanish, DriverTypes, driverVars
<1>5. FileTypes'
  <2>1. Len(text) \in Nat /\ boff \in Nat
    BY <1>2, GlRecordAssumption DEF FileTypes
  <2>2. disk' \in [lines : Nat, data : Nat] /\ disk'.lines <= Len(text') /\ disk'.data <= boff'
    BY <1>1, <2>1
  <2>3. stage' \in Stages /\ rec' \in BOOLEAN
    BY <1>1 DEF Stages
  <2> QED
    BY <1>1, <1>2, <2>2, <2>3 DEF FileTypes
<1>6. DriverInv' /\ Told'
  BY <1>1, <1>2, <1>3 DEF DriverInv, Told, TextInv, Current
<1>7. EndInv'
  BY <1>1, <1>2, <1>3 DEF EndInv
<1>8. DataInv'
  BY <1>1, <1>2, <1>3 DEF DataInv
<1>9. CountInv'
  BY <1>1, <1>2, <1>3 DEF CountInv, LinesOf
<1> QED
  BY <1>4, <1>5, <1>6, <1>7, <1>8, <1>9 DEF RecordInv

\* What is no longer recorded leaves text and files as they are.
LEMMA SilentKeeps ==
  ASSUME RecordInv, ~rec, DriverTypes', stage \in {"app", "gone"}, stage' \in {"app", "gone"},
         UNCHANGED <<rec, frames, text, boff, disk, mix>>
  PROVE  RecordInv'
<1>1. ~Recording /\ ~Recording'
  BY DEF Recording
<1>2. FileTypes' /\ DriverInv' /\ Told' /\ EndInv' /\ DataInv' /\ CountInv'
  <2>1. FileTypes'
    BY DEF RecordInv, FileTypes, Stages
  <2>2. DriverInv' /\ Told'
    BY <1>1 DEF RecordInv, DriverInv, Told, TextInv, Current
  <2>3. EndInv' /\ DataInv' /\ CountInv'
    BY <1>1 DEF RecordInv, EndInv, DataInv, CountInv, LinesOf
  <2> QED
    BY <2>1, <2>2, <2>3
<1> QED
  BY <1>2 DEF RecordInv

\* What a kill leaves in the files is a recording.
LEMMA KillKeeps ==
  ASSUME RecordInv, Kill, UNCHANGED mix
  PROVE  RecordInv'
<1>1. stage' = "gone" /\ DriverTypes' /\ UNCHANGED rec
  BY GlRecordAssumption DEF Kill, Vanish, DriverTypes
<1>2. PICK l \in disk.lines .. Len(text), d \in disk.data .. boff :
        /\ disk' = [lines |-> l, data |-> d] /\ text' = SubSeq(text, 1, l) /\ boff' = d
  BY DEF Kill
<1>3. FileTypes /\ EndInv /\ Told /\ DataInv /\ CountInv
  BY DEF RecordInv
<1>4. l \in 0 .. Len(text) /\ d \in 0 .. boff /\ text \in Seq(Lines) /\ Len(text) \in Nat /\ boff \in Nat
      /\ MaxData \in Nat /\ MaxFrames \in Nat /\ MaxLines \in Nat /\ boff <= MaxData
  BY <1>3, GlRecordAssumption DEF FileTypes
<1>5. text' \in Seq(Lines) /\ Len(text') = l /\ Len(text') <= Len(text)
  BY <1>2, <1>4
<1>6. frames' \in 0 .. MaxFrames
  BY <1>3, <1>4 DEF Kill, FileTypes
<1>7. FileTypes'
  BY <1>1, <1>2, <1>3, <1>4, <1>5, <1>6 DEF FileTypes, Stages
<1>8. ~Recording'
  BY <1>1 DEF Recording
<1>9. Told'
  <2>1. PICK F, P : TextOK(text, F, P)
    BY <1>3 DEF Told, TextInv
  <2>2. TextOK(text', F, P)
    BY <1>2, <1>4, <2>1, CutOK
  <2> QED
    BY <1>8, <2>2 DEF Told, TextInv, Current
<1>10. DriverInv'
  BY <1>8 DEF DriverInv
<1>11. CASE rec
  BY <1>1, <1>7, <1>8, <1>9, <1>10, <1>11 DEF RecordInv, EndInv, DataInv, CountInv
<1>12. CASE ~rec
  <2>1. disk = [lines |-> Len(text), data |-> boff]
    BY <1>3, <1>12 DEF EndInv
  <2>2. l = Len(text) /\ d = boff
    BY <1>4, <2>1
  <2>3. text' = text /\ boff' = boff /\ disk' = disk /\ frames' = frames
    BY <1>2, <1>4, <1>12, <2>1, <2>2 DEF Kill
  <2>4. stage \in {"app"}
    BY <1>3, <1>12 DEF Kill, EndInv
  <2> QED
    BY <1>1, <1>12, <2>3, <2>4, SilentKeeps
<1> QED
  BY <1>11, <1>12

\* A clear adds a frame if it begins one, and ends the recording after the last.
LEMMA ClearKeeps ==
  ASSUME RecordInv, rec, glClear, UNCHANGED mix
  PROVE  RecordInv'
<1>1. stage = "app" /\ UNCHANGED <<driverVars, rec, curFb, boff>>
  BY DEF glClear
<1>2. CASE curFb = None /\ LastFrame
  <2>1. FinishText("finish")
    BY <1>2 DEF glClear
  <2> QED
    BY <1>1, <2>1, FinishKeeps
<1>3. CASE curFb = None /\ ~LastFrame
  <2>1. /\ Len(text) + 1 < MaxLines /\ frames' = frames + 1 /\ UNCHANGED <<stage, disk>>
        /\ text' = text \o <<Plain("frame", <<0, 0>>), Plain("clear", <<fb, prog>>)>>
    BY <1>3 DEF glClear
  <2> QED
    BY <1>1, <1>3, <2>1, FrameKeeps
<1>4. CASE curFb # None
  <2>1. R(Plain("clear", <<fb, prog>>)) /\ UNCHANGED <<stage, frames, disk>>
    BY <1>4 DEF glClear
  <2>2. \E l : Prints(l)
    BY <1>1, <1>4, <2>1, PlainOK
  <2> QED
    BY <2>2, PrintKeeps
<1> QED
  BY <1>2, <1>3, <1>4

\* Every call that is recorded keeps the invariant.
LEMMA RecordedCallKeeps ==
  ASSUME RecordInv, rec, Call, UNCHANGED mix
  PROVE  RecordInv'
<1>0. mix.kinds \subseteq Kinds
  BY GlRecordAssumption DEF RecordInv, FileTypes
<1>1. ASSUME NEW k \in mix.kinds, Gen(k) PROVE RecordInv'
  BY <1>0, <1>1, GenPrints, PrintKeeps
<1>2. ASSUME NEW k \in mix.kinds, NEW n \in Names, Delete(k, n) PROVE RecordInv'
  BY <1>0, <1>2, DeletePrints, PrintKeeps
<1>3. ASSUME NEW k \in mix.kinds, NEW n \in Names \cup {None}, Use(k, n) PROVE RecordInv'
  BY <1>0, <1>3, UsePrints, PrintKeeps
<1>4. ASSUME NEW n \in Names, NEW u \in Unis, glGetUniformLocation(n, u) PROVE RecordInv'
  BY <1>4, GetUniformPrints, PrintKeeps
<1>5. ASSUME NEW u \in Unis, Uniform(u) PROVE RecordInv'
  BY <1>5, UniformPrints, PrintKeeps
<1>6. ASSUME NEW len \in 0 .. MaxData, Data(len) PROVE RecordInv'
  BY <1>6, DataPrints, PrintKeeps
<1>7. CASE Draw
  <2>1. /\ stage = "app" /\ R(Plain("draw", <<fb, prog>>))
        /\ UNCHANGED <<stage, driverVars, rec, frames, curFb, boff, disk>>
    BY <1>7 DEF Draw
  <2>2. \E l : Prints(l)
    BY <2>1, PlainOK
  <2> QED
    BY <2>2, PrintKeeps
<1>8. CASE glClear
  BY <1>8, ClearKeeps
<1> QED
  BY <1>1, <1>2, <1>3, <1>4, <1>5, <1>6, <1>7, <1>8 DEF Call

\* So does every call after the recording has ended.
LEMMA SilentCallKeeps ==
  ASSUME RecordInv, ~rec, Call, UNCHANGED mix
  PROVE  RecordInv'
<1>0. mix.kinds \subseteq Kinds /\ DriverTypes /\ MaxObjs \in Nat
  BY GlRecordAssumption DEF RecordInv, FileTypes
<1>1. stage = "app" /\ stage' = "app" /\ UNCHANGED <<rec, frames, text, boff, disk>>
  BY DEF Call, Gen, Delete, Use, glGetUniformLocation, Uniform, Data, Draw, glClear, R
<1>2. DriverTypes'
  <2> USE <1>0
  <2>1. ASSUME NEW k \in mix.kinds, Gen(k) PROVE DriverTypes'
    <3>1. made + 1 \in 0 .. MaxObjs
      BY <2>1 DEF Gen, DriverTypes
    <3>2. PICK n \in Names : object' = [object EXCEPT ![k][n] = made + 1]
      BY <2>1 DEF Gen
    <3>3. object' \in [Kinds -> [Names -> 0 .. MaxObjs]]
      BY <3>1, <3>2 DEF DriverTypes
    <3> QED
      BY <2>1, <3>1, <3>3 DEF Gen, DriverTypes
  <2>2. ASSUME NEW k \in mix.kinds, NEW n \in Names, Delete(k, n) PROVE DriverTypes'
    <3>1. object' \in [Kinds -> [Names -> 0 .. MaxObjs]]
      BY <2>2 DEF Delete, DriverTypes
    <3> QED
      BY <2>2, <3>1 DEF Delete, DriverTypes
  <2>3. ASSUME NEW k \in mix.kinds, NEW n \in Names \cup {None}, Use(k, n) PROVE DriverTypes'
    <3>1. ObjectOf(k, n) \in 0 .. MaxObjs
      BY DEF ObjectOf, DriverTypes
    <3> QED
      BY <2>3, <3>1 DEF Use, CurFb, DriverTypes
  <2>4. CASE UNCHANGED <<driverVars, curFb>>
    BY <2>4 DEF driverVars, DriverTypes
  <2> QED
    BY <2>1, <2>2, <2>3, <2>4 DEF Call, glGetUniformLocation, Uniform, Data, Draw, glClear
<1> QED
  BY <1>1, <1>2, SilentKeeps

\* The application may end at any time.
LEMMA ExitKeeps ==
  ASSUME RecordInv, Exit, UNCHANGED mix
  PROVE  RecordInv'
<1>1. CASE rec
  BY <1>1, FinishKeeps DEF Exit
<1>2. CASE ~rec
  <2>1. stage = "app" /\ Vanish /\ UNCHANGED <<rec, boff, text, frames, disk>>
    BY <1>2 DEF Exit
  <2>2. stage' = "gone" /\ DriverTypes'
    BY <2>1, GlRecordAssumption DEF Vanish, DriverTypes
  <2> QED
    BY <1>2, <2>1, <2>2, SilentKeeps
<1> QED
  BY <1>1, <1>2 DEF RecordInv, FileTypes

\* Every step of the application and its recorder keeps the invariant.
LEMMA RecordKeeps ==
  ASSUME RecordInv, RecordNext
  PROVE  RecordInv'
<1>1. rec \in BOOLEAN
  BY DEF RecordInv, FileTypes
<1> QED
  BY <1>1, RecordedCallKeeps, SilentCallKeeps, FinishDataKeeps, ExitKeeps, KillKeeps DEF RecordNext

\* The replayer only reads.
LEMMA FilesStay ==
  ASSUME RecordInv, UNCHANGED fileVars,
         stage' = stage \/ (stage \in {"gone", "replay", "done"} /\ stage' \in {"replay", "done"})
  PROVE  RecordInv'
<1>1. UNCHANGED <<object, made, fb, prog, rec, frames, curFb, text, boff, disk, mix>>
  BY DEF fileVars, driverVars
<1>2. Recording' = Recording
  BY <1>1 DEF Recording
<1>3. DriverTypes' /\ FileTypes'
  BY <1>1 DEF RecordInv, DriverTypes, FileTypes, Stages
<1>4. DriverInv' /\ Told'
  BY <1>1, <1>2 DEF RecordInv, DriverInv, Known, Newest, Marked, Told, TextInv, Current
<1>5. EndInv' /\ DataInv' /\ CountInv'
  BY <1>1, <1>2 DEF RecordInv, EndInv, DataInv, CountInv, LinesOf
<1> QED
  BY <1>3, <1>4, <1>5 DEF RecordInv

-----------------------------------------------------------------------------
(* The replayer.                                                           *)

ReplayTypes ==
  /\ at \in 1 .. Len(text) + 1
  /\ map \in [Kinds -> Seq(Names \X LiveNames)] /\ \A k \in Kinds : Len(map[k]) <= MapMax
  /\ ul \in Seq([prog : Names, locs : Seq(Nat \X Int)]) /\ Len(ul) <= UlMax
  /\ \A i \in 1 .. Len(ul) : Len(ul[i].locs) <= LocMax
  /\ curProg \in Names \cup {None} /\ firstFrame \in BOOLEAN /\ swaps \in Nat
  /\ live \in [Kinds -> [LiveNames -> 0 .. MaxObjs]]
  /\ liveFb \in Stray .. MaxObjs /\ liveProg \in 0 .. MaxObjs
  /\ place \in [Objs -> [Unis -> Unis]]

\* A program has no two uniforms at one location.
PlaceInv == \A o \in Objs : \A u, v \in Unis : place[o][u] = place[o][v] => u = v

\* The lines of a kind that have been replayed.
Before(op) == {i \in LinesOf(op) : i < at}

\* Each frame replayed but the first has shown the one before it.
FrameInv ==
  /\ ~rec => at <= Len(text)
  /\ firstFrame <=> Cardinality(Before("frame")) = 0
  /\ swaps = IF firstFrame THEN 0 ELSE Cardinality(Before("frame")) - 1
  /\ stage = "done" /\ ~rec => at = Len(text)

\* Nothing is replayed while the application runs.
NotYet ==
  stage \in {"app", "finish", "fini", "gone"} =>
    /\ at = 1 /\ did.line = 0 /\ liveFb = 0 /\ liveProg = 0
    /\ ul = <<>> /\ \A k \in Kinds : map[k] = <<>>

\* A map has one entry for each object made so far, by which the live one is found
\* for as long as it is not deleted.
GensBefore(k) == {g \in Gens(k) : g < at}
Entry(k, g, p) ==
  /\ map[k][p][1] = text[g].name
  /\ (\A d \in 1 .. at - 1 : ~IsDel(text[d], k, text[g].means[1]))
       => live[k][map[k][p][2]] = text[g].means[1]
MapOf(k) ==
  /\ Len(map[k]) = Cardinality(GensBefore(k))
  /\ \A p \in 1 .. Len(map[k]) : \E g \in GensBefore(k) : text[g].name = map[k][p][1]
  /\ \A p, q \in 1 .. Len(map[k]) : map[k][p][1] = map[k][q][1] => p = q
  /\ \A g \in GensBefore(k) : \E p \in 1 .. Len(map[k]) : Entry(k, g, p)
MapInv == \A k \in Kinds : MapOf(k)

\* ul[] has the programs whose uniforms were asked for, each with the locations
\* asked for and those the live program has.
NamesIn(t, S)   == {t[j].name : j \in S}
LocsIn(t, S, n) == {t[j].loc : j \in {i \in S : t[i].name = n}}
LocsOf(t, S, slot) ==
  /\ slot.prog \in NamesIn(t, S)
  /\ Len(slot.locs) = Cardinality(LocsIn(t, S, slot.prog))
  /\ \A a \in 1 .. Len(slot.locs) : slot.locs[a][1] \in LocsIn(t, S, slot.prog)
  /\ \A a, b \in 1 .. Len(slot.locs) : slot.locs[a][1] = slot.locs[b][1] => a = b
Found(u, pl, l) ==
  \E i \in 1 .. Len(u) : \E a \in 1 .. Len(u[i].locs) :
    u[i].prog = l.name /\ u[i].locs[a] = <<l.loc, pl[l.means[1]][l.loc]>>
SlotOK(t, S, u, pl) ==
  /\ Len(u) = Cardinality(NamesIn(t, S))
  /\ \A i, j \in 1 .. Len(u) : u[i].prog = u[j].prog => i = j
  /\ \A i \in 1 .. Len(u) : LocsOf(t, S, u[i])
  /\ \A j \in S : Found(u, pl, t[j])
SlotInv == SlotOK(text, Before("getuni"), ul, place)

\* The live driver has bound and in use what the recorded one had.
BoundInv(F, P) ==
  /\ liveFb = F[at] /\ liveProg = P[at]
  /\ P[at] # 0 => \E g \in 1 .. at - 1 : IsGen(text[g], "prog", curProg, P[at])

Mapped(F, P) ==
  /\ TextOK(text, F, P)
  /\ stage \in {"replay", "done"} /\ Mappable => MapInv /\ SlotInv /\ BoundInv(F, P)
Replayed == \E F, P : Mapped(F, P)

DidInv == did.line \in 0 .. Len(text) /\ SameObjects /\ SameTargets /\ DataIntact

IInv == RecordInv /\ ReplayTypes /\ PlaceInv /\ FrameInv /\ NotYet /\ Replayed /\ DidInv

-----------------------------------------------------------------------------
(* A line is read.                                                         *)

\* What is known of a line that is replayed.
LEMMA Reads ==
  ASSUME RecordInv, ReplayTypes, NEW op, NEW means, Replay(op, means)
  PROVE  /\ at \in 1 .. Len(text) /\ at \in Nat /\ at' = at + 1 /\ Len(text) \in Nat
         /\ text[at] \in Lines /\ text[at].op = op /\ text[at].op # "end"
         /\ stage = "replay" /\ stage' = "replay" /\ text' = text /\ rec' = rec
         /\ disk' = disk /\ boff' = boff /\ UNCHANGED fileVars
         /\ did' = [line |-> at, means |-> means]
<1>1. UNCHANGED fileVars /\ UNCHANGED <<text, rec, disk, boff>> /\ stage = "replay" /\ stage' = "replay"
  BY DEF Replay, fileVars
<1>2. text \in Seq(Lines) /\ Len(text) \in Nat /\ disk.lines \in Nat /\ disk.lines <= Len(text)
  BY DEF RecordInv, FileTypes
<1>3. at \in Nat /\ at >= 1 /\ at <= disk.lines /\ text[at].op # "end"
  BY <1>2 DEF Replay, AtEnd, ReplayTypes
<1>4. at \in 1 .. Len(text) /\ text[at] \in Lines
  BY <1>2, <1>3
<1> QED
  BY <1>1, <1>2, <1>3, <1>4 DEF Replay

\* The line is one more of its kind that has been replayed.
LEMMA BeforeGrows ==
  ASSUME RecordInv, ReplayTypes, NEW op, NEW means, Replay(op, means), NEW o
  PROVE  /\ Before(o)' = IF o = op THEN Before(o) \cup {at} ELSE Before(o)
         /\ at \notin Before(o) /\ IsFiniteSet(Before(o))
         /\ Before(o) \subseteq LinesOf(o) /\ LinesOf(o)' = LinesOf(o)
         /\ Cardinality(Before(o)) \in Nat
<1>1. /\ at \in 1 .. Len(text) /\ at \in Nat /\ at' = at + 1 /\ text' = text /\ text[at].op = op
      /\ Len(text) \in Nat /\ text \in Seq(Lines)
  BY Reads DEF RecordInv, FileTypes
<1>2. Before(o)' = IF o = op THEN Before(o) \cup {at} ELSE Before(o)
  BY <1>1 DEF Before, LinesOf
<1>3. at \notin Before(o) /\ Before(o) \subseteq LinesOf(o)
  BY <1>1 DEF Before
<1>4. IsFiniteSet(LinesOf(o))
  BY <1>1, FramesFinite
<1>5. IsFiniteSet(Before(o)) /\ Cardinality(Before(o)) \in Nat
  BY <1>3, <1>4, FS_Subset, FS_CardinalityType
<1>6. LinesOf(o)' = LinesOf(o)
  BY <1>1 DEF LinesOf
<1> QED
  BY <1>2, <1>3, <1>5, <1>6

\* It is one more object made, if it makes one.
LEMMA GensGrow ==
  ASSUME RecordInv, ReplayTypes, NEW op, NEW means, Replay(op, means), NEW k
  PROVE  /\ GensBefore(k)' = IF op = "gen" /\ text[at].kind = k THEN GensBefore(k) \cup {at}
                             ELSE GensBefore(k)
         /\ at \notin GensBefore(k) /\ GensBefore(k) \subseteq Gens(k)
         /\ GensBefore(k) \subseteq 1 .. at - 1
         /\ op = "gen" /\ text[at].kind = k => at \in Gens(k)
         /\ IsFiniteSet(Gens(k)) /\ IsFiniteSet(GensBefore(k))
         /\ Cardinality(GensBefore(k)) \in Nat /\ Cardinality(Gens(k)) \in Nat
<1>1. /\ at \in 1 .. Len(text) /\ at \in Nat /\ at' = at + 1 /\ text' = text /\ text[at].op = op
      /\ Len(text) \in Nat /\ text \in Seq(Lines)
  BY Reads DEF RecordInv, FileTypes
<1>2. Gens(k) = {g \in 1 .. Len(text) : text[g].op = "gen" /\ text[g].kind = k}
  BY <1>1 DEF Gens, LinesOf
<1>3. Gens(k)' = Gens(k)
  BY <1>1 DEF Gens, LinesOf
<1>4. GensBefore(k)' = {g \in Gens(k) : g < at + 1}
  BY <1>1, <1>3 DEF GensBefore
<1>5. GensBefore(k)' = IF op = "gen" /\ text[at].kind = k THEN GensBefore(k) \cup {at} ELSE GensBefore(k)
  BY <1>1, <1>2, <1>4 DEF GensBefore
<1>6. /\ at \notin GensBefore(k) /\ GensBefore(k) \subseteq Gens(k) /\ GensBefore(k) \subseteq 1 .. at - 1
      /\ op = "gen" /\ text[at].kind = k => at \in Gens(k)
  BY <1>1, <1>2 DEF GensBefore
<1>7. Gens(k) \subseteq LinesOf("gen") /\ IsFiniteSet(LinesOf("gen"))
  BY <1>1, FramesFinite DEF Gens
<1>8. IsFiniteSet(Gens(k)) /\ Cardinality(Gens(k)) \in Nat
  BY <1>7, FS_Subset, FS_CardinalityType
<1>9. IsFiniteSet(GensBefore(k)) /\ Cardinality(GensBefore(k)) \in Nat
  BY <1>6, <1>8, FS_Subset, FS_CardinalityType
<1> QED
  BY <1>5, <1>6, <1>8, <1>9

\* The text is the same, and so is what it allows.
LEMMA MappableStays ==
  ASSUME text' = text
  PROVE  Mappable' = Mappable
BY DEF Mappable, NamesDistinct, TablesHold, Gens, Queried, LinesOf

-----------------------------------------------------------------------------
(* Names are looked up.                                                    *)

\* The first index of a set of one.
LEMMA FirstOfOne ==
  ASSUME NEW x \in Int
  PROVE  First({x}) = x
BY DEF First

\* A set of places has a first.
LEMMA FirstIn ==
  ASSUME NEW S \in SUBSET Nat, S # {}
  PROVE  First(S) \in S
<1> DEFINE Less == OpToRel(<, Nat)
<1>1. \A i, j \in Nat : i < j <=> <<i, j>> \in Less
  BY DEF OpToRel
<1>2. IsWellFoundedOn(Less, Nat)
  BY NatLessThanWellFounded
<1> HIDE DEF Less
<1>3. PICK i \in S : \A j \in S : ~(<<j, i>> \in Less)
  BY <1>2, WFMin
<1>4. ASSUME NEW j \in S PROVE i <= j
  <2>1. i \in Nat /\ j \in Nat /\ ~(<<j, i>> \in Less)
    BY <1>3
  <2>2. ~(j < i)
    BY <1>1, <2>1
  <2> QED
    BY <2>1, <2>2
<1> QED
  BY <1>4 DEF First

\* An object is made once, and a name is given once.
LEMMA OneGen ==
  ASSUME NEW F, NEW P, TextOK(text, F, P),
         NEW g \in 1 .. Len(text), NEW h \in 1 .. Len(text), text[g].op = "gen", text[h].op = "gen",
         text[g].means[1] = text[h].means[1]
  PROVE  g = h
<1>1. g \in Nat /\ h \in Nat
  BY DEF TextOK
<1>2. text[g].means[1] \in Int
  BY LineFits, Fields
<1>3. ~(g < h)
  <2>1. FitsGen(text, h - 1, text[h])
    BY LineFits DEF Fits
  <2> QED
    BY <1>1, <1>2, <2>1 DEF FitsGen
<1>4. ~(h < g)
  <2>1. FitsGen(text, g - 1, text[g])
    BY LineFits DEF Fits
  <2> QED
    BY <1>1, <1>2, <2>1 DEF FitsGen
<1> QED
  BY <1>1, <1>3, <1>4

\* Where names are distinct, a name is that of one object.
LEMMA OneObject ==
  ASSUME text \in Seq(Lines), NamesDistinct, NEW k \in Kinds, NEW n, NEW o, NEW q,
         NEW g \in 1 .. Len(text), NEW h \in 1 .. Len(text),
         IsGen(text[g], k, n, o), IsGen(text[h], k, n, q)
  PROVE  g = h /\ o = q
<1>1. g \in Gens(k) /\ h \in Gens(k)
  BY DEF Gens, LinesOf, IsGen
<1> QED
  BY <1>1 DEF NamesDistinct, IsGen

\* The line that made the object a line names.
LEMMA NamedOnce ==
  ASSUME NEW F, NEW P, TextOK(text, F, P), NEW i \in 1 .. Len(text),
         text[i].op \in {"use", "del", "getuni"}, text[i].name # None
  PROVE  /\ text[i].name \in Names /\ text[i].means[1] \in Objs
         /\ \E g \in 1 .. i - 1 :
              /\ IsGen(text[g], text[i].kind, text[i].name, text[i].means[1])
              /\ g \in 1 .. Len(text) /\ g \in Gens(text[i].kind)
         /\ \A d \in 1 .. i - 1 : ~IsDel(text[d], text[i].kind, text[i].means[1])
<1>1. FitsName(text, i - 1, text[i]) /\ 1 .. i - 1 \subseteq 1 .. Len(text) /\ text \in Seq(Lines)
  BY LineFits DEF Fits, TextOK
<1>2. PICK g \in 1 .. i - 1 : IsGen(text[g], text[i].kind, text[i].name, text[i].means[1])
  BY <1>1 DEF FitsName
<1>3. g \in 1 .. Len(text) /\ g \in Gens(text[i].kind)
  BY <1>1, <1>2 DEF Gens, LinesOf, IsGen
<1>4. text[g].means[1] \in Objs
  <2>1. FitsGen(text, g - 1, text[g])
    BY <1>3, LineFits DEF Fits
  <2> QED
    BY <1>2, <2>1 DEF FitsGen, IsGen
<1>5. text[i].means[1] \in Objs
  BY <1>2, <1>4 DEF IsGen
<1> QED
  BY <1>1, <1>2, <1>3, <1>5 DEF FitsName

\* An entry is found by its name.
LEMMA Looked ==
  ASSUME NEW k \in Kinds, map[k] \in Seq(Names \X LiveNames), NEW p \in 1 .. Len(map[k]),
         \A q \in 1 .. Len(map[k]) : map[k][q][1] = map[k][p][1] => q = p
  PROVE  mget(k, map[k][p][1]) = map[k][p][2] /\ map[k][p][2] \in LiveNames /\ map[k][p][1] \in Names
<1>1. map[k][p] \in Names \X LiveNames /\ DOMAIN map[k] = 1 .. Len(map[k]) /\ p \in Int
  OBVIOUS
<1>2. map[k][p][1] \in Names /\ map[k][p][2] \in LiveNames /\ map[k][p][1] # None
  BY <1>1, GlRecordAssumption
<1>3. Hits(map[k], map[k][p][1]) = {p}
  BY <1>1 DEF Hits
<1> QED
  BY <1>1, <1>2, <1>3, FirstOfOne DEF mget

\* What a line names is found, as the object the application meant.
LEMMA MapsTo ==
  ASSUME ReplayTypes, NEW F, NEW P, TextOK(text, F, P), MapInv, at \in 1 .. Len(text),
         text[at].op \in {"use", "del", "getuni"}
  PROVE  LiveObject(text[at].kind, mget(text[at].kind, text[at].name)) = text[at].means[1]
<1> DEFINE k == text[at].kind
           n == text[at].name
           o == text[at].means[1]
<1>1. k \in Kinds
  BY LineFits, Fields
<1>2. CASE n = None
  <2>1. FitsName(text, at - 1, text[at])
    BY LineFits DEF Fits
  <2>2. o = 0
    BY <1>2, <2>1, GlRecordAssumption DEF FitsName
  <2>3. mget(k, n) = None
    BY <1>2 DEF mget
  <2>4. LiveObject(k, None) = 0
    BY DEF LiveObject
  <2> QED
    BY <2>2, <2>3, <2>4
<1>3. CASE n # None
  <2>1. /\ n \in Names /\ o \in Objs
        /\ \E g \in 1 .. at - 1 : IsGen(text[g], k, n, o) /\ g \in 1 .. Len(text) /\ g \in Gens(k)
        /\ \A d \in 1 .. at - 1 : ~IsDel(text[d], k, o)
    BY <1>3, NamedOnce
  <2>2. PICK g \in 1 .. at - 1 : IsGen(text[g], k, n, o) /\ g \in Gens(k)
    BY <2>1
  <2>3. at \in Nat
    OBVIOUS
  <2>4. g \in GensBefore(k)
    BY <2>2, <2>3 DEF GensBefore
  <2>5. MapOf(k)
    BY <1>1 DEF MapInv
  <2>6. PICK p \in 1 .. Len(map[k]) : Entry(k, g, p)
    BY <2>4, <2>5 DEF MapOf
  <2>7. text[g].name = n /\ text[g].means[1] = o
    BY <2>2 DEF IsGen
  <2>8. map[k][p][1] = n /\ live[k][map[k][p][2]] = o
    BY <2>1, <2>6, <2>7 DEF Entry
  <2>9. map[k] \in Seq(Names \X LiveNames)
    BY <1>1 DEF ReplayTypes
  <2>10. \A q \in 1 .. Len(map[k]) : map[k][q][1] = map[k][p][1] => q = p
    BY <2>5 DEF MapOf
  <2>11. mget(k, n) = map[k][p][2] /\ map[k][p][2] \in LiveNames
    <3> HIDE DEF k, n, o
    <3> QED
      BY <1>1, <2>8, <2>9, <2>10, Looked
  <2>12. o # 0
    BY <2>1 DEF Objs
  <2> QED
    BY <2>8, <2>11, <2>12, GlReplayAssumption DEF LiveObject
<1> QED
  BY <1>2, <1>3

\* What the live driver has for a name is an object or none.
LEMMA LiveTyped ==
  ASSUME ReplayTypes, NEW k \in Kinds, NEW n
  PROVE  LiveObject(k, n) \in Stray .. MaxObjs /\ (n # None => LiveObject(k, n) \in {Stray} \cup Objs)
<1>1. MaxObjs \in Nat
  BY GlRecordAssumption
<1>2. n \in LiveNames => live[k][n] \in 0 .. MaxObjs
  BY DEF ReplayTypes
<1> QED
  BY <1>1, <1>2 DEF LiveObject, Stray, Objs

\* The map gives names the driver may know.
LEMMA MgetTyped ==
  ASSUME ReplayTypes, NEW k \in Kinds, NEW n \in Names
  PROVE  mget(k, n) \in LiveNames
<1>1. map[k] \in Seq(Names \X LiveNames)
  BY DEF ReplayTypes
<1>2. CASE Hits(map[k], n) = {}
  BY <1>2, GlReplayAssumption DEF mget
<1>3. CASE Hits(map[k], n) # {}
  <2>1. First(Hits(map[k], n)) \in 1 .. Len(map[k])
    <3>1. Hits(map[k], n) \subseteq 1 .. Len(map[k]) /\ 1 .. Len(map[k]) \subseteq Nat
      BY <1>1 DEF Hits
    <3>2. First(Hits(map[k], n)) \in Hits(map[k], n)
      BY <1>3, <3>1, FirstIn
    <3> QED
      BY <3>1, <3>2
  <2>2. map[k][First(Hits(map[k], n))] \in Names \X LiveNames
    BY <1>1, <2>1
  <2> QED
    BY <1>3, <2>2, GlRecordAssumption DEF mget
<1> QED
  BY <1>2, <1>3

-----------------------------------------------------------------------------
(* The tables and the live driver keep their types.                        *)

Slot == [prog : Names, locs : Seq(Nat \X Int)]

\* A program that has an entry in ul[] is found there.
LEMMA SlotFound ==
  ASSUME ul \in Seq(Slot), NEW p, Slots(p) # {}
  PROVE  First(Slots(p)) \in 1 .. Len(ul) /\ ul[First(Slots(p))].prog = p
<1>1. Slots(p) \subseteq 1 .. Len(ul) /\ 1 .. Len(ul) \subseteq Nat
  BY DEF Slots
<1>2. First(Slots(p)) \in Slots(p)
  BY <1>1, FirstIn
<1> QED
  BY <1>1, <1>2 DEF Slots

\* A location that has an entry is found at one.
LEMMA LocFound ==
  ASSUME NEW s \in Seq(Nat \X Int), NEW x, Hits(s, x) # {}
  PROVE  First(Hits(s, x)) \in 1 .. Len(s) /\ s[First(Hits(s, x))][1] = x
<1>1. Hits(s, x) \subseteq 1 .. Len(s) /\ 1 .. Len(s) \subseteq Nat
  BY DEF Hits
<1>2. First(Hits(s, x)) \in Hits(s, x)
  BY <1>1, FirstIn
<1> QED
  BY <1>1, <1>2 DEF Hits

\* What SetSlot makes of ul: a program more, a location that is renewed or added,
\* or, when a table is full, nothing.
Opened(new, p, loc, act) ==
  /\ Slots(p) = {} /\ Len(ul) < UlMax
  /\ new = Append(ul, [prog |-> p, locs |-> IF LocMax = 0 THEN <<>> ELSE <<<<loc, act>>>>])
Renewed(new, p, loc, act) ==
  \E i \in 1 .. Len(ul) : \E a \in 1 .. Len(ul[i].locs) :
    /\ i \in Slots(p) /\ ul[i].locs[a][1] = loc
    /\ new = [ul EXCEPT ![i] = [prog |-> p, locs |-> [ul[i].locs EXCEPT ![a] = <<loc, act>>]]]
Added(new, p, loc, act) ==
  \E i \in 1 .. Len(ul) :
    /\ i \in Slots(p) /\ Hits(ul[i].locs, loc) = {} /\ Len(ul[i].locs) < LocMax
    /\ new = [ul EXCEPT ![i] = [prog |-> p, locs |-> Append(ul[i].locs, <<loc, act>>)]]
Full(p, loc) ==
  \/ Slots(p) = {} /\ ~(Len(ul) < UlMax)
  \/ \E i \in Slots(p) : Hits(ul[i].locs, loc) = {} /\ ~(Len(ul[i].locs) < LocMax)

\* An entry of ul[] with other locations.
LEMMA SetLocs ==
  ASSUME NEW p, NEW s, NEW x, NEW a, NEW y, NEW e, e = [prog |-> p, locs |-> s]
  PROVE  /\ [e EXCEPT !.locs = x] = [prog |-> p, locs |-> x]
         /\ [e EXCEPT !.locs[a] = y] = [prog |-> p, locs |-> [s EXCEPT ![a] = y]]
<1>1. e.locs = s /\ e.prog = p /\ DOMAIN e = {"prog", "locs"}
  OBVIOUS
<1>2. ASSUME NEW z PROVE [e EXCEPT !.locs = z] = [prog |-> p, locs |-> z]
  OBVIOUS
<1>3. [e EXCEPT !.locs[a] = y] = [e EXCEPT !.locs = [e.locs EXCEPT ![a] = y]]
  OBVIOUS
<1> QED
  BY <1>1, <1>2, <1>3

\* What uloc_slot() does: it opens an entry, renews or adds a location, or is full.
LEMMA SetSlotIs ==
  ASSUME ul \in Seq(Slot), NEW p \in Names, NEW loc \in Nat, NEW act \in Int,
         NEW new, new = SetSlot(p, loc, act)
  PROVE  \/ Opened(new, p, loc, act) \/ Renewed(new, p, loc, act) \/ Added(new, p, loc, act)
         \/ new = ul /\ Full(p, loc)
<1>1. PICK i : i = First(Slots(p))
  OBVIOUS
<1>2. PICK s : s = ul[i].locs
  OBVIOUS
<1>3. PICK a : a = First(Hits(s, loc))
  OBVIOUS
<1>4. CASE Slots(p) = {} /\ Len(ul) < UlMax
  BY <1>4 DEF SetSlot, Opened
<1>5. CASE Slots(p) = {} /\ ~(Len(ul) < UlMax)
  BY <1>5 DEF SetSlot, Full
<1>6. ASSUME Slots(p) # {}
      PROVE  /\ i \in 1 .. Len(ul) /\ i \in Slots(p) /\ ul[i].prog = p /\ s \in Seq(Nat \X Int)
             /\ DOMAIN s = 1 .. Len(s) /\ ul[i] = [prog |-> p, locs |-> s]
  <2>1. i \in 1 .. Len(ul) /\ ul[i].prog = p
    BY <1>1, <1>6, SlotFound
  <2>2. ul[i] \in Slot
    BY <2>1
  <2>3. ul[i] = [prog |-> p, locs |-> s] /\ s \in Seq(Nat \X Int)
    BY <1>2, <2>1, <2>2 DEF Slot
  <2> QED
    BY <2>1, <2>3 DEF Slots
<1>7. CASE Slots(p) # {} /\ Hits(s, loc) # {}
  <2>1. a \in 1 .. Len(s) /\ s[a][1] = loc
    BY <1>3, <1>6, <1>7, LocFound
  <2>2. new = [ul EXCEPT ![i].locs[a] = <<loc, act>>]
    BY <1>1, <1>2, <1>3, <1>7 DEF SetSlot
  <2>3. [ul[i] EXCEPT !.locs[a] = <<loc, act>>] = [prog |-> p, locs |-> [s EXCEPT ![a] = <<loc, act>>]]
    <3>1. PICK e : e = [prog |-> p, locs |-> s]
      OBVIOUS
    <3>2. ul[i] = e
      BY <1>6, <1>7, <3>1
    <3>3. [e EXCEPT !.locs[a] = <<loc, act>>] = [prog |-> p, locs |-> [s EXCEPT ![a] = <<loc, act>>]]
      BY <3>1, SetLocs
    <3> QED
      BY <3>2, <3>3
  <2>4. new = [ul EXCEPT ![i] = [prog |-> p, locs |-> [s EXCEPT ![a] = <<loc, act>>]]]
    BY <1>6, <1>7, <2>2, <2>3
  <2> QED
    BY <1>2, <1>6, <1>7, <2>1, <2>4 DEF Renewed
<1>8. CASE Slots(p) # {} /\ Hits(s, loc) = {} /\ Len(s) < LocMax
  <2>1. PICK t : t = Append(s, <<loc, act>>)
    OBVIOUS
  <2>2. new = [ul EXCEPT ![i].locs = t]
    BY <1>1, <1>2, <1>3, <1>8, <2>1 DEF SetSlot
  <2>3. [ul[i] EXCEPT !.locs = t] = [prog |-> p, locs |-> t]
    <3>1. ul[i] = [prog |-> p, locs |-> s]
      BY <1>6, <1>8
    <3> QED
      BY <3>1, SetLocs
  <2>4. new = [ul EXCEPT ![i] = [prog |-> p, locs |-> t]]
    BY <1>6, <1>8, <2>2, <2>3
  <2> QED
    BY <1>2, <1>6, <1>8, <2>1, <2>4 DEF Added
<1>9. CASE Slots(p) # {} /\ Hits(s, loc) = {} /\ ~(Len(s) < LocMax)
  <2>1. new = ul
    BY <1>1, <1>2, <1>3, <1>9 DEF SetSlot
  <2> QED
    BY <1>2, <1>6, <1>9, <2>1 DEF Full
<1> QED
  BY <1>4, <1>5, <1>7, <1>8, <1>9

\* uloc_slot() keeps within its tables.
LEMMA SetSlotTyped ==
  ASSUME ul \in Seq(Slot), Len(ul) <= UlMax, \A i \in 1 .. Len(ul) : Len(ul[i].locs) <= LocMax,
         NEW p \in Names, NEW loc \in Nat, NEW act \in Int, NEW new, new = SetSlot(p, loc, act)
  PROVE  /\ new \in Seq(Slot) /\ Len(new) <= UlMax
         /\ \A i \in 1 .. Len(new) : Len(new[i].locs) <= LocMax
<1>0. UlMax \in Nat /\ LocMax \in Nat /\ Len(ul) \in Nat
  BY GlReplayAssumption
<1>1. <<loc, act>> \in Nat \X Int
  OBVIOUS
<1>2. ASSUME NEW i \in 1 .. Len(ul), NEW s \in Seq(Nat \X Int), Len(s) <= LocMax,
             new = [ul EXCEPT ![i] = [prog |-> p, locs |-> s]]
      PROVE  new \in Seq(Slot) /\ Len(new) <= UlMax /\ \A j \in 1 .. Len(new) : Len(new[j].locs) <= LocMax
  <2>1. [prog |-> p, locs |-> s] \in Slot
    BY DEF Slot
  <2>2. new \in Seq(Slot) /\ Len(new) = Len(ul)
    BY <1>2, <2>1
  <2>3. \A j \in 1 .. Len(ul) : new[j] = IF j = i THEN [prog |-> p, locs |-> s] ELSE ul[j]
    BY <1>2
  <2> QED
    BY <1>2, <2>2, <2>3
<1>3. ASSUME NEW i \in 1 .. Len(ul) PROVE ul[i].locs \in Seq(Nat \X Int)
  <2>1. ul[i] \in Slot
    OBVIOUS
  <2> QED
    BY <2>1 DEF Slot
<1>4. CASE Opened(new, p, loc, act)
  <2>1. PICK e : e = [prog |-> p, locs |-> IF LocMax = 0 THEN <<>> ELSE <<<<loc, act>>>>]
    OBVIOUS
  <2>2. <<<<loc, act>>>> \in Seq(Nat \X Int) /\ Len(<<<<loc, act>>>>) = 1
        /\ <<>> \in Seq(Nat \X Int) /\ Len(<<>>) = 0
    BY <1>1
  <2>3. e \in Slot /\ Len(e.locs) <= LocMax
    BY <1>0, <2>1, <2>2 DEF Slot
  <2>4. new = Append(ul, e) /\ Len(ul) < UlMax
    BY <1>4, <2>1 DEF Opened
  <2>5. new \in Seq(Slot) /\ Len(new) = Len(ul) + 1 /\ new[Len(ul) + 1] = e
    BY <2>3, <2>4
  <2>6. \A i \in 1 .. Len(ul) : new[i] = ul[i]
    BY <2>3, <2>4
  <2> QED
    BY <1>0, <2>3, <2>4, <2>5, <2>6
<1>5. CASE Renewed(new, p, loc, act)
  <2>1. PICK i \in 1 .. Len(ul) : \E a \in 1 .. Len(ul[i].locs) :
               new = [ul EXCEPT ![i] = [prog |-> p, locs |-> [ul[i].locs EXCEPT ![a] = <<loc, act>>]]]
    BY <1>5 DEF Renewed
  <2>2. PICK a \in 1 .. Len(ul[i].locs) :
               new = [ul EXCEPT ![i] = [prog |-> p, locs |-> [ul[i].locs EXCEPT ![a] = <<loc, act>>]]]
    BY <2>1
  <2>3. PICK s : s = [ul[i].locs EXCEPT ![a] = <<loc, act>>]
    OBVIOUS
  <2>4. s \in Seq(Nat \X Int) /\ Len(s) = Len(ul[i].locs)
    BY <1>1, <1>3, <2>3
  <2>5. Len(s) <= LocMax /\ new = [ul EXCEPT ![i] = [prog |-> p, locs |-> s]]
    BY <2>2, <2>3, <2>4
  <2> QED
    BY <1>2, <2>4, <2>5
<1>6. CASE Added(new, p, loc, act)
  <2>1. PICK i \in 1 .. Len(ul) :
               /\ Len(ul[i].locs) < LocMax
               /\ new = [ul EXCEPT ![i] = [prog |-> p, locs |-> Append(ul[i].locs, <<loc, act>>)]]
    BY <1>6 DEF Added
  <2>2. PICK s : s = Append(ul[i].locs, <<loc, act>>)
    OBVIOUS
  <2>3. s \in Seq(Nat \X Int) /\ Len(s) = Len(ul[i].locs) + 1 /\ Len(ul[i].locs) \in Nat
    BY <1>1, <1>3, <2>2
  <2>4. Len(s) <= LocMax /\ new = [ul EXCEPT ![i] = [prog |-> p, locs |-> s]]
    BY <1>0, <2>1, <2>2, <2>3
  <2> QED
    BY <1>2, <2>3, <2>4
<1>7. CASE new = ul
  BY <1>7
<1> QED
  BY <1>4, <1>5, <1>6, <1>7, SetSlotIs

\* mput() keeps within its table.
LEMMA PutTyped ==
  ASSUME ReplayTypes, NEW k \in Kinds, NEW n \in Names, NEW to \in LiveNames, map' = mput(k, n, to)
  PROVE  map' \in [Kinds -> Seq(Names \X LiveNames)] /\ \A j \in Kinds : Len(map'[j]) <= MapMax
<1>1. /\ map \in [Kinds -> Seq(Names \X LiveNames)] /\ \A j \in Kinds : Len(map[j]) <= MapMax
      /\ MapMax \in Nat
  BY GlReplayAssumption DEF ReplayTypes
<1>2. map[k] \in Seq(Names \X LiveNames) /\ Len(map[k]) \in Nat
  BY <1>1
<1>3. CASE Len(map[k]) < MapMax
  <2>1. PICK s : s = Append(map[k], <<n, to>>)
    OBVIOUS
  <2>2. s \in Seq(Names \X LiveNames) /\ Len(s) = Len(map[k]) + 1
    BY <1>2, <2>1
  <2>3. map' = [map EXCEPT ![k] = s]
    BY <1>3, <2>1 DEF mput
  <2>4. map' \in [Kinds -> Seq(Names \X LiveNames)]
    BY <1>1, <2>2, <2>3
  <2>5. \A j \in Kinds : map'[j] = IF j = k THEN s ELSE map[j]
    BY <1>1, <2>3
  <2> QED
    <3>1. Len(s) <= MapMax
      BY <1>1, <1>2, <1>3, <2>2
    <3> QED
      BY <1>1, <2>4, <2>5, <3>1
<1>4. CASE ~(Len(map[k]) < MapMax)
  BY <1>1, <1>4 DEF mput
<1> QED
  BY <1>3, <1>4

\* The lines that change no map keep the types of the replayer's state.
LEMMA PlainReplayTypes ==
  ASSUME RecordInv, ReplayTypes, PlaceInv, NEW op, NEW means, Replay(op, means),
         UNCHANGED <<mapVars, liveVars>>, firstFrame' \in BOOLEAN, swaps' \in Nat
  PROVE  ReplayTypes' /\ PlaceInv'
<1>1. at' = at + 1 /\ at \in 1 .. Len(text) /\ text' = text /\ Len(text) \in Nat
  BY Reads
<1>2. at' \in 1 .. Len(text') + 1
  BY <1>1
<1>3. UNCHANGED <<map, ul, curProg, live, liveFb, liveProg, place>>
  BY DEF mapVars, liveVars
<1> QED
  BY <1>2, <1>3 DEF ReplayTypes, PlaceInv

\* So does a line that makes an object,
LEMMA GenTypes ==
  ASSUME RecordInv, ReplayTypes, PlaceInv, ReplayGen
  PROVE  ReplayTypes' /\ PlaceInv'
<1>1. PICK l : l = text[at]
  OBVIOUS
<1>2. Replay("gen", l.means) /\ UNCHANGED <<ul, curProg, firstFrame, swaps, liveFb, liveProg>>
  BY <1>1 DEF ReplayGen
<1>3. /\ at' = at + 1 /\ at \in 1 .. Len(text) /\ text' = text /\ Len(text) \in Nat
      /\ l \in Lines /\ l.op = "gen"
  BY <1>1, <1>2, Reads
<1>4. PICK F, P : TextOK(text, F, P)
  BY DEF RecordInv, Told, TextInv
<1>5. FitsGen(text, at - 1, l)
  BY <1>1, <1>3, <1>4, LineFits DEF Fits
<1>6. l.name \in Names /\ l.means[1] \in Objs /\ l.kind \in Kinds
  BY <1>3, <1>5, Fields DEF FitsGen
<1>7. PICK to \in LiveNames : /\ live' = [live EXCEPT ![l.kind][to] = l.means[1]]
                              /\ map' = mput(l.kind, l.name, to)
  BY <1>1 DEF ReplayGen
<1>8. map' \in [Kinds -> Seq(Names \X LiveNames)] /\ \A j \in Kinds : Len(map'[j]) <= MapMax
  BY <1>6, <1>7, PutTyped
<1>9. live' \in [Kinds -> [LiveNames -> 0 .. MaxObjs]]
  <2>1. l.means[1] \in 0 .. MaxObjs
    BY <1>6, GlRecordAssumption DEF Objs
  <2>2. [live[l.kind] EXCEPT ![to] = l.means[1]] \in [LiveNames -> 0 .. MaxObjs]
    BY <1>6, <2>1 DEF ReplayTypes
  <2> QED
    BY <1>6, <1>7, <2>2 DEF ReplayTypes
<1>10. at' \in 1 .. Len(text') + 1
  BY <1>3
<1>11. place' \in [Objs -> [Unis -> Unis]] /\ PlaceInv'
  <2>1. CASE UNCHANGED place
    BY <2>1 DEF ReplayTypes, PlaceInv
  <2>2. CASE \E p \in [Unis -> Unis] :
               /\ \A u, v \in Unis : p[u] = p[v] => u = v
               /\ place' = [place EXCEPT ![l.means[1]] = p]
    BY <1>6, <2>2 DEF ReplayTypes, PlaceInv
  <2> QED
    BY <1>1, <2>1, <2>2 DEF ReplayGen
<1> QED
  BY <1>2, <1>8, <1>9, <1>10, <1>11 DEF ReplayTypes

\* What the live driver has for the name of a line.
LEMMA NamedTyped ==
  ASSUME RecordInv, ReplayTypes, NEW F, NEW P, TextOK(text, F, P), at \in 1 .. Len(text),
         text[at].op \in {"use", "del", "getuni"}, NEW to, to = mget(text[at].kind, text[at].name),
         NEW obj, obj = LiveObject(text[at].kind, to)
  PROVE  /\ obj \in Stray .. MaxObjs /\ text[at].kind \in Kinds
         /\ text[at].name # None => to \in LiveNames /\ text[at].name \in Names /\ obj \in {Stray} \cup Objs
         /\ text[at].op # "use" => text[at].name # None
<1>1. text[at].kind \in Kinds /\ text[at].name \in Names \cup {None}
  BY LineFits, Fields
<1>2. obj \in Stray .. MaxObjs
  BY <1>1, LiveTyped
<1>3. text[at].name # None => to \in LiveNames /\ text[at].name \in Names /\ obj \in {Stray} \cup Objs
  BY <1>1, MgetTyped, LiveTyped, GlReplayAssumption
<1>4. text[at].op # "use" => text[at].name # None
  <2>1. FitsName(text, at - 1, text[at])
    BY LineFits DEF Fits
  <2> QED
    BY <2>1, GlRecordAssumption DEF FitsName
<1> QED
  BY <1>1, <1>2, <1>3, <1>4

\* one that deletes an object,
LEMMA DeleteTypes ==
  ASSUME RecordInv, ReplayTypes, PlaceInv, ReplayDelete
  PROVE  ReplayTypes' /\ PlaceInv'
<1>1. PICK l : l = text[at]
  OBVIOUS
<1>2. PICK to : to = mget(l.kind, l.name)
  OBVIOUS
<1>3. PICK obj : obj = LiveObject(l.kind, to)
  OBVIOUS
<1>4. /\ Replay("del", <<obj, liveFb>>)
      /\ live' = [live EXCEPT ![l.kind][to] = 0]
      /\ liveFb' = IF l.kind = "fb" /\ obj = liveFb THEN 0 ELSE liveFb
      /\ UNCHANGED <<mapVars, firstFrame, swaps, liveProg, place>>
  BY <1>1, <1>2, <1>3 DEF ReplayDelete
<1>5. at' = at + 1 /\ at \in 1 .. Len(text) /\ text' = text /\ Len(text) \in Nat /\ l.op = "del"
  BY <1>1, <1>4, Reads
<1>6. PICK F, P : TextOK(text, F, P)
  BY DEF RecordInv, Told, TextInv
<1>7. obj \in Stray .. MaxObjs /\ l.kind \in Kinds /\ to \in LiveNames
  BY <1>1, <1>2, <1>3, <1>5, <1>6, NamedTyped
<1>8. at' \in 1 .. Len(text') + 1
  BY <1>5
<1>9. live' \in [Kinds -> [LiveNames -> 0 .. MaxObjs]]
  <2>1. 0 \in 0 .. MaxObjs
    BY GlRecordAssumption
  <2>2. [live[l.kind] EXCEPT ![to] = 0] \in [LiveNames -> 0 .. MaxObjs]
    BY <1>7, <2>1 DEF ReplayTypes
  <2> QED
    BY <1>4, <1>7, <2>2 DEF ReplayTypes
<1>10. liveFb' \in Stray .. MaxObjs
  BY <1>4, GlRecordAssumption DEF Stray, ReplayTypes
<1>11. UNCHANGED <<map, ul, curProg, firstFrame, swaps, liveProg, place>>
  BY <1>4 DEF mapVars
<1> QED
  BY <1>8, <1>9, <1>10, <1>11 DEF ReplayTypes, PlaceInv

\* one that binds an object,
LEMMA UseTypes ==
  ASSUME RecordInv, ReplayTypes, PlaceInv, ReplayUse
  PROVE  ReplayTypes' /\ PlaceInv'
<1>1. PICK l : l = text[at]
  OBVIOUS
<1>2. PICK obj : obj = LiveObject(l.kind, mget(l.kind, l.name))
  OBVIOUS
<1>3. /\ Replay("use", <<obj, 0>>)
      /\ liveFb' = IF l.kind = "fb" THEN obj ELSE liveFb
      /\ liveProg' = IF l.kind = "prog" /\ obj # Stray THEN obj ELSE liveProg
      /\ curProg' = IF l.kind = "prog" THEN l.name ELSE curProg
      /\ UNCHANGED <<map, ul, firstFrame, swaps, live, place>>
  BY <1>1, <1>2 DEF ReplayUse
<1>4. at' = at + 1 /\ at \in 1 .. Len(text) /\ text' = text /\ Len(text) \in Nat /\ l.op = "use"
  BY <1>1, <1>3, Reads
<1>5. PICK F, P : TextOK(text, F, P)
  BY DEF RecordInv, Told, TextInv
<1>6. obj \in Stray .. MaxObjs
  BY <1>1, <1>2, <1>4, <1>5, NamedTyped
<1>7. l.name \in Names \cup {None}
  BY <1>1, <1>4, <1>5, LineFits, Fields
<1>8. at' \in 1 .. Len(text') + 1
  BY <1>4
<1>9. liveFb' \in Stray .. MaxObjs /\ curProg' \in Names \cup {None}
  BY <1>3, <1>6, <1>7 DEF ReplayTypes
<1>10. liveProg' \in 0 .. MaxObjs
  <2>1. obj # Stray => obj \in 0 .. MaxObjs
    BY <1>6, GlRecordAssumption DEF Stray
  <2>2. liveProg \in 0 .. MaxObjs
    BY DEF ReplayTypes
  <2> QED
    BY <1>3, <2>1, <2>2
<1> QED
  BY <1>3, <1>8, <1>9, <1>10 DEF ReplayTypes, PlaceInv

\* one that asks for a location,
LEMMA GetUniformTypes ==
  ASSUME RecordInv, ReplayTypes, PlaceInv, ReplayGetUniform
  PROVE  ReplayTypes' /\ PlaceInv'
<1>1. PICK l : l = text[at]
  OBVIOUS
<1>2. PICK obj : obj = LiveObject("prog", mget("prog", l.name))
  OBVIOUS
<1>3. PICK act : act = IF obj = Stray THEN -1 ELSE place[obj][l.means[2]]
  OBVIOUS
<1>4. /\ Replay("getuni", <<obj, l.means[2]>>)
      /\ ul' = SetSlot(l.name, l.loc, act)
      /\ UNCHANGED <<map, curProg, firstFrame, swaps, liveVars>>
  BY <1>1, <1>2, <1>3 DEF ReplayGetUniform
<1>5. at' = at + 1 /\ at \in 1 .. Len(text) /\ text' = text /\ Len(text) \in Nat /\ l.op = "getuni" /\ l \in Lines
  BY <1>1, <1>4, Reads
<1>6. PICK F, P : TextOK(text, F, P)
  BY DEF RecordInv, Told, TextInv
<1>7. FitsUniform(text, at - 1, l)
  BY <1>1, <1>5, <1>6, LineFits DEF Fits
<1>8. l.kind = "prog" /\ l.means[2] \in Unis /\ l.loc \in Nat
  BY <1>5, <1>7, Fields DEF FitsUniform
<1>9. l.name \in Names /\ obj \in {Stray} \cup Objs
  BY <1>1, <1>2, <1>5, <1>6, <1>8, NamedTyped
<1>10. act \in Int
  <2>1. obj # Stray => place[obj][l.means[2]] \in Nat
    BY <1>8, <1>9, GlRecordAssumption DEF ReplayTypes
  <2> QED
    BY <1>3, <2>1
<1>11. ul \in Seq(Slot) /\ Len(ul) <= UlMax /\ \A i \in 1 .. Len(ul) : Len(ul[i].locs) <= LocMax
  BY DEF ReplayTypes, Slot
<1>12. /\ ul' \in Seq(Slot) /\ Len(ul') <= UlMax
       /\ \A i \in 1 .. Len(ul') : Len(ul'[i].locs) <= LocMax
  BY <1>4, <1>8, <1>9, <1>10, <1>11, SetSlotTyped
<1>13. at' \in 1 .. Len(text') + 1
  BY <1>5
<1>14. UNCHANGED <<map, curProg, firstFrame, swaps, live, liveFb, liveProg, place>>
  BY <1>4 DEF liveVars
<1> QED
  BY <1>12, <1>13, <1>14 DEF ReplayTypes, PlaceInv, Slot

\* and one that begins a frame.
LEMMA ReplayFrameTypes ==
  ASSUME RecordInv, ReplayTypes, PlaceInv, ReplayFrame
  PROVE  ReplayTypes' /\ PlaceInv'
<1>1. Replay("frame", <<0, 0>>) /\ UNCHANGED <<mapVars, liveVars>>
  BY DEF ReplayFrame
<1>2. firstFrame' \in BOOLEAN /\ swaps' \in Nat
  <2>1. firstFrame' = FALSE /\ swaps' = IF ~firstFrame THEN swaps + 1 ELSE swaps
    BY DEF ReplayFrame, ShowsLast
  <2>2. swaps \in Nat /\ swaps + 1 \in Nat
    BY DEF ReplayTypes
  <2>3. swaps' = swaps + 1 \/ swaps' = swaps
    BY <2>1, Zenon
  <2>4. swaps' \in Nat
    BY <2>2, <2>3
  <2> QED
    BY <2>1, <2>4
<1> QED
  BY <1>1, <1>2, PlainReplayTypes

\* Frames are shown one late.
LEMMA FrameStays ==
  ASSUME RecordInv, ReplayTypes, FrameInv, NEW op, NEW means, Replay(op, means), op # "frame",
         UNCHANGED <<firstFrame, swaps>>
  PROVE  FrameInv'
<1>1. Before("frame")' = Before("frame")
  BY BeforeGrows
<1>2. /\ text' = text /\ rec' = rec /\ at' = at + 1 /\ stage' = "replay"
      /\ at \in 1 .. Len(text) /\ text[at].op # "end" /\ Len(text) \in Nat
  BY Reads
<1>3. ~rec => at # Len(text)
  BY <1>2 DEF RecordInv, EndInv
<1> QED
  BY <1>1, <1>2, <1>3 DEF FrameInv

\* A frame that is replayed shows the one before it.
LEMMA FrameShows ==
  ASSUME RecordInv, ReplayTypes, FrameInv, ReplayFrame
  PROVE  FrameInv'
<1>0. Replay("frame", <<0, 0>>) /\ swaps' = (IF ~firstFrame THEN swaps + 1 ELSE swaps) /\ firstFrame' = FALSE
  BY DEF ReplayFrame, ShowsLast
<1>1. /\ Before("frame")' = Before("frame") \cup {at} /\ at \notin Before("frame")
      /\ IsFiniteSet(Before("frame")) /\ Cardinality(Before("frame")) \in Nat
  BY <1>0, BeforeGrows
<1>2. Cardinality(Before("frame")') = Cardinality(Before("frame")) + 1
  BY <1>1, FS_AddElement
<1>3. /\ text' = text /\ rec' = rec /\ at' = at + 1 /\ stage' = "replay"
      /\ at \in 1 .. Len(text) /\ text[at].op # "end" /\ Len(text) \in Nat
  BY <1>0, Reads
<1>4. ~rec => at # Len(text)
  BY <1>3 DEF RecordInv, EndInv
<1>5. PICK c \in Nat : c = Cardinality(Before("frame"))
  BY <1>1
<1>6. /\ ~rec => at <= Len(text)
      /\ firstFrame <=> c = 0
      /\ swaps = IF firstFrame THEN 0 ELSE c - 1
  BY <1>5 DEF FrameInv
<1>7. Cardinality(Before("frame")') = c + 1 /\ c + 1 # 0
  BY <1>2, <1>5
<1>8. (~rec => at <= Len(text))'
  BY <1>3, <1>4
<1>9. (firstFrame <=> Cardinality(Before("frame")) = 0)'
  BY <1>0, <1>7
<1>10. swaps' = c
  BY <1>0, <1>5, <1>6
<1>11. (swaps = IF firstFrame THEN 0 ELSE Cardinality(Before("frame")) - 1)'
  BY <1>0, <1>5, <1>7, <1>10
<1> QED
  BY <1>3, <1>8, <1>9, <1>11 DEF FrameInv

-----------------------------------------------------------------------------
(* The map keeps up with the text.                                         *)

\* Where no object is made or deleted, the maps stay right.
LEMMA MapStays ==
  ASSUME RecordInv, ReplayTypes, MapInv, NEW op, NEW means, Replay(op, means), op # "gen",
         UNCHANGED <<map, live>>
  PROVE  MapInv'
<1>1. text' = text /\ at' = at + 1 /\ at \in Nat
  BY Reads
<1>2. SUFFICES ASSUME NEW k \in Kinds PROVE MapOf(k)'
  BY DEF MapInv
<1>3. GensBefore(k)' = GensBefore(k) /\ MapOf(k)
  BY GensGrow DEF MapInv
<1>4. 1 .. at - 1 \subseteq 1 .. at' - 1
  BY <1>1
<1>5. ASSUME NEW g \in GensBefore(k), NEW p \in 1 .. Len(map[k]), Entry(k, g, p) PROVE Entry(k, g, p)'
  BY <1>1, <1>4, <1>5 DEF Entry
<1> QED
  BY <1>1, <1>3, <1>5 DEF MapOf

\* Where one is deleted, the entries of the others stay right.
LEMMA MapDelete ==
  ASSUME RecordInv, ReplayTypes, MapInv, NEW F, NEW P, TextOK(text, F, P), ReplayDelete
  PROVE  MapInv'
<1>1. PICK l : l = text[at]
  OBVIOUS
<1>2. PICK to : to = mget(l.kind, l.name)
  OBVIOUS
<1>3. /\ Replay("del", <<LiveObject(l.kind, to), liveFb>>)
      /\ live' = [live EXCEPT ![l.kind][to] = 0]
      /\ UNCHANGED map
  BY <1>1, <1>2 DEF ReplayDelete, mapVars
<1>4. at' = at + 1 /\ at \in 1 .. Len(text) /\ text' = text /\ at \in Nat /\ l.op = "del" /\ Len(text) \in Nat
  BY <1>1, <1>3, Reads
<1>5. LiveObject(l.kind, to) = l.means[1]
  BY <1>1, <1>2, <1>4, MapsTo
<1>6. l.name \in Names /\ l.means[1] \in Objs /\ l.kind \in Kinds /\ to \in LiveNames
  <2>1. l.name # None /\ l.kind \in Kinds /\ to \in LiveNames
    BY <1>1, <1>2, <1>4, NamedTyped
  <2> QED
    BY <1>1, <1>4, <2>1, NamedOnce
<1>7. live[l.kind][to] = l.means[1]
  BY <1>5, <1>6, GlReplayAssumption DEF LiveObject, Stray, Objs
<1>8. SUFFICES ASSUME NEW k \in Kinds PROVE MapOf(k)'
  BY DEF MapInv
<1>9. GensBefore(k)' = GensBefore(k) /\ MapOf(k)
  BY <1>3, GensGrow DEF MapInv
<1>10. 1 .. at - 1 \subseteq 1 .. at' - 1 /\ at \in 1 .. at' - 1
  BY <1>4
<1>11. \A j \in Kinds : \A n \in LiveNames : live'[j][n] = IF j = l.kind /\ n = to THEN 0 ELSE live[j][n]
  BY <1>3, <1>6 DEF ReplayTypes
<1>12. map[k] \in Seq(Names \X LiveNames)
  BY DEF ReplayTypes
<1>13. ASSUME NEW g \in GensBefore(k), NEW p \in 1 .. Len(map[k]), Entry(k, g, p) PROVE Entry(k, g, p)'
  <2>1. map[k][p][2] \in LiveNames
    <3>1. map[k][p] \in Names \X LiveNames
      BY <1>12
    <3> QED
      BY <3>1
  <2>2. map'[k][p][1] = text'[g].name
    BY <1>3, <1>4, <1>13 DEF Entry
  <2>3. ASSUME \A d \in 1 .. at' - 1 : ~IsDel(text'[d], k, text'[g].means[1])
        PROVE  live'[k][map'[k][p][2]] = text'[g].means[1]
    <3>1. \A d \in 1 .. at - 1 : ~IsDel(text[d], k, text[g].means[1])
      BY <1>4, <1>10, <2>3
    <3>2. live[k][map[k][p][2]] = text[g].means[1]
      BY <1>13, <3>1 DEF Entry
    <3>3. ~IsDel(l, k, text[g].means[1])
      BY <1>1, <1>4, <1>10, <2>3
    <3>4. ~(k = l.kind /\ text[g].means[1] = l.means[1])
      BY <1>4, <3>3 DEF IsDel
    <3>5. ~(k = l.kind /\ map[k][p][2] = to)
      BY <1>7, <3>2, <3>4
    <3> QED
      BY <1>3, <1>4, <1>11, <2>1, <3>2, <3>5
  <2> QED
    BY <2>2, <2>3 DEF Entry
<1> QED
  BY <1>3, <1>4, <1>9, <1>13 DEF MapOf

\* Where one is made, there is room for its entry and no other has its name.
LEMMA MapGen ==
  ASSUME RecordInv, ReplayTypes, MapInv, NEW F, NEW P, TextOK(text, F, P), Mappable, ReplayGen
  PROVE  MapInv'
<1>1. PICK l : l = text[at]
  OBVIOUS
<1>2. Replay("gen", l.means)
  BY <1>1 DEF ReplayGen
<1>3. PICK to \in LiveNames : /\ live[l.kind][to] = 0
                              /\ live' = [live EXCEPT ![l.kind][to] = l.means[1]]
                              /\ map' = mput(l.kind, l.name, to)
  BY <1>1 DEF ReplayGen
<1>4. /\ at' = at + 1 /\ at \in 1 .. Len(text) /\ text' = text /\ at \in Nat /\ l.op = "gen"
      /\ Len(text) \in Nat /\ l \in Lines
  BY <1>1, <1>2, Reads
<1>5. l.name \in Names /\ l.means[1] \in Objs /\ l.kind \in Kinds
  <2>1. FitsGen(text, at - 1, l)
    BY <1>1, <1>4, LineFits DEF Fits
  <2> QED
    BY <1>4, <2>1, Fields DEF FitsGen
<1>6. \A j \in Kinds : \A n \in LiveNames : live'[j][n] = IF j = l.kind /\ n = to THEN l.means[1] ELSE live[j][n]
  BY <1>3, <1>5 DEF ReplayTypes
<1>7. SUFFICES ASSUME NEW k \in Kinds PROVE MapOf(k)'
  BY DEF MapInv
<1>8. MapOf(k) /\ map[k] \in Seq(Names \X LiveNames) /\ Len(map[k]) \in Nat
  BY DEF MapInv, ReplayTypes
<1>9. 1 .. at - 1 \subseteq 1 .. at' - 1
  BY <1>4
<1>10. \A p \in 1 .. Len(map[k]) : map[k][p] \in Names \X LiveNames
  BY <1>8
<1>11. GensBefore(k) \subseteq 1 .. at - 1 /\ GensBefore(k) \subseteq Gens(k)
  BY <1>2, GensGrow
\* The new object has a live name of its own.
<1>12. ASSUME NEW g \in GensBefore(k), NEW p \in 1 .. Len(map[k]), Entry(k, g, p),
              map'[k][p] = map[k][p]
       PROVE  Entry(k, g, p)'
  <2>1. map[k][p][2] \in LiveNames /\ map'[k][p][1] = text'[g].name
    BY <1>4, <1>10, <1>12 DEF Entry
  <2>2. text[g].means[1] # 0
    <3>1. g \in 1 .. Len(text) /\ text[g].op = "gen"
      BY <1>11 DEF Gens, LinesOf
    <3>2. FitsGen(text, g - 1, text[g])
      BY <3>1, LineFits DEF Fits
    <3> QED
      BY <3>1, <3>2 DEF FitsGen, Objs
  <2>3. ASSUME \A d \in 1 .. at' - 1 : ~IsDel(text'[d], k, text'[g].means[1])
        PROVE  live'[k][map'[k][p][2]] = text'[g].means[1]
    <3>1. live[k][map[k][p][2]] = text[g].means[1]
      BY <1>4, <1>9, <1>12, <2>3 DEF Entry
    <3>2. ~(k = l.kind /\ map[k][p][2] = to)
      BY <1>3, <2>2, <3>1
    <3> QED
      BY <1>4, <1>6, <1>12, <2>1, <3>1, <3>2
  <2> QED
    BY <2>1, <2>3 DEF Entry
<1>13. CASE k # l.kind
  <2>1. GensBefore(k)' = GensBefore(k)
    BY <1>1, <1>2, <1>13, GensGrow
  <2>2. map'[k] = map[k]
    BY <1>3, <1>5, <1>13 DEF mput, ReplayTypes
  <2> QED
    BY <1>4, <1>8, <1>12, <2>1, <2>2 DEF MapOf
<1>14. CASE k = l.kind
  <2>1. /\ GensBefore(k)' = GensBefore(k) \cup {at} /\ at \notin GensBefore(k)
        /\ at \in Gens(k) /\ IsFiniteSet(Gens(k)) /\ IsFiniteSet(GensBefore(k))
        /\ Cardinality(GensBefore(k)) \in Nat /\ Cardinality(Gens(k)) \in Nat
    BY <1>1, <1>2, <1>14, GensGrow
  <2>2. Cardinality(GensBefore(k)') = Cardinality(GensBefore(k)) + 1 /\ IsFiniteSet(GensBefore(k)')
    BY <2>1, FS_AddElement
  <2>3. Cardinality(GensBefore(k)') <= Cardinality(Gens(k))
    <3>1. GensBefore(k)' \in SUBSET Gens(k)
      BY <1>11, <2>1
    <3> QED
      BY <2>1, <3>1, FS_Subset
  <2>4. Cardinality(Gens(k)) <= MapMax /\ MapMax \in Nat
    BY GlReplayAssumption DEF Mappable, TablesHold
  <2>5. Len(map[k]) = Cardinality(GensBefore(k))
    BY <1>8 DEF MapOf
  <2>6. Len(map[k]) < MapMax
    BY <2>1, <2>2, <2>3, <2>4, <2>5
  <2>7. PICK s : s = Append(map[k], <<l.name, to>>)
    OBVIOUS
  <2>8. map'[k] = s
    BY <1>3, <1>5, <1>14, <2>6, <2>7 DEF mput, ReplayTypes
  <2>9. <<l.name, to>> \in Names \X LiveNames
    BY <1>5
  <2>10. /\ Len(s) = Len(map[k]) + 1 /\ s[Len(map[k]) + 1] = <<l.name, to>>
         /\ \A p \in 1 .. Len(map[k]) : s[p] = map[k][p]
    BY <1>8, <2>7, <2>9
  <2>11. text[at] = l /\ text' = text
    BY <1>1, <1>4
  \* No entry has the new name yet.
  <2>12. \A p \in 1 .. Len(map[k]) : map[k][p][1] # l.name
    <3>1. SUFFICES ASSUME NEW p \in 1 .. Len(map[k]), map[k][p][1] = l.name PROVE FALSE
      OBVIOUS
    <3>2. PICK g \in GensBefore(k) : text[g].name = l.name
      BY <1>8, <3>1 DEF MapOf
    <3>3. g = at
      BY <1>11, <2>1, <2>11, <3>2 DEF Mappable, NamesDistinct
    <3> QED
      BY <2>1, <3>2, <3>3
  <2>13. Len(s) = Cardinality(GensBefore(k)')
    BY <2>2, <2>5, <2>10
  <2>14. ASSUME NEW p \in 1 .. Len(s) PROVE \E g \in GensBefore(k)' : text'[g].name = s[p][1]
    <3>1. CASE p \in 1 .. Len(map[k])
      <4>1. PICK g \in GensBefore(k) : text[g].name = map[k][p][1]
        BY <1>8, <3>1 DEF MapOf
      <4>2. s[p] = map[k][p]
        BY <2>10, <3>1
      <4>3. g \in GensBefore(k)'
        BY <2>1
      <4> QED
        BY <2>11, <4>1, <4>2, <4>3
    <3>2. CASE p = Len(map[k]) + 1
      <4>1. s[p][1] = l.name
        BY <2>10, <3>2
      <4> QED
        BY <2>1, <2>11, <4>1
    <3> QED
      BY <1>8, <2>10, <2>14, <3>1, <3>2
  <2>15. ASSUME NEW p \in 1 .. Len(s), NEW q \in 1 .. Len(s), s[p][1] = s[q][1] PROVE p = q
    <3>1. p \in 1 .. Len(map[k]) \/ p = Len(map[k]) + 1
      BY <1>8, <2>10
    <3>2. q \in 1 .. Len(map[k]) \/ q = Len(map[k]) + 1
      BY <1>8, <2>10
    <3>3. s[Len(map[k]) + 1][1] = l.name
      BY <2>10
    <3>4. CASE p \in 1 .. Len(map[k]) /\ q \in 1 .. Len(map[k])
      BY <1>8, <2>10, <2>15, <3>4 DEF MapOf
    <3>5. CASE p \in 1 .. Len(map[k]) /\ q = Len(map[k]) + 1
      BY <2>10, <2>12, <2>15, <3>3, <3>5
    <3>6. CASE p = Len(map[k]) + 1 /\ q \in 1 .. Len(map[k])
      BY <2>10, <2>12, <2>15, <3>3, <3>6
    <3> QED
      BY <3>1, <3>2, <3>4, <3>5, <3>6
  <2>16. ASSUME NEW g \in GensBefore(k)' PROVE \E p \in 1 .. Len(s) : Entry(k, g, p)'
    <3>1. CASE g \in GensBefore(k)
      <4>1. PICK p \in 1 .. Len(map[k]) : Entry(k, g, p)
        BY <1>8, <3>1 DEF MapOf
      <4>2. p \in 1 .. Len(s) /\ map'[k][p] = map[k][p]
        BY <1>8, <2>8, <2>10
      <4>3. Entry(k, g, p)'
        BY <1>12, <3>1, <4>1, <4>2
      <4> QED
        BY <4>2, <4>3
    <3>2. CASE g = at
      <4>1. Len(map[k]) + 1 \in 1 .. Len(s)
        BY <1>8, <2>10
      <4>2. map'[k][Len(map[k]) + 1] = <<l.name, to>>
        BY <2>8, <2>10
      <4>3. live'[k][to] = l.means[1]
        BY <1>6, <1>14
      <4>4. PICK p : p = Len(map[k]) + 1
        OBVIOUS
      <4>5. text'[g] = l
        BY <2>11, <3>2
      <4>6. Entry(k, g, p)'
        BY <4>2, <4>3, <4>4, <4>5 DEF Entry
      <4> QED
        BY <4>1, <4>4, <4>6
    <3> QED
      BY <2>1, <2>16, <3>1, <3>2
  <2> QED
    BY <2>8, <2>13, <2>14, <2>15, <2>16 DEF MapOf
<1> QED
  BY <1>13, <1>14

-----------------------------------------------------------------------------
(* The uniforms' locations keep up with the text.                          *)

\* The values of a finite function are finitely many.
LEMMA ImageFinite ==
  ASSUME NEW f, IsFiniteSet(DOMAIN f)
  PROVE  IsFiniteSet({f[x] : x \in DOMAIN f})
<1> DEFINE T == {f[x] : x \in DOMAIN f}
           g == [x \in DOMAIN f |-> f[x]]
<1>1. g \in Surjection(DOMAIN f, T)
  BY DEF Surjection
<1> QED
  BY <1>1, FS_Surjection

\* A line that asked for a location.
LEMMA Query ==
  ASSUME NEW F, NEW P, TextOK(text, F, P), NEW j \in 1 .. Len(text), text[j].op = "getuni"
  PROVE  /\ text[j].kind = "prog" /\ text[j].name \in Names /\ text[j].means[1] \in Objs
         /\ text[j].loc \in Unis /\ text[j].loc \in Nat /\ text[j].means[2] = text[j].loc
<1>1. text[j].kind = "prog" /\ text[j].loc \in Unis /\ text[j].means[2] = text[j].loc
  BY LineFits DEF Fits, FitsUniform
<1>2. text[j].name # None
  <2>1. FitsName(text, j - 1, text[j])
    BY LineFits DEF Fits
  <2> QED
    BY <2>1, GlRecordAssumption DEF FitsName
<1> QED
  BY <1>1, <1>2, NamedOnce, GlRecordAssumption

\* Two questions that name the same program mean the same one.
LEMMA SameQuery ==
  ASSUME NEW F, NEW P, TextOK(text, F, P), NamesDistinct,
         NEW i \in 1 .. Len(text), text[i].op = "getuni",
         NEW j \in 1 .. Len(text), text[j].op = "getuni", text[i].name = text[j].name
  PROVE  text[i].means[1] = text[j].means[1]
<1>1. text[i].kind = "prog" /\ text[j].kind = "prog" /\ text[i].name # None /\ text[j].name # None
  BY Query, GlRecordAssumption
<1>2. PICK g \in 1 .. Len(text) : IsGen(text[g], "prog", text[i].name, text[i].means[1])
  BY <1>1, NamedOnce
<1>3. PICK h \in 1 .. Len(text) : IsGen(text[h], "prog", text[i].name, text[j].means[1])
  BY <1>1, NamedOnce
<1>4. text \in Seq(Lines) /\ "prog" \in Kinds
  BY GlRecordAssumption DEF TextOK
<1>5. PICK n : n = text[i].name
  OBVIOUS
<1>6. PICK o : o = text[i].means[1]
  OBVIOUS
<1>7. PICK q : q = text[j].means[1]
  OBVIOUS
<1>8. IsGen(text[g], "prog", n, o) /\ IsGen(text[h], "prog", n, q)
  BY <1>2, <1>3, <1>5, <1>6, <1>7
<1>9. o = q
  BY <1>4, <1>8, OneObject
<1> QED
  BY <1>6, <1>7, <1>9

\* ul[] stays right where no location is asked for and no program asked is placed anew.
LEMMA SlotStays ==
  ASSUME RecordInv, ReplayTypes, SlotInv, NEW op, NEW means, Replay(op, means), op # "getuni",
         ul' = ul, \A j \in Before("getuni") : place'[text[j].means[1]] = place[text[j].means[1]]
  PROVE  SlotInv'
<1>1. text' = text /\ Before("getuni")' = Before("getuni")
  BY Reads, BeforeGrows
<1>2. ASSUME NEW j \in Before("getuni") PROVE Found(ul, place', text[j])
  <2>1. Found(ul, place, text[j])
    BY DEF SlotInv, SlotOK
  <2> QED
    BY <2>1 DEF Found
<1>3. SlotOK(text, Before("getuni"), ul, place')
  BY <1>2 DEF SlotInv, SlotOK
<1> QED
  BY <1>1, <1>3 DEF SlotInv

\* A program that is made has not been asked yet.
LEMMA SlotGen ==
  ASSUME RecordInv, ReplayTypes, SlotInv, NEW F, NEW P, TextOK(text, F, P), ReplayGen
  PROVE  SlotInv'
<1>1. PICK l : l = text[at]
  OBVIOUS
<1>2. /\ Replay("gen", l.means) /\ ul' = ul
      /\ place' = place \/ \E p \in [Unis -> Unis] : place' = [place EXCEPT ![l.means[1]] = p]
  BY <1>1 DEF ReplayGen
<1>3. at \in 1 .. Len(text) /\ at \in Nat /\ l.op = "gen" /\ Len(text) \in Nat /\ l \in Lines
  BY <1>1, <1>2, Reads
<1>4. FitsGen(text, at - 1, l)
  BY <1>1, <1>3, LineFits DEF Fits
<1>5. ASSUME NEW j \in Before("getuni") PROVE text[j].means[1] # l.means[1] /\ text[j].means[1] \in Objs
  <2>1. j \in 1 .. Len(text) /\ text[j].op = "getuni" /\ j < at
    BY DEF Before, LinesOf
  <2>2. text[j].name # None /\ text[j].means[1] \in Objs
    BY <2>1, Query, GlRecordAssumption
  <2>3. PICK g \in 1 .. j - 1 : IsGen(text[g], text[j].kind, text[j].name, text[j].means[1])
    BY <2>1, <2>2, NamedOnce
  <2>4. g \in 1 .. at - 1
    BY <1>3, <2>1
  <2>5. text[g].means[1] < l.means[1]
    BY <1>3, <1>4, <2>3, <2>4 DEF FitsGen, IsGen
  <2>6. l.means[1] \in Objs
    BY <1>3, <1>4 DEF FitsGen
  <2> QED
    BY <2>2, <2>3, <2>5, <2>6 DEF IsGen, Objs
<1>6. \A j \in Before("getuni") : place'[text[j].means[1]] = place[text[j].means[1]]
  BY <1>2, <1>5 DEF ReplayTypes
<1> QED
  BY <1>2, <1>6, SlotStays

\* What the line asks for and is given, and what that adds to the text.
IsQuery(l, n, loc, act, pl) == l.name = n /\ l.loc = loc /\ pl[l.means[1]][loc] = act
Grown(t, S, T, n, loc) ==
  /\ NamesIn(t, T) = NamesIn(t, S) \cup {n}
  /\ \A m : LocsIn(t, T, m) = IF m = n THEN LocsIn(t, S, m) \cup {loc} ELSE LocsIn(t, S, m)

\* What a line that asks for a location adds, and the room there is for it.
LEMMA QueryGrows ==
  ASSUME text \in Seq(Lines), Mappable, NEW S \in SUBSET LinesOf("getuni"), NEW i \in LinesOf("getuni"),
         NEW n \in Names, NEW loc, text[i].name = n, text[i].loc = loc
  PROVE  /\ Grown(text, S, S \cup {i}, n, loc)
         /\ n \notin NamesIn(text, S) =>
              /\ Cardinality(NamesIn(text, S) \cup {n}) = Cardinality(NamesIn(text, S)) + 1
              /\ Cardinality(NamesIn(text, S)) < UlMax
              /\ LocsIn(text, S, n) = {}
         /\ loc \notin LocsIn(text, S, n) =>
              /\ Cardinality(LocsIn(text, S, n) \cup {loc}) = Cardinality(LocsIn(text, S, n)) + 1
              /\ Cardinality(LocsIn(text, S, n)) < LocMax
         /\ Cardinality(NamesIn(text, S)) \in Nat /\ Cardinality(LocsIn(text, S, n)) \in Nat
<1> DEFINE Q   == LinesOf("getuni")
           All == {text[j].name : j \in Q}
<1>1. NamesIn(text, S \cup {i}) = NamesIn(text, S) \cup {n}
  BY DEF NamesIn
<1>2. ASSUME NEW m
      PROVE  LocsIn(text, S \cup {i}, m) = IF m = n THEN LocsIn(text, S, m) \cup {loc} ELSE LocsIn(text, S, m)
  BY DEF LocsIn
<1>3. n \notin NamesIn(text, S) => LocsIn(text, S, n) = {}
  BY DEF NamesIn, LocsIn
<1>4. IsFiniteSet(Q)
  BY FramesFinite
<1>5. IsFiniteSet(All)
  <2> DEFINE f == [j \in Q |-> text[j].name]
  <2>1. IsFiniteSet({f[x] : x \in DOMAIN f})
    BY <1>4, ImageFinite
  <2>2. All = {f[x] : x \in DOMAIN f}
    OBVIOUS
  <2> QED
    BY <2>1, <2>2
<1>6. IsFiniteSet(Queried(n))
  <2> DEFINE T == {j \in Q : text[j].name = n}
             f == [j \in T |-> text[j].loc]
  <2>1. IsFiniteSet(T)
    BY <1>4, FS_Subset
  <2>2. IsFiniteSet({f[x] : x \in DOMAIN f})
    BY <2>1, ImageFinite
  <2>3. Queried(n) = {f[x] : x \in DOMAIN f}
    BY DEF Queried
  <2> QED
    BY <2>2, <2>3
<1>7. /\ Cardinality(All) <= UlMax /\ UlMax \in Nat
      /\ Cardinality(Queried(n)) <= LocMax /\ LocMax \in Nat
  BY GlReplayAssumption DEF Mappable, TablesHold
<1>8. NamesIn(text, S) \cup {n} \subseteq All /\ LocsIn(text, S, n) \cup {loc} \subseteq Queried(n)
  BY DEF NamesIn, LocsIn, Queried
<1> HIDE DEF All, Q
<1>9. /\ Cardinality(NamesIn(text, S) \cup {n}) <= Cardinality(All)
      /\ Cardinality(LocsIn(text, S, n) \cup {loc}) <= Cardinality(Queried(n))
      /\ IsFiniteSet(NamesIn(text, S)) /\ IsFiniteSet(LocsIn(text, S, n))
  <2>1. NamesIn(text, S) \in SUBSET All /\ LocsIn(text, S, n) \in SUBSET Queried(n)
    BY <1>8
  <2> QED
    BY <1>5, <1>6, <1>8, <2>1, FS_Subset
<1>10. /\ Cardinality(NamesIn(text, S)) \in Nat /\ Cardinality(LocsIn(text, S, n)) \in Nat
       /\ Cardinality(All) \in Nat /\ Cardinality(Queried(n)) \in Nat
  BY <1>5, <1>6, <1>9, FS_CardinalityType
<1>11. /\ n \notin NamesIn(text, S) =>
            Cardinality(NamesIn(text, S) \cup {n}) = Cardinality(NamesIn(text, S)) + 1
       /\ loc \notin LocsIn(text, S, n) =>
            Cardinality(LocsIn(text, S, n) \cup {loc}) = Cardinality(LocsIn(text, S, n)) + 1
  BY <1>9, FS_AddElement
<1>12. n \notin NamesIn(text, S) => Cardinality(NamesIn(text, S)) < UlMax
  BY <1>7, <1>9, <1>10, <1>11
<1>13. loc \notin LocsIn(text, S, n) => Cardinality(LocsIn(text, S, n)) < LocMax
  BY <1>7, <1>9, <1>10, <1>11
<1>14. Grown(text, S, S \cup {i}, n, loc)
  BY <1>1, <1>2 DEF Grown
<1> QED
  BY <1>3, <1>10, <1>11, <1>12, <1>13, <1>14

-----------------------------------------------------------------------------
(* ul[] with the location of one more line.                                *)

\* A table in which all there was is where it was.
Keeps(u, new) ==
  \A i \in 1 .. Len(u) :
    /\ i \in 1 .. Len(new) /\ new[i].prog = u[i].prog
    /\ \A a \in 1 .. Len(u[i].locs) : a \in 1 .. Len(new[i].locs) /\ new[i].locs[a] = u[i].locs[a]

\* A table with another entry at i.
SetAt(u, i, e, new) ==
  Len(new) = Len(u) /\ new[i] = e /\ \A j \in 1 .. Len(u) : j # i => new[j] = u[j]

\* A location found in one table is found in another that has the entry.
LEMMA FoundStays ==
  ASSUME NEW u, NEW new, Keeps(u, new), NEW pl, NEW l, Found(u, pl, l)
  PROVE  Found(new, pl, l)
BY DEF Keeps, Found

\* A set with an element more.
LEMMA OneMore ==
  ASSUME NEW n \in Nat, NEW i \in 1 .. n + 1
  PROVE  i \in 1 .. n \/ i = n + 1
OBVIOUS

\* A sequence with an element more.
LEMMA OneLonger ==
  ASSUME NEW E, NEW s \in Seq(E), NEW e \in E
  PROVE  /\ Append(s, e) \in Seq(E) /\ Len(Append(s, e)) = Len(s) + 1 /\ Len(s) \in Nat
         /\ Append(s, e)[Len(s) + 1] = e /\ \A i \in 1 .. Len(s) : Append(s, e)[i] = s[i]
         /\ Len(s) + 1 \in 1 .. Len(s) + 1 /\ 1 .. Len(s) \subseteq 1 .. Len(s) + 1
OBVIOUS

\* The entry of a program has a location more.
LEMMA LocsLonger ==
  ASSUME NEW t, NEW S, NEW T, NEW n, NEW loc, NEW pair \in Nat \X Int, pair[1] = loc,
         Grown(t, S, T, n, loc), loc \notin LocsIn(t, S, n),
         Cardinality(LocsIn(t, S, n) \cup {loc}) = Cardinality(LocsIn(t, S, n)) + 1,
         NEW s \in Seq(Nat \X Int), LocsOf(t, S, [prog |-> n, locs |-> s])
  PROVE  LocsOf(t, T, [prog |-> n, locs |-> Append(s, pair)])
<1>1. /\ n \in NamesIn(t, S) /\ Len(s) = Cardinality(LocsIn(t, S, n))
      /\ \A a \in 1 .. Len(s) : s[a][1] \in LocsIn(t, S, n)
      /\ \A a, b \in 1 .. Len(s) : s[a][1] = s[b][1] => a = b
  BY DEF LocsOf
<1>2. n \in NamesIn(t, T) /\ LocsIn(t, T, n) = LocsIn(t, S, n) \cup {loc}
  BY DEF Grown
<1>3. PICK u : u = Append(s, pair)
  OBVIOUS
<1>4. /\ Len(u) = Len(s) + 1 /\ Len(s) \in Nat /\ u[Len(s) + 1] = pair
      /\ \A a \in 1 .. Len(s) : u[a] = s[a]
  BY <1>3, OneLonger
<1>5. ASSUME NEW a \in 1 .. Len(u) PROVE a \in 1 .. Len(s) \/ a = Len(s) + 1
  BY <1>4, OneMore
<1>6. Len(u) = Cardinality(LocsIn(t, T, n))
  BY <1>1, <1>2, <1>4
<1>7. ASSUME NEW a \in 1 .. Len(u) PROVE u[a][1] \in LocsIn(t, T, n)
  BY <1>1, <1>2, <1>4, <1>5
<1>8. ASSUME NEW a \in 1 .. Len(u), NEW b \in 1 .. Len(u), u[a][1] = u[b][1] PROVE a = b
  <2>1. CASE a \in 1 .. Len(s) /\ b \in 1 .. Len(s)
    BY <1>1, <1>4, <1>8, <2>1
  <2>2. \A c \in 1 .. Len(s) : u[c][1] # u[Len(s) + 1][1]
    BY <1>1, <1>4
  <2> QED
    BY <1>5, <1>8, <2>1, <2>2
<1>9. LocsOf(t, T, [prog |-> n, locs |-> u])
  BY <1>2, <1>6, <1>7, <1>8 DEF LocsOf
<1> QED
  BY <1>3, <1>9

\* The entries of the other programs stay.
LEMMA LocsSame ==
  ASSUME NEW t, NEW S, NEW T, NEW n, NEW loc, Grown(t, S, T, n, loc),
         NEW slot, slot.prog # n, LocsOf(t, S, slot)
  PROVE  LocsOf(t, T, slot)
<1>1. LocsIn(t, T, slot.prog) = LocsIn(t, S, slot.prog) /\ NamesIn(t, S) \subseteq NamesIn(t, T)
  BY DEF Grown
<1> QED
  BY <1>1 DEF LocsOf

\* ul[] is right with an entry for a program that had none.
LEMMA NewProgram ==
  ASSUME NEW t, NEW S, NEW x, NEW u \in Seq(Slot), NEW pl, SlotOK(t, S, u, pl),
         NEW n, NEW loc, NEW act, IsQuery(t[x], n, loc, act, pl), Grown(t, S, S \cup {x}, n, loc),
         n \notin NamesIn(t, S), LocsIn(t, S, n) = {},
         Cardinality(NamesIn(t, S) \cup {n}) = Cardinality(NamesIn(t, S)) + 1,
         NEW e \in Slot, e.prog = n, e.locs = <<<<loc, act>>>>
  PROVE  SlotOK(t, S \cup {x}, Append(u, e), pl)
<1> DEFINE T == S \cup {x}
<1>1. PICK new : new = Append(u, e)
  OBVIOUS
<1>2. /\ Len(new) = Len(u) + 1 /\ Len(u) \in Nat /\ new[Len(u) + 1] = e
      /\ \A i \in 1 .. Len(u) : new[i] = u[i]
      /\ Len(u) + 1 \in 1 .. Len(new) /\ 1 .. Len(u) \subseteq 1 .. Len(new)
  BY <1>1, OneLonger
<1>3. ASSUME NEW i \in 1 .. Len(new) PROVE i \in 1 .. Len(u) \/ i = Len(u) + 1
  BY <1>2, OneMore
<1>4. /\ Len(u) = Cardinality(NamesIn(t, S))
      /\ \A i, j \in 1 .. Len(u) : u[i].prog = u[j].prog => i = j
      /\ \A i \in 1 .. Len(u) : LocsOf(t, S, u[i])
      /\ \A j \in S : Found(u, pl, t[j])
  BY DEF SlotOK
<1>5. NamesIn(t, T) = NamesIn(t, S) \cup {n} /\ LocsIn(t, T, n) = {loc}
  BY DEF Grown
<1>6. ASSUME NEW i \in 1 .. Len(u) PROVE u[i].prog # n
  BY <1>4 DEF LocsOf
<1>7. Len(new) = Cardinality(NamesIn(t, T))
  BY <1>2, <1>4, <1>5
<1>8. ASSUME NEW i \in 1 .. Len(new), NEW j \in 1 .. Len(new), new[i].prog = new[j].prog PROVE i = j
  <2>1. CASE i \in 1 .. Len(u) /\ j \in 1 .. Len(u)
    BY <1>2, <1>4, <1>8, <2>1
  <2>2. \A h \in 1 .. Len(u) : new[h].prog # new[Len(u) + 1].prog
    BY <1>2, <1>6
  <2> QED
    BY <1>3, <1>8, <2>1, <2>2
<1>9. LocsOf(t, T, e)
  <2>1. /\ Len(e.locs) = 1 /\ e.locs[1][1] = loc
        /\ \A a \in 1 .. Len(e.locs) : a = 1
    OBVIOUS
  <2>2. Cardinality({loc}) = 1
    BY FS_Singleton
  <2> QED
    BY <1>5, <2>1, <2>2 DEF LocsOf
<1>10. ASSUME NEW i \in 1 .. Len(new) PROVE LocsOf(t, T, new[i])
  <2>1. CASE i \in 1 .. Len(u)
    BY <1>2, <1>4, <1>6, <2>1, LocsSame
  <2> QED
    BY <1>2, <1>3, <1>9, <2>1
<1>11. Keeps(u, new)
  BY <1>2 DEF Keeps
<1>12. Found(new, pl, t[x])
  <2>1. 1 \in 1 .. Len(e.locs) /\ e.locs[1] = <<loc, act>>
    OBVIOUS
  <2> QED
    BY <1>2, <2>1 DEF Found, IsQuery
<1>13. ASSUME NEW j \in T PROVE Found(new, pl, t[j])
  BY <1>4, <1>11, <1>12, FoundStays
<1>14. SlotOK(t, T, new, pl)
  BY <1>7, <1>8, <1>10, <1>13 DEF SlotOK
<1> QED
  BY <1>1, <1>14

\* It is right with a location more.
LEMMA NewLoc ==
  ASSUME NEW t, NEW S, NEW x, NEW u \in Seq(Slot), NEW pl, SlotOK(t, S, u, pl),
         NEW n, NEW loc, NEW act, IsQuery(t[x], n, loc, act, pl), Grown(t, S, S \cup {x}, n, loc),
         <<loc, act>> \in Nat \X Int, loc \notin LocsIn(t, S, n),
         Cardinality(LocsIn(t, S, n) \cup {loc}) = Cardinality(LocsIn(t, S, n)) + 1,
         NEW i \in 1 .. Len(u), u[i].prog = n, NEW v, v = Append(u[i].locs, <<loc, act>>),
         NEW new, SetAt(u, i, [prog |-> n, locs |-> v], new)
  PROVE  SlotOK(t, S \cup {x}, new, pl)
<1> DEFINE T == S \cup {x}
<1>1. PICK s : s = u[i].locs
  OBVIOUS
<1>2. u[i] \in Slot /\ i \in DOMAIN u
  OBVIOUS
<1>3. u[i] = [prog |-> n, locs |-> s] /\ s \in Seq(Nat \X Int)
  BY <1>1, <1>2 DEF Slot
<1>4. v = Append(s, <<loc, act>>)
  BY <1>1
<1>5. /\ Len(v) = Len(s) + 1 /\ Len(s) \in Nat /\ v[Len(s) + 1] = <<loc, act>>
      /\ \A a \in 1 .. Len(s) : v[a] = s[a]
      /\ Len(s) + 1 \in 1 .. Len(v) /\ 1 .. Len(s) \subseteq 1 .. Len(v)
  BY <1>3, <1>4, OneLonger
<1>6. PICK e : e = [prog |-> n, locs |-> v]
  OBVIOUS
<1>7. e.prog = n /\ e.locs = v
  BY <1>6
<1>8. Len(new) = Len(u) /\ new[i] = e /\ \A j \in 1 .. Len(u) : j # i => new[j] = u[j]
  BY <1>6 DEF SetAt
<1>9. /\ Len(u) = Cardinality(NamesIn(t, S))
      /\ \A h, j \in 1 .. Len(u) : u[h].prog = u[j].prog => h = j
      /\ \A j \in 1 .. Len(u) : LocsOf(t, S, u[j])
      /\ \A j \in S : Found(u, pl, t[j])
  BY DEF SlotOK
<1>10. LocsOf(t, S, [prog |-> n, locs |-> s])
  BY <1>3, <1>9
<1>11. NamesIn(t, T) = NamesIn(t, S)
  <2>1. n \in NamesIn(t, S)
    BY <1>10 DEF LocsOf
  <2>2. NamesIn(t, T) = NamesIn(t, S) \cup {n}
    BY DEF Grown
  <2> QED
    BY <2>1, <2>2
<1>12. LocsOf(t, T, e)
  <2>1. PICK pair : pair = <<loc, act>>
    OBVIOUS
  <2>2. pair \in Nat \X Int /\ pair[1] = loc
    BY <2>1
  <2>3. LocsOf(t, T, [prog |-> n, locs |-> Append(s, pair)])
    BY <1>3, <1>10, <2>2, LocsLonger
  <2> QED
    BY <1>4, <1>6, <2>1, <2>3
<1>13. ASSUME NEW j \in 1 .. Len(u) PROVE LocsOf(t, T, new[j])
  <2>1. CASE j # i
    <3>1. u[j].prog # n /\ LocsOf(t, S, u[j])
      BY <1>9, <2>1
    <3>2. LocsOf(t, T, u[j])
      BY <3>1, LocsSame
    <3> QED
      BY <1>8, <2>1, <3>2
  <2> QED
    BY <1>8, <1>12, <2>1
<1>14. ASSUME NEW j \in 1 .. Len(u) PROVE new[j].prog = u[j].prog
  BY <1>7, <1>8
<1>15. Keeps(u, new)
  <2>1. ASSUME NEW j \in 1 .. Len(u), NEW a \in 1 .. Len(u[j].locs)
        PROVE  a \in 1 .. Len(new[j].locs) /\ new[j].locs[a] = u[j].locs[a]
    <3>1. CASE j = i
      BY <1>1, <1>5, <1>7, <1>8, <3>1
    <3>2. CASE j # i
      BY <1>8, <3>2
    <3> QED
      BY <3>1, <3>2
  <2> QED
    BY <1>8, <1>14, <2>1 DEF Keeps
<1>16. Found(new, pl, t[x])
  <2>1. i \in 1 .. Len(new) /\ Len(s) + 1 \in 1 .. Len(new[i].locs) /\ new[i].locs[Len(s) + 1] = <<loc, act>>
    BY <1>5, <1>7, <1>8
  <2>2. new[i].prog = n
    BY <1>7, <1>8
  <2> QED
    BY <2>1, <2>2 DEF Found, IsQuery
<1>17. ASSUME NEW j \in T PROVE Found(new, pl, t[j])
  BY <1>9, <1>15, <1>16, FoundStays
<1>18. \A h, j \in 1 .. Len(new) : new[h].prog = new[j].prog => h = j
  BY <1>8, <1>9, <1>14
<1> QED
  BY <1>8, <1>9, <1>11, <1>13, <1>17, <1>18 DEF SlotOK

\* What is there already is not added again.
LEMMA SameLoc ==
  ASSUME NEW t, NEW S, NEW x, NEW u \in Seq(Slot), NEW pl, SlotOK(t, S, u, pl),
         NEW n, NEW loc, NEW act, IsQuery(t[x], n, loc, act, pl), Grown(t, S, S \cup {x}, n, loc),
         NEW i \in 1 .. Len(u), u[i].prog = n, NEW a \in 1 .. Len(u[i].locs), u[i].locs[a] = <<loc, act>>
  PROVE  SlotOK(t, S \cup {x}, u, pl)
<1>1. /\ Len(u) = Cardinality(NamesIn(t, S))
      /\ \A h, j \in 1 .. Len(u) : u[h].prog = u[j].prog => h = j
      /\ \A j \in 1 .. Len(u) : LocsOf(t, S, u[j])
      /\ \A j \in S : Found(u, pl, t[j])
  BY DEF SlotOK
<1>2. LocsOf(t, S, u[i]) /\ u[i].locs[a][1] = loc
  BY <1>1
<1>3. n \in NamesIn(t, S) /\ loc \in LocsIn(t, S, n)
  <2>1. /\ u[i].prog \in NamesIn(t, S)
        /\ \A b \in 1 .. Len(u[i].locs) : u[i].locs[b][1] \in LocsIn(t, S, u[i].prog)
    BY <1>2 DEF LocsOf
  <2>2. u[i].locs[a][1] \in LocsIn(t, S, n)
    BY <2>1
  <2> QED
    BY <1>2, <2>1, <2>2
<1>4. NamesIn(t, S \cup {x}) = NamesIn(t, S) /\ \A m : LocsIn(t, S \cup {x}, m) = LocsIn(t, S, m)
  <2>1. NamesIn(t, S) \cup {n} = NamesIn(t, S) /\ LocsIn(t, S, n) \cup {loc} = LocsIn(t, S, n)
    BY <1>3
  <2>2. ASSUME NEW m PROVE LocsIn(t, S \cup {x}, m) = LocsIn(t, S, m)
    <3>1. LocsIn(t, S \cup {x}, m) = IF m = n THEN LocsIn(t, S, m) \cup {loc} ELSE LocsIn(t, S, m)
      BY DEF Grown
    <3> QED
      BY <2>1, <3>1
  <2> QED
    BY <2>1, <2>2 DEF Grown
<1>5. \A j \in 1 .. Len(u) : LocsOf(t, S \cup {x}, u[j])
  BY <1>1, <1>4 DEF LocsOf
<1>6. Found(u, pl, t[x])
  BY DEF Found, IsQuery
<1> QED
  BY <1>1, <1>4, <1>5, <1>6 DEF SlotOK

\* Whichever way uloc_slot() takes, ul[] is right for one question more.
LEMMA SlotGrows ==
  ASSUME NEW F, NEW P, TextOK(text, F, P), Mappable, ul \in Seq(Slot),
         NEW S \in SUBSET LinesOf("getuni"), NEW x \in LinesOf("getuni"), SlotOK(text, S, ul, place),
         NEW n \in Names, NEW loc \in Nat, NEW act \in Int, IsQuery(text[x], n, loc, act, place),
         NEW new, new = SetSlot(n, loc, act)
  PROVE  SlotOK(text, S \cup {x}, new, place)
<1>0. /\ text \in Seq(Lines) /\ Len(ul) \in Nat /\ x \in 1 .. Len(text) /\ text[x].op = "getuni"
      /\ \A j \in S : j \in 1 .. Len(text) /\ text[j].op = "getuni"
  <2>1. text \in Seq(Lines) /\ DOMAIN text = 1 .. Len(text)
    BY DEF TextOK
  <2> QED
    BY <2>1 DEF LinesOf
<1>1. n = text[x].name /\ loc = text[x].loc
  BY DEF IsQuery
<1>2. /\ Grown(text, S, S \cup {x}, n, loc)
      /\ n \notin NamesIn(text, S) =>
           /\ Cardinality(NamesIn(text, S) \cup {n}) = Cardinality(NamesIn(text, S)) + 1
           /\ Cardinality(NamesIn(text, S)) < UlMax
           /\ LocsIn(text, S, n) = {}
      /\ loc \notin LocsIn(text, S, n) =>
           /\ Cardinality(LocsIn(text, S, n) \cup {loc}) = Cardinality(LocsIn(text, S, n)) + 1
           /\ Cardinality(LocsIn(text, S, n)) < LocMax
  BY <1>0, <1>1, QueryGrows
<1>3. /\ Len(ul) = Cardinality(NamesIn(text, S))
      /\ \A i, j \in 1 .. Len(ul) : ul[i].prog = ul[j].prog => i = j
      /\ \A i \in 1 .. Len(ul) : LocsOf(text, S, ul[i])
      /\ \A j \in S : Found(ul, place, text[j])
  BY DEF SlotOK
<1>4. \A i \in Slots(n) : i \in 1 .. Len(ul) /\ ul[i].prog = n
  BY DEF Slots
\* The program has an entry if it was named before.
<1>5. n \in NamesIn(text, S) <=> Slots(n) # {}
  <2>1. ASSUME n \in NamesIn(text, S) PROVE Slots(n) # {}
    <3>1. PICK j \in S : text[j].name = n
      BY <2>1 DEF NamesIn
    <3>2. PICK i \in 1 .. Len(ul) : ul[i].prog = n
      BY <1>3, <3>1 DEF Found
    <3> QED
      BY <3>2 DEF Slots
  <2>2. ASSUME NEW i \in Slots(n) PROVE n \in NamesIn(text, S)
    BY <1>3, <1>4 DEF LocsOf
  <2> QED
    BY <2>1, <2>2
\* A location asked for before is there, with the live one it has now.
<1>6. ASSUME NEW i \in Slots(n), loc \in LocsIn(text, S, n)
      PROVE  \E a \in 1 .. Len(ul[i].locs) : ul[i].locs[a] = <<loc, act>>
  <2>1. PICK j \in S : text[j].name = n /\ text[j].loc = loc
    BY <1>6 DEF LocsIn
  <2>2. text[j].means[1] = text[x].means[1]
    BY <1>0, <1>1, <2>1, SameQuery DEF Mappable
  <2>3. place[text[j].means[1]][text[j].loc] = act
    BY <2>1, <2>2 DEF IsQuery
  <2>4. Found(ul, place, text[j])
    BY <1>3
  <2>5. PICK h \in 1 .. Len(ul) : \E a \in 1 .. Len(ul[h].locs) :
               ul[h].prog = n /\ ul[h].locs[a] = <<loc, act>>
    BY <2>1, <2>3, <2>4 DEF Found
  <2>6. h = i
    BY <1>3, <1>4, <2>5
  <2> QED
    BY <2>5, <2>6
<1>7. ASSUME NEW i \in Slots(n), Hits(ul[i].locs, loc) = {} PROVE loc \notin LocsIn(text, S, n)
  <2>1. SUFFICES ASSUME loc \in LocsIn(text, S, n) PROVE FALSE
    OBVIOUS
  <2>2. PICK a \in 1 .. Len(ul[i].locs) : ul[i].locs[a] = <<loc, act>>
    BY <1>6, <2>1
  <2>3. ul[i] \in Slot
    BY <1>4
  <2>4. DOMAIN ul[i].locs = 1 .. Len(ul[i].locs)
    BY <2>3 DEF Slot
  <2>5. ul[i].locs[a][1] = loc
    BY <2>2
  <2> QED
    BY <1>7, <2>4, <2>5 DEF Hits
<1>8. <<loc, act>> \in Nat \X Int
  OBVIOUS
<1>9. CASE Opened(new, n, loc, act)
  <2>1. Slots(n) = {} /\ n \notin NamesIn(text, S) /\ LocsIn(text, S, n) = {}
    BY <1>2, <1>5, <1>9 DEF Opened
  <2>2. LocMax # 0
    <3>1. Cardinality(LocsIn(text, S, n)) < LocMax /\ Cardinality({}) = 0
      BY <1>2, <2>1, FS_EmptySet
    <3> QED
      BY <2>1, <3>1
  <2>3. PICK e : e = [prog |-> n, locs |-> <<<<loc, act>>>>]
    OBVIOUS
  <2>4. e \in Slot /\ e.prog = n /\ e.locs = <<<<loc, act>>>>
    BY <1>8, <2>3 DEF Slot
  <2>5. new = Append(ul, e)
    BY <1>9, <2>2, <2>3 DEF Opened
  <2>6. SlotOK(text, S \cup {x}, Append(ul, e), place)
    BY <1>2, <2>1, <2>4, NewProgram
  <2> QED
    BY <2>5, <2>6
<1>10. CASE Renewed(new, n, loc, act)
  <2>1. PICK i \in Slots(n) : \E a \in 1 .. Len(ul[i].locs) :
               /\ ul[i].locs[a][1] = loc
               /\ new = [ul EXCEPT ![i] = [prog |-> n, locs |-> [ul[i].locs EXCEPT ![a] = <<loc, act>>]]]
    BY <1>10 DEF Renewed
  <2>2. PICK a \in 1 .. Len(ul[i].locs) :
               /\ ul[i].locs[a][1] = loc
               /\ new = [ul EXCEPT ![i] = [prog |-> n, locs |-> [ul[i].locs EXCEPT ![a] = <<loc, act>>]]]
    BY <2>1
  <2>3. LocsOf(text, S, ul[i]) /\ ul[i].prog = n /\ i \in 1 .. Len(ul)
    BY <1>3, <1>4
  <2>4. loc \in LocsIn(text, S, n)
    BY <2>2, <2>3 DEF LocsOf
  <2>5. PICK b \in 1 .. Len(ul[i].locs) : ul[i].locs[b] = <<loc, act>>
    BY <1>6, <2>4
  <2>6. ul[i].locs[b][1] = loc
    BY <2>5
  <2>7. a = b
    BY <2>2, <2>3, <2>6 DEF LocsOf
  <2>8. ul[i].locs[a] = <<loc, act>>
    BY <2>5, <2>7
  <2>9. ul[i] \in Slot /\ i \in DOMAIN ul
    BY <2>3
  <2>10. PICK s : s = ul[i].locs
    OBVIOUS
  <2>11. ul[i] = [prog |-> n, locs |-> s] /\ s \in Seq(Nat \X Int)
    BY <2>3, <2>9, <2>10 DEF Slot
  <2>12. a \in DOMAIN s /\ s[a] = <<loc, act>>
    <3>1. a \in 1 .. Len(s) /\ s[a] = <<loc, act>>
      BY <2>8, <2>10
    <3>2. DOMAIN s = 1 .. Len(s)
      BY <2>11
    <3> QED
      BY <3>1, <3>2
  <2>13. [s EXCEPT ![a] = <<loc, act>>] = s
    BY <2>11, <2>12
  <2>14. new = [ul EXCEPT ![i] = ul[i]]
    BY <2>2, <2>10, <2>11, <2>13
  <2>15. new = ul
    BY <2>9, <2>14
  <2>16. SlotOK(text, S \cup {x}, ul, place)
    BY <1>2, <2>3, <2>8, SameLoc
  <2> QED
    BY <2>15, <2>16
<1>11. CASE Added(new, n, loc, act)
  <2>1. PICK i \in Slots(n) :
          /\ Hits(ul[i].locs, loc) = {}
          /\ new = [ul EXCEPT ![i] = [prog |-> n, locs |-> Append(ul[i].locs, <<loc, act>>)]]
    BY <1>11 DEF Added
  <2>2. loc \notin LocsIn(text, S, n) /\ i \in 1 .. Len(ul) /\ ul[i].prog = n
    BY <1>4, <1>7, <2>1
  <2>3. PICK v : v = Append(ul[i].locs, <<loc, act>>)
    OBVIOUS
  <2>4. PICK e : e = [prog |-> n, locs |-> v]
    OBVIOUS
  <2>5. new = [ul EXCEPT ![i] = e]
    BY <2>1, <2>3, <2>4
  <2>6. SetAt(ul, i, e, new)
    BY <2>2, <2>5 DEF SetAt
  <2> QED
    BY <1>2, <1>8, <2>2, <2>3, <2>4, <2>6, NewLoc
\* No table is full.
<1>12. CASE Full(n, loc)
  <2>1. Slots(n) = {} => Len(ul) < UlMax
    BY <1>2, <1>3, <1>5
  <2>2. ASSUME NEW i \in Slots(n), Hits(ul[i].locs, loc) = {} PROVE Len(ul[i].locs) < LocMax
    <3>1. loc \notin LocsIn(text, S, n) /\ LocsOf(text, S, ul[i]) /\ ul[i].prog = n
      BY <1>3, <1>4, <1>7, <2>2
    <3> QED
      BY <1>2, <3>1 DEF LocsOf
  <2> QED
    BY <1>12, <2>1, <2>2 DEF Full
<1> QED
  BY <1>9, <1>10, <1>11, <1>12, SetSlotIs

\* A question that is replayed is in ul[] with the answer of the live driver.
LEMMA SlotQuery ==
  ASSUME RecordInv, ReplayTypes, MapInv, SlotInv, NEW F, NEW P, TextOK(text, F, P), Mappable,
         ReplayGetUniform
  PROVE  SlotInv'
<1>1. PICK l : l = text[at]
  OBVIOUS
<1>2. PICK obj : obj = LiveObject("prog", mget("prog", l.name))
  OBVIOUS
<1>3. PICK act : act = IF obj = Stray THEN -1 ELSE place[obj][l.means[2]]
  OBVIOUS
<1>4. /\ Replay("getuni", <<obj, l.means[2]>>) /\ ul' = SetSlot(l.name, l.loc, act) /\ place' = place
  BY <1>1, <1>2, <1>3 DEF ReplayGetUniform, liveVars
<1>5. text' = text /\ at \in 1 .. Len(text) /\ l.op = "getuni" /\ text \in Seq(Lines)
  BY <1>1, <1>4, Reads DEF TextOK
<1>6. /\ Before("getuni")' = Before("getuni") \cup {at} /\ Before("getuni") \in SUBSET LinesOf("getuni")
      /\ at \in LinesOf("getuni")
  <2>1. Before("getuni")' = Before("getuni") \cup {at} /\ Before("getuni") \subseteq LinesOf("getuni")
    BY <1>4, BeforeGrows
  <2>2. at \in LinesOf("getuni")
    BY <1>1, <1>5 DEF LinesOf
  <2> QED
    BY <2>1, <2>2
<1>7. /\ l.kind = "prog" /\ l.name \in Names /\ l.means[1] \in Objs
      /\ l.loc \in Unis /\ l.loc \in Nat /\ l.means[2] = l.loc
  BY <1>1, <1>5, Query
<1>8. obj = l.means[1]
  BY <1>1, <1>2, <1>5, <1>7, MapsTo
<1>9. act = place[l.means[1]][l.loc] /\ act \in Int
  <2>1. obj # Stray
    BY <1>7, <1>8 DEF Stray, Objs
  <2>2. place[l.means[1]][l.loc] \in Nat
    <3>1. PICK o \in Objs, u \in Unis : o = l.means[1] /\ u = l.loc
      BY <1>7
    <3>2. place[o][u] \in Unis
      BY DEF ReplayTypes
    <3> QED
      BY <3>1, <3>2, GlRecordAssumption
  <2> QED
    BY <1>3, <1>7, <1>8, <2>1, <2>2
<1>10. ul \in Seq(Slot)
  BY DEF ReplayTypes, Slot
<1>11. SlotOK(text, Before("getuni"), ul, place)
  BY DEF SlotInv
<1>12. PICK x : x = at
  OBVIOUS
<1>13. IsQuery(text[x], l.name, l.loc, act, place)
  BY <1>1, <1>9, <1>12 DEF IsQuery
<1>14. PICK n : n = l.name
  OBVIOUS
<1>15. PICK loc : loc = l.loc
  OBVIOUS
<1>16. SlotOK(text, Before("getuni") \cup {x}, ul', place)
  BY <1>4, <1>6, <1>7, <1>9, <1>10, <1>11, <1>12, <1>13, <1>14, <1>15, SlotGrows
<1> QED
  BY <1>4, <1>5, <1>6, <1>12, <1>16 DEF SlotInv

-----------------------------------------------------------------------------
(* What is bound and in use.                                               *)

\* What is bound after a line, by what was bound before it.
LEMMA BoundStep ==
  ASSUME RecordInv, ReplayTypes, NEW F, NEW P, TextOK(text, F, P), NEW op, NEW means, Replay(op, means),
         liveFb' = NextFb(F[at], text[at]), liveProg' = NextProg(P[at], text[at]),
         P[at + 1] # 0 => \E g \in 1 .. at : IsGen(text[g], "prog", curProg', P[at + 1])
  PROVE  BoundInv(F, P)'
<1>1. text' = text /\ at' = at + 1 /\ at \in Nat /\ at' - 1 = at /\ at \in 1 .. Len(text)
  BY Reads
<1>2. F[at + 1] = NextFb(F[at], text[at]) /\ P[at + 1] = NextProg(P[at], text[at])
  BY <1>1, LineFits
<1> QED
  BY <1>1, <1>2 DEF BoundInv

\* Most lines bind nothing.
LEMMA BoundStays ==
  ASSUME RecordInv, ReplayTypes, NEW F, NEW P, TextOK(text, F, P), BoundInv(F, P),
         NEW op, NEW means, Replay(op, means), op \notin {"use", "del"},
         UNCHANGED <<liveFb, liveProg, curProg>>
  PROVE  BoundInv(F, P)'
<1>1. text[at].op = op /\ at \in Nat /\ at \in 1 .. Len(text) /\ 1 .. at - 1 \subseteq 1 .. at
  BY Reads
<1>2. NextFb(F[at], text[at]) = F[at] /\ NextProg(P[at], text[at]) = P[at]
  BY <1>1 DEF NextFb, NextProg
<1>3. P[at + 1] = P[at]
  BY <1>1, <1>2, LineFits
<1>4. P[at + 1] # 0 => \E g \in 1 .. at : IsGen(text[g], "prog", curProg', P[at + 1])
  BY <1>1, <1>3 DEF BoundInv
<1>5. liveFb' = NextFb(F[at], text[at]) /\ liveProg' = NextProg(P[at], text[at])
  BY <1>2 DEF BoundInv
<1> QED
  BY <1>4, <1>5, BoundStep

\* A line that deletes an object deletes the one that was recorded, bound or not.
LEMMA BoundDelete ==
  ASSUME RecordInv, ReplayTypes, NEW F, NEW P, TextOK(text, F, P), MapInv, BoundInv(F, P), ReplayDelete
  PROVE  BoundInv(F, P)' /\ <<LiveObject(text[at].kind, mget(text[at].kind, text[at].name)), liveFb>> = text[at].means
<1>1. PICK l : l = text[at]
  OBVIOUS
<1>2. PICK obj : obj = LiveObject(l.kind, mget(l.kind, l.name))
  OBVIOUS
<1>3. /\ Replay("del", <<obj, liveFb>>)
      /\ liveFb' = IF l.kind = "fb" /\ obj = liveFb THEN 0 ELSE liveFb
      /\ liveProg' = liveProg /\ curProg' = curProg
  BY <1>1, <1>2 DEF ReplayDelete, mapVars
<1>4. l.op = "del" /\ at \in Nat /\ at \in 1 .. Len(text) /\ 1 .. at - 1 \subseteq 1 .. at /\ l \in Lines
  BY <1>1, <1>3, Reads
<1>5. obj = l.means[1]
  BY <1>1, <1>2, <1>4, MapsTo
<1>6. liveFb = F[at] /\ liveProg = P[at]
  BY DEF BoundInv
<1>7. liveFb' = NextFb(F[at], l) /\ liveProg' = NextProg(P[at], l) /\ NextProg(P[at], l) = P[at]
  BY <1>3, <1>4, <1>5, <1>6 DEF NextFb, NextProg
<1>8. P[at + 1] = P[at]
  BY <1>1, <1>4, <1>7, LineFits
<1>9. P[at + 1] # 0 => \E g \in 1 .. at : IsGen(text[g], "prog", curProg', P[at + 1])
  BY <1>3, <1>4, <1>8 DEF BoundInv
<1>10. BoundInv(F, P)'
  BY <1>1, <1>3, <1>7, <1>9, BoundStep
<1>11. l.means[2] = liveFb
  <2>1. FitsBinding(F[at], P[at], l)
    BY <1>1, <1>4, LineFits DEF Fits
  <2> QED
    BY <1>4, <1>6, <2>1 DEF FitsBinding
<1>12. l.means = <<l.means[1], l.means[2]>>
  BY <1>4, Fields
<1> QED
  BY <1>1, <1>2, <1>5, <1>10, <1>11, <1>12

\* A line that binds an object binds the one that was recorded.
LEMMA BoundUse ==
  ASSUME RecordInv, ReplayTypes, NEW F, NEW P, TextOK(text, F, P), MapInv, BoundInv(F, P), ReplayUse
  PROVE  BoundInv(F, P)' /\ <<LiveObject(text[at].kind, mget(text[at].kind, text[at].name)), 0>> = text[at].means
<1>1. PICK l : l = text[at]
  OBVIOUS
<1>2. PICK obj : obj = LiveObject(l.kind, mget(l.kind, l.name))
  OBVIOUS
<1>3. /\ Replay("use", <<obj, 0>>)
      /\ liveFb' = IF l.kind = "fb" THEN obj ELSE liveFb
      /\ liveProg' = IF l.kind = "prog" /\ obj # Stray THEN obj ELSE liveProg
      /\ curProg' = IF l.kind = "prog" THEN l.name ELSE curProg
  BY <1>1, <1>2 DEF ReplayUse
<1>4. l.op = "use" /\ at \in Nat /\ at \in 1 .. Len(text) /\ 1 .. at - 1 \subseteq 1 .. at /\ l \in Lines
  BY <1>1, <1>3, Reads
<1>5. obj = l.means[1]
  BY <1>1, <1>2, <1>4, MapsTo
<1>6. liveFb = F[at] /\ liveProg = P[at]
  BY DEF BoundInv
\* It is made with no object or with one that was made before.
<1>7. /\ l.means[2] = 0
      /\ \/ l.means[1] = 0
         \/ \E g \in 1 .. at - 1 : IsGen(text[g], l.kind, l.name, l.means[1]) /\ l.means[1] \in Objs
  <2>1. FitsName(text, at - 1, l)
    BY <1>1, <1>4, LineFits DEF Fits
  <2>2. CASE l.name = None
    BY <1>4, <2>1, <2>2, GlRecordAssumption DEF FitsName
  <2>3. CASE l.name # None
    <3>1. l.means[1] \in Objs
      BY <1>1, <1>4, <2>3, NamedOnce
    <3> QED
      BY <1>4, <2>1, <2>3, <3>1 DEF FitsName
  <2> QED
    BY <2>2, <2>3
<1>8. obj # Stray
  BY <1>5, <1>7 DEF Stray, Objs
<1>9. liveFb' = NextFb(F[at], l) /\ liveProg' = NextProg(P[at], l)
  BY <1>3, <1>4, <1>5, <1>6, <1>8 DEF NextFb, NextProg
<1>10. P[at + 1] = IF l.kind = "prog" THEN l.means[1] ELSE P[at]
  BY <1>1, <1>4, LineFits DEF NextProg
<1>11. P[at + 1] # 0 => \E g \in 1 .. at : IsGen(text[g], "prog", curProg', P[at + 1])
  <2>1. CASE l.kind = "prog"
    BY <1>3, <1>4, <1>7, <1>10, <2>1
  <2>2. CASE l.kind # "prog"
    BY <1>3, <1>4, <1>10, <2>2 DEF BoundInv
  <2> QED
    BY <2>1, <2>2
<1>12. BoundInv(F, P)'
  BY <1>1, <1>3, <1>9, <1>11, BoundStep
<1>13. l.means = <<l.means[1], l.means[2]>>
  BY <1>4, Fields
<1> QED
  BY <1>1, <1>2, <1>5, <1>7, <1>12, <1>13

-----------------------------------------------------------------------------
(* A uniform is set in its program, at the place it has there.             *)

\* A uniform is found in the live program under the location that was recorded.
LEMMA UniformFound ==
  ASSUME ReplayTypes, PlaceInv, NEW F, NEW P, TextOK(text, F, P), Mappable, SlotInv, BoundInv(F, P),
         at \in 1 .. Len(text), text[at].op = "uni"
  PROVE  <<liveProg, UniformAt(uloc(text[at].loc))>> = text[at].means
<1>1. PICK l : l = text[at]
  OBVIOUS
<1>2. PICK o : o = l.means[1]
  OBVIOUS
<1>3. PICK u : u = l.loc
  OBVIOUS
<1>4. l \in Lines /\ l.op = "uni" /\ at \in Nat /\ text \in Seq(Lines)
  BY <1>1, LineFits DEF TextOK
<1>5. /\ u \in Unis /\ l.means[2] = u /\ o # 0
      /\ \E j \in 1 .. at - 1 : text[j].op = "getuni" /\ text[j].means = l.means
  <2>1. FitsUniform(text, at - 1, l)
    BY <1>1, LineFits DEF Fits
  <2> QED
    BY <1>2, <1>3, <1>4, <2>1 DEF FitsUniform
<1>6. P[at] = o /\ liveProg = o
  <2>1. FitsBinding(F[at], P[at], l)
    BY <1>1, LineFits DEF Fits
  <2> QED
    BY <1>2, <1>4, <2>1 DEF FitsBinding, BoundInv
<1>7. PICK g \in 1 .. at - 1 : IsGen(text[g], "prog", curProg, o)
  BY <1>5, <1>6 DEF BoundInv
<1>8. PICK j \in 1 .. at - 1 : text[j].op = "getuni" /\ text[j].means = l.means
  BY <1>5
<1>9. g \in 1 .. Len(text) /\ j \in 1 .. Len(text)
  BY <1>4
<1>10. /\ text[j].kind = "prog" /\ text[j].name \in Names /\ o \in Objs /\ text[j].loc = u
       /\ text[j].means[1] = o
  BY <1>2, <1>5, <1>8, <1>9, Query
\* The program was asked under the name it was used by.
<1>11. text[j].name = curProg
  <2>1. text[j].name # None
    BY <1>10, GlRecordAssumption
  <2>2. PICK h \in 1 .. Len(text) : IsGen(text[h], "prog", text[j].name, o)
    BY <1>8, <1>9, <1>10, <2>1, NamedOnce
  <2>3. h = g
    BY <1>7, <1>9, <2>2, OneGen DEF IsGen
  <2> QED
    BY <1>7, <2>2, <2>3 DEF IsGen
<1>12. j \in Before("getuni")
  BY <1>4, <1>8, <1>9 DEF Before, LinesOf
<1>13. PICK i \in 1 .. Len(ul) : \E a \in 1 .. Len(ul[i].locs) :
              ul[i].prog = curProg /\ ul[i].locs[a] = <<u, place[o][u]>>
  <2>1. Found(ul, place, text[j])
    BY <1>12 DEF SlotInv, SlotOK
  <2> QED
    BY <1>10, <1>11, <2>1 DEF Found
<1>14. PICK s : s = ul[i].locs
  OBVIOUS
<1>15. PICK a \in 1 .. Len(s) : s[a] = <<u, place[o][u]>>
  BY <1>13, <1>14
<1>16. ul \in Seq(Slot) /\ DOMAIN ul = 1 .. Len(ul) /\ ul[i] \in Slot
  <2>1. ul \in Seq(Slot)
    BY DEF ReplayTypes, Slot
  <2> QED
    BY <2>1
<1>17. s \in Seq(Nat \X Int) /\ DOMAIN s = 1 .. Len(s)
  BY <1>14, <1>16 DEF Slot
<1>18. Slots(curProg) = {i} /\ First({i}) = i
  <2>1. \A h \in 1 .. Len(ul) : ul[h].prog = curProg => h = i
    BY <1>13 DEF SlotInv, SlotOK
  <2>2. Slots(curProg) = {i}
    BY <1>13, <1>16, <2>1 DEF Slots
  <2> QED
    BY <2>2, FirstOfOne
<1>19. Hits(s, u) = {a} /\ First({a}) = a
  <2>1. LocsOf(text, Before("getuni"), ul[i])
    BY DEF SlotInv, SlotOK
  <2>2. s[a][1] = u
    BY <1>15
  <2>3. \A b \in 1 .. Len(s) : s[b][1] = u => b = a
    BY <1>14, <2>1, <2>2 DEF LocsOf
  <2>4. Hits(s, u) = {a}
    BY <1>17, <2>2, <2>3 DEF Hits
  <2> QED
    BY <2>4, FirstOfOne
<1>20. uloc(u) = place[o][u]
  <2>1. s[a][2] = place[o][u]
    BY <1>15
  <2> QED
    BY <1>14, <1>18, <1>19, <2>1 DEF uloc
<1>21. UniformAt(place[o][u]) = u
  <2>1. {v \in Unis : place[o][v] = place[o][u]} = {u}
    BY <1>5, <1>10 DEF PlaceInv
  <2>2. First({u}) = u
    BY <1>5, FirstOfOne, GlRecordAssumption
  <2> QED
    BY <1>5, <1>6, <2>1, <2>2 DEF UniformAt
<1>22. l.means = <<l.means[1], l.means[2]>>
  BY <1>4, Fields
<1> QED
  BY <1>1, <1>2, <1>3, <1>5, <1>6, <1>20, <1>21, <1>22

\* The data of a recording that was ended is in the file.
LEMMA DataThere ==
  ASSUME RecordInv, ~rec, at \in 1 .. Len(text), text[at].op = "data"
  PROVE  BlobAt(text[at].off, text[at].len) = text[at].means
<1>1. PICK l : l = text[at]
  OBVIOUS
<1>2. PICK F, P : TextOK(text, F, P)
  BY DEF RecordInv, Told, TextInv
<1>3. l \in Lines /\ l.op = "data"
  BY <1>1, <1>2, LineFits
<1>4. l.off \in Int /\ l.len \in Nat
  BY <1>3, Fields
<1>5. l.means = <<l.off, l.len>> /\ ((l.off = -1 /\ l.len = 0) \/ (l.off >= 0 /\ l.len > 0))
  <2>1. FitsData(l)
    BY <1>1, <1>2, LineFits DEF Fits
  <2> QED
    BY <1>3, <2>1 DEF FitsData
<1>6. l.off + l.len <= disk.data /\ disk.data \in Nat
  <2>1. disk.data = boff /\ boff \in Nat
    BY GlRecordAssumption DEF RecordInv, EndInv, FileTypes
  <2> QED
    BY <1>1, <1>3, <2>1 DEF RecordInv, DataInv
<1>7. CASE l.off = -1 /\ l.len = 0
  <2>1. BlobAt(l.off, l.len) = <<-1, 0>>
    BY <1>7 DEF BlobAt
  <2> QED
    BY <1>1, <1>5, <1>7, <2>1
<1>8. CASE l.off >= 0 /\ l.len > 0
  <2>1. ~(l.off < 0 \/ l.off >= disk.data) /\ ~(l.off + l.len > disk.data)
    BY <1>4, <1>6, <1>8
  <2>2. BlobAt(l.off, l.len) = <<l.off, l.len>>
    BY <2>1 DEF BlobAt
  <2> QED
    BY <1>1, <1>5, <2>2
<1> QED
  BY <1>5, <1>7, <1>8

-----------------------------------------------------------------------------
(* The whole invariant.                                                    *)

\* It holds of an empty text.
LEMMA Starts == Init => IInv
<1> SUFFICES ASSUME Init PROVE IInv
  OBVIOUS
<1>1. RecordInv
  BY RecordStarts DEF Init
<1>2. text = <<>> /\ Len(text) = 0 /\ rec = TRUE /\ stage = "app"
  BY DEF Init, RecordInit
<1>3. ReplayTypes
  <2>1. /\ map \in [Kinds -> Seq(Names \X LiveNames)] /\ \A k \in Kinds : Len(map[k]) <= MapMax
        /\ ul \in Seq([prog : Names, locs : Seq(Nat \X Int)]) /\ Len(ul) <= UlMax
        /\ \A i \in 1 .. Len(ul) : Len(ul[i].locs) <= LocMax
    BY GlReplayAssumption DEF Init
  <2>2. live \in [Kinds -> [LiveNames -> 0 .. MaxObjs]] /\ liveFb \in Stray .. MaxObjs /\ liveProg \in 0 .. MaxObjs
    BY GlRecordAssumption DEF Init, Stray
  <2>3. at \in 1 .. Len(text) + 1 /\ place \in [Objs -> [Unis -> Unis]]
    BY <1>2 DEF Init
  <2> QED
    BY <2>1, <2>2, <2>3 DEF Init, ReplayTypes
<1>4. PlaceInv
  BY DEF Init, PlaceInv
<1>5. FrameInv
  <2>1. Before("frame") = {}
    BY <1>2 DEF Before, LinesOf
  <2>2. Cardinality(Before("frame")) = 0
    BY <2>1, FS_EmptySet
  <2> QED
    BY <1>2, <2>2 DEF Init, FrameInv
<1>6. NotYet /\ DidInv
  BY <1>2 DEF Init, NotYet, DidInv, SameObjects, SameTargets, DataIntact, Did
<1>7. Replayed
  <2>1. PICK F, P : TextOK(text, F, P)
    BY <1>1 DEF RecordInv, Told, TextInv
  <2> QED
    BY <1>2, <2>1 DEF Replayed, Mapped
<1> QED
  BY <1>1, <1>3, <1>4, <1>5, <1>6, <1>7 DEF IInv

\* While it is recorded nothing is replayed.
LEMMA RecordStages ==
  ASSUME RecordNext
  PROVE  stage \in {"app", "finish", "fini"} /\ stage' \in {"app", "finish", "fini", "gone"}
<1>1. CASE Call
  BY <1>1 DEF Call, Gen, Delete, Use, glGetUniformLocation, Uniform, Data, Draw, glClear, FinishText
<1>2. CASE FinishData
  BY <1>2 DEF FinishData, Vanish
<1>3. CASE Exit
  BY <1>3 DEF Exit, FinishText, Vanish
<1>4. CASE Kill
  BY <1>4 DEF Kill, Vanish
<1> QED
  BY <1>1, <1>2, <1>3, <1>4 DEF RecordNext

\* While it is recorded, there is nothing to be kept of the replay.
LEMMA RecordingKeeps ==
  ASSUME IInv, RecordNext, UNCHANGED replayVars
  PROVE  IInv'
<1>1. stage \in {"app", "finish", "fini"} /\ stage' \in {"app", "finish", "fini", "gone"}
  BY RecordStages
<1>2. RecordInv'
  BY RecordKeeps DEF IInv
<1>3. UNCHANGED <<at, map, ul, curProg, firstFrame, swaps, live, liveFb, liveProg, place, did>>
  BY DEF replayVars, mapVars, liveVars
<1>4. at = 1 /\ did.line = 0
  BY <1>1 DEF IInv, NotYet
<1>5. text' \in Seq(Lines) /\ Len(text') \in Nat
  BY <1>2 DEF RecordInv, FileTypes
<1>6. ReplayTypes' /\ PlaceInv'
  BY <1>3, <1>4, <1>5 DEF IInv, ReplayTypes, PlaceInv
<1>7. FrameInv'
  <2>1. Before("frame") = {} /\ Before("frame")' = {}
    <3>1. text \in Seq(Lines)
      BY DEF IInv, RecordInv, FileTypes
    <3> QED
      BY <1>3, <1>4, <1>5, <3>1 DEF Before, LinesOf
  <2>2. ~rec' => Len(text') > 0
    BY <1>2 DEF RecordInv, EndInv
  <2>3. /\ firstFrame' <=> Cardinality(Before("frame")') = 0
        /\ swaps' = IF firstFrame' THEN 0 ELSE Cardinality(Before("frame")') - 1
    BY <1>3, <2>1 DEF IInv, FrameInv
  <2> QED
    BY <1>1, <1>3, <1>4, <1>5, <2>2, <2>3 DEF FrameInv
<1>8. NotYet'
  BY <1>1, <1>3 DEF IInv, NotYet
<1>9. DidInv'
  BY <1>3, <1>4, <1>5 DEF DidInv, SameObjects, SameTargets, DataIntact, Did
<1>10. Replayed'
  <2>1. PICK F, P : TextOK(text', F, P)
    BY <1>2 DEF RecordInv, Told, TextInv
  <2> QED
    BY <1>1, <2>1 DEF Replayed, Mapped
<1> QED
  BY <1>2, <1>6, <1>7, <1>8, <1>9, <1>10 DEF IInv

\* At the start of a text the maps are empty, as they should be.
LEMMA StartKeeps ==
  ASSUME IInv, Start
  PROVE  IInv'
<1>1. stage = "gone" /\ stage' = "replay" /\ UNCHANGED fileVars /\ UNCHANGED replayVars
  BY DEF Start
<1>2. UNCHANGED <<at, map, ul, curProg, firstFrame, swaps, live, liveFb, liveProg, place, did>>
  BY <1>1 DEF replayVars, mapVars, liveVars
<1>3. UNCHANGED <<object, made, fb, prog, rec, frames, curFb, text, boff, disk, mix>>
  BY <1>1 DEF fileVars, driverVars
<1>4. RecordInv'
  BY <1>1, FilesStay DEF IInv
<1>5. /\ at = 1 /\ did.line = 0 /\ liveFb = 0 /\ liveProg = 0 /\ ul = <<>>
      /\ \A k \in Kinds : map[k] = <<>>
  BY <1>1 DEF IInv, NotYet
<1>6. ReplayTypes' /\ PlaceInv'
  BY <1>2, <1>3 DEF IInv, ReplayTypes, PlaceInv
<1>7. FrameInv'
  BY <1>1, <1>2, <1>3 DEF IInv, FrameInv, Before, LinesOf
<1>8. NotYet' /\ DidInv'
  BY <1>1, <1>2, <1>3, <1>5 DEF IInv, NotYet, DidInv, SameObjects, SameTargets, DataIntact, Did
<1>9. text \in Seq(Lines) /\ DOMAIN text = 1 .. Len(text)
  BY DEF IInv, RecordInv, FileTypes
<1>10. Before("getuni") = {} /\ \A k : GensBefore(k) = {}
  BY <1>5, <1>9 DEF Before, LinesOf, GensBefore, Gens
<1>11. Cardinality({}) = 0
  BY FS_EmptySet
<1>12. MapInv
  <2> SUFFICES ASSUME NEW k \in Kinds PROVE MapOf(k)
    BY DEF MapInv
  <2>0. GensBefore(k) = {} /\ map[k] = <<>>
    BY <1>5, <1>10
  <2>1. Len(map[k]) = 0 /\ GensBefore(k) = {} /\ Cardinality(GensBefore(k)) = 0
    BY <2>0, <1>11
  <2>2. 1 .. Len(map[k]) = {}
    BY <2>1
  <2> QED
    BY <2>1, <2>2 DEF MapOf
<1>13. SlotInv
  <2>1. Len(ul) = 0
    BY <1>5
  <2>2. NamesIn(text, Before("getuni")) = {}
    BY <1>10 DEF NamesIn
  <2> QED
    BY <1>10, <1>11, <2>1, <2>2 DEF SlotInv, SlotOK
<1>14. PICK F, P : TextOK(text, F, P)
  BY DEF IInv, RecordInv, Told, TextInv
<1>15. BoundInv(F, P)
  BY <1>5, <1>14 DEF BoundInv, TextOK
<1>16. MapInv' /\ SlotInv' /\ BoundInv(F, P)'
  <2>1. MapInv' = MapInv /\ SlotInv' = SlotInv /\ BoundInv(F, P)' = BoundInv(F, P)
    BY <1>2, <1>3 DEF MapInv, MapOf, Entry, GensBefore, Gens, SlotInv, Before, LinesOf, BoundInv
  <2> QED
    BY <1>12, <1>13, <1>15, <2>1
<1>17. Replayed'
  BY <1>3, <1>14, <1>16 DEF Replayed, Mapped
<1> QED
  BY <1>4, <1>6, <1>7, <1>8, <1>17 DEF IInv

\* The replay stops at the END of a text that has one.
LEMMA StopKeeps ==
  ASSUME IInv, Stop
  PROVE  IInv'
<1>1. stage = "replay" /\ AtEnd /\ stage' = "done" /\ UNCHANGED fileVars /\ UNCHANGED replayVars
  BY DEF Stop
<1>2. UNCHANGED <<at, map, ul, curProg, firstFrame, swaps, live, liveFb, liveProg, place, did>>
  BY <1>1 DEF replayVars, mapVars, liveVars
<1>3. UNCHANGED <<object, made, fb, prog, rec, frames, curFb, text, boff, disk, mix>>
  BY <1>1 DEF fileVars, driverVars
<1>4. RecordInv'
  BY <1>1, FilesStay DEF IInv
<1>5. ReplayTypes' /\ PlaceInv'
  BY <1>2, <1>3 DEF IInv, ReplayTypes, PlaceInv
<1>6. ~rec => at = Len(text)
  <2>1. SUFFICES ASSUME ~rec PROVE at = Len(text)
    OBVIOUS
  <2>2. at \in Nat /\ at >= 1 /\ at <= Len(text) /\ Len(text) \in Nat /\ disk.lines = Len(text)
    BY <2>1 DEF IInv, ReplayTypes, FrameInv, RecordInv, EndInv, FileTypes
  <2>3. text[at].op = "end"
    BY <1>1, <2>2 DEF AtEnd
  <2>4. PICK F, P : TextOK(text, F, P)
    BY DEF IInv, RecordInv, Told, TextInv
  <2>5. FitsEnd(text, Len(text) - 1)
    <3>1. Len(text) \in 1 .. Len(text)
      BY <2>2
    <3> QED
      BY <2>4, <3>1, LineFits DEF Fits
  <2> QED
    BY <2>2, <2>3, <2>5 DEF FitsEnd
<1>7. FrameInv'
  <2>1. Before("frame")' = Before("frame")
    BY <1>2, <1>3 DEF Before, LinesOf
  <2> QED
    BY <1>1, <1>2, <1>3, <1>6, <2>1 DEF IInv, FrameInv
<1>8. NotYet'
  BY <1>1 DEF NotYet
<1>9. DidInv'
  <2>1. Mappable' = Mappable
    BY <1>3, MappableStays
  <2> QED
    BY <1>2, <1>3, <2>1 DEF IInv, DidInv, SameObjects, SameTargets, DataIntact, Did, AsRecorded
<1>10. Replayed'
  <2>1. PICK F, P : Mapped(F, P)
    BY DEF IInv, Replayed
  <2>2. Mappable' = Mappable
    BY <1>3, MappableStays
  <2>3. MapInv' = MapInv /\ SlotInv' = SlotInv /\ BoundInv(F, P)' = BoundInv(F, P)
    BY <1>2, <1>3 DEF MapInv, MapOf, Entry, GensBefore, Gens, SlotInv, Before, LinesOf, BoundInv
  <2>4. Mapped(F, P)'
    BY <1>1, <1>3, <2>1, <2>2, <2>3 DEF Mapped
  <2> QED
    BY <2>4 DEF Replayed
<1> QED
  BY <1>4, <1>5, <1>7, <1>8, <1>9, <1>10 DEF IInv

\* What a line that is replayed has to keep.
Follows(F, P, op, means) ==
  TextOK(text, F, P) /\ Mappable /\ MapInv /\ SlotInv /\ BoundInv(F, P) =>
    /\ MapInv' /\ SlotInv' /\ BoundInv(F, P)'
    /\ op \in {"use", "del", "getuni", "uni", "draw", "clear"} => means = text[at].means

\* A line that is replayed keeps the invariant if it keeps what it must (Follows).
LEMMA ReplayStep ==
  ASSUME IInv, NEW op, NEW means, Replay(op, means), ReplayTypes', PlaceInv', FrameInv',
         \A F, P : Follows(F, P, op, means),
         op = "data" /\ ~rec => means = text[at].means
  PROVE  IInv'
<1>0. RecordInv /\ ReplayTypes
  BY DEF IInv
<1>1. /\ at \in 1 .. Len(text) /\ at \in Nat /\ Len(text) \in Nat /\ text[at].op = op /\ at # 0
      /\ stage = "replay" /\ stage' = "replay" /\ text' = text /\ rec' = rec /\ UNCHANGED fileVars
      /\ did'.line = at /\ did'.means = means
  <2>1. did' = [line |-> at, means |-> means]
    BY <1>0, Reads
  <2> QED
    BY <1>0, <2>1, Reads
<1>2. RecordInv'
  BY <1>0, <1>1, FilesStay
<1>3. NotYet'
  BY <1>1 DEF NotYet
<1>4. PICK F, P : Mapped(F, P)
  BY DEF IInv, Replayed
<1>5. Mappable' = Mappable
  BY <1>1, MappableStays
<1>6. Mappable => /\ MapInv' /\ SlotInv' /\ BoundInv(F, P)'
                  /\ op \in {"use", "del", "getuni", "uni", "draw", "clear"} => means = text[at].means
  BY <1>1, <1>4 DEF Mapped, Follows
<1>7. Replayed'
  <2>1. Mapped(F, P)'
    BY <1>1, <1>4, <1>5, <1>6 DEF Mapped
  <2> QED
    BY <2>1 DEF Replayed
<1>8. DidInv'
  <2>1. did'.line \in 0 .. Len(text')
    BY <1>1
  <2>2. text'[did'.line].op = op /\ text'[did'.line].means = text[at].means
    BY <1>1
  <2>3. SameObjects' /\ SameTargets'
    BY <1>1, <1>5, <1>6, <2>2 DEF SameObjects, SameTargets, Did, AsRecorded
  <2>4. DataIntact'
    BY <1>1, <2>2 DEF DataIntact, Did, AsRecorded
  <2> QED
    BY <2>1, <2>3, <2>4 DEF DidInv
<1> QED
  BY <1>2, <1>3, <1>7, <1>8 DEF IInv

-----------------------------------------------------------------------------
(* Each call that is replayed keeps it.                                    *)

\* The lines that change no map and bind nothing.
LEMMA PlainKeeps ==
  ASSUME IInv, NEW op, NEW means, Replay(op, means),
         op \in {"frame", "uni", "data", "draw", "clear"}, UNCHANGED <<mapVars, liveVars>>,
         ReplayTypes', PlaceInv', FrameInv',
         \A F, P : TextOK(text, F, P) /\ Mappable /\ SlotInv /\ BoundInv(F, P) =>
                     (op \in {"uni", "draw", "clear"} => means = text[at].means),
         op = "data" /\ ~rec => means = text[at].means
  PROVE  IInv'
<1>1. RecordInv /\ ReplayTypes
  BY DEF IInv
<1>2. UNCHANGED <<map, ul, curProg, live, liveFb, liveProg, place>>
  BY DEF mapVars, liveVars
<1>3. ASSUME NEW F, NEW P, TextOK(text, F, P), Mappable, MapInv, SlotInv, BoundInv(F, P)
      PROVE  /\ MapInv' /\ SlotInv' /\ BoundInv(F, P)'
             /\ op \in {"use", "del", "getuni", "uni", "draw", "clear"} => means = text[at].means
  <2>1. MapInv'
    BY <1>1, <1>2, <1>3, MapStays
  <2>2. SlotInv'
    BY <1>1, <1>2, <1>3, SlotStays
  <2>3. BoundInv(F, P)'
    BY <1>1, <1>2, <1>3, BoundStays
  <2>4. op \in {"use", "del", "getuni", "uni", "draw", "clear"} => means = text[at].means
    BY <1>3
  <2> QED
    BY <2>1, <2>2, <2>3, <2>4
<1>4. \A F, P : Follows(F, P, op, means)
  BY <1>3 DEF Follows
<1> QED
  BY <1>4, ReplayStep

\* A frame is shown.
LEMMA FrameKeepsReplay ==
  ASSUME IInv, ReplayFrame
  PROVE  IInv'
<1>1. Replay("frame", <<0, 0>>) /\ UNCHANGED <<mapVars, liveVars>>
  BY DEF ReplayFrame
<1>2. ReplayTypes' /\ PlaceInv' /\ FrameInv'
  BY ReplayFrameTypes, FrameShows DEF IInv
<1> QED
  BY <1>1, <1>2, PlainKeeps

\* A uniform is set.
LEMMA UniformKeeps ==
  ASSUME IInv, ReplayUniform
  PROVE  IInv'
<1>1. PICK m : m = <<liveProg, UniformAt(uloc(text[at].loc))>>
  OBVIOUS
<1>2. Replay("uni", m) /\ UNCHANGED <<mapVars, firstFrame, swaps, liveVars>>
  BY <1>1 DEF ReplayUniform
<1>3. RecordInv /\ ReplayTypes /\ PlaceInv /\ FrameInv
  BY DEF IInv
<1>4. ReplayTypes' /\ PlaceInv'
  BY <1>2, <1>3, PlainReplayTypes DEF ReplayTypes
<1>5. FrameInv'
  BY <1>2, <1>3, FrameStays
<1>6. at \in 1 .. Len(text) /\ text[at].op = "uni"
  BY <1>2, <1>3, Reads
<1>7. ASSUME NEW F, NEW P, TextOK(text, F, P), Mappable, SlotInv, BoundInv(F, P)
      PROVE  m = text[at].means
  BY <1>1, <1>3, <1>6, <1>7, UniformFound
<1> QED
  BY <1>2, <1>4, <1>5, <1>7, PlainKeeps

\* Data is read.
LEMMA DataKeeps ==
  ASSUME IInv, ReplayData
  PROVE  IInv'
<1>1. PICK m : m = BlobAt(text[at].off, text[at].len)
  OBVIOUS
<1>2. Replay("data", m) /\ UNCHANGED <<mapVars, firstFrame, swaps, liveVars>>
  BY <1>1 DEF ReplayData
<1>3. RecordInv /\ ReplayTypes /\ PlaceInv /\ FrameInv
  BY DEF IInv
<1>4. ReplayTypes' /\ PlaceInv'
  BY <1>2, <1>3, PlainReplayTypes DEF ReplayTypes
<1>5. FrameInv'
  BY <1>2, <1>3, FrameStays
<1>6. at \in 1 .. Len(text) /\ text[at].op = "data"
  BY <1>2, <1>3, Reads
<1>7. ~rec => m = text[at].means
  BY <1>1, <1>3, <1>6, DataThere
<1> QED
  BY <1>2, <1>4, <1>5, <1>7, PlainKeeps

\* What is bound when a line draws is what was bound when it was recorded.
LEMMA DrawMeans ==
  ASSUME NEW F, NEW P, TextOK(text, F, P), BoundInv(F, P), at \in 1 .. Len(text),
         text[at].op \in {"draw", "clear"}
  PROVE  <<liveFb, liveProg>> = text[at].means
<1>1. PICK x : x = at
  OBVIOUS
<1>2. Fits(text, x - 1, F[x], P[x], text[x])
  BY <1>1, LineFits
<1>3. FitsBinding(F[x], P[x], text[x])
  BY <1>2 DEF Fits
<1> QED
  BY <1>1, <1>3 DEF FitsBinding, BoundInv

\* A draw or a clear is made.
LEMMA DrawKeeps ==
  ASSUME IInv, ReplayDraw
  PROVE  IInv'
<1>1. PICK m : m = <<liveFb, liveProg>>
  OBVIOUS
<1>2. PICK op \in {"draw", "clear"} : Replay(op, m)
  BY <1>1 DEF ReplayDraw
<1>3. RecordInv /\ ReplayTypes /\ PlaceInv /\ FrameInv /\ UNCHANGED <<mapVars, firstFrame, swaps, liveVars>>
  BY DEF IInv, ReplayDraw
<1>4. ReplayTypes' /\ PlaceInv'
  BY <1>2, <1>3, PlainReplayTypes DEF ReplayTypes
<1>5. FrameInv'
  BY <1>2, <1>3, FrameStays
<1>6. at \in 1 .. Len(text) /\ text[at].op \in {"draw", "clear"}
  BY <1>2, <1>3, Reads
<1>7. ASSUME NEW F, NEW P, TextOK(text, F, P), Mappable, SlotInv, BoundInv(F, P)
      PROVE  m = text[at].means
  BY <1>1, <1>6, <1>7, DrawMeans
<1> QED
  BY <1>2, <1>3, <1>4, <1>5, <1>7, PlainKeeps

\* An object is made.
LEMMA GenKeeps ==
  ASSUME IInv, ReplayGen
  PROVE  IInv'
<1>1. PICK m : m = text[at].means
  OBVIOUS
<1>2. Replay("gen", m) /\ UNCHANGED <<ul, curProg, firstFrame, swaps, liveFb, liveProg>>
  BY <1>1 DEF ReplayGen
<1>3. RecordInv /\ ReplayTypes /\ PlaceInv /\ FrameInv
  BY DEF IInv
<1>4. ReplayTypes' /\ PlaceInv'
  BY <1>3, GenTypes
<1>5. FrameInv'
  BY <1>2, <1>3, FrameStays
<1>6. ASSUME NEW F, NEW P, TextOK(text, F, P), Mappable, MapInv, SlotInv, BoundInv(F, P)
      PROVE  MapInv' /\ SlotInv' /\ BoundInv(F, P)'
  <2>1. MapInv'
    BY <1>3, <1>6, MapGen
  <2>2. SlotInv'
    BY <1>3, <1>6, SlotGen
  <2>3. BoundInv(F, P)'
    BY <1>2, <1>3, <1>6, BoundStays
  <2> QED
    BY <2>1, <2>2, <2>3
<1>7. \A F, P : Follows(F, P, "gen", m)
  BY <1>6 DEF Follows
<1> QED
  BY <1>2, <1>4, <1>5, <1>7, ReplayStep

\* An object is deleted.
LEMMA DeleteKeepsReplay ==
  ASSUME IInv, ReplayDelete
  PROVE  IInv'
<1>1. PICK m : m = <<LiveObject(text[at].kind, mget(text[at].kind, text[at].name)), liveFb>>
  OBVIOUS
<1>2. Replay("del", m) /\ UNCHANGED <<mapVars, firstFrame, swaps, liveProg, place>>
  BY <1>1 DEF ReplayDelete
<1>3. RecordInv /\ ReplayTypes /\ PlaceInv /\ FrameInv /\ UNCHANGED <<map, ul, curProg>>
  BY <1>2 DEF IInv, mapVars
<1>4. ReplayTypes' /\ PlaceInv'
  BY <1>3, DeleteTypes
<1>5. FrameInv'
  BY <1>2, <1>3, FrameStays
<1>6. ASSUME NEW F, NEW P, TextOK(text, F, P), Mappable, MapInv, SlotInv, BoundInv(F, P)
      PROVE  MapInv' /\ SlotInv' /\ BoundInv(F, P)' /\ m = text[at].means
  <2>1. MapInv'
    BY <1>3, <1>6, MapDelete
  <2>2. SlotInv'
    BY <1>2, <1>3, <1>6, SlotStays
  <2>3. BoundInv(F, P)' /\ m = text[at].means
    BY <1>1, <1>3, <1>6, BoundDelete
  <2> QED
    BY <2>1, <2>2, <2>3
<1>7. \A F, P : Follows(F, P, "del", m)
  BY <1>6 DEF Follows
<1> QED
  BY <1>2, <1>4, <1>5, <1>7, ReplayStep

\* An object is bound, or a program put into use.
LEMMA UseKeeps ==
  ASSUME IInv, ReplayUse
  PROVE  IInv'
<1>1. PICK m : m = <<LiveObject(text[at].kind, mget(text[at].kind, text[at].name)), 0>>
  OBVIOUS
<1>2. Replay("use", m) /\ UNCHANGED <<map, ul, firstFrame, swaps, live, place>>
  BY <1>1 DEF ReplayUse
<1>3. RecordInv /\ ReplayTypes /\ PlaceInv /\ FrameInv
  BY DEF IInv
<1>4. ReplayTypes' /\ PlaceInv'
  BY <1>3, UseTypes
<1>5. FrameInv'
  BY <1>2, <1>3, FrameStays
<1>6. ASSUME NEW F, NEW P, TextOK(text, F, P), Mappable, MapInv, SlotInv, BoundInv(F, P)
      PROVE  MapInv' /\ SlotInv' /\ BoundInv(F, P)' /\ m = text[at].means
  <2>1. MapInv'
    BY <1>2, <1>3, <1>6, MapStays
  <2>2. SlotInv'
    BY <1>2, <1>3, <1>6, SlotStays
  <2>3. BoundInv(F, P)' /\ m = text[at].means
    BY <1>1, <1>3, <1>6, BoundUse
  <2> QED
    BY <2>1, <2>2, <2>3
<1>7. \A F, P : Follows(F, P, "use", m)
  BY <1>6 DEF Follows
<1> QED
  BY <1>2, <1>4, <1>5, <1>7, ReplayStep

\* The location of a uniform is asked for.
LEMMA GetUniformKeeps ==
  ASSUME IInv, ReplayGetUniform
  PROVE  IInv'
<1>1. PICK l : l = text[at]
  OBVIOUS
<1>2. PICK m : m = <<LiveObject("prog", mget("prog", l.name)), l.means[2]>>
  OBVIOUS
<1>3. Replay("getuni", m) /\ UNCHANGED <<map, curProg, firstFrame, swaps, liveVars>>
  BY <1>1, <1>2 DEF ReplayGetUniform
<1>4. RecordInv /\ ReplayTypes /\ PlaceInv /\ FrameInv /\ UNCHANGED <<live, liveFb, liveProg, place>>
  BY <1>3 DEF IInv, liveVars
<1>5. ReplayTypes' /\ PlaceInv'
  BY <1>4, GetUniformTypes
<1>6. FrameInv'
  BY <1>3, <1>4, FrameStays
<1>7. at \in 1 .. Len(text) /\ l \in Lines /\ text[at].op = "getuni"
  BY <1>1, <1>3, <1>4, Reads
<1>8. ASSUME NEW F, NEW P, TextOK(text, F, P), Mappable, MapInv, SlotInv, BoundInv(F, P)
      PROVE  MapInv' /\ SlotInv' /\ BoundInv(F, P)' /\ m = l.means
  <2>1. MapInv'
    BY <1>3, <1>4, <1>8, MapStays
  <2>2. SlotInv'
    BY <1>4, <1>8, SlotQuery
  <2>3. BoundInv(F, P)'
    BY <1>3, <1>4, <1>8, BoundStays
  <2>4. l.kind = "prog"
    BY <1>1, <1>7, <1>8, Query
  <2>5. LiveObject(l.kind, mget(l.kind, l.name)) = l.means[1]
    BY <1>1, <1>4, <1>7, <1>8, MapsTo
  <2>6. l.means = <<l.means[1], l.means[2]>>
    BY <1>7, Fields
  <2> QED
    BY <1>2, <2>1, <2>2, <2>3, <2>4, <2>5, <2>6
<1>9. \A F, P : Follows(F, P, "getuni", m)
  BY <1>1, <1>8 DEF Follows
<1> QED
  BY <1>3, <1>5, <1>6, <1>9, ReplayStep

-----------------------------------------------------------------------------
(* The invariant holds, and what follows from it.                          *)

\* Every step of the replay keeps it.
LEMMA ReplayKeeps ==
  ASSUME IInv, ReplayNext
  PROVE  IInv'
<1>1. CASE Start
  BY <1>1, StartKeeps
<1>2. CASE Stop
  BY <1>2, StopKeeps
<1>3. CASE ReplayFrame
  BY <1>3, FrameKeepsReplay
<1>4. CASE ReplayGen
  BY <1>4, GenKeeps
<1>5. CASE ReplayDelete
  BY <1>5, DeleteKeepsReplay
<1>6. CASE ReplayUse
  BY <1>6, UseKeeps
<1>7. CASE ReplayGetUniform
  BY <1>7, GetUniformKeeps
<1>8. CASE ReplayUniform
  BY <1>8, UniformKeeps
<1>9. CASE ReplayData
  BY <1>9, DataKeeps
<1>10. CASE ReplayDraw
  BY <1>10, DrawKeeps
<1> QED
  BY <1>1, <1>2, <1>3, <1>4, <1>5, <1>6, <1>7, <1>8, <1>9, <1>10 DEF ReplayNext

\* Nothing changes.
LEMMA StutterKeeps ==
  ASSUME IInv, UNCHANGED vars
  PROVE  IInv'
<1>1. UNCHANGED <<stage, object, made, fb, prog, rec, frames, curFb, text, boff, disk, mix>>
  BY DEF vars, recordVars, fileVars, driverVars
<1>2. UNCHANGED <<at, map, ul, curProg, firstFrame, swaps, live, liveFb, liveProg, place, did>>
  BY DEF vars, replayVars, mapVars, liveVars
<1>3. RecordInv'
  <2>1. UNCHANGED fileVars
    BY DEF vars, recordVars
  <2> QED
    BY <1>1, <2>1, FilesStay DEF IInv
<1>4. ReplayTypes' /\ PlaceInv' /\ NotYet'
  BY <1>1, <1>2 DEF IInv, ReplayTypes, PlaceInv, NotYet
<1>5. FrameInv'
  <2>1. Before("frame")' = Before("frame")
    BY <1>1, <1>2 DEF Before, LinesOf
  <2> QED
    BY <1>1, <1>2, <2>1 DEF IInv, FrameInv
<1>6. Mappable' = Mappable
  BY <1>1, MappableStays
<1>7. DidInv'
  BY <1>1, <1>2, <1>6 DEF IInv, DidInv, SameObjects, SameTargets, DataIntact, Did, AsRecorded
<1>8. Replayed'
  <2>1. PICK F, P : Mapped(F, P)
    BY DEF IInv, Replayed
  <2>2. MapInv' = MapInv /\ SlotInv' = SlotInv /\ BoundInv(F, P)' = BoundInv(F, P)
    BY <1>1, <1>2 DEF MapInv, MapOf, Entry, GensBefore, Gens, SlotInv, Before, LinesOf, BoundInv
  <2>3. Mapped(F, P)'
    BY <1>1, <1>6, <2>1, <2>2 DEF Mapped
  <2> QED
    BY <2>3 DEF Replayed
<1> QED
  BY <1>3, <1>4, <1>5, <1>7, <1>8 DEF IInv

\* The invariant holds of every recording and its replay.
LEMMA IInvHolds == Spec => []IInv
<1>1. Init => IInv
  BY Starts
<1>2. IInv /\ [Next]_vars => IInv'
  <2> SUFFICES ASSUME IInv, [Next]_vars PROVE IInv'
    OBVIOUS
  <2>1. CASE RecordNext /\ UNCHANGED replayVars
    BY <2>1, RecordingKeeps
  <2>2. CASE ReplayNext
    BY <2>2, ReplayKeeps
  <2>3. CASE UNCHANGED vars
    BY <2>3, StutterKeeps
  <2> QED
    BY <2>1, <2>2, <2>3 DEF Next, Ended
<1> QED
  BY <1>1, <1>2, PTL DEF Spec

\* Every variable of the application, the recorder, the replayer and its driver
\* takes a value of its kind, and the replayer's tables never overflow
\* (gl-record.c:81-121; gl-replay.c:44-96): mput() and uloc_slot() check for room.
THEOREM RecordingTyped == Spec => []TypeOK
<1>1. IInv => TypeOK
  <2> SUFFICES ASSUME IInv PROVE TypeOK
    OBVIOUS
  <2>1. RecordInv /\ ReplayTypes
    BY DEF IInv
  <2>2. /\ stage \in {"app", "finish", "fini", "gone", "replay", "done"}
        /\ object \in [Kinds -> [Names -> 0 .. MaxObjs]] /\ made \in 0 .. MaxObjs
        /\ fb \in 0 .. MaxObjs /\ prog \in 0 .. MaxObjs /\ curFb \in Names \cup {None}
    BY <2>1 DEF RecordInv, DriverTypes, FileTypes, Stages
  <2>3. /\ rec \in BOOLEAN /\ frames \in 0 .. MaxFrames
        /\ Len(text) <= MaxLines + 1 /\ boff \in 0 .. MaxData
        /\ disk.lines \in 0 .. Len(text) /\ disk.data \in 0 .. boff /\ text \in Seq(Lines)
    BY <2>1 DEF RecordInv, DriverTypes, FileTypes
  <2>4. ASSUME NEW i \in DOMAIN text PROVE text[i].op \in Ops
    <3>1. text[i] \in Lines
      BY <2>3
    <3> QED
      BY <3>1, Fields
  <2>5. /\ at \in 1 .. Len(text) + 1
        /\ \A k \in Kinds : map[k] \in Seq(Names \X LiveNames) /\ Len(map[k]) <= MapMax
        /\ Len(ul) <= UlMax /\ curProg \in Names \cup {None}
        /\ firstFrame \in BOOLEAN /\ swaps \in Nat
        /\ live \in [Kinds -> [LiveNames -> 0 .. MaxObjs]]
        /\ liveFb \in Stray .. MaxObjs /\ liveProg \in 0 .. MaxObjs
    BY <2>1 DEF ReplayTypes
  <2>6. ASSUME NEW i \in DOMAIN ul PROVE ul[i].prog \in Names /\ Len(ul[i].locs) <= LocMax
    <3>1. ul \in Seq(Slot) /\ \A j \in 1 .. Len(ul) : Len(ul[j].locs) <= LocMax
      BY <2>1 DEF ReplayTypes, Slot
    <3>2. i \in 1 .. Len(ul) /\ ul[i] \in Slot
      BY <3>1
    <3> QED
      BY <3>1, <3>2 DEF Slot
  <2>7. did.line \in 0 .. Len(text)
    BY DEF IInv, DidInv
  <2> QED
    BY <2>2, <2>3, <2>4, <2>5, <2>6, <2>7 DEF TypeOK
<1> QED
  BY <1>1, IInvHolds, PTL

\* What the application's frames are is judged by the text alone.
LEMMA FramesAreMarked == IInv => FramesMarked
<1> SUFFICES ASSUME IInv, ~BoundDeleted, NEW i \in LinesOf("clear")
             PROVE  text[i].means[1] = 0 <=> i > 1 /\ text[i - 1].op = "frame"
  BY DEF FramesMarked
<1>1. PICK F, P : TextOK(text, F, P)
  BY DEF IInv, RecordInv, Told, TextInv
<1>2. DOMAIN text = 1 .. Len(text)
  BY <1>1 DEF TextOK
<1>3. i \in 1 .. Len(text) /\ text[i].op = "clear"
  BY <1>2 DEF LinesOf
<1>4. FitsMark(text, i - 1, text[i]) /\ i \in Nat /\ 1 .. i - 1 \subseteq 1 .. Len(text)
  BY <1>1, <1>3, LineFits DEF Fits
<1>5. \A d \in 1 .. i - 1 : ~IsBoundDel(text[d])
  BY <1>2, <1>4 DEF BoundDeleted, LinesOf, IsBoundDel
<1>6. text[i].means[1] = 0 <=> i - 1 > 0 /\ text[i - 1].op = "frame"
  BY <1>3, <1>4, <1>5 DEF FitsMark
<1> QED
  BY <1>4, <1>6

\* The frames of the text are those counted, and all but the last are shown.
LEMMA FramesAreCounted == IInv => FramesCounted
<1> SUFFICES ASSUME IInv PROVE FramesCounted
  OBVIOUS
<1>1. PICK F, P : TextOK(text, F, P)
  BY DEF IInv, RecordInv, Told, TextInv
<1>2. DOMAIN text = 1 .. Len(text) /\ Len(text) \in Nat
  BY <1>1 DEF TextOK
<1>3. LinesOf("end") \subseteq {Len(text)}
  <2> SUFFICES ASSUME NEW i \in LinesOf("end"), i # Len(text) PROVE FALSE
    OBVIOUS
  <2>1. i \in 1 .. Len(text) - 1 /\ text[i].op = "end" /\ Len(text) \in 1 .. Len(text)
    BY <1>2 DEF LinesOf
  <2>2. FitsEnd(text, Len(text) - 1)
    BY <1>1, <2>1, LineFits DEF Fits
  <2> QED
    BY <2>1, <2>2 DEF FitsEnd
<1>4. ~rec \/ stage \in {"app", "finish", "fini"} => Cardinality(LinesOf("frame")) = frames
  BY DEF IInv, RecordInv, CountInv, Recording, FileTypes
<1>5. ASSUME ~rec PROVE Len(text) > 0 /\ text[Len(text)].op = "end"
  BY <1>5 DEF IInv, RecordInv, EndInv
<1>6. ~rec => LinesOf("end") # {}
  BY <1>2, <1>5 DEF LinesOf
<1>7. ASSUME stage = "done", ~rec PROVE swaps = IF frames = 0 THEN 0 ELSE frames - 1
  <2>1. at = Len(text) /\ text[Len(text)].op = "end"
    BY <1>5, <1>7 DEF IInv, FrameInv
  <2>2. Before("frame") = LinesOf("frame")
    BY <1>2, <2>1 DEF Before, LinesOf
  <2>3. Cardinality(Before("frame")) = frames
    BY <1>4, <1>7, <2>2
  <2> QED
    BY <2>3 DEF IInv, FrameInv
<1> QED
  BY <1>3, <1>4, <1>6, <1>7 DEF FramesCounted

\* The recording is the application's frames, each at its clear of the default
\* framebuffer, none missing and none twice, and its replay shows each but the last
\* (gl-record.c:11-12, 300, 345-358; gl-replay.c:260-272, 464-466).
THEOREM FramesAreTheApplications == Spec => []FramesRecorded
<1>1. IInv => FramesRecorded
  BY FramesAreCounted, FramesAreMarked DEF FramesRecorded
<1> QED
  BY <1>1, IInvHolds, PTL

\* Whatever names the replayer's driver gives, a call that names an object is made
\* with the object it was recorded with, unless a name was used again or a table was
\* full (gl-replay.c:48-64).
THEOREM ObjectsAreTheSame == Spec => []SameObjects
<1>1. IInv => SameObjects
  BY DEF IInv, DidInv
<1> QED
  BY <1>1, IInvHolds, PTL

\* A draw goes to the framebuffer and the program it was recorded with, and a uniform
\* is set under the location this driver gives it, whatever it is
\* (gl-replay.c:66-96, 321-328, 386-407).
THEOREM TargetsAreTheSame == Spec => []SameTargets
<1>1. IInv => SameTargets
  BY DEF IInv, DidInv
<1> QED
  BY <1>1, IInvHolds, PTL

\* A recording that ended has its data to the last byte, also when the application is
\* killed later (gl-record.c:81-91, 121; gl-replay.c:121-124).
THEOREM DataIsIntact == Spec => []DataIntact
<1>1. IInv => DataIntact
  BY DEF IInv, DidInv
<1> QED
  BY <1>1, IInvHolds, PTL
=============================================================================
