-------------------------------- MODULE GlReplay --------------------------------
(***************************************************************************)
(* The GL replayer, tools/gl-replay.c, run on the files that an            *)
(* application and its recorder (GlRecord) have left: it makes the calls   *)
(* of the text again, on a driver that gives objects other names and       *)
(* uniforms other locations, and so keeps maps from the recorded ones to   *)
(* its own.                                                                *)
(*                                                                         *)
(* `did' is what the last call meant on the replayer's driver, where an    *)
(* object goes by the number of the one it was recorded as.                *)
(***************************************************************************)
EXTENDS GlRecord

CONSTANTS
  LiveNames,  \* names the replayer's driver gives
  MapMax,     \* entries of map[k]: 2048
  UlMax,      \* programs in ul[]: 64
  LocMax      \* uniforms of a program in ul[]: 64

ASSUME GlReplayAssumption ==
  /\ Names \subseteq LiveNames /\ None \notin LiveNames
  /\ MapMax \in Nat /\ UlMax \in Nat /\ LocMax \in Nat

VARIABLES
  at,               \* the line to be read
  map,              \* map[k]: pairs of a recorded and a live name
  ul,               \* programs, each with pairs of a recorded and a live location
  curProg,          \* cur_prog_rec, a recorded name
  firstFrame, swaps,
  live, liveFb, liveProg,  \* the replayer's driver
  place,            \* the location it gives a uniform of a program
  did               \* the line that was replayed and what its call meant

mapVars    == <<map, ul, curProg>>
liveVars   == <<live, liveFb, liveProg, place>>
replayVars == <<at, mapVars, firstFrame, swaps, liveVars, did>>
vars == <<recordVars, replayVars>>

Stray == -1   \* an object that was not recorded, or none

Init ==
  /\ RecordInit
  /\ at = 1
  /\ map = [k \in Kinds |-> <<>>] /\ ul = <<>> /\ curProg = None
  /\ firstFrame = TRUE /\ swaps = 0
  /\ live = [k \in Kinds |-> [n \in LiveNames |-> 0]] /\ liveFb = 0 /\ liveProg = 0
  /\ place = [o \in Objs |-> [u \in Unis |-> u]]
  /\ did = [line |-> 0, means |-> <<0, 0>>]

-----------------------------------------------------------------------------
(* The maps.                                                               *)

Hits(s, x) == {i \in DOMAIN s : s[i][1] = x}
First(S)   == CHOOSE i \in S : \A j \in S : i <= j

\* A bug to be caught: the search begins at the second entry.
mget_FromSecond(kind, from) ==
  IF from = None \/ Hits(map[kind], from) \ {1} = {} THEN from
  ELSE map[kind][First(Hits(map[kind], from) \ {1})][2]
mget(kind, from) ==
  IF from = None \/ Hits(map[kind], from) = {} THEN from
  ELSE map[kind][First(Hits(map[kind], from))][2]

\* A bug to be caught: one entry too many.
mput_OneMore(kind, from, to) ==
  IF Len(map[kind]) <= MapMax THEN [map EXCEPT ![kind] = Append(@, <<from, to>>)] ELSE map
mput(kind, from, to) ==
  IF Len(map[kind]) < MapMax THEN [map EXCEPT ![kind] = Append(@, <<from, to>>)] ELSE map

\* The entries of a program: uloc_slot().
Slots(p) == {i \in DOMAIN ul : ul[i].prog = p}

\* ul with the live location of a recorded one set, if there is room: uloc_slot()
\* with create set.
SetSlot(p, loc, act) ==
  LET i == First(Slots(p))
      s == ul[i].locs IN
  CASE Slots(p) = {} /\ Len(ul) < UlMax ->
         Append(ul, [prog |-> p, locs |-> IF LocMax = 0 THEN <<>> ELSE <<<<loc, act>>>>])
    [] Slots(p) # {} /\ Hits(s, loc) # {} ->
         [ul EXCEPT ![i].locs[First(Hits(s, loc))] = <<loc, act>>]
    [] Slots(p) # {} /\ Hits(s, loc) = {} /\ Len(s) < LocMax ->
         [ul EXCEPT ![i].locs = Append(s, <<loc, act>>)]
    [] OTHER -> ul

\* A bug to be caught: the locations of all programs are in one table.
uloc_AnyProgram(loc) ==
  IF \E i \in DOMAIN ul : Hits(ul[i].locs, loc) # {}
    THEN LET i == First({j \in DOMAIN ul : Hits(ul[j].locs, loc) # {}}) IN
         ul[i].locs[First(Hits(ul[i].locs, loc))][2]
    ELSE loc
uloc(loc) ==
  IF Slots(curProg) = {} THEN loc
  ELSE LET s == ul[First(Slots(curProg))].locs IN
       IF Hits(s, loc) = {} THEN loc ELSE s[First(Hits(s, loc))][2]

-----------------------------------------------------------------------------
(* The loop over the text.                                                 *)

Start ==
  /\ stage = "gone"
  /\ stage' = "replay"
  /\ UNCHANGED <<fileVars, replayVars>>

AtEnd == IF at <= disk.lines THEN text[at].op = "end" ELSE TRUE

\* The text, or what a kill has left of it, is at its end.
Stop ==
  /\ stage = "replay" /\ AtEnd
  /\ stage' = "done"
  /\ UNCHANGED <<fileVars, replayVars>>

\* The next line, whose call means this.
Replay(op, means) ==
  /\ stage = "replay" /\ ~AtEnd /\ text[at].op = op
  /\ at' = at + 1
  /\ did' = [line |-> at, means |-> means]
  /\ UNCHANGED <<stage, fileVars>>

ShowsLast == ~firstFrame

ReplayFrame ==
  /\ Replay("frame", <<0, 0>>)
  /\ swaps' = IF ShowsLast THEN swaps + 1 ELSE swaps
  /\ firstFrame' = FALSE
  /\ UNCHANGED <<mapVars, liveVars>>

LiveObject(kind, name) ==
  CASE name = None -> 0
    [] name # None /\ name \notin LiveNames -> Stray
    [] OTHER -> IF live[kind][name] = 0 THEN Stray ELSE live[kind][name]

ReplayGen ==
  LET line == text[at]
      obj  == line.means[1] IN
  /\ Replay("gen", line.means)
  /\ \E to \in LiveNames :
       /\ live[line.kind][to] = 0
       /\ live' = [live EXCEPT ![line.kind][to] = obj]
       /\ map' = mput(line.kind, line.name, to)
  /\ \/ line.kind # "prog" /\ UNCHANGED place
     \/ /\ line.kind = "prog"
        /\ \E p \in [Unis -> Unis] :
             /\ \A u, v \in Unis : p[u] = p[v] => u = v
             /\ place' = [place EXCEPT ![obj] = p]
  /\ UNCHANGED <<ul, curProg, firstFrame, swaps, liveFb, liveProg>>

ReplayDelete ==
  LET line == text[at]
      to   == mget(line.kind, line.name)
      obj  == LiveObject(line.kind, to) IN
  /\ Replay("del", <<obj, liveFb>>)
  /\ live' = [live EXCEPT ![line.kind][to] = 0]
  /\ liveFb' = IF line.kind = "fb" /\ obj = liveFb THEN 0 ELSE liveFb
  /\ UNCHANGED <<mapVars, firstFrame, swaps, liveProg, place>>

\* The driver makes a framebuffer of an unknown name and refuses such a program.
ReplayUse ==
  LET line == text[at]
      obj  == LiveObject(line.kind, mget(line.kind, line.name)) IN
  /\ Replay("use", <<obj, 0>>)
  /\ liveFb' = IF line.kind = "fb" THEN obj ELSE liveFb
  /\ liveProg' = IF line.kind = "prog" /\ obj # Stray THEN obj ELSE liveProg
  /\ curProg' = IF line.kind = "prog" THEN line.name ELSE curProg
  /\ UNCHANGED <<map, ul, firstFrame, swaps, live, place>>

ReplayGetUniform ==
  LET line == text[at]
      obj  == LiveObject("prog", mget("prog", line.name))
      u    == line.means[2] IN
  /\ Replay("getuni", <<obj, u>>)
  /\ ul' = SetSlot(line.name, line.loc, IF obj = Stray THEN -1 ELSE place[obj][u])
  /\ UNCHANGED <<map, curProg, firstFrame, swaps, liveVars>>

\* The uniform of the live program that has this location.
UniformAt(loc) ==
  IF liveProg = 0 THEN Stray
  ELSE LET S == {u \in Unis : place[liveProg][u] = loc} IN
       IF S = {} THEN Stray ELSE First(S)

ReplayUniform ==
  /\ Replay("uni", <<liveProg, UniformAt(uloc(text[at].loc))>>)
  /\ UNCHANGED <<mapVars, firstFrame, swaps, liveVars>>

\* blob_at(): what the file has at this place; Beyond is more than it has.
Beyond == -2
BlobAt(off, len) ==
  CASE off < 0 \/ off >= disk.data  -> <<-1, 0>>
    [] off + len > disk.data /\ off >= 0 /\ off < disk.data -> <<off, Beyond>>
    [] OTHER                        -> <<off, len>>

ReplayData ==
  /\ Replay("data", BlobAt(text[at].off, text[at].len))
  /\ UNCHANGED <<mapVars, firstFrame, swaps, liveVars>>

ReplayDraw ==
  /\ Replay("draw", <<liveFb, liveProg>>) \/ Replay("clear", <<liveFb, liveProg>>)
  /\ UNCHANGED <<mapVars, firstFrame, swaps, liveVars>>

ReplayNext ==
  \/ Start \/ Stop
  \/ ReplayFrame \/ ReplayGen \/ ReplayDelete \/ ReplayUse
  \/ ReplayGetUniform \/ ReplayUniform \/ ReplayData \/ ReplayDraw

\* Both programs have ended.
Ended == stage = "done" /\ UNCHANGED vars

Next == (RecordNext /\ UNCHANGED replayVars) \/ ReplayNext \/ Ended

Spec == Init /\ [][Next]_vars

-----------------------------------------------------------------------------
(* What makes a replay the recording.                                      *)

\* The values every variable takes, within the replayer's tables.
TypeOK ==
  /\ stage \in {"app", "finish", "fini", "gone", "replay", "done"}
  /\ object \in [Kinds -> [Names -> 0 .. MaxObjs]] /\ made \in 0 .. MaxObjs
  /\ fb \in 0 .. MaxObjs /\ prog \in 0 .. MaxObjs
  /\ rec \in BOOLEAN /\ frames \in 0 .. MaxFrames /\ curFb \in Names \cup {None}
  /\ Len(text) <= MaxLines + 1 /\ \A i \in DOMAIN text : text[i].op \in Ops
  /\ boff \in 0 .. MaxData
  /\ disk.lines \in 0 .. Len(text) /\ disk.data \in 0 .. boff
  /\ at \in 1 .. Len(text) + 1
  /\ \A k \in Kinds : map[k] \in Seq(Names \X LiveNames) /\ Len(map[k]) <= MapMax
  /\ Len(ul) <= UlMax
  /\ \A i \in DOMAIN ul : ul[i].prog \in Names /\ Len(ul[i].locs) <= LocMax
  /\ curProg \in Names \cup {None}
  /\ firstFrame \in BOOLEAN /\ swaps \in Nat
  /\ live \in [Kinds -> [LiveNames -> 0 .. MaxObjs]]
  /\ liveFb \in Stray .. MaxObjs /\ liveProg \in 0 .. MaxObjs
  /\ did.line \in 0 .. Len(text)

\* The recording has an END only as its last line, and as many frames as counted,
\* GLREC_FRAMES at the most; its replay shows each of them but the last, which is
\* left for the readback (gl-record.c:11-12, 345-358; gl-replay.c:260-272, 464-466).
FramesCounted ==
  /\ LinesOf("end") \subseteq {Len(text)}
  /\ ~rec \/ stage \in {"app", "finish", "fini"} => Cardinality(LinesOf("frame")) = frames
  /\ ~rec => LinesOf("end") # {}
  /\ stage = "done" /\ ~rec => swaps = IF frames = 0 THEN 0 ELSE frames - 1

\* As long as the application does not delete the framebuffer that is bound, a
\* frame begins at each clear of the default framebuffer and at no other
\* (gl-record.c:11-12, 300, 348).
BoundDeleted == \E i \in LinesOf("del") : text[i].kind = "fb" /\ text[i].means[1] = text[i].means[2]
FramesMarked ==
  ~BoundDeleted =>
    \A i \in LinesOf("clear") : text[i].means[1] = 0 <=> i > 1 /\ text[i - 1].op = "frame"

\* The frames of the recording are the application's: none is missing, counted twice,
\* begun at a clear of another framebuffer or shown twice (gl-record.c:11-12, 300,
\* 345-358; gl-replay.c:260-272, 464-466).
FramesRecorded == FramesCounted /\ FramesMarked

\* The recording's driver gives no name twice, and the replayer's tables have room.
Gens(k) == {i \in LinesOf("gen") : text[i].kind = k}
NamesDistinct == \A k \in Kinds : \A i, j \in Gens(k) : text[i].name = text[j].name => i = j
Queried(n) == {text[i].loc : i \in {j \in LinesOf("getuni") : text[j].name = n}}
TablesHold ==
  /\ \A k \in Kinds : Cardinality(Gens(k)) <= MapMax
  /\ Cardinality({text[i].name : i \in LinesOf("getuni")}) <= UlMax
  /\ \A n \in Names : Cardinality(Queried(n)) <= LocMax

Did(ops) == did.line # 0 /\ text[did.line].op \in ops
AsRecorded == did.means = text[did.line].means

\* A call that names an object is made with the same object: names are mapped,
\* through deletions and recordings cut short, as long as no name is
\* used again (gl-replay.c:48-64).
Mappable == NamesDistinct /\ TablesHold
SameObjects == Did({"use", "del", "getuni"}) /\ Mappable => AsRecorded

\* A draw or a clear goes to the same framebuffer with the
\* same program, and a uniform is set in the same program under the location this
\* driver gives it (gl-replay.c:66-96, 321-328, 386-407).
SameTargets == Did({"uni", "draw", "clear"}) /\ Mappable => AsRecorded

\* The data of a recording that was ended, not killed, is there to the last byte
\* (gl-record.c:81-91, 121; gl-replay.c:121-124).
DataIntact == Did({"data"}) /\ ~rec => AsRecorded
=============================================================================
