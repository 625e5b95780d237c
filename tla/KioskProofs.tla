------------------------------ MODULE KioskProofs ------------------------------
(***************************************************************************)
(* Theorems about Kiosk, for any clients and any number of commands and of *)
(* sessions.                                                               *)
(***************************************************************************)
EXTENDS Kiosk, TLAPS

\* Three failures end the loop.
FailsInv == \A s \in Sessions : fails[s] = 3 => pc[s] \in CleanSteps \cup Over

\* A session's process group: none before the first program, gone between programs,
\* and gone once cleanup, which knew of it, has had its two seconds.
GroupInv ==
  \A s \in Sessions :
    /\ pc[s] \in {"none", "new", "untrapped"} =>
         group[s] = "none" /\ watcher[s] = "none" /\ ~known[s]
    /\ pc[s] \in {"top", "spawn", "note", "choice", "pause"} => ~known[s]
    /\ pc[s] \in {"top", "spawn", "choice", "pause"} => ~Populated(s)
    /\ pc[s] = "grace" => known[s]
    /\ pc[s] \in {"release", "text", "chvt", "rm", "ended"} /\ known[s] => ~Populated(s)

\* Whoever holds the terminal in graphics mode or the kiosk's terminal active, or is
\* named in $PIDFILE, has yet to give it back, or was cut short.
Early == {"new", "untrapped"} \cup LoopSteps \cup {"clean", "grace", "release", "text"}
TextInv ==
  ~text => \/ \E c \in Clients : client[c] = "openvt"
           \/ \E s \in Sessions : pc[s] \in Early \cup {"cut"}
ActiveInv == active # "console" => \E s \in Sessions : pc[s] \in Early \cup {"chvt", "cut"}
PidInv    == pidfile # NoSession => pc[pidfile] \notin {"none", "new", "ended"}

\* While starts wait for each other there is one owner: a start, or a session.
StartingBy(c) == client[c] \in {"graphics", "openvt"}
OwnerInv ==
  ~hasty =>
    /\ \A r, s \in Sessions : Alive(r) /\ Alive(s) => r = s
    /\ \A c \in Clients, s \in Sessions : StartingBy(c) => ~Alive(s)
    /\ \A c, d \in Clients : StartingBy(c) /\ StartingBy(d) => c = d
    /\ \A s \in Sessions : Alive(s) /\ pc[s] # "new" => pidfile = s
    /\ \A c \in Clients : client[c] = "openvt" => ~text
    /\ \A s \in Sessions : pc[s] \in {"new", "untrapped"} \cup LoopSteps =>
         ~text /\ active = "kiosk"

IInv == TypeOK /\ FailsInv /\ GroupInv /\ TextInv /\ ActiveInv /\ PidInv /\ OwnerInv

\* What a choice does to the sessions.
LEMMA ChoiceMoves ==
  ASSUME NEW s \in Sessions, ReadChoice(s)
  PROVE  /\ pc[s] = "choice"
         /\ \E q \in {"clean", "pause", "top", "spawn"} : pc' = [pc EXCEPT ![s] = q]
         /\ UNCHANGED <<clientVars, term, known, groupVars, fileVars, vtVars>>
BY DEF ReadChoice, Choose, Step

\* A trap leads into cleanup, or out of it.
LEMMA TrapMoves ==
  ASSUME NEW s \in Sessions, Trap(s)
  PROVE  /\ \/ pc[s] \in LoopSteps /\ pc' = [pc EXCEPT ![s] = "clean"]
            \/ pc[s] \in CleanSteps /\ pc' = [pc EXCEPT ![s] = "cut"]
         /\ UNCHANGED <<clientVars, fileVars, vtVars>>
BY DEF Trap, Interruptible

\* A kill ends a session that has no traps yet.
LEMMA KillMoves ==
  ASSUME NEW c \in Clients, StopKill(c)
  PROVE  /\ \/ UNCHANGED pc
            \/ /\ pidfile # NoSession /\ pc[pidfile] = "untrapped"
               /\ pc' = [pc EXCEPT ![pidfile] = "cut"]
         /\ client[c] = "kill" /\ client' = [client EXCEPT ![c] = "idle"]
         /\ UNCHANGED <<commands, hasty, fileVars, vtVars>>
BY DEF StopKill, Running

-----------------------------------------------------------------------------
\* Nothing has begun.
LEMMA InitIInv == Init => IInv
<1> SUFFICES ASSUME Init PROVE IInv
  OBVIOUS
<1>1. TypeOK
  <2>1. commands \in 0 .. MaxCommands
    BY KioskAssumption DEF Init
  <2>2. fails \in [Sessions -> 0 .. 3]
    BY DEF Init
  <2> QED
    BY <2>1, <2>2 DEF Init, TypeOK, NoSession, Choices
<1>2. FailsInv /\ GroupInv
  BY DEF Init, FailsInv, GroupInv, Populated
<1>3. TextInv /\ ActiveInv /\ PidInv
  BY DEF Init, TextInv, ActiveInv, PidInv
<1>4. OwnerInv
  BY DEF Init, OwnerInv, Alive, StartingBy, LoopSteps
<1> QED
  BY <1>1, <1>2, <1>3, <1>4 DEF IInv

\* Types, action by action.
LEMMA TypeStep ==
  ASSUME IInv, [Next]_vars
  PROVE  TypeOK'
<1>0. TypeOK /\ FailsInv
  BY DEF IInv
<1> USE DEF Step, clientVars, sessionVars, groupVars, fileVars, vtVars, LoopSteps, CleanSteps, Over
<1>1. ASSUME NEW c \in Clients, Start(c) PROVE TypeOK'
  <2>1. commands' \in 0 .. MaxCommands /\ hasty' \in BOOLEAN
    BY <1>0, <1>1, KioskAssumption DEF TypeOK, Start, Issue
  <2> QED
    BY <1>0, <1>1, <2>1 DEF TypeOK, Start
<1>2. ASSUME NEW c \in Clients, StartGraphics(c) PROVE TypeOK'
  BY <1>0, <1>2 DEF TypeOK, StartGraphics
<1>3. ASSUME NEW c \in Clients, StartOpenvt(c) PROVE TypeOK'
  BY <1>0, <1>3 DEF TypeOK, StartOpenvt
<1>4. ASSUME NEW c \in Clients, Stop(c) PROVE TypeOK'
  <2>1. commands' \in 0 .. MaxCommands /\ hasty' \in BOOLEAN
    BY <1>0, <1>4, KioskAssumption DEF TypeOK, Stop, Issue
  <2> QED
    BY <1>0, <1>4, <2>1 DEF TypeOK, Stop
<1>5. ASSUME NEW c \in Clients, StopKill(c) PROVE TypeOK'
  BY <1>0, <1>5 DEF TypeOK, StopKill, Running
<1>6. ASSUME NEW s \in Sessions, WritePidfile(s) PROVE TypeOK'
  BY <1>0, <1>6 DEF TypeOK, WritePidfile
<1>7. ASSUME NEW s \in Sessions, SetTraps(s) PROVE TypeOK'
  BY <1>0, <1>7 DEF TypeOK, SetTraps
<1>8. ASSUME NEW s \in Sessions, RemoveResult(s) PROVE TypeOK'
  BY <1>0, <1>8 DEF TypeOK, RemoveResult
<1>9. ASSUME NEW s \in Sessions, Spawn(s) PROVE TypeOK'
  BY <1>0, <1>9 DEF TypeOK, Spawn
<1>10. ASSUME NEW s \in Sessions, Note(s) PROVE TypeOK'
  BY <1>0, <1>10 DEF TypeOK, Note
<1>11. ASSUME NEW s \in Sessions, Reap(s) PROVE TypeOK'
  BY <1>0, <1>11 DEF TypeOK, Reap
<1>12. ASSUME NEW s \in Sessions, ReadChoice(s) PROVE TypeOK'
  <2>1. fails[s] \in 0 .. 2
    BY <1>0, <1>12, ChoiceMoves DEF TypeOK, FailsInv
  <2>2. fails' \in [Sessions -> 0 .. 3]
    BY <1>0, <1>12, <2>1 DEF TypeOK, ReadChoice, Choose
  <2>3. kind' \in [Sessions -> {"launcher", "app"}]
    BY <1>0, <1>12 DEF TypeOK, ReadChoice, Choose
  <2> QED
    BY <1>0, <1>12, <2>2, <2>3, ChoiceMoves DEF TypeOK
<1>13. ASSUME NEW s \in Sessions, Pause(s) PROVE TypeOK'
  BY <1>0, <1>13 DEF TypeOK, Pause
<1>14. ASSUME NEW s \in Sessions, Trap(s) PROVE TypeOK'
  BY <1>0, <1>14 DEF TypeOK, Trap, Interruptible
<1>15. ASSUME NEW s \in Sessions, CleanTerm(s) PROVE TypeOK'
  BY <1>0, <1>15 DEF TypeOK, CleanTerm
<1>16. ASSUME NEW s \in Sessions, CleanKill(s) PROVE TypeOK'
  BY <1>0, <1>16 DEF TypeOK, CleanKill
<1>17. ASSUME NEW s \in Sessions, CleanRelease(s) PROVE TypeOK'
  BY <1>0, <1>17 DEF TypeOK, CleanRelease
<1>18. ASSUME NEW s \in Sessions, CleanText(s) PROVE TypeOK'
  BY <1>0, <1>18 DEF TypeOK, CleanText
<1>19. ASSUME NEW s \in Sessions, CleanChvt(s) PROVE TypeOK'
  BY <1>0, <1>19 DEF TypeOK, CleanChvt
<1>20. ASSUME NEW s \in Sessions, CleanRm(s) PROVE TypeOK'
  BY <1>0, <1>20 DEF TypeOK, CleanRm
<1>21. ASSUME NEW s \in Sessions, Setsid(s) PROVE TypeOK'
  BY <1>0, <1>21 DEF TypeOK, Setsid
<1>22. ASSUME NEW s \in Sessions, HotkeyKill(s) PROVE TypeOK'
  BY <1>0, <1>22 DEF TypeOK, HotkeyKill
<1>23. ASSUME NEW s \in Sessions, LauncherWrites(s) PROVE TypeOK'
  BY <1>0, <1>23 DEF TypeOK, LauncherWrites
<1>24. ASSUME NEW s \in Sessions, LeaderExits(s) PROVE TypeOK'
  BY <1>0, <1>24 DEF TypeOK, LeaderExits
<1>25. ASSUME NEW s \in Sessions, Hotkey(s) PROVE TypeOK'
  BY <1>0, <1>25 DEF TypeOK, Hotkey
<1>26. CASE UNCHANGED vars
  BY <1>0, <1>26 DEF TypeOK, vars
<1> QED
  BY <1>1, <1>2, <1>3, <1>4, <1>5, <1>6, <1>7, <1>8, <1>9,
     <1>10, <1>11, <1>12, <1>13, <1>14, <1>15, <1>16, <1>17, <1>18,
     <1>19, <1>20, <1>21, <1>22, <1>23, <1>24, <1>25, <1>26 DEF Next, Client, Script, Program

\* The groups and the failures.
LEMMA GroupStep ==
  ASSUME IInv, [Next]_vars
  PROVE  FailsInv' /\ GroupInv'
<1>0. TypeOK /\ FailsInv /\ GroupInv
  BY DEF IInv
<1> USE DEF Step, clientVars, sessionVars, groupVars, fileVars, vtVars, LoopSteps, CleanSteps, Over
<1>1. ASSUME NEW c \in Clients, Start(c) PROVE FailsInv' /\ GroupInv'
  BY <1>0, <1>1 DEF TypeOK, FailsInv, GroupInv, Populated, Start, Issue, Running, Settled
<1>2. ASSUME NEW c \in Clients, StartGraphics(c) PROVE FailsInv' /\ GroupInv'
  BY <1>0, <1>2 DEF TypeOK, FailsInv, GroupInv, Populated, StartGraphics
<1>3. ASSUME NEW c \in Clients, StartOpenvt(c) PROVE FailsInv' /\ GroupInv'
  BY <1>0, <1>3 DEF TypeOK, FailsInv, GroupInv, Populated, StartOpenvt
<1>4. ASSUME NEW c \in Clients, Stop(c) PROVE FailsInv' /\ GroupInv'
  BY <1>0, <1>4 DEF TypeOK, FailsInv, GroupInv, Populated, Stop, Issue, Running
<1>5. ASSUME NEW c \in Clients, StopKill(c) PROVE FailsInv' /\ GroupInv'
  BY <1>0, <1>5 DEF TypeOK, FailsInv, GroupInv, Populated, StopKill, Running
<1>6. ASSUME NEW s \in Sessions, WritePidfile(s) PROVE FailsInv' /\ GroupInv'
  BY <1>0, <1>6 DEF TypeOK, FailsInv, GroupInv, Populated, WritePidfile
<1>7. ASSUME NEW s \in Sessions, SetTraps(s) PROVE FailsInv' /\ GroupInv'
  BY <1>0, <1>7 DEF TypeOK, FailsInv, GroupInv, Populated, SetTraps
<1>8. ASSUME NEW s \in Sessions, RemoveResult(s) PROVE FailsInv' /\ GroupInv'
  BY <1>0, <1>8 DEF TypeOK, FailsInv, GroupInv, Populated, RemoveResult
<1>9. ASSUME NEW s \in Sessions, Spawn(s) PROVE FailsInv' /\ GroupInv'
  BY <1>0, <1>9 DEF TypeOK, FailsInv, GroupInv, Populated, Spawn
<1>10. ASSUME NEW s \in Sessions, Note(s) PROVE FailsInv' /\ GroupInv'
  BY <1>0, <1>10 DEF TypeOK, FailsInv, GroupInv, Populated, Note
<1>11. ASSUME NEW s \in Sessions, Reap(s) PROVE FailsInv' /\ GroupInv'
  BY <1>0, <1>11 DEF TypeOK, FailsInv, GroupInv, Populated, Reap
<1>12. ASSUME NEW s \in Sessions, ReadChoice(s) PROVE FailsInv' /\ GroupInv'
  BY <1>0, <1>12 DEF TypeOK, FailsInv, GroupInv, Populated, ReadChoice, Choose
<1>13. ASSUME NEW s \in Sessions, Pause(s) PROVE FailsInv' /\ GroupInv'
  BY <1>0, <1>13 DEF TypeOK, FailsInv, GroupInv, Populated, Pause
<1>14. ASSUME NEW s \in Sessions, Trap(s) PROVE FailsInv' /\ GroupInv'
  BY <1>0, <1>14 DEF TypeOK, FailsInv, GroupInv, Populated, Trap, Interruptible
<1>15. ASSUME NEW s \in Sessions, CleanTerm(s) PROVE FailsInv' /\ GroupInv'
  BY <1>0, <1>15 DEF TypeOK, FailsInv, GroupInv, Populated, CleanTerm
<1>16. ASSUME NEW s \in Sessions, CleanKill(s) PROVE FailsInv' /\ GroupInv'
  BY <1>0, <1>16 DEF TypeOK, FailsInv, GroupInv, Populated, CleanKill
<1>17. ASSUME NEW s \in Sessions, CleanRelease(s) PROVE FailsInv' /\ GroupInv'
  BY <1>0, <1>17 DEF TypeOK, FailsInv, GroupInv, Populated, CleanRelease
<1>18. ASSUME NEW s \in Sessions, CleanText(s) PROVE FailsInv' /\ GroupInv'
  BY <1>0, <1>18 DEF TypeOK, FailsInv, GroupInv, Populated, CleanText
<1>19. ASSUME NEW s \in Sessions, CleanChvt(s) PROVE FailsInv' /\ GroupInv'
  BY <1>0, <1>19 DEF TypeOK, FailsInv, GroupInv, Populated, CleanChvt
<1>20. ASSUME NEW s \in Sessions, CleanRm(s) PROVE FailsInv' /\ GroupInv'
  BY <1>0, <1>20 DEF TypeOK, FailsInv, GroupInv, Populated, CleanRm
<1>21. ASSUME NEW s \in Sessions, Setsid(s) PROVE FailsInv' /\ GroupInv'
  BY <1>0, <1>21 DEF TypeOK, FailsInv, GroupInv, Populated, Setsid
<1>22. ASSUME NEW s \in Sessions, HotkeyKill(s) PROVE FailsInv' /\ GroupInv'
  BY <1>0, <1>22 DEF TypeOK, FailsInv, GroupInv, Populated, HotkeyKill
<1>23. ASSUME NEW s \in Sessions, LauncherWrites(s) PROVE FailsInv' /\ GroupInv'
  BY <1>0, <1>23 DEF TypeOK, FailsInv, GroupInv, Populated, LauncherWrites
<1>24. ASSUME NEW s \in Sessions, LeaderExits(s) PROVE FailsInv' /\ GroupInv'
  BY <1>0, <1>24 DEF TypeOK, FailsInv, GroupInv, Populated, LeaderExits
<1>25. ASSUME NEW s \in Sessions, Hotkey(s) PROVE FailsInv' /\ GroupInv'
  BY <1>0, <1>25 DEF TypeOK, FailsInv, GroupInv, Populated, Hotkey
<1>26. CASE UNCHANGED vars
  BY <1>0, <1>26 DEF TypeOK, FailsInv, GroupInv, Populated, vars
<1> QED
  BY <1>1, <1>2, <1>3, <1>4, <1>5, <1>6, <1>7, <1>8, <1>9,
     <1>10, <1>11, <1>12, <1>13, <1>14, <1>15, <1>16, <1>17, <1>18,
     <1>19, <1>20, <1>21, <1>22, <1>23, <1>24, <1>25, <1>26 DEF Next, Client, Script, Program

\* The terminal and $PIDFILE.
LEMMA ConsoleStep ==
  ASSUME IInv, [Next]_vars
  PROVE  TextInv' /\ ActiveInv' /\ PidInv'
<1>0. TypeOK /\ TextInv /\ ActiveInv /\ PidInv
  BY DEF IInv
<1> USE DEF Step, clientVars, sessionVars, groupVars, fileVars, vtVars, LoopSteps, CleanSteps, Over
<1>1. ASSUME NEW c \in Clients, Start(c) PROVE TextInv' /\ ActiveInv' /\ PidInv'
  BY <1>0, <1>1 DEF TypeOK, TextInv, ActiveInv, PidInv, Early, NoSession, Sessions,
     Start, Issue, Running, Settled
<1>2. ASSUME NEW c \in Clients, StartGraphics(c) PROVE TextInv' /\ ActiveInv' /\ PidInv'
  BY <1>0, <1>2 DEF TypeOK, TextInv, ActiveInv, PidInv, Early, NoSession, Sessions,
     StartGraphics
<1>3. ASSUME NEW c \in Clients, StartOpenvt(c) PROVE TextInv' /\ ActiveInv' /\ PidInv'
  BY <1>0, <1>3 DEF TypeOK, TextInv, ActiveInv, PidInv, Early, NoSession, Sessions,
     StartOpenvt
<1>4. ASSUME NEW c \in Clients, Stop(c) PROVE TextInv' /\ ActiveInv' /\ PidInv'
  BY <1>0, <1>4 DEF TypeOK, TextInv, ActiveInv, PidInv, Early, NoSession, Sessions,
     Stop, Issue, Running
<1>5. ASSUME NEW c \in Clients, StopKill(c) PROVE TextInv' /\ ActiveInv' /\ PidInv'
  <2>1. TextInv'
    BY <1>0, <1>5, KillMoves DEF TypeOK, TextInv, Early
  <2>2. ActiveInv'
    BY <1>0, <1>5, KillMoves DEF TypeOK, ActiveInv, Early
  <2>3. PidInv'
    BY <1>0, <1>5, KillMoves DEF TypeOK, PidInv
  <2> QED
    BY <2>1, <2>2, <2>3
<1>6. ASSUME NEW s \in Sessions, WritePidfile(s) PROVE TextInv' /\ ActiveInv' /\ PidInv'
  BY <1>0, <1>6 DEF TypeOK, TextInv, ActiveInv, PidInv, Early, NoSession, Sessions,
     WritePidfile
<1>7. ASSUME NEW s \in Sessions, SetTraps(s) PROVE TextInv' /\ ActiveInv' /\ PidInv'
  BY <1>0, <1>7 DEF TypeOK, TextInv, ActiveInv, PidInv, Early, NoSession, Sessions,
     SetTraps
<1>8. ASSUME NEW s \in Sessions, RemoveResult(s) PROVE TextInv' /\ ActiveInv' /\ PidInv'
  BY <1>0, <1>8 DEF TypeOK, TextInv, ActiveInv, PidInv, Early, NoSession, Sessions,
     RemoveResult
<1>9. ASSUME NEW s \in Sessions, Spawn(s) PROVE TextInv' /\ ActiveInv' /\ PidInv'
  BY <1>0, <1>9 DEF TypeOK, TextInv, ActiveInv, PidInv, Early, NoSession, Sessions,
     Spawn
<1>10. ASSUME NEW s \in Sessions, Note(s) PROVE TextInv' /\ ActiveInv' /\ PidInv'
  BY <1>0, <1>10 DEF TypeOK, TextInv, ActiveInv, PidInv, Early, NoSession, Sessions,
     Note
<1>11. ASSUME NEW s \in Sessions, Reap(s) PROVE TextInv' /\ ActiveInv' /\ PidInv'
  BY <1>0, <1>11 DEF TypeOK, TextInv, ActiveInv, PidInv, Early, NoSession, Sessions,
     Reap
<1>12. ASSUME NEW s \in Sessions, ReadChoice(s) PROVE TextInv' /\ ActiveInv' /\ PidInv'
  <2>1. TextInv'
    BY <1>0, <1>12, ChoiceMoves DEF TypeOK, TextInv, Early
  <2>2. ActiveInv'
    BY <1>0, <1>12, ChoiceMoves DEF TypeOK, ActiveInv, Early
  <2>3. PidInv'
    BY <1>0, <1>12, ChoiceMoves DEF TypeOK, PidInv
  <2> QED
    BY <2>1, <2>2, <2>3
<1>13. ASSUME NEW s \in Sessions, Pause(s) PROVE TextInv' /\ ActiveInv' /\ PidInv'
  BY <1>0, <1>13 DEF TypeOK, TextInv, ActiveInv, PidInv, Early, NoSession, Sessions,
     Pause
<1>14. ASSUME NEW s \in Sessions, Trap(s) PROVE TextInv' /\ ActiveInv' /\ PidInv'
  <2>1. TextInv'
    BY <1>0, <1>14, TrapMoves DEF TypeOK, TextInv, Early
  <2>2. ActiveInv'
    BY <1>0, <1>14, TrapMoves DEF TypeOK, ActiveInv, Early
  <2>3. PidInv'
    BY <1>0, <1>14, TrapMoves DEF TypeOK, PidInv
  <2> QED
    BY <2>1, <2>2, <2>3
<1>15. ASSUME NEW s \in Sessions, CleanTerm(s) PROVE TextInv' /\ ActiveInv' /\ PidInv'
  BY <1>0, <1>15 DEF TypeOK, TextInv, ActiveInv, PidInv, Early, NoSession, Sessions,
     CleanTerm
<1>16. ASSUME NEW s \in Sessions, CleanKill(s) PROVE TextInv' /\ ActiveInv' /\ PidInv'
  BY <1>0, <1>16 DEF TypeOK, TextInv, ActiveInv, PidInv, Early, NoSession, Sessions,
     CleanKill
<1>17. ASSUME NEW s \in Sessions, CleanRelease(s) PROVE TextInv' /\ ActiveInv' /\ PidInv'
  BY <1>0, <1>17 DEF TypeOK, TextInv, ActiveInv, PidInv, Early, NoSession, Sessions,
     CleanRelease
<1>18. ASSUME NEW s \in Sessions, CleanText(s) PROVE TextInv' /\ ActiveInv' /\ PidInv'
  BY <1>0, <1>18 DEF TypeOK, TextInv, ActiveInv, PidInv, Early, NoSession, Sessions,
     CleanText
<1>19. ASSUME NEW s \in Sessions, CleanChvt(s) PROVE TextInv' /\ ActiveInv' /\ PidInv'
  BY <1>0, <1>19 DEF TypeOK, TextInv, ActiveInv, PidInv, Early, NoSession, Sessions,
     CleanChvt
<1>20. ASSUME NEW s \in Sessions, CleanRm(s) PROVE TextInv' /\ ActiveInv' /\ PidInv'
  BY <1>0, <1>20 DEF TypeOK, TextInv, ActiveInv, PidInv, Early, NoSession, Sessions,
     CleanRm
<1>21. ASSUME NEW s \in Sessions, Setsid(s) PROVE TextInv' /\ ActiveInv' /\ PidInv'
  BY <1>0, <1>21 DEF TypeOK, TextInv, ActiveInv, PidInv, Early, NoSession, Sessions,
     Setsid
<1>22. ASSUME NEW s \in Sessions, HotkeyKill(s) PROVE TextInv' /\ ActiveInv' /\ PidInv'
  BY <1>0, <1>22 DEF TypeOK, TextInv, ActiveInv, PidInv, Early, NoSession, Sessions,
     HotkeyKill
<1>23. ASSUME NEW s \in Sessions, LauncherWrites(s) PROVE TextInv' /\ ActiveInv' /\ PidInv'
  BY <1>0, <1>23 DEF TypeOK, TextInv, ActiveInv, PidInv, Early, NoSession, Sessions,
     LauncherWrites
<1>24. ASSUME NEW s \in Sessions, LeaderExits(s) PROVE TextInv' /\ ActiveInv' /\ PidInv'
  BY <1>0, <1>24 DEF TypeOK, TextInv, ActiveInv, PidInv, Early, NoSession, Sessions,
     LeaderExits
<1>25. ASSUME NEW s \in Sessions, Hotkey(s) PROVE TextInv' /\ ActiveInv' /\ PidInv'
  BY <1>0, <1>25 DEF TypeOK, TextInv, ActiveInv, PidInv, Early, NoSession, Sessions,
     Hotkey
<1>26. CASE UNCHANGED vars
  BY <1>0, <1>26 DEF TypeOK, TextInv, ActiveInv, PidInv, Early, NoSession, Sessions,
     vars
<1> QED
  BY <1>1, <1>2, <1>3, <1>4, <1>5, <1>6, <1>7, <1>8, <1>9,
     <1>10, <1>11, <1>12, <1>13, <1>14, <1>15, <1>16, <1>17, <1>18,
     <1>19, <1>20, <1>21, <1>22, <1>23, <1>24, <1>25, <1>26 DEF Next, Client, Script, Program

\* One owner at a time.
LEMMA OwnerStep ==
  ASSUME IInv, [Next]_vars
  PROVE  OwnerInv'
<1>0. TypeOK /\ OwnerInv
  BY DEF IInv
<1> USE DEF Step, clientVars, sessionVars, groupVars, fileVars, vtVars, LoopSteps, CleanSteps, Over
<1>1. ASSUME NEW c \in Clients, Start(c) PROVE OwnerInv'
  <2>1. CASE hasty'
    BY <2>1 DEF OwnerInv
  <2>2. CASE ~hasty'
    <3>1. /\ ~hasty /\ UNCHANGED <<sessionVars, pidfile, vtVars>>
          /\ \A s \in Sessions : pc[s] # "new"
          /\ \A d \in Clients : ~StartingBy(d)
      BY <1>1, <2>2 DEF Start, Issue, Settled, StartingBy
    <3>2. CASE Running
      BY <1>0, <1>1, <3>1, <3>2 DEF TypeOK, OwnerInv, Alive, StartingBy, Start, Issue
    <3>3. CASE ~Running
      <4>1. \A s \in Sessions : s # NoSession
        BY KioskAssumption DEF Sessions, NoSession
      <4>2. \A s \in Sessions : ~Alive(s)
        BY <1>0, <3>1, <3>3, <4>1 DEF OwnerInv, Running
      <4> QED
        BY <1>0, <1>1, <3>1, <3>3, <4>2 DEF TypeOK, OwnerInv, Alive, StartingBy, Start
    <3> QED
      BY <3>2, <3>3
  <2> QED
    BY <2>1, <2>2
<1>2. ASSUME NEW c \in Clients, StartGraphics(c) PROVE OwnerInv'
  BY <1>0, <1>2 DEF TypeOK, OwnerInv, Alive, StartingBy, NoSession, Sessions, StartGraphics
<1>3. ASSUME NEW c \in Clients, StartOpenvt(c) PROVE OwnerInv'
  BY <1>0, <1>3 DEF TypeOK, OwnerInv, Alive, StartingBy, NoSession, Sessions, StartOpenvt
<1>4. ASSUME NEW c \in Clients, Stop(c) PROVE OwnerInv'
  BY <1>0, <1>4 DEF TypeOK, OwnerInv, Alive, StartingBy, NoSession, Sessions, Stop, Issue, Running
<1>5. ASSUME NEW c \in Clients, StopKill(c) PROVE OwnerInv'
  BY <1>0, <1>5, KillMoves DEF TypeOK, OwnerInv, Alive, StartingBy
<1>6. ASSUME NEW s \in Sessions, WritePidfile(s) PROVE OwnerInv'
  BY <1>0, <1>6 DEF TypeOK, OwnerInv, Alive, StartingBy, NoSession, Sessions, WritePidfile
<1>7. ASSUME NEW s \in Sessions, SetTraps(s) PROVE OwnerInv'
  BY <1>0, <1>7 DEF TypeOK, OwnerInv, Alive, StartingBy, NoSession, Sessions, SetTraps
<1>8. ASSUME NEW s \in Sessions, RemoveResult(s) PROVE OwnerInv'
  BY <1>0, <1>8 DEF TypeOK, OwnerInv, Alive, StartingBy, NoSession, Sessions, RemoveResult
<1>9. ASSUME NEW s \in Sessions, Spawn(s) PROVE OwnerInv'
  BY <1>0, <1>9 DEF TypeOK, OwnerInv, Alive, StartingBy, NoSession, Sessions, Spawn
<1>10. ASSUME NEW s \in Sessions, Note(s) PROVE OwnerInv'
  BY <1>0, <1>10 DEF TypeOK, OwnerInv, Alive, StartingBy, NoSession, Sessions, Note
<1>11. ASSUME NEW s \in Sessions, Reap(s) PROVE OwnerInv'
  BY <1>0, <1>11 DEF TypeOK, OwnerInv, Alive, StartingBy, NoSession, Sessions, Reap
<1>12. ASSUME NEW s \in Sessions, ReadChoice(s) PROVE OwnerInv'
  BY <1>0, <1>12, ChoiceMoves DEF TypeOK, OwnerInv, Alive, StartingBy
<1>13. ASSUME NEW s \in Sessions, Pause(s) PROVE OwnerInv'
  BY <1>0, <1>13 DEF TypeOK, OwnerInv, Alive, StartingBy, NoSession, Sessions, Pause
<1>14. ASSUME NEW s \in Sessions, Trap(s) PROVE OwnerInv'
  BY <1>0, <1>14, TrapMoves DEF TypeOK, OwnerInv, Alive, StartingBy
<1>15. ASSUME NEW s \in Sessions, CleanTerm(s) PROVE OwnerInv'
  BY <1>0, <1>15 DEF TypeOK, OwnerInv, Alive, StartingBy, NoSession, Sessions, CleanTerm
<1>16. ASSUME NEW s \in Sessions, CleanKill(s) PROVE OwnerInv'
  BY <1>0, <1>16 DEF TypeOK, OwnerInv, Alive, StartingBy, NoSession, Sessions, CleanKill
<1>17. ASSUME NEW s \in Sessions, CleanRelease(s) PROVE OwnerInv'
  BY <1>0, <1>17 DEF TypeOK, OwnerInv, Alive, StartingBy, NoSession, Sessions, CleanRelease
<1>18. ASSUME NEW s \in Sessions, CleanText(s) PROVE OwnerInv'
  BY <1>0, <1>18 DEF TypeOK, OwnerInv, Alive, StartingBy, NoSession, Sessions, CleanText
<1>19. ASSUME NEW s \in Sessions, CleanChvt(s) PROVE OwnerInv'
  BY <1>0, <1>19 DEF TypeOK, OwnerInv, Alive, StartingBy, NoSession, Sessions, CleanChvt
<1>20. ASSUME NEW s \in Sessions, CleanRm(s) PROVE OwnerInv'
  BY <1>0, <1>20 DEF TypeOK, OwnerInv, Alive, StartingBy, NoSession, Sessions, CleanRm
<1>21. ASSUME NEW s \in Sessions, Setsid(s) PROVE OwnerInv'
  BY <1>0, <1>21 DEF TypeOK, OwnerInv, Alive, StartingBy, NoSession, Sessions, Setsid
<1>22. ASSUME NEW s \in Sessions, HotkeyKill(s) PROVE OwnerInv'
  BY <1>0, <1>22 DEF TypeOK, OwnerInv, Alive, StartingBy, NoSession, Sessions, HotkeyKill
<1>23. ASSUME NEW s \in Sessions, LauncherWrites(s) PROVE OwnerInv'
  BY <1>0, <1>23 DEF TypeOK, OwnerInv, Alive, StartingBy, NoSession, Sessions, LauncherWrites
<1>24. ASSUME NEW s \in Sessions, LeaderExits(s) PROVE OwnerInv'
  BY <1>0, <1>24 DEF TypeOK, OwnerInv, Alive, StartingBy, NoSession, Sessions, LeaderExits
<1>25. ASSUME NEW s \in Sessions, Hotkey(s) PROVE OwnerInv'
  BY <1>0, <1>25 DEF TypeOK, OwnerInv, Alive, StartingBy, NoSession, Sessions, Hotkey
<1>26. CASE UNCHANGED vars
  BY <1>0, <1>26 DEF TypeOK, OwnerInv, Alive, StartingBy, NoSession, Sessions, vars
<1> QED
  BY <1>1, <1>2, <1>3, <1>4, <1>5, <1>6, <1>7, <1>8, <1>9,
     <1>10, <1>11, <1>12, <1>13, <1>14, <1>15, <1>16, <1>17, <1>18,
     <1>19, <1>20, <1>21, <1>22, <1>23, <1>24, <1>25, <1>26 DEF Next, Client, Script, Program

\* The invariant holds from the start and is kept.
LEMMA AlwaysIInv == Spec => []IInv
<1>1. IInv /\ [Next]_vars => IInv'
  BY TypeStep, GroupStep, ConsoleStep, OwnerStep DEF IInv
<1> QED
  BY InitIInv, <1>1, PTL DEF Spec

-----------------------------------------------------------------------------
\* Every variable keeps its type; three failures in a row are the most
\* (kiosk:131-137).
THEOREM TypeCorrect == Spec => []TypeOK
<1>1. IInv => TypeOK
  BY DEF IInv
<1> QED
  BY <1>1, AlwaysIInv, PTL

\* While starts wait for each other, a session in its loop has the terminal to itself and
\* is the one $PIDFILE names (kiosk:103-115, 147-156).
THEOREM SessionHasCharge == Spec => []SessionInCharge
<1>1. IInv => SessionInCharge
  BY DEF IInv, OwnerInv, SessionInCharge, Alive, LoopSteps, Over
<1> QED
  BY <1>1, AlwaysIInv, PTL

\* When every session has run its cleanup to the end the text console is back, however
\* they overlapped (kiosk:103-115).
THEOREM ConsoleComesBack == Spec => []ConsoleBack
<1>1. IInv => ConsoleBack
  BY DEF IInv, TypeOK, TextInv, ActiveInv, PidInv, ConsoleBack, Quiet, Starting, Alive, Early,
     LoopSteps, Over
<1> QED
  BY <1>1, AlwaysIInv, PTL

\* No program outlives the session step that follows it (kiosk:85-90, 104-108).
THEOREM GroupIsGone == Spec => []GroupGone
<1>1. IInv => GroupGone
  BY DEF IInv, GroupInv, GroupGone
<1> QED
  BY <1>1, AlwaysIInv, PTL

-----------------------------------------------------------------------------
\* A session that has to end: TERM is pending, or its cleanup runs.  The commands it still
\* has.
Ending(s) == (term[s] /\ Alive(s)) \/ pc[s] \in CleanSteps
CommandsLeft(s) ==
  CASE pc[s] \in {"none", "new", "untrapped"} -> 8 [] pc[s] \in LoopSteps -> 7
    [] pc[s] = "clean" -> 6 [] pc[s] = "grace" -> 5 [] pc[s] = "release" -> 4
    [] pc[s] = "text" -> 3 [] pc[s] = "chvt" -> 2 [] pc[s] = "rm" -> 1 [] OTHER -> 0

\* A command of its own brings it nearer to its end.
LEMMA EndingSteps ==
  ASSUME TypeOK, NEW s \in Sessions, Ending(s), Script(s)
  PROVE  /\ CommandsLeft(s)' < CommandsLeft(s)
         /\ Ending(s)' \/ ~Alive(s)'
<1>1. DOMAIN pc = Sessions
  BY DEF TypeOK
<1> USE <1>1
<1>2. CASE Trap(s)
  <2>1. \/ pc[s] \in LoopSteps /\ pc'[s] = "clean"
        \/ pc[s] \in CleanSteps /\ pc'[s] = "cut"
    BY <1>2 DEF Trap, Interruptible
  <2> QED
    BY <2>1 DEF CommandsLeft, Ending, Alive, Over, LoopSteps, CleanSteps
<1>3. CASE ~Trap(s)
  <2>1. ~term[s]
    BY <1>3 DEF Script, WritePidfile, SetTraps, RemoveResult, Spawn, Note, Reap, ReadChoice, Choose,
      Pause, CleanTerm, CleanKill, CleanRelease, CleanText, CleanChvt, CleanRm, Step
  <2>2. pc[s] \in CleanSteps
    BY <2>1 DEF Ending
  <2>3. \/ pc[s] = "clean" /\ pc'[s] \in {"grace", "release"}
        \/ pc[s] = "grace" /\ pc'[s] = "release"
        \/ pc[s] = "release" /\ pc'[s] = "text"
        \/ pc[s] = "text" /\ pc'[s] = "chvt"
        \/ pc[s] = "chvt" /\ pc'[s] = "rm"
        \/ pc[s] = "rm" /\ pc'[s] = "ended"
    BY <1>3, <2>2 DEF Script, WritePidfile, SetTraps, RemoveResult, Spawn, Note, Reap, ReadChoice,
      Choose, Pause, CleanTerm, CleanKill, CleanRelease, CleanText, CleanChvt, CleanRm, Step, CleanSteps
  <2> QED
    BY <2>3 DEF CommandsLeft, Ending, Alive, Over, LoopSteps, CleanSteps
<1> QED
  BY <1>2, <1>3

\* Nothing else sets it back: a session's place is changed by others only by a stop before
\* its traps are set, which ends it, and when it begins.
LEMMA OthersLeaveIt ==
  ASSUME TypeOK, NEW s \in Sessions, Ending(s), [Next]_vars, ~Script(s)
  PROVE  /\ CommandsLeft(s)' <= CommandsLeft(s)
         /\ Ending(s)' \/ ~Alive(s)'
<1>1. DOMAIN pc = Sessions /\ DOMAIN term = Sessions
  BY DEF TypeOK
<1> USE <1>1
<1>2. CASE pc'[s] = pc[s] /\ (term[s] => term'[s])
  BY <1>2 DEF CommandsLeft, Ending, Alive, Over
<1>3. CASE pc'[s] = "cut"
  BY <1>3 DEF CommandsLeft, Alive, Over, LoopSteps, CleanSteps
<1>4. ASSUME NEW c \in Clients, Client(c)
      PROVE  \/ pc'[s] = pc[s] /\ (term[s] => term'[s])
             \/ pc'[s] = "cut"
  <2>1. CASE Start(c) \/ StartGraphics(c) \/ Stop(c)
    BY <2>1 DEF Start, StartGraphics, Stop, sessionVars
  <2>2. CASE StartOpenvt(c)
    <3>1. PICK r \in Sessions : pc[r] = "none" /\ pc' = [pc EXCEPT ![r] = "new"]
      BY <2>2 DEF StartOpenvt
    <3>2. r # s
      BY <3>1 DEF Ending, Alive, CleanSteps
    <3> QED
      BY <2>2, <3>1, <3>2 DEF StartOpenvt
  <2>3. CASE StopKill(c)
    BY <2>3 DEF StopKill
  <2> QED
    BY <1>4, <2>1, <2>2, <2>3 DEF Client
<1>5. ASSUME NEW r \in Sessions, r # s, Script(r) PROVE pc'[s] = pc[s] /\ term'[s] = term[s]
  BY <1>5 DEF Script, WritePidfile, SetTraps, RemoveResult, Spawn, Note, Reap, ReadChoice, Choose,
    Pause, Trap, CleanTerm, CleanKill, CleanRelease, CleanText, CleanChvt, CleanRm, Step
<1>6. ASSUME NEW r \in Sessions, Setsid(r) \/ HotkeyKill(r) \/ Program(r)
      PROVE  pc'[s] = pc[s] /\ term'[s] = term[s]
  BY <1>6 DEF Setsid, HotkeyKill, Program, LauncherWrites, LeaderExits, Hotkey, sessionVars
<1>7. CASE UNCHANGED vars
  BY <1>2, <1>7 DEF vars, sessionVars
<1> QED
  BY <1>2, <1>3, <1>4, <1>5, <1>6, <1>7 DEF Next

\* Once TERM has come to a session, or its loop has come to its end, seven commands end it:
\* whatever its program does and whoever stops it again, it goes neither on nor back.
\* This is what StopEnds says but that the next command is run (kiosk:79-85, 103-120, 158-161).
THEOREM StopIsShort ==
  Spec => [][\A s \in Sessions : Ending(s) =>
               /\ Script(s) => CommandsLeft(s)' < CommandsLeft(s)
               /\ CommandsLeft(s)' <= CommandsLeft(s)
               /\ Ending(s)' \/ ~Alive(s)']_vars
<1>1. ASSUME TypeOK, [Next]_vars, NEW s \in Sessions, Ending(s)
      PROVE  /\ Script(s) => CommandsLeft(s)' < CommandsLeft(s)
             /\ CommandsLeft(s)' <= CommandsLeft(s)
             /\ Ending(s)' \/ ~Alive(s)'
  <2>1. CommandsLeft(s) \in Nat /\ CommandsLeft(s)' \in Nat
    BY DEF CommandsLeft
  <2> QED
    BY <1>1, <2>1, EndingSteps, OthersLeaveIt
<1>2. TypeOK /\ [Next]_vars =>
        [\A s \in Sessions : Ending(s) =>
           /\ Script(s) => CommandsLeft(s)' < CommandsLeft(s)
           /\ CommandsLeft(s)' <= CommandsLeft(s)
           /\ Ending(s)' \/ ~Alive(s)']_vars
  BY <1>1
<1> QED
  BY <1>2, TypeCorrect, PTL DEF Spec
-----------------------------------------------------------------------------
\* Who has a watcher: an application the session waits for, or left behind by a trap.  It
\* asks a group to end that is there, under the name the session knows.
WatchInv ==
  \A s \in Sessions :
    /\ watcher[s] # "none" =>
         kind[s] = "app" /\ known[s] /\ pc[s] \in {"wait", "clean", "grace", "release", "cut"}
    /\ watcher[s] = "termed" => group[s] \notin {"none", "forked"}
    /\ pc[s] = "wait" => known[s]

LEMMA WatchStep ==
  ASSUME IInv, WatchInv, [Next]_vars
  PROVE  WatchInv'
<1>0. TypeOK /\ GroupInv
  BY DEF IInv
<1> USE <1>0 DEF TypeOK, GroupInv, WatchInv, Step, clientVars, sessionVars, groupVars, CleanSteps
<1>1. ASSUME NEW c \in Clients, Client(c) PROVE WatchInv'
  <2>1. CASE Start(c) \/ StartGraphics(c) \/ Stop(c)
    <3>1. UNCHANGED <<pc, kind, known, group, watcher>>
      BY ONLY <2>1 DEF Start, StartGraphics, Stop, sessionVars, groupVars
    <3> QED
      BY <3>1
  <2>2. CASE StartOpenvt(c)
    <3>1. PICK r \in Sessions : pc[r] = "none" /\ pc' = [pc EXCEPT ![r] = "new"]
      BY <2>2 DEF StartOpenvt
    <3>2. watcher[r] = "none" /\ UNCHANGED <<watcher, group, kind, known>>
      BY <2>2, <3>1 DEF StartOpenvt
    <3> QED
      BY <3>1, <3>2
  <2>3. CASE StopKill(c)
    <3>1. UNCHANGED <<watcher, group, kind, known>>
      BY <2>3 DEF StopKill
    <3>2. CASE UNCHANGED pc
      BY <3>1, <3>2
    <3>3. CASE /\ pidfile \in Sessions /\ pc[pidfile] = "untrapped"
               /\ pc' = [pc EXCEPT ![pidfile] = "cut"]
      <4>1. watcher[pidfile] = "none"
        BY <3>3
      <4> QED
        BY <3>1, <3>3, <4>1
    <3> QED
      BY <2>3, <3>2, <3>3, KillMoves
  <2> QED
    BY <1>1, <2>1, <2>2, <2>3 DEF Client
<1>2. ASSUME NEW s \in Sessions, WritePidfile(s) \/ SetTraps(s) \/ RemoveResult(s) \/ Pause(s)
      PROVE  WatchInv'
  BY <1>2 DEF WritePidfile, SetTraps, RemoveResult, Pause
<1>3. ASSUME NEW s \in Sessions, Spawn(s) \/ Note(s) PROVE WatchInv'
  BY <1>3 DEF Spawn, Note
<1>4. ASSUME NEW s \in Sessions, Reap(s) PROVE WatchInv'
  BY <1>4 DEF Reap
<1>5. ASSUME NEW s \in Sessions, ReadChoice(s) PROVE WatchInv'
  BY <1>5 DEF ReadChoice, Choose
<1>6. ASSUME NEW s \in Sessions, Trap(s) PROVE WatchInv'
  BY <1>6 DEF Trap, Interruptible, LoopSteps
<1>7. ASSUME NEW s \in Sessions, CleanTerm(s) \/ CleanKill(s) \/ CleanRelease(s) PROVE WatchInv'
  BY <1>7 DEF CleanTerm, CleanKill, CleanRelease
<1>8. ASSUME NEW s \in Sessions, CleanText(s) \/ CleanChvt(s) \/ CleanRm(s) PROVE WatchInv'
  BY <1>8 DEF CleanText, CleanChvt, CleanRm
<1>9. ASSUME NEW s \in Sessions, Setsid(s) \/ HotkeyKill(s) \/ Program(s) PROVE WatchInv'
  BY <1>9 DEF Setsid, HotkeyKill, Program, LauncherWrites, LeaderExits, Hotkey
<1>10. CASE UNCHANGED vars
  BY <1>10 DEF vars
<1> QED
  BY <1>1, <1>2, <1>3, <1>4, <1>5, <1>6, <1>7, <1>8, <1>9, <1>10 DEF Next, Script

\* The hotkey is at work: the watcher has asked, or has killed what the session waits for.
\* What it is to bring about, and the steps to it.
Returning(s) ==
  \/ watcher[s] = "termed"
  \/ pc[s] = "wait" /\ kind[s] = "app" /\ group[s] = "dead"
Returned(s) == ~Populated(s) /\ pc[s] \in {"top"} \cup CleanSteps \cup Over
HotkeyLeft(s) ==
  CASE Returned(s) -> 0
    [] ~Returned(s) /\ pc[s] = "wait" /\ watcher[s] = "termed" -> 4
    [] ~Returned(s) /\ pc[s] = "wait" /\ watcher[s] # "termed" -> 3
    [] ~Returned(s) /\ pc[s] = "clean" -> 3
    [] ~Returned(s) /\ pc[s] = "grace" -> 2
    [] OTHER -> 1

\* Where a session can be then.
LEMMA HotkeyPlaces ==
  ASSUME TypeOK, GroupInv, WatchInv, NEW s \in Sessions, Returning(s), ~Returned(s)
  PROVE  /\ group[s] \in {"up", "leaderless", "dead"} /\ kind[s] = "app" /\ known[s]
         /\ \/ pc[s] = "wait" /\ watcher[s] = "termed"
            \/ pc[s] = "wait" /\ watcher[s] # "termed" /\ group[s] = "dead"
            \/ pc[s] \in {"clean", "grace", "cut"} /\ watcher[s] = "termed" /\ Populated(s)
BY DEF TypeOK, GroupInv, WatchInv, Returning, Returned, Populated, CleanSteps, Over

\* A step of the script or of the watcher brings it nearer.
LEMMA HotkeySteps ==
  ASSUME TypeOK, GroupInv, WatchInv, NEW s \in Sessions, Returning(s), ~Returned(s),
         Script(s) \/ HotkeyKill(s)
  PROVE  /\ HotkeyLeft(s)' < HotkeyLeft(s)
         /\ Returning(s)' \/ Returned(s)'
<1>1. DOMAIN pc = Sessions /\ DOMAIN group = Sessions /\ DOMAIN watcher = Sessions
  BY DEF TypeOK
<1>2. HotkeyLeft(s) = IF pc[s] = "wait" THEN IF watcher[s] = "termed" THEN 4 ELSE 3
                      ELSE CASE pc[s] = "clean" -> 3 [] pc[s] = "grace" -> 2 [] OTHER -> 1
  BY HotkeyPlaces DEF HotkeyLeft
<1> USE <1>1, HotkeyPlaces
<1>3. CASE HotkeyKill(s)
  <2>1. pc' = pc /\ kind' = kind /\ group'[s] = "dead" /\ watcher'[s] = "none" /\ watcher[s] = "termed"
    BY <1>3 DEF HotkeyKill, sessionVars
  <2>2. CASE pc[s] = "wait"
    <3>1. HotkeyLeft(s)' = 3 /\ Returning(s)'
      BY <2>1, <2>2 DEF HotkeyLeft, Returned, Returning, CleanSteps, Over
    <3> QED
      BY <1>2, <2>1, <2>2, <3>1
  <2>3. CASE pc[s] # "wait"
    <3>1. Returned(s)'
      BY <2>1, <2>3 DEF Returned, Populated, CleanSteps, Over
    <3>2. HotkeyLeft(s)' = 0
      BY <3>1 DEF HotkeyLeft
    <3> QED
      BY <1>2, <3>1, <3>2
  <2> QED
    BY <2>2, <2>3
<1>4. CASE Script(s)
  <2>1. \/ pc[s] = "wait" /\ pc'[s] = "top" /\ group'[s] = "dead"
        \/ pc[s] = "wait" /\ pc'[s] = "clean" /\ UNCHANGED groupVars
        \/ pc[s] = "clean" /\ pc'[s] = "grace" /\ UNCHANGED groupVars
        \/ pc[s] = "grace" /\ pc'[s] = "release" /\ group'[s] = "dead"
        \/ pc[s] \in {"clean", "grace"} /\ pc'[s] = "cut" /\ UNCHANGED groupVars
    BY <1>4 DEF Script, WritePidfile, SetTraps, RemoveResult, Spawn, Note, Reap, ReadChoice, Choose,
      Pause, Trap, Interruptible, CleanTerm, CleanKill, CleanRelease, CleanText, CleanChvt, CleanRm,
      Step, LoopSteps, CleanSteps
  <2>2. CASE pc'[s] \in {"top", "clean", "release", "cut", "grace"} /\ ~Populated(s)'
    <3>1. Returned(s)'
      BY <2>2 DEF Returned, CleanSteps, Over
    <3>2. HotkeyLeft(s)' = 0
      BY <3>1 DEF HotkeyLeft
    <3> QED
      BY <1>2, <3>1, <3>2
  <2>3. CASE Populated(s)'
    <3>1. ~Returned(s)'
      BY <2>3 DEF Returned
    <3>2. watcher[s] = "termed" /\ UNCHANGED groupVars
      BY <2>1, <2>3 DEF Populated, groupVars
    <3>3. \/ pc[s] = "wait" /\ HotkeyLeft(s)' = 3
          \/ pc[s] = "clean" /\ HotkeyLeft(s)' \in {1, 2}
          \/ pc[s] = "grace" /\ HotkeyLeft(s)' = 1
      BY <2>1, <2>3, <3>1 DEF HotkeyLeft, Populated
    <3>4. Returning(s)'
      BY <3>2 DEF Returning, groupVars
    <3> QED
      BY <1>2, <3>2, <3>3, <3>4
  <2> QED
    BY <2>1, <2>2, <2>3
<1> QED
  BY <1>3, <1>4

\* Nothing else sets it back, the program least of all.
LEMMA HotkeyUndisturbed ==
  ASSUME TypeOK, GroupInv, WatchInv, NEW s \in Sessions, Returning(s), ~Returned(s),
         [Next]_vars, ~Script(s), ~HotkeyKill(s)
  PROVE  /\ HotkeyLeft(s)' <= HotkeyLeft(s)
         /\ Returning(s)' \/ Returned(s)'
<1>1. /\ DOMAIN pc = Sessions /\ DOMAIN group = Sessions /\ DOMAIN watcher = Sessions
      /\ DOMAIN kind = Sessions
  BY DEF TypeOK
<1> USE <1>1, HotkeyPlaces
<1>2. /\ pc'[s] = pc[s] /\ watcher'[s] = watcher[s] /\ kind'[s] = kind[s]
      /\ group'[s] = group[s] \/ group'[s] \in {"leaderless", "dead"}
      /\ group[s] = "dead" => group'[s] = "dead"
  <2>1. ASSUME NEW c \in Clients, Client(c)
        PROVE  pc'[s] = pc[s] /\ watcher' = watcher /\ kind' = kind /\ group' = group
    <3>1. CASE Start(c) \/ StartGraphics(c) \/ Stop(c)
      BY <3>1 DEF Start, StartGraphics, Stop, sessionVars, groupVars
    <3>2. CASE StartOpenvt(c)
      <4>1. PICK r \in Sessions : pc[r] = "none" /\ pc' = [pc EXCEPT ![r] = "new"]
        BY <3>2 DEF StartOpenvt
      <4> QED
        BY <3>2, <4>1 DEF StartOpenvt, groupVars
    <3>3. CASE StopKill(c)
      BY <3>3 DEF StopKill, groupVars
    <3> QED
      BY <2>1, <3>1, <3>2, <3>3 DEF Client
  <2>2. ASSUME NEW r \in Sessions, r # s, Script(r)
        PROVE  pc'[s] = pc[s] /\ watcher'[s] = watcher[s] /\ kind'[s] = kind[s] /\ group'[s] = group[s]
    BY <2>2 DEF Script, WritePidfile, SetTraps, RemoveResult, Spawn, Note, Reap, ReadChoice, Choose,
      Pause, Trap, CleanTerm, CleanKill, CleanRelease, CleanText, CleanChvt, CleanRm, Step, groupVars
  <2>3. ASSUME NEW r \in Sessions, r # s, HotkeyKill(r)
        PROVE  pc'[s] = pc[s] /\ watcher'[s] = watcher[s] /\ kind'[s] = kind[s] /\ group'[s] = group[s]
    BY <2>3 DEF HotkeyKill, sessionVars
  <2>4. ASSUME NEW r \in Sessions, Setsid(r) \/ Program(r)
        PROVE  /\ pc'[s] = pc[s] /\ watcher'[s] = watcher[s] /\ kind'[s] = kind[s]
               /\ group'[s] = group[s] \/ group'[s] \in {"leaderless", "dead"}
               /\ group[s] = "dead" => group'[s] = "dead"
    BY <2>4 DEF Setsid, Program, LauncherWrites, LeaderExits, Hotkey, sessionVars, groupVars
  <2>5. CASE UNCHANGED vars
    BY <2>5 DEF vars, sessionVars, groupVars
  <2> QED
    BY <2>1, <2>2, <2>3, <2>4, <2>5 DEF Next
<1>3. Populated(s)' => Populated(s)
  BY <1>2 DEF Populated
<1>4. CASE Returned(s)'
  <2>1. HotkeyLeft(s)' = 0 /\ HotkeyLeft(s) \in Nat
    BY <1>4 DEF HotkeyLeft
  <2> QED
    BY <1>4, <2>1
<1>5. CASE ~Returned(s)'
  <2>1. HotkeyLeft(s)' = HotkeyLeft(s) /\ HotkeyLeft(s) \in Nat
    BY <1>2, <1>5 DEF HotkeyLeft
  <2>2. Returning(s)'
    BY <1>2 DEF Returning
  <2> QED
    BY <2>1, <2>2
<1> QED
  BY <1>4, <1>5

\* Once the watcher has sent TERM, four steps of it and of the script bring the session back to
\* the launcher, or into its cleanup, with the group gone: whatever the program does with TERM,
\* and whoever stops the session meanwhile.  This is what HotkeyReturns says but that the
\* next of them is taken (kiosk:65-68, 79-91).
THEOREM HotkeyIsShort ==
  Spec => [][\A s \in Sessions : Returning(s) /\ ~Returned(s) =>
               /\ Script(s) \/ HotkeyKill(s) => HotkeyLeft(s)' < HotkeyLeft(s)
               /\ HotkeyLeft(s)' <= HotkeyLeft(s)
               /\ Returning(s)' \/ Returned(s)']_vars
<1>1. ASSUME IInv, WatchInv, [Next]_vars, NEW s \in Sessions, Returning(s), ~Returned(s)
      PROVE  /\ Script(s) \/ HotkeyKill(s) => HotkeyLeft(s)' < HotkeyLeft(s)
             /\ HotkeyLeft(s)' <= HotkeyLeft(s)
             /\ Returning(s)' \/ Returned(s)'
  <2>1. HotkeyLeft(s) \in Nat /\ HotkeyLeft(s)' \in Nat
    BY DEF HotkeyLeft
  <2>2. TypeOK /\ GroupInv
    BY <1>1 DEF IInv
  <2> QED
    BY <1>1, <2>1, <2>2, HotkeySteps, HotkeyUndisturbed
<1>2. IInv /\ WatchInv /\ [Next]_vars =>
        [\A s \in Sessions : Returning(s) /\ ~Returned(s) =>
           /\ Script(s) \/ HotkeyKill(s) => HotkeyLeft(s)' < HotkeyLeft(s)
           /\ HotkeyLeft(s)' <= HotkeyLeft(s)
           /\ Returning(s)' \/ Returned(s)']_vars
  BY <1>1
<1>3. Init => WatchInv
  BY DEF Init, WatchInv
<1>4. IInv /\ WatchInv /\ [Next]_vars => WatchInv'
  BY WatchStep
<1> QED
  BY <1>2, <1>3, <1>4, AlwaysIInv, PTL DEF Spec
=============================================================================
