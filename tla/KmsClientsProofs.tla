--------------------------- MODULE KmsClientsProofs ---------------------------
(***************************************************************************)
(* Theorems about KmsClients, for any number of tools started on one card. *)
(***************************************************************************)
EXTENDS KmsClients, TLAPS

Early == {"open", "master", "save"}

\* Before SETCRTC succeeds and after the framebuffers are gone nothing of c's is on
\* the panel or queued for it.
OffPanel == Early \cup {"buffers", "modeset", "drop", "close", "done"}
Shows(c) == crtc.owner = c \/ queued.owner = c
AwayInv  == \A c \in Clients : pc[c] \in OffPanel => ~Shows(c)

\* Nothing is saved and no phase shown before their time.
FreshInv ==
  \A c \in Clients :
    /\ pc[c] \in Early => saved[c] = Off
    /\ pc[c] \in (OffPanel \ {"drop", "close", "done"}) \cup {"signals"} => phase[c] = 0

\* A framebuffer is still shown after the restore only if there was nothing to restore
\* or the restore failed.
RestoredInv ==
  \A c \in Clients : pc[c] = "rmfb" /\ Shows(c) => saved[c] = Off \/ c \in unrestored

\* The picture last asked for is the phase, or the one after it while its event has
\* not been read.
Last(c) == IF queued.owner = c THEN queued.index ELSE crtc.index
Succ(c, i) == (i + 1) % nbuf[c]
PacedInv ==
  \A c \in Clients : Shows(c) =>
    /\ pc[c] = "signals" => Last(c) = phase[c] /\ queued.owner # c
    /\ pc[c] \in {"loop", "flip"} => Last(c) \in {phase[c], Succ(c, phase[c])}
    /\ pc[c] \in {"poll", "read"} => Last(c) = Succ(c, phase[c])
    /\ crtc.owner = c /\ queued.owner = c => queued.index \in {crtc.index, Succ(c, crtc.index)}

Inv == PanelIsMasters /\ SavedIsConsole /\ AwayInv /\ FreshInv /\ RestoredInv /\ PacedInv
IInv == TypeOK /\ Inv

-----------------------------------------------------------------------------
\* Who owns what: the console and the dark panel are nobody's.
LEMMA Owners ==
  /\ \A fb \in Buffers : fb.owner \in Clients /\ fb.index \in 0 .. NBUF - 1
  /\ \A c \in Clients, i \in 0 .. NBUF - 1 : Fb(c, i) \in Buffers
  /\ \A c \in Clients, i \in Int : Fb(c, i).owner = c /\ Fb(c, i).index = i
  /\ \A c \in Clients : c # Nobody /\ Console.owner # c /\ Off.owner # c
  /\ Console \notin Buffers /\ Off \notin Buffers /\ Console # Off
<1>1. \A c, i : Fb(c, i).owner = c /\ Fb(c, i).index = i
  BY DEF Fb
<1>2. \A fb \in Buffers : fb.owner \in Clients /\ fb.index \in 0 .. NBUF - 1
  BY <1>1 DEF Buffers
<1>3. \A c \in Clients : c # Nobody /\ c # -1
  BY KmsAssumption DEF Nobody
<1>4. Console.owner = Nobody /\ Off.owner = -1 /\ Nobody # -1
  BY <1>1 DEF Console, Off, Nobody
<1>5. Console \notin Buffers /\ Off \notin Buffers /\ Console # Off
  BY <1>2, <1>3, <1>4
<1> QED
  BY <1>1, <1>2, <1>3, <1>4, <1>5 DEF Buffers

\* The order of the calls.
LEMMA Order ==
  /\ Following.open = "master" /\ Following.master = "save" /\ Following.save = "buffers"
  /\ Following.leave = "restore" /\ Following.restore = "rmfb"
  /\ Following.rmfb = "drop" /\ Following.drop = "close"
BY DEF Following

\* Phases stay within the buffers.
LEMMA Phases ==
  ASSUME TypeOK, NEW c \in Clients, NEW i \in Nat
  PROVE  /\ nbuf[c] \in 1 .. NBUF /\ NBUF \in Nat
         /\ i % nbuf[c] \in 0 .. NBUF - 1
<1>1. nbuf[c] \in 1 .. NBUF /\ NBUF \in Nat
  BY KmsAssumption DEF TypeOK
<1>2. i % nbuf[c] \in 0 .. nbuf[c] - 1
  BY <1>1
<1> QED
  BY <1>1, <1>2

\* Each tool begins by itself, with nothing of its own.
LEMMA InitIInv == Init => IInv
<1> SUFFICES ASSUME Init PROVE IInv
  OBVIOUS
<1>1. /\ crtc = Console /\ queued = Off /\ pc = [c \in Clients |-> "open"]
      /\ saved = [c \in Clients |-> Off] /\ phase = [c \in Clients |-> 0]
      /\ master = Nobody
  BY DEF Init
<1>2. TypeOK
  BY <1>1, KmsAssumption DEF Init, TypeOK, Steps, Tools, Closed
<1>3. PanelIsMasters /\ SavedIsConsole
  BY <1>1, Owners DEF PanelIsMasters, SavedIsConsole
<1>4. AwayInv /\ RestoredInv /\ PacedInv
  BY <1>1, Owners DEF AwayInv, RestoredInv, PacedInv, Shows
<1>5. FreshInv
  BY <1>1 DEF FreshInv
<1> QED
  BY <1>2, <1>3, <1>4, <1>5 DEF IInv, Inv

-----------------------------------------------------------------------------
\* Types, action by action.
LEMMA TypeStep ==
  ASSUME IInv, [Next]_vars
  PROVE  TypeOK'
<1> USE DEF Go, At, localVars, cardVars
<1>0. TypeOK
  BY DEF IInv
<1>a. \A s \in Steps : \A c \in Clients : [pc EXCEPT ![c] = s] \in [Clients -> Steps]
  BY <1>0 DEF TypeOK
<1>b. {"open", "master", "save", "buffers", "modeset", "signals", "hold", "loop", "flip",
       "poll", "read", "restore", "rmfb", "drop", "close", "done"} \subseteq Steps
  BY DEF Steps
<1>c. ASSUME NEW c \in Clients, Fail(c), UNCHANGED timeouts
      PROVE  TypeOK'
  BY <1>0, <1>a, <1>b, Order, <1>c DEF TypeOK, Fail
<1>d. ASSUME NEW c \in Clients, KernelClose(c)
      PROVE  TypeOK'
  BY <1>0, <1>a, <1>b, Order, <1>d, Owners DEF TypeOK, KernelClose
<1>1. ASSUME NEW c \in Clients, OpenCard(c)
      PROVE  TypeOK'
  BY <1>0, <1>a, <1>b, Order, <1>1 DEF TypeOK, OpenCard
<1>2. ASSUME NEW c \in Clients, SetMaster(c)
      PROVE  TypeOK'
  BY <1>0, <1>a, <1>b, Order, <1>c, <1>2 DEF TypeOK, SetMaster
<1>3. ASSUME NEW c \in Clients, SaveCrtc(c)
      PROVE  TypeOK'
  BY <1>0, <1>a, <1>b, Order, <1>3 DEF TypeOK, SaveCrtc
<1>4. ASSUME NEW c \in Clients, CreateFramebuffers(c)
      PROVE  TypeOK'
  <2>1. \A i \in BufferIndices(c) : Fb(c, i) \in Buffers
    BY <1>0, Owners, Phases DEF BufferIndices, TypeOK
  <2> QED
    BY <1>0, <1>a, <1>b, Order, <1>c, <1>4, <2>1 DEF TypeOK, CreateFramebuffers
<1>5. ASSUME NEW c \in Clients, SetCrtc(c)
      PROVE  TypeOK'
  <2>1. Fb(c, 0) \in Buffers
    BY KmsAssumption, Owners
  <2> QED
    BY <1>0, <1>a, <1>b, Order, <1>c, <1>5, <2>1 DEF TypeOK, SetCrtc
<1>6. ASSUME NEW c \in Clients, InstallSignals(c) \/ Hold(c) \/ Loop(c) \/ PollReady(c)
      PROVE  TypeOK'
  BY <1>0, <1>a, <1>b, Order, <1>6 DEF TypeOK, InstallSignals, Hold, Loop, PollReady
<1>7. ASSUME NEW c \in Clients, PageFlip(c)
      PROVE  TypeOK'
  <2>1. NextPhase(c, 1) \in 0 .. NBUF - 1
    <3>1. phase[c] + 1 \in Nat
      BY <1>0, KmsAssumption DEF TypeOK
    <3> QED
      BY <1>0, <3>1, Phases DEF NextPhase
  <2>2. Fb(c, NextPhase(c, 1)) \in Buffers
    BY <2>1, Owners
  <2> QED
    BY <1>0, <1>a, <1>b, Order, <1>7, <2>2 DEF TypeOK, PageFlip
<1>8. ASSUME NEW c \in Clients, PollTimesOut(c)
      PROVE  TypeOK'
  BY <1>0, <1>a, <1>b, Order, <1>8, KmsAssumption DEF TypeOK, PollTimesOut
<1>9. ASSUME NEW c \in Clients, ReadEvents(c)
      PROVE  TypeOK'
  <2>1. NextPhase(c, FramesRead(c)) \in 0 .. NBUF - 1
    <3>1. phase[c] + FramesRead(c) \in Nat
      BY <1>0, KmsAssumption DEF TypeOK, FramesRead
    <3> QED
      BY <1>0, <3>1, Phases DEF NextPhase
  <2>2. events' \in [Clients -> Nat]
    BY <1>0, <1>9 DEF TypeOK, ReadEvents, READ_EVENTS
  <2> QED
    BY <1>0, <1>a, <1>b, Order, <1>9, <2>1, <2>2 DEF TypeOK, ReadEvents
<1>10. ASSUME NEW c \in Clients, RestoreCrtc(c)
       PROVE  TypeOK'
  BY <1>0, <1>a, <1>b, Order, <1>10 DEF TypeOK, RestoreCrtc
<1>11. ASSUME NEW c \in Clients, RemoveFramebuffers(c)
       PROVE  TypeOK'
  BY <1>0, <1>a, <1>b, Order, <1>11 DEF TypeOK, RemoveFramebuffers
<1>12. ASSUME NEW c \in Clients, DropMaster(c)
       PROVE  TypeOK'
  BY <1>0, <1>a, <1>b, Order, <1>12 DEF TypeOK, DropMaster
<1>13. ASSUME NEW c \in Clients, Interrupt(c)
       PROVE  TypeOK'
  BY <1>0, <1>a, <1>b, Order, <1>13 DEF TypeOK, Interrupt
<1>14. CASE VBlank
  <2>1. queued \in Buffers /\ queued.owner \in Clients
    BY <1>0, <1>14, Owners DEF TypeOK, VBlank
  <2>2. events' \in [Clients -> Nat]
    BY <1>0, <1>14, <2>1 DEF TypeOK, VBlank
  <2> QED
    BY <1>0, <1>14, <2>1, <2>2 DEF TypeOK, VBlank
<1>15. CASE UNCHANGED vars
  BY <1>0, <1>15 DEF TypeOK, vars
<1> QED
  BY <1>d, <1>1, <1>2, <1>3, <1>4, <1>5, <1>6, <1>7, <1>8, <1>9, <1>10, <1>11, <1>12, <1>13,
     <1>14, <1>15
  DEF Next, Main, Setup, Animate, Teardown, CloseCard, Killed

-----------------------------------------------------------------------------
\* The rest, action by action.  What a call does to one client's pictures leaves
\* the others' alone, because a picture has one owner.
LEMMA InvStep ==
  ASSUME IInv, [Next]_vars
  PROVE  Inv'
<1> USE DEF Go, At, localVars, cardVars, Inv
<1>0. TypeOK /\ PanelIsMasters /\ SavedIsConsole /\ AwayInv /\ FreshInv /\ RestoredInv /\ PacedInv
  BY DEF IInv
<1>t. /\ pc \in [Clients -> Steps] /\ saved \in [Clients -> Buffers \cup {Console, Off}]
      /\ phase \in [Clients -> 0 .. NBUF - 1] /\ fbs \subseteq Buffers
      /\ crtc \in Buffers \cup {Console, Off} /\ queued \in Buffers \cup {Off}
      /\ master \in Clients \cup {Nobody}
  BY <1>0 DEF TypeOK
<1> USE DEF PanelIsMasters, SavedIsConsole, AwayInv, FreshInv, RestoredInv, PacedInv,
            Shows, Last, Succ, OffPanel, Early
<1>c. ASSUME NEW c \in Clients, Fail(c), pc[c] \in {"master", "buffers", "modeset"}
      PROVE  Inv'
  BY <1>0, <1>t, <1>c, Owners DEF Fail
<1>d. ASSUME NEW c \in Clients, KernelClose(c)
      PROVE  Inv'
  BY <1>0, <1>t, <1>d, Owners DEF KernelClose
<1>1. ASSUME NEW c \in Clients, OpenCard(c)
      PROVE  Inv'
  BY <1>0, <1>t, Order, <1>1, Owners DEF OpenCard
<1>2. ASSUME NEW c \in Clients, SetMaster(c)
      PROVE  Inv'
  BY <1>0, <1>t, <1>c, Order, <1>2, Owners DEF SetMaster
<1>3. ASSUME NEW c \in Clients, SaveCrtc(c)
      PROVE  Inv'
  BY <1>0, <1>t, Order, <1>3, Owners DEF SaveCrtc
<1>4. ASSUME NEW c \in Clients, CreateFramebuffers(c)
      PROVE  Inv'
  BY <1>0, <1>t, <1>c, <1>4, Owners DEF CreateFramebuffers
<1>5. ASSUME NEW c \in Clients, SetCrtc(c)
      PROVE  Inv'
  <2>1. Fb(c, 0).owner = c /\ Fb(c, 0).index = 0
    BY Owners
  <2> DEFINE next == IF program[c] = "kmsmode" THEN "signals" ELSE "hold"
  <2>0. pc[c] = "modeset" /\ next \in {"signals", "hold"}
    BY <1>5 DEF SetCrtc
  <2> HIDE DEF next
  <2>2. CASE /\ MaySetCrtc(c, Fb(c, 0)) /\ queued = Off
             /\ pc' = [pc EXCEPT ![c] = next]
             /\ crtc' = Fb(c, 0) /\ UNCHANGED <<localVars, master, fbs, queued, events>>
    BY <1>0, <1>t, <2>0, <2>1, <2>2, Owners DEF MaySetCrtc
  <2>3. CASE Fail(c)
    BY <1>c, <1>5, <2>3 DEF SetCrtc
  <2> QED
    BY <1>5, <2>2, <2>3 DEF SetCrtc, next
<1>6. ASSUME NEW c \in Clients, InstallSignals(c) \/ Hold(c)
      PROVE  Inv'
  <2>1. CASE InstallSignals(c)
    BY <1>0, <1>t, <2>1 DEF InstallSignals
  <2>2. CASE Hold(c)
    BY <1>0, <1>t, Order, <2>2 DEF Hold
  <2> QED
    BY <1>6, <2>1, <2>2
<1>7. ASSUME NEW c \in Clients, Loop(c)
      PROVE  Inv'
  <2>1. pc[c] = "loop" /\ UNCHANGED <<localVars, cardVars>>
    BY <1>7 DEF Loop
  <2>2. CASE pc' = [pc EXCEPT ![c] = "restore"]
    BY <1>0, <1>t, <2>1, <2>2
  <2>3. CASE pc' = [pc EXCEPT ![c] = "flip"]
    BY <1>0, <1>t, <2>1, <2>3
  <2> QED
    BY <1>7, <2>2, <2>3, Order DEF Loop
<1>8. ASSUME NEW c \in Clients, PollReady(c)
      PROVE  Inv'
  BY <1>0, <1>t, <1>8, Owners DEF PollReady
<1>9. ASSUME NEW c \in Clients, PageFlip(c)
      PROVE  Inv'
  <2> DEFINE next == NextPhase(c, 1)
  <2>1. next = Succ(c, phase[c]) /\ next \in Int
    <3>1. phase[c] + 1 \in Nat
      BY <1>t, KmsAssumption
    <3> QED
      BY <1>0, <3>1, Phases DEF NextPhase, Succ
  <2>2. Fb(c, next).owner = c /\ Fb(c, next).index = Succ(c, phase[c])
    BY <2>1, Owners
  <2> HIDE DEF next
  <2>3. pc[c] = "flip" /\ UNCHANGED <<localVars, master, fbs, crtc, events>>
    BY <1>9 DEF PageFlip
  <2>4. CASE pc' = [pc EXCEPT ![c] = "poll"] /\ queued' = Fb(c, next) /\ queued = Off
             /\ MaySetCrtc(c, Fb(c, next))
    BY <1>0, <1>t, <2>2, <2>3, <2>4, Owners DEF MaySetCrtc
  <2>5. CASE pc' = [pc EXCEPT ![c] = "restore"] /\ UNCHANGED queued
    BY <1>0, <1>t, <2>3, <2>5
  <2> QED
    BY <1>9, <2>4, <2>5, Order DEF PageFlip, next
<1>10. ASSUME NEW c \in Clients, PollTimesOut(c)
      PROVE  Inv'
  BY <1>0, <1>t, <1>10, Owners DEF PollTimesOut
<1>11. ASSUME NEW c \in Clients, ReadEvents(c)
      PROVE  Inv'
  BY <1>0, <1>t, <1>11, Owners DEF ReadEvents, NextPhase, FramesRead
<1>12. ASSUME NEW c \in Clients, RestoreCrtc(c)
      PROVE  Inv'
  BY <1>0, <1>t, Order, <1>12, Owners DEF RestoreCrtc, MaySetCrtc
<1>13. ASSUME NEW c \in Clients, RemoveFramebuffers(c)
      PROVE  Inv'
  BY <1>0, <1>t, Order, <1>13, Owners DEF RemoveFramebuffers
<1>14. ASSUME NEW c \in Clients, DropMaster(c)
      PROVE  Inv'
  BY <1>0, <1>t, Order, <1>14, Owners DEF DropMaster
<1>15. ASSUME NEW c \in Clients, Interrupt(c)
      PROVE  Inv'
  <2>1. CASE UNCHANGED pc
    BY <1>0, <1>t, <1>15, <2>1 DEF Interrupt
  <2>2. CASE pc[c] = "poll" /\ pc' = [pc EXCEPT ![c] = "loop"]
    BY <1>0, <1>t, <1>15, <2>2 DEF Interrupt
  <2> QED
    BY <1>15, <2>1, <2>2 DEF Interrupt
<1>16. CASE VBlank
  BY <1>0, <1>t, <1>16, Owners DEF VBlank
<1>17. CASE UNCHANGED vars
  BY <1>0, <1>17 DEF vars
<1> QED
  BY <1>d, <1>1, <1>2, <1>3, <1>4, <1>5, <1>6, <1>7, <1>8, <1>9, <1>10, <1>11, <1>12, <1>13,
     <1>14, <1>15, <1>16, <1>17
  DEF Next, Main, Setup, Animate, Teardown, CloseCard, Killed

\* The invariant holds from the start and is kept.
LEMMA AlwaysIInv == Spec => []IInv
<1>1. IInv /\ [Next]_vars => IInv'
  BY TypeStep, InvStep DEF IInv
<1> QED
  BY InitIInv, <1>1, PTL DEF Spec

\* Every variable keeps its type; no slot past fb[NBUF] is used
\* (kmsmode.c:165, 257-259).
THEOREM TypeCorrect == Spec => []TypeOK
<1>1. IInv => TypeOK
  BY DEF IInv
<1> QED
  BY <1>1, AlwaysIInv, PTL

\* However many tools are started, killed or refused the master, what is scanned out
\* or queued is the master's own framebuffer (kmsmode.c:177-178, 366-379).
THEOREM PanelBelongsToMaster == Spec => []PanelIsMasters
<1>1. IInv => PanelIsMasters
  BY DEF IInv, Inv
<1> QED
  BY <1>1, AlwaysIInv, PTL

\* The master never restores another tool's picture (kmsmode.c:253-255, 366-370).
THEOREM ConsoleIsSaved == Spec => []SavedIsConsole
<1>1. IInv => SavedIsConsole
  BY DEF IInv, Inv
<1> QED
  BY <1>1, AlwaysIInv, PTL

\* What darkens the panel, and what may (kmsmode.c:365-379).
Darkens == crtc # Off /\ crtc' = Off
DarkReason ==
  \E c \in Clients :
    (At(c, "rmfb") /\ (saved[c] = Off \/ c \in unrestored)) \/ Killed(c)

LEMMA DarkStep ==
  ASSUME IInv, [Next]_vars, Darkens
  PROVE  DarkReason
<1> USE DEF At, localVars, cardVars
<1>0. AwayInv /\ RestoredInv /\ TypeOK
  BY DEF IInv, Inv
<1>1. ASSUME NEW c \in Clients, Setup(c) \/ Hold(c) \/ Animate(c) \/ OpenCard(c) \/ Interrupt(c)
      PROVE  crtc' # Off
  BY <1>1, Owners
  DEF Setup, SetMaster, SaveCrtc, CreateFramebuffers, SetCrtc, InstallSignals, Hold, Animate, Loop,
      PageFlip, PollReady, PollTimesOut, ReadEvents, OpenCard, Interrupt, Fail, Darkens
<1>2. ASSUME NEW c \in Clients, RestoreCrtc(c) \/ DropMaster(c)
      PROVE  crtc' # Off
  BY <1>2 DEF RestoreCrtc, DropMaster, Darkens
<1>3. ASSUME NEW c \in Clients, RemoveFramebuffers(c)
      PROVE  At(c, "rmfb") /\ (saved[c] = Off \/ c \in unrestored)
  BY <1>0, <1>3 DEF RemoveFramebuffers, RestoredInv, Shows, Darkens
<1>4. ASSUME NEW c \in Clients, CloseCard(c)
      PROVE  crtc' # Off
  BY <1>0, <1>4, Owners DEF CloseCard, KernelClose, AwayInv, Shows, OffPanel, Darkens
<1>5. ~VBlank /\ ~UNCHANGED vars
  BY DEF VBlank, vars, Darkens
<1>6. \E c \in Clients : RemoveFramebuffers(c) \/ Killed(c)
  BY <1>1, <1>2, <1>4, <1>5 DEF Next, Main, Teardown, Darkens
<1> QED
  BY <1>3, <1>6 DEF DarkReason

\* Only a kill darkens the panel, or the RMFB of a tool that found it dark or whose
\* restoring SETCRTC failed, a failure that is printed or ignored (kmsmode.c:366-384,
\* dc_nohw_kms_present.c:235-239, sgx-window-swap.c:424-427).
THEOREM PanelStaysLit == Spec => ConsoleKept
<1>1. IInv /\ [Next]_vars => [crtc # Off /\ crtc' = Off =>
        \E c \in Clients :
          (At(c, "rmfb") /\ (saved[c] = Off \/ c \in unrestored)) \/ Killed(c)]_vars
  BY DarkStep DEF Darkens, DarkReason
<1> QED
  BY <1>1, AlwaysIInv, PTL DEF Spec, ConsoleKept

\* The panel goes on to the next picture or repeats the last one, whatever happens to
\* the wait for a flip (kmsmode.c:335-352).
LEMMA PhaseStep ==
  ASSUME IInv, [Next]_vars, NEW c \in Clients, crtc.owner = c, crtc'.owner = c
  PROVE  crtc'.index \in {crtc.index, Succ(c, crtc.index)}
<1> USE DEF At, localVars, cardVars
<1>0. AwayInv /\ PacedInv /\ TypeOK /\ PanelIsMasters /\ SavedIsConsole
  BY DEF IInv, Inv
<1>1. ASSUME NEW d \in Clients,
             OpenCard(d) \/ SetMaster(d) \/ SaveCrtc(d) \/ CreateFramebuffers(d) \/ InstallSignals(d)
             \/ Hold(d) \/ Animate(d) \/ DropMaster(d) \/ Interrupt(d)
      PROVE  crtc' = crtc
  BY <1>1
  DEF OpenCard, SetMaster, SaveCrtc, CreateFramebuffers, InstallSignals, Hold, Animate, Loop,
      PageFlip, PollReady, PollTimesOut, ReadEvents, DropMaster, Interrupt, Fail
<1>2. ASSUME NEW d \in Clients, SetCrtc(d)
      PROVE  crtc' = crtc
  BY <1>0, <1>2, Owners DEF SetCrtc, Fail, AwayInv, Shows, OffPanel
<1>3. ASSUME NEW d \in Clients, RestoreCrtc(d)
      PROVE  crtc' = crtc
  <2>1. saved[d] # Off /\ master = d => saved[d] = Console
    BY <1>0, <1>3 DEF RestoreCrtc, SavedIsConsole
  <2> QED
    BY <1>3, <2>1, Owners DEF RestoreCrtc, MaySetCrtc
<1>4. ASSUME NEW d \in Clients, RemoveFramebuffers(d) \/ KernelClose(d)
      PROVE  crtc' = crtc
  BY <1>4, Owners DEF RemoveFramebuffers, KernelClose
<1>5. CASE VBlank
  BY <1>0, <1>5 DEF VBlank, PacedInv, Shows
<1> QED
  BY <1>1, <1>2, <1>3, <1>4, <1>5
  DEF Next, Main, Setup, Teardown, CloseCard, Killed, vars

\* The grating goes on phase by phase, also when a wait for a flip times out
\* (kmsmode.c:335-352).
THEOREM GratingInOrder == Spec => PhasesInOrder
<1>1. IInv /\ [Next]_vars => [\A c \in Clients :
        crtc.owner = c /\ crtc'.owner = c
          => crtc'.index \in {crtc.index, (crtc.index + 1) % nbuf[c]}]_vars
  BY PhaseStep DEF Succ
<1> QED
  BY <1>1, AlwaysIInv, PTL DEF Spec, PhasesInOrder

-----------------------------------------------------------------------------
\* The steps a tool still has once it has been told to stop.
StepsLeft(c) ==
  CASE pc[c] = "open" -> 14 [] pc[c] = "master" -> 13 [] pc[c] = "save" -> 12
    [] pc[c] = "buffers" -> 11 [] pc[c] = "modeset" -> 10 [] pc[c] = "signals" -> 9
    [] pc[c] = "flip" -> 8 [] pc[c] = "poll" -> 7 [] pc[c] = "read" -> 6
    [] pc[c] \in {"loop", "hold"} -> 5 [] pc[c] = "restore" -> 4 [] pc[c] = "rmfb" -> 3
    [] pc[c] = "drop" -> 2 [] pc[c] = "close" -> 1 [] OTHER -> 0

\* A step of its own brings a stopped tool nearer to its end.
LEMMA StoppedSteps ==
  ASSUME TypeOK, NEW c \in Clients, stop[c], Main(c)
  PROVE  StepsLeft(c)' < StepsLeft(c)
<1>1. DOMAIN pc = Clients
  BY DEF TypeOK
<1> USE <1>1 DEF At, Go
<1>2. CASE SetMaster(c) \/ CreateFramebuffers(c) \/ SetCrtc(c)
  <2>1. \/ pc[c] = "master" /\ pc'[c] \in {"save", "drop", "close"}
        \/ pc[c] = "buffers" /\ pc'[c] \in {"modeset", "drop", "close"}
        \/ pc[c] = "modeset" /\ pc'[c] \in {"signals", "hold", "drop", "close"}
    BY <1>2 DEF SetMaster, CreateFramebuffers, SetCrtc, Fail, Following
  <2> QED
    BY <2>1 DEF StepsLeft
<1>3. CASE SaveCrtc(c) \/ InstallSignals(c) \/ Hold(c)
  <2>1. \/ pc[c] = "save" /\ pc'[c] = "buffers"
        \/ pc[c] = "signals" /\ pc'[c] \in {"hold", "loop"}
        \/ pc[c] = "hold" /\ pc'[c] = "restore"
    BY <1>3 DEF SaveCrtc, InstallSignals, Hold, Following
  <2> QED
    BY <2>1 DEF StepsLeft
<1>4. CASE Animate(c)
  <2>1. \/ pc[c] = "loop" /\ pc'[c] = "restore"
        \/ pc[c] = "flip" /\ pc'[c] \in {"poll", "restore"}
        \/ pc[c] = "poll" /\ pc'[c] \in {"read", "loop"}
        \/ pc[c] = "read" /\ pc'[c] = "loop"
    BY <1>4 DEF Animate, Loop, Stopped, PageFlip, PollReady, PollTimesOut, ReadEvents, Following
  <2> QED
    BY <2>1 DEF StepsLeft
<1>5. CASE Teardown(c)
  <2>1. \/ pc[c] = "restore" /\ pc'[c] = "rmfb"
        \/ pc[c] = "rmfb" /\ pc'[c] = "drop"
        \/ pc[c] = "drop" /\ pc'[c] = "close"
        \/ pc[c] = "close" /\ pc'[c] = "done"
    BY <1>5 DEF Teardown, RestoreCrtc, RemoveFramebuffers, DropMaster, CloseCard, KernelClose, Following
  <2> QED
    BY <2>1 DEF StepsLeft
<1> QED
  BY <1>2, <1>3, <1>4, <1>5 DEF Main, Setup

\* After Ctrl-C a tool makes eight steps of its own at the most, with one more flip if it
\* was about to ask for it; no other tool, signal or vertical blank sets it back.  This is
\* what StopEnds says but that the next step can be taken (kmsmode.c:331, 365-380).
THEOREM StopIsShort ==
  Spec => [][\A c \in Clients : stop[c] =>
               /\ stop'[c]
               /\ Main(c) => StepsLeft(c)' < StepsLeft(c)
               /\ StepsLeft(c)' <= StepsLeft(c)]_vars
<1>1. ASSUME TypeOK, TypeOK', Next, NEW c \in Clients, stop[c]
      PROVE  stop'[c] /\ StepsLeft(c)' <= StepsLeft(c)
  <2>0. DOMAIN pc = Clients /\ DOMAIN stop = Clients
    BY <1>1 DEF TypeOK
  <2>1. StepsLeft(c) \in Nat /\ StepsLeft(c)' \in Nat
    BY DEF StepsLeft
  <2>2. CASE Main(c)
    <3>1. stop' = stop
      BY <2>2 DEF Main, Setup, Animate, Teardown, SetMaster, SaveCrtc, CreateFramebuffers, SetCrtc,
        InstallSignals, Hold, Loop, PageFlip, PollReady, PollTimesOut, ReadEvents, RestoreCrtc,
        RemoveFramebuffers, DropMaster, CloseCard, KernelClose, Fail, localVars
    <3> QED
      BY <1>1, <2>1, <2>2, <3>1, StoppedSteps
  <2>3. CASE OpenCard(c)
    <3>1. stop' = stop /\ pc[c] = "open" /\ pc'[c] \in {"master", "done"}
      BY <2>0, <2>3 DEF OpenCard, At, Go, Following, localVars
    <3> QED
      BY <1>1, <3>1 DEF StepsLeft
  <2>4. CASE Killed(c)
    <3>1. stop' = stop /\ pc'[c] = "done"
      BY <2>0, <2>4 DEF Killed, KernelClose, Go, localVars
    <3>2. StepsLeft(c)' = 0
      BY <3>1 DEF StepsLeft
    <3> QED
      BY <1>1, <2>1, <3>1, <3>2
  <2>5. CASE VBlank \/ Interrupt(c)
    <3>1. stop' = stop /\ pc' = pc
      BY <1>1, <2>5 DEF VBlank, Interrupt, localVars
    <3> QED
      BY <1>1, <2>1, <3>1 DEF StepsLeft
  <2>6. ASSUME NEW d \in Clients, d # c, OpenCard(d) \/ Main(d) \/ Interrupt(d) \/ Killed(d)
        PROVE  stop'[c] /\ StepsLeft(c)' <= StepsLeft(c)
    <3>1. pc'[c] = pc[c]
      BY <2>0, <2>6 DEF OpenCard, Interrupt, Killed, Main, Setup, Animate, Teardown, SetMaster,
        SaveCrtc, CreateFramebuffers, SetCrtc, InstallSignals, Hold, Loop, PageFlip, PollReady,
        PollTimesOut, ReadEvents, RestoreCrtc, RemoveFramebuffers, DropMaster, CloseCard,
        KernelClose, Fail, Go
    <3>2. stop'[c] = stop[c]
      BY <2>0, <2>6 DEF OpenCard, Interrupt, Killed, Main, Setup, Animate, Teardown, SetMaster,
        SaveCrtc, CreateFramebuffers, SetCrtc, InstallSignals, Hold, Loop, PageFlip, PollReady,
        PollTimesOut, ReadEvents, RestoreCrtc, RemoveFramebuffers, DropMaster, CloseCard,
        KernelClose, Fail, localVars
    <3> QED
      BY <1>1, <2>1, <3>1, <3>2 DEF StepsLeft
  <2> QED
    BY <1>1, <2>2, <2>3, <2>4, <2>5, <2>6 DEF Next
<1>2. TypeOK /\ TypeOK' /\ [Next]_vars =>
        [\A c \in Clients : stop[c] =>
           /\ stop'[c]
           /\ Main(c) => StepsLeft(c)' < StepsLeft(c)
           /\ StepsLeft(c)' <= StepsLeft(c)]_vars
  BY <1>1, StoppedSteps
<1> QED
  BY <1>2, TypeCorrect, PTL DEF Spec
=============================================================================
