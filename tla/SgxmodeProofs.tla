---------------------------- MODULE SgxmodeProofs ----------------------------
(***************************************************************************)
(* Proofs about module Sgxmode, for every number of buffers, batch size,   *)
(* bound and set of faults.  IInv is inductive: besides the properties it  *)
(* says how far the set-up has come, that a sampled "card" bit means an    *)
(* unread flip event, and that swap numbers grow from the panel through    *)
(* the queued flip and the mailbox to the events still unread.             *)
(***************************************************************************)
EXTENDS Sgxmode, SequenceTheorems, TLAPS

Live == LoopSteps \cup ExitSteps

\* buffer_count has passed the check, and the import is as far as pc says.
SizeInv ==
  /\ pc \in Live \cup (SetupSteps \ {"subscribe", "query"}) => nbuf \in 1 .. MAX_BUFS
  /\ pc \in {"subscribe", "query", "card", "connector", "save"} => fbs = {}
  /\ pc = "import" => fbs \subseteq 0 .. nbuf - 1
  /\ pc \in LoopSteps \cup {"sigpipe", "fork", "restore", "rmfb"} => fbs = 0 .. nbuf - 1

\* Nothing has been shown before the loop, nothing is left after the end.
IdleInv ==
  /\ pc \in SetupSteps \cup ParkSteps =>
       /\ ~flipPending /\ ~haveNew /\ ~modeSet
       /\ latest = Nothing /\ swaps = 0 /\ events = <<>>
  /\ pc \notin Live => front = Console /\ queued = Nothing /\ flipDone = 0

\* poll() told the truth about the card, and nothing but main() reads its events.
SnapshotInv == pc \in {"reap", "swaps", "flips"} /\ "card" \in revents => flipDone > 0

\* The newest usable frame taken, the one queued and the one shown are in order.
FramesInOrder ==
  /\ latest.seq <= swaps
  /\ front.seq <= latest.seq
  /\ queued # Nothing => front.seq < queued.seq /\ queued.seq <= latest.seq
  /\ haveNew => /\ front.seq < latest.seq
                /\ queued.seq < latest.seq
                /\ latest.index < nbuf

\* The swaps still unread are newer than the newest one taken.
UnreadAreNewer ==
  \A i \in 1 .. Len(events) :
    events[i].type = "swap" => latest.seq < events[i].seq /\ events[i].seq <= swaps

\* They are read in the order in which they were completed.
UnreadInOrder ==
  \A i, j \in 1 .. Len(events) :
    events[i].type = "swap" /\ events[j].type = "swap" /\ i < j
      => events[i].seq < events[j].seq

OrderInv == FramesInOrder /\ UnreadAreNewer /\ UnreadInOrder

\* Only a master has set a mode, and a restored console stays.
PanelInv ==
  /\ modeSet /\ pc \in Live => master
  /\ pc \in {"rmfb", "drop"} /\ saved /\ "modeset" \notin Faults
       => front.seq = 0 /\ queued = Nothing

IInv ==
  /\ TypeOK /\ SizeInv /\ IdleInv /\ SnapshotInv /\ OrderInv /\ PanelInv
  /\ FlipPacing /\ ScanoutOwned /\ NoIdleFrame /\ NeverDark

-----------------------------------------------------------------------------
(* Facts about frames, so that the proofs below need not look inside them.  *)

LEMMA FrameFacts ==
  /\ Nothing \in Frames
  /\ Nothing.seq = 0 /\ Console.seq = 0 /\ Blank.seq = 0
  /\ Console \notin Frames /\ Blank \notin Frames /\ Console # Blank
  /\ \A f \in Frames : f.index \in Index /\ f.seq \in Nat
  /\ \A i \in Index, n \in Nat :
       /\ [index |-> i, seq |-> n] \in Frames
       /\ [index |-> i, seq |-> n].index = i
       /\ [index |-> i, seq |-> n].seq = n
  BY SgxmodeAssumption DEF Nothing, Console, Blank, Frames, Index

LEMMA EventFacts ==
  /\ \A e \in Events : e.index \in Nat /\ e.seq \in Nat
  /\ \A t \in {"create", "destroy", "swap"}, i \in Nat, n \in Nat :
       /\ [type |-> t, index |-> i, seq |-> n] \in Events
       /\ [type |-> t, index |-> i, seq |-> n].type = t
       /\ [type |-> t, index |-> i, seq |-> n].seq = n
  BY DEF Events

(* What each group of actions leaves alone. *)

LEMMA SetupEffect ==
  ASSUME Setup
  PROVE  /\ pc \in SetupSteps
         /\ pc' \in (SetupSteps \ {"subscribe"}) \cup {"poll", "done"}
         /\ UNCHANGED <<revents, modeSet, flipPending, haveNew, latest, sigBytes,
                        events, swaps, drawing, chainOps, front, queued, flipDone,
                        flipErrors>>
<1>. USE DEF SetupSteps, Return, Go, kmsVars, appVars
<1>1. CASE Subscribe \/ FindConnectorAndCrtc \/ OpenCard
  BY <1>1 DEF Subscribe, FindConnectorAndCrtc, OpenCard
<1>2. CASE QueryAbi \/ SaveCrtc \/ ImportBuffer
  BY <1>2 DEF QueryAbi, SaveCrtc, ImportBuffer
<1>3. CASE InstallSigchld \/ Fork
  BY <1>3 DEF InstallSigchld, Fork
<1>4. QED
  BY <1>1, <1>2, <1>3 DEF Setup

LEMMA ParkEffect ==
  ASSUME Park
  PROVE  /\ pc \in ParkSteps
         /\ pc' \in ParkSteps \cup {"done"}
         /\ UNCHANGED <<revents, nbuf, saved, modeSet, flipPending, haveNew, latest,
                        sigBytes, events, swaps, drawing, chainOps, flipErrors>>
         /\ UNCHANGED <<front, queued, flipDone>>
              \/ (front' = Console /\ queued' = Nothing /\ flipDone' = 0)
  BY DEF Park, ParkOpen, ParkFork, ParkWait, ParkDrop, ParkSteps, Return, Go,
         KernelCleanup, kmsVars, appVars

LEMMA AppEffect ==
  ASSUME App
  PROVE  /\ UNCHANGED <<pc, revents, nbuf, saved, modeSet, flipPending, haveNew,
                        latest, fbs, master, sigHandler, front, queued, flipDone,
                        flipErrors>>
         /\ \/ pc \in LoopSteps \cup ExitSteps
            \/ UNCHANGED <<events, swaps, drawing, chainOps>>
  BY DEF App, AppCreateSwapchain, AppSwap, AppDestroySwapchain, ChildStops,
         ChildContinues, ChildExits, AppRuns, localVars, heldVars, kmsVars, appVars

LEMMA CleanupEffect ==
  ASSUME KernelCleanup
  PROVE  /\ pc' = "done" /\ fbs' = {} /\ master' = FALSE
         /\ front' = Console /\ queued' = Nothing /\ flipDone' = 0
         /\ UNCHANGED <<revents, nbuf, saved, modeSet, flipPending, haveNew, latest,
                        sigHandler, sigBytes, child, events, swaps, drawing,
                        chainOps, flipErrors>>
  BY DEF KernelCleanup, appVars

LEMMA CleanupTypes ==
  ASSUME TypeOK, KernelCleanup
  PROVE  TypeOK'
<1>1. front' \in Frames \cup {Console, Blank} /\ queued' \in Frames
  BY CleanupEffect, FrameFacts
<1>2. pc' \in Steps /\ fbs' \subseteq Index /\ master' \in BOOLEAN /\ flipDone' \in Nat
  BY CleanupEffect DEF Steps
<1>3. QED
  BY <1>1, <1>2 DEF KernelCleanup, TypeOK, appVars

-----------------------------------------------------------------------------
(* The initial state. *)

LEMMA InitIInv == Init => IInv
<1>. SUFFICES ASSUME Init PROVE IInv
  OBVIOUS
<1>. USE SgxmodeAssumption
     DEF Init, Steps, SetupSteps, LoopSteps, ExitSteps, ParkSteps, Live
<1>1. TypeOK
  <2>1. /\ latest \in Frames /\ queued \in Frames
        /\ front \in Frames \cup {Console, Blank} /\ events \in Seq(Events)
    BY FrameFacts
  <2>2. /\ sigBytes \in 0 .. MaxSignals /\ swaps \in 0 .. MaxSwaps
        /\ chainOps \in 0 .. MaxChainOps /\ flipErrors \in 0 .. MaxFlipErrors
    OBVIOUS
  <2>3. QED
    BY <2>1, <2>2 DEF TypeOK
<1>2. SizeInv /\ IdleInv /\ SnapshotInv /\ PanelInv
  BY DEF SizeInv, IdleInv, SnapshotInv, PanelInv
<1>3. OrderInv
  BY DEF OrderInv, FramesInOrder, UnreadAreNewer, UnreadInOrder, Nothing, Console
<1>4. FlipPacing /\ ScanoutOwned /\ NoIdleFrame /\ NeverDark
  BY DEF FlipPacing, ScanoutOwned, NoIdleFrame, NeverDark
<1>5. QED
  BY <1>1, <1>2, <1>3, <1>4 DEF IInv

-----------------------------------------------------------------------------
(* Each conjunct is preserved. *)

LEMMA TypeOKStep == IInv /\ [Next]_vars => TypeOK'
<1>. SUFFICES ASSUME IInv, [Next]_vars PROVE TypeOK'
  OBVIOUS
<1>. USE SgxmodeAssumption
     DEF IInv, TypeOK, Steps, SetupSteps, LoopSteps, ExitSteps, ParkSteps, Live
<1>1. CASE Setup
  <2>1. /\ pc' \in Steps /\ nbuf' \in Nat /\ saved' \in BOOLEAN
        /\ master' \in BOOLEAN /\ sigHandler' \in BOOLEAN
        /\ child' \in {"none", "running", "stopped", "zombie", "reaped"}
    <3>. USE <1>1 DEF Return, Go
    <3>1. CASE Subscribe \/ OpenCard \/ FindConnectorAndCrtc
      BY <3>1 DEF Subscribe, OpenCard, FindConnectorAndCrtc
    <3>2. CASE QueryAbi \/ SaveCrtc
      BY <3>2 DEF QueryAbi, SaveCrtc
    <3>3. CASE ImportBuffer \/ InstallSigchld \/ Fork
      BY <3>3 DEF ImportBuffer, InstallSigchld, Fork
    <3>4. QED
      BY <1>1, <3>1, <3>2, <3>3 DEF Setup
  <2>2. fbs' \subseteq Index
    <3>1. CASE ImportBuffer
      <4>1. nbuf \in 1 .. MAX_BUFS /\ fbs \subseteq 0 .. nbuf - 1
        BY <3>1 DEF ImportBuffer, SizeInv
      <4>2. \E i \in 0 .. nbuf - 1 : fbs' = fbs \cup {i} \/ fbs' = {}
        BY <3>1 DEF ImportBuffer, Return
      <4>3. PICK i \in 0 .. nbuf - 1 : fbs' = fbs \cup {i} \/ fbs' = {}
        BY <4>2
      <4>4. i \in Index /\ fbs \subseteq Index
        BY <4>1 DEF Index
      <4>5. QED
        BY <4>3, <4>4
    <3>2. CASE ~ImportBuffer
      BY <1>1, <3>2 DEF Setup, Subscribe, QueryAbi, OpenCard, FindConnectorAndCrtc,
                       SaveCrtc, InstallSigchld, Fork, Return, Go
    <3>3. QED
      BY <3>1, <3>2
  <2>3. QED
    BY <1>1, <2>1, <2>2, SetupEffect
<1>2. CASE Poll
  <2>1. revents' \subseteq {"ctrl", "card", "sig"}
    BY <1>2 DEF Poll, Readable
  <2>2. QED
    BY <1>2, <2>1 DEF Poll, LeaveLoop, heldVars, kmsVars, appVars
<1>3. CASE ReapChild
  BY <1>3 DEF ReapChild, LeaveLoop, SIG_READ, heldVars, kmsVars, appVars
<1>4. CASE ReadSwapEvents
  <2>1. BatchLen \in 0 .. Len(events)
    BY DEF BatchLen
  <2>2. SubSeq(events, BatchLen + 1, Len(events)) \in Seq(Events)
    BY <2>1, SubSeqProperties
  <2>3. latest' \in Frames /\ haveNew' \in BOOLEAN
    <3>1. CASE TakeLatest
      <4>1. CASE UNCHANGED <<latest, haveNew>>
        BY <4>1
      <4>2. CASE haveNew' = TRUE /\ ~UNCHANGED <<latest, haveNew>>
        <5>1. PICK i \in 1 .. BatchLen :
                /\ UsableSwap(i)
                /\ latest' = [index |-> events[i].index, seq |-> events[i].seq]
          BY <3>1, <4>2 DEF TakeLatest
        <5>2. events[i] \in Events
          BY <2>1
        <5>3. events[i].index \in Index /\ events[i].seq \in Nat
          BY <1>4, <5>1, <5>2, EventFacts DEF UsableSwap, SizeInv, Index, ReadSwapEvents
        <5>4. QED
          BY <4>2, <5>1, <5>3, FrameFacts
      <4>3. QED
        BY <3>1, <4>1, <4>2 DEF TakeLatest
    <3>2. QED
      BY <1>4, <3>1 DEF ReadSwapEvents
  <2>4. events' \in Seq(Events)
    BY <1>4, <2>2 DEF ReadSwapEvents
  <2>5. QED
    BY <1>4, <2>3, <2>4 DEF ReadSwapEvents, heldVars, kmsVars, appVars
<1>5. CASE ReadFlipEvents
  BY <1>5 DEF ReadFlipEvents, heldVars, appVars
<1>6. CASE PresentLatest
  <2>1. /\ pc' \in Steps /\ modeSet' \in BOOLEAN /\ flipPending' \in BOOLEAN
        /\ haveNew' \in BOOLEAN
    BY <1>6 DEF PresentLatest, FirstModeset, PageFlip, PageFlipUnsupported,
                PageFlipRetried, LeaveLoop
  <2>2. /\ front' \in Frames \cup {Console, Blank} /\ queued' \in Frames
        /\ flipErrors' \in 0 .. MaxFlipErrors
    BY <1>6 DEF PresentLatest, FirstModeset, PageFlip, PageFlipUnsupported,
                PageFlipRetried
  <2>3. QED
    BY <1>6, <2>1, <2>2 DEF PresentLatest, heldVars, appVars
<1>7. CASE Exit
  <2>1. CASE RestoreCrtc
    BY <2>1 DEF RestoreCrtc, heldVars, appVars
  <2>2. CASE RemoveFramebuffers
    BY <2>2 DEF RemoveFramebuffers, appVars
  <2>3. CASE DropMaster
    BY <2>3, CleanupTypes DEF DropMaster
  <2>4. QED
    BY <1>7, <2>1, <2>2, <2>3 DEF Exit
<1>8. CASE Park
  <2>1. /\ fbs' \subseteq Index /\ master' \in BOOLEAN /\ sigHandler' \in BOOLEAN
        /\ child' \in {"none", "running", "stopped", "zombie", "reaped"}
    BY <1>8 DEF Park, ParkOpen, ParkFork, ParkWait, ParkDrop, Return, Go, KernelCleanup
  <2>2. /\ front' \in Frames \cup {Console, Blank} /\ queued' \in Frames
        /\ flipDone' \in Nat
    BY <1>8, ParkEffect, FrameFacts
  <2>3. QED
    BY <1>8, <2>1, <2>2, ParkEffect
<1>9. CASE Killed
  BY <1>9, CleanupTypes DEF Killed
<1>10. CASE VBlank
  <2>1. front' \in Frames \cup {Console, Blank} /\ queued' \in Frames /\ flipDone' \in Nat
    BY <1>10, FrameFacts DEF VBlank
  <2>2. QED
    BY <1>10, <2>1 DEF VBlank, localVars, heldVars, appVars
<1>11. CASE App
  <2>1. /\ swaps' \in 0 .. MaxSwaps /\ drawing' \in Nat /\ chainOps' \in 0 .. MaxChainOps
        /\ sigBytes' \in 0 .. MaxSignals
        /\ child' \in {"none", "running", "stopped", "zombie", "reaped"}
    <3>1. CASE AppCreateSwapchain \/ AppSwap \/ AppDestroySwapchain
      <4>1. chainOps' \in 0 .. MaxChainOps /\ swaps' \in 0 .. MaxSwaps
        <5>1. /\ chainOps \in 0 .. MaxChainOps /\ swaps \in 0 .. MaxSwaps
              /\ MaxChainOps \in Nat /\ MaxSwaps \in Nat
          BY SgxmodeAssumption DEF IInv, TypeOK
        <5>2. /\ chainOps' = chainOps \/ (chainOps < MaxChainOps /\ chainOps' = chainOps + 1)
              /\ swaps' = swaps \/ (swaps < MaxSwaps /\ swaps' = swaps + 1)
          BY <3>1 DEF AppCreateSwapchain, AppSwap, AppDestroySwapchain
        <5>3. QED
          BY ONLY <5>1, <5>2
      <4>2. drawing' \in Nat
        BY <1>11, <3>1 DEF AppCreateSwapchain, AppSwap, AppDestroySwapchain
      <4>3. QED
        BY <1>11, <3>1, <4>1, <4>2 DEF AppCreateSwapchain, AppSwap, AppDestroySwapchain
    <3>2. CASE ChildStops \/ ChildContinues \/ ChildExits
      BY <1>11, <3>2 DEF ChildStops, ChildContinues, ChildExits, Sigchld, appVars
    <3>3. QED
      BY <1>11, <3>1, <3>2 DEF App
  <2>2. events' \in Seq(Events)
    <3>1. CASE AppCreateSwapchain
      BY <3>1, EventFacts DEF AppCreateSwapchain
    <3>2. CASE AppSwap
      BY <3>2, EventFacts DEF AppSwap
    <3>3. CASE AppDestroySwapchain
      BY <3>3, EventFacts DEF AppDestroySwapchain
    <3>4. QED
      BY <1>11, <3>1, <3>2, <3>3 DEF App, ChildStops, ChildContinues, ChildExits
  <2>3. UNCHANGED <<localVars, heldVars, kmsVars, flipErrors>>
    BY <1>11, AppEffect DEF localVars, heldVars, kmsVars
  <2>4. QED
    BY <2>1, <2>2, <2>3 DEF localVars, heldVars, kmsVars
<1>12. CASE UNCHANGED vars
  BY <1>12 DEF vars, localVars, heldVars, kmsVars, appVars
<1>13. QED
  BY <1>1, <1>2, <1>3, <1>4, <1>5, <1>6, <1>7, <1>8, <1>9, <1>10, <1>11, <1>12
     DEF Next, Main, Loop

LEMMA SizeInvStep == IInv /\ [Next]_vars => SizeInv'
<1>. SUFFICES ASSUME IInv, [Next]_vars PROVE SizeInv'
  OBVIOUS
<1>. USE SgxmodeAssumption
     DEF IInv, TypeOK, SizeInv, SetupSteps, LoopSteps, ExitSteps, ParkSteps, Live
<1>1. CASE Setup
  <2>1. CASE ImportBuffer
    <3>1. PICK i \in 0 .. nbuf - 1 :
            /\ \A j \in 0 .. nbuf - 1 : j \in fbs <=> j < i
            /\ \/ /\ fbs' = fbs \cup {i}
                  /\ pc' = IF LastImport(i) THEN "sigpipe" ELSE "import"
               \/ pc' = "done"
      BY <2>1 DEF ImportBuffer, Return
    <3>2. nbuf' = nbuf /\ pc = "import"
      BY <2>1 DEF ImportBuffer
    <3>3. fbs' = fbs \cup {i} => fbs' \subseteq 0 .. nbuf - 1
      BY <3>2
    <3>4. fbs' = fbs \cup {i} /\ i = nbuf - 1 => fbs' = 0 .. nbuf - 1
      BY <3>1, <3>2
    <3>5. QED
      BY <3>1, <3>2, <3>3, <3>4 DEF LastImport
  <2>2. CASE QueryAbi
    BY <2>2 DEF QueryAbi, AbiRejected, Return, Go
  <2>3. CASE Subscribe \/ OpenCard \/ FindConnectorAndCrtc
    BY <2>3 DEF Subscribe, OpenCard, FindConnectorAndCrtc, Return, Go
  <2>4. CASE SaveCrtc
    BY <2>4 DEF SaveCrtc, Go
  <2>5. CASE InstallSigchld \/ Fork
    BY <2>5 DEF InstallSigchld, Fork, Return, Go
  <2>6. QED
    BY <1>1, <2>1, <2>2, <2>3, <2>4, <2>5 DEF Setup
<1>2. CASE Loop
  BY <1>2 DEF Loop, Poll, ReapChild, ReadSwapEvents, ReadFlipEvents, PresentLatest,
              FirstModeset, PageFlip, PageFlipUnsupported, PageFlipRetried, LeaveLoop,
              heldVars
<1>3. CASE Exit
  BY <1>3 DEF Exit, RestoreCrtc, RemoveFramebuffers, DropMaster, KernelCleanup, heldVars
<1>4. CASE Park
  BY <1>4, ParkEffect
<1>5. CASE Killed \/ VBlank
  BY <1>5 DEF Killed, KernelCleanup, VBlank, localVars, heldVars
<1>6. CASE App
  BY <1>6, AppEffect
<1>7. CASE UNCHANGED vars
  BY <1>7 DEF vars, localVars, heldVars
<1>8. QED
  BY <1>1, <1>2, <1>3, <1>4, <1>5, <1>6, <1>7 DEF Next, Main

LEMMA IdleInvStep == IInv /\ [Next]_vars => IdleInv'
<1>. SUFFICES ASSUME IInv, [Next]_vars PROVE IdleInv'
  OBVIOUS
<1>. USE DEF IInv, TypeOK, IdleInv, Steps, SetupSteps, LoopSteps, ExitSteps, ParkSteps, Live
<1>1. CASE Setup
  BY <1>1, SetupEffect
<1>2. CASE Loop
  BY <1>2 DEF Loop, Poll, ReapChild, ReadSwapEvents, ReadFlipEvents, PresentLatest,
              FirstModeset, PageFlip, PageFlipUnsupported, PageFlipRetried, LeaveLoop
<1>3. CASE Exit
  BY <1>3 DEF Exit, RestoreCrtc, RemoveFramebuffers, DropMaster, KernelCleanup
<1>4. CASE Park
  BY <1>4, ParkEffect
<1>5. CASE Killed
  BY <1>5, CleanupEffect DEF Killed
<1>6. CASE VBlank
  BY <1>6 DEF VBlank, localVars
<1>7. CASE App
  BY <1>7, AppEffect
<1>8. CASE UNCHANGED vars
  BY <1>8 DEF vars, localVars, kmsVars, appVars
<1>9. QED
  BY <1>1, <1>2, <1>3, <1>4, <1>5, <1>6, <1>7, <1>8 DEF Next, Main

LEMMA SnapshotInvStep == IInv /\ [Next]_vars => SnapshotInv'
<1>. SUFFICES ASSUME IInv, [Next]_vars PROVE SnapshotInv'
  OBVIOUS
<1>. USE DEF IInv, TypeOK, SnapshotInv, Steps, SetupSteps, LoopSteps, ExitSteps, ParkSteps
<1>1. CASE Setup
  BY <1>1, SetupEffect
<1>2. CASE Loop
  <2>1. CASE Poll
    <3>1. "card" \in Readable => flipDone > 0
      BY DEF Readable
    <3>2. QED
      BY <2>1, <3>1 DEF Poll, LeaveLoop, kmsVars
  <2>2. CASE ReapChild \/ ReadSwapEvents \/ ReadFlipEvents \/ PresentLatest
    BY <2>2 DEF ReapChild, ReadSwapEvents, ReadFlipEvents, PresentLatest, FirstModeset,
                PageFlip, PageFlipUnsupported, PageFlipRetried, LeaveLoop, kmsVars
  <2>3. QED
    BY <1>2, <2>1, <2>2 DEF Loop
<1>3. CASE Exit
  BY <1>3 DEF Exit, RestoreCrtc, RemoveFramebuffers, DropMaster, KernelCleanup
<1>4. CASE Park
  BY <1>4, ParkEffect
<1>5. CASE Killed
  BY <1>5, CleanupEffect DEF Killed
<1>6. CASE VBlank
  BY <1>6 DEF VBlank, localVars
<1>7. CASE App
  BY <1>7, AppEffect
<1>8. CASE UNCHANGED vars
  BY <1>8 DEF vars, localVars, kmsVars
<1>9. QED
  BY <1>1, <1>2, <1>3, <1>4, <1>5, <1>6, <1>7, <1>8 DEF Next, Main

LEMMA PanelInvStep == IInv /\ [Next]_vars => PanelInv'
<1>. SUFFICES ASSUME IInv, [Next]_vars PROVE PanelInv'
  OBVIOUS
<1>. USE DEF IInv, TypeOK, PanelInv, Steps, SetupSteps, LoopSteps, ExitSteps, ParkSteps, Live
<1>1. CASE Setup
  BY <1>1, SetupEffect DEF IdleInv
<1>2. CASE Loop
  BY <1>2 DEF Loop, Poll, ReapChild, ReadSwapEvents, ReadFlipEvents, PresentLatest,
              FirstModeset, PageFlip, PageFlipUnsupported, PageFlipRetried, LeaveLoop,
              heldVars
<1>3. CASE Exit
  <2>1. CASE RestoreCrtc
    <3>1. ~master => front.seq = 0 /\ queued = Nothing
      BY FrameFacts DEF ScanoutOwned
    <3>2. QED
      BY <2>1, <3>1, FrameFacts DEF RestoreCrtc, ModesetMayFail, heldVars
  <2>2. CASE RemoveFramebuffers
    BY <2>2, FrameFacts DEF RemoveFramebuffers
  <2>3. CASE DropMaster
    BY <2>3, CleanupEffect DEF DropMaster
  <2>4. QED
    BY <1>3, <2>1, <2>2, <2>3 DEF Exit
<1>4. CASE Park
  BY <1>4, ParkEffect DEF IdleInv
<1>5. CASE Killed
  BY <1>5, CleanupEffect DEF Killed
<1>6. CASE VBlank
  BY <1>6 DEF VBlank, localVars, heldVars
<1>7. CASE App
  BY <1>7, AppEffect
<1>8. CASE UNCHANGED vars
  BY <1>8 DEF vars, localVars, heldVars, kmsVars
<1>9. QED
  BY <1>1, <1>2, <1>3, <1>4, <1>5, <1>6, <1>7, <1>8 DEF Next, Main

LEMMA FlipPacingStep == IInv /\ [Next]_vars => FlipPacing'
<1>. SUFFICES ASSUME IInv, [Next]_vars PROVE FlipPacing'
  OBVIOUS
<1>. USE DEF IInv, TypeOK, FlipPacing, Steps, SetupSteps, LoopSteps, ExitSteps, ParkSteps, Live
<1>1. CASE Setup
  BY <1>1, SetupEffect DEF IdleInv
<1>2. CASE Poll \/ ReapChild \/ ReadSwapEvents
  BY <1>2 DEF Poll, ReapChild, ReadSwapEvents, LeaveLoop, kmsVars
<1>3. CASE ReadFlipEvents
  BY <1>3 DEF ReadFlipEvents, FlipCompleted, SnapshotInv
<1>4. CASE PresentLatest
  <2>1. haveNew => latest # Nothing
    BY FrameFacts DEF OrderInv, FramesInOrder
  <2>2. QED
    BY <1>4, <2>1 DEF PresentLatest, Presentable, FirstModeset, PageFlip,
                      PageFlipUnsupported, PageFlipRetried, LeaveLoop
<1>5. CASE Exit
  BY <1>5 DEF Exit, RestoreCrtc, RemoveFramebuffers, DropMaster, KernelCleanup
<1>6. CASE Park
  BY <1>6, ParkEffect
<1>7. CASE Killed
  BY <1>7, CleanupEffect DEF Killed
<1>8. CASE VBlank
  BY <1>8 DEF VBlank, localVars
<1>9. CASE App
  BY <1>9, AppEffect
<1>10. CASE UNCHANGED vars
  BY <1>10 DEF vars, localVars, kmsVars
<1>11. QED
  BY <1>1, <1>2, <1>3, <1>4, <1>5, <1>6, <1>7, <1>8, <1>9, <1>10 DEF Next, Main, Loop

LEMMA NoIdleFrameStep == IInv /\ [Next]_vars => NoIdleFrame'
<1>. SUFFICES ASSUME IInv, [Next]_vars PROVE NoIdleFrame'
  OBVIOUS
<1>. USE DEF IInv, TypeOK, NoIdleFrame, Steps, SetupSteps, LoopSteps, ExitSteps, ParkSteps
<1>1. CASE Setup
  BY <1>1, SetupEffect DEF IdleInv
<1>2. CASE Poll \/ ReapChild \/ ReadSwapEvents \/ ReadFlipEvents
  BY <1>2 DEF Poll, ReapChild, ReadSwapEvents, ReadFlipEvents, LeaveLoop
<1>3. CASE PresentLatest
  <2>1. CASE ~Presentable
    BY <1>3, <2>1 DEF PresentLatest, Presentable
  <2>2. CASE FirstModeset \/ PageFlip
    BY <1>3, <2>2 DEF FirstModeset, PageFlip, LeaveLoop
  <2>3. CASE PageFlipUnsupported \/ PageFlipRetried
    <3>1. flipErrors' > 0 \/ (queued # Nothing /\ ~haveNew')
            \/ (queued # Nothing /\ UNCHANGED flipPending)
      BY <2>3 DEF PageFlipUnsupported, PageFlipRetried
    <3>2. queued # Nothing => flipPending
      BY <1>3 DEF FlipPacing, PresentLatest
    <3>3. QED
      BY <3>1, <3>2
  <2>4. QED
    BY <1>3, <2>1, <2>2, <2>3 DEF PresentLatest
<1>4. CASE Exit
  BY <1>4 DEF Exit, RestoreCrtc, RemoveFramebuffers, DropMaster, KernelCleanup
<1>5. CASE Park
  BY <1>5, ParkEffect
<1>6. CASE Killed
  BY <1>6, CleanupEffect DEF Killed
<1>7. CASE VBlank
  BY <1>7 DEF VBlank, localVars
<1>8. CASE App
  BY <1>8, AppEffect
<1>9. CASE UNCHANGED vars
  BY <1>9 DEF vars, localVars
<1>10. QED
  BY <1>1, <1>2, <1>3, <1>4, <1>5, <1>6, <1>7, <1>8, <1>9 DEF Next, Main, Loop

LEMMA NeverDarkStep == IInv /\ [Next]_vars => NeverDark'
<1>. SUFFICES ASSUME IInv, [Next]_vars PROVE NeverDark'
  OBVIOUS
<1>. USE DEF IInv, NeverDark, Steps, SetupSteps, LoopSteps, ExitSteps, ParkSteps
<1>1. CASE Setup
  BY <1>1, SetupEffect, FrameFacts DEF IdleInv, Live
<1>2. CASE Loop
  BY <1>2, FrameFacts
     DEF Loop, Poll, ReapChild, ReadSwapEvents, ReadFlipEvents, PresentLatest,
         FirstModeset, PageFlip, PageFlipUnsupported, PageFlipRetried, LeaveLoop,
         kmsVars, TypeOK
<1>3. CASE Exit
  BY <1>3, FrameFacts DEF Exit, RestoreCrtc, RemoveFramebuffers, DropMaster, KernelCleanup,
                          PanelInv
<1>4. CASE Park
  BY <1>4, ParkEffect, FrameFacts
<1>5. CASE Killed
  BY <1>5, CleanupEffect, FrameFacts DEF Killed
<1>6. CASE VBlank
  BY <1>6, FrameFacts DEF VBlank, TypeOK
<1>7. CASE App
  BY <1>7, AppEffect
<1>8. CASE UNCHANGED vars
  BY <1>8 DEF vars, localVars, kmsVars
<1>9. QED
  BY <1>1, <1>2, <1>3, <1>4, <1>5, <1>6, <1>7, <1>8 DEF Next, Main

LEMMA ScanoutOwnedStep == IInv /\ [Next]_vars => ScanoutOwned'
<1>. SUFFICES ASSUME IInv, [Next]_vars PROVE ScanoutOwned'
  OBVIOUS
<1>. USE DEF IInv, TypeOK, ScanoutOwned, Steps, SetupSteps, LoopSteps, ExitSteps, ParkSteps, Live
<1>1. CASE Setup
  BY <1>1, SetupEffect DEF IdleInv
<1>2. CASE Poll \/ ReapChild \/ ReadSwapEvents \/ ReadFlipEvents
  BY <1>2 DEF Poll, ReapChild, ReadSwapEvents, ReadFlipEvents, LeaveLoop, heldVars, kmsVars
<1>3. CASE PresentLatest
  <2>1. fbs = 0 .. nbuf - 1 /\ UNCHANGED <<fbs, master, latest>>
    BY <1>3 DEF PresentLatest, SizeInv, heldVars
  <2>2. haveNew => latest.index \in fbs /\ latest.seq > 0
    <3>1. haveNew => latest.index < nbuf /\ latest.seq > front.seq
      BY DEF OrderInv, FramesInOrder
    <3>2. latest.index \in Index /\ latest.seq \in Nat /\ nbuf \in Nat
      BY FrameFacts
    <3>3. front.seq \in Nat
      BY FrameFacts
    <3>4. QED
      BY <2>1, <3>1, <3>2, <3>3 DEF Index
  <2>3. modeSet => master
    BY <1>3 DEF PresentLatest, PanelInv
  <2>4. /\ front' = front \/ (front' = latest /\ haveNew /\ master)
        /\ queued' = queued \/ (queued' = latest /\ haveNew /\ master)
    BY <1>3, <2>3 DEF PresentLatest, Presentable, FirstModeset, PageFlip,
                      PageFlipUnsupported, PageFlipRetried
  <2>5. QED
    BY <2>1, <2>2, <2>4
<1>4. CASE Exit
  <2>1. CASE RestoreCrtc
    BY <2>1 DEF RestoreCrtc, heldVars
  <2>2. CASE RemoveFramebuffers
    <3>1. front.seq = 0 => front \in {Console, Blank, Nothing}
      BY <2>2 DEF RemoveFramebuffers
    <3>2. front.seq \in Nat
      BY FrameFacts
    <3>3. QED
      BY <2>2, <3>1, <3>2 DEF RemoveFramebuffers
  <2>3. CASE DropMaster
    BY <2>3, CleanupEffect DEF DropMaster
  <2>4. QED
    BY <1>4, <2>1, <2>2, <2>3 DEF Exit
<1>5. CASE Park
  BY <1>5, ParkEffect DEF IdleInv
<1>6. CASE Killed
  BY <1>6, CleanupEffect DEF Killed
<1>7. CASE VBlank
  BY <1>7 DEF VBlank, heldVars
<1>8. CASE App
  BY <1>8, AppEffect
<1>9. CASE UNCHANGED vars
  BY <1>9 DEF vars, heldVars, kmsVars
<1>10. QED
  BY <1>1, <1>2, <1>3, <1>4, <1>5, <1>6, <1>7, <1>8, <1>9 DEF Next, Main, Loop

LEMMA OrderInvStep == IInv /\ [Next]_vars => OrderInv'
<1>. SUFFICES ASSUME IInv, [Next]_vars PROVE OrderInv'
  OBVIOUS
<1>. USE DEF IInv, TypeOK
<1>0. /\ latest.seq \in Nat /\ queued.seq \in Nat /\ front.seq \in Nat /\ swaps \in Nat
      /\ latest.index \in Nat /\ nbuf \in Nat
      /\ \A i \in 1 .. Len(events) : events[i] \in Events /\ events[i].seq \in Nat
  BY SgxmodeAssumption, FrameFacts, EventFacts DEF Index
<1>1. CASE Setup
  BY <1>1, SetupEffect DEF OrderInv, FramesInOrder, UnreadAreNewer, UnreadInOrder, IdleInv
<1>2. CASE Poll \/ ReapChild \/ ReadFlipEvents
  <2>1. UNCHANGED <<latest, front, queued, haveNew, nbuf, events, swaps>>
    BY <1>2 DEF Poll, ReapChild, ReadFlipEvents, kmsVars, appVars
  <2>2. QED
    BY <2>1 DEF OrderInv, FramesInOrder, UnreadAreNewer, UnreadInOrder
<1>3. CASE ReadSwapEvents
  <2>1. CASE "ctrl" \notin revents
    <3>1. UNCHANGED <<latest, front, queued, haveNew, nbuf, events, swaps>>
      BY <1>3, <2>1 DEF ReadSwapEvents, kmsVars, appVars
    <3>2. QED
      BY <3>1 DEF OrderInv, FramesInOrder, UnreadAreNewer, UnreadInOrder
  <2>2. CASE "ctrl" \in revents
    <3>1. /\ BatchLen \in 0 .. Len(events) /\ Len(events) \in Nat
      BY SgxmodeAssumption DEF BatchLen
    <3>2. /\ Len(events') = Len(events) - BatchLen
          /\ \A k \in 1 .. Len(events') :
               /\ k + BatchLen \in 1 .. Len(events)
               /\ events'[k] = events[k + BatchLen]
      <4>1. events' = SubSeq(events, BatchLen + 1, Len(events))
        BY <1>3, <2>2 DEF ReadSwapEvents
      <4>2. Len(events') = Len(events) - BatchLen
        BY <3>1, <4>1
      <4>3. ASSUME NEW k \in 1 .. Len(events') PROVE events'[k] = events[k + BatchLen]
        BY <3>1, <4>1, <4>2
      <4>4. QED
        BY <3>1, <4>2, <4>3
    <3>3. UNCHANGED <<nbuf, front, queued, swaps>>
      BY <1>3 DEF ReadSwapEvents, kmsVars, appVars
    <3>4. UnreadInOrder'
      <4>. SUFFICES ASSUME NEW k \in 1 .. Len(events'), NEW l \in 1 .. Len(events'),
                           events'[k].type = "swap", events'[l].type = "swap", k < l
                    PROVE  events'[k].seq < events'[l].seq
        BY DEF UnreadInOrder
      <4>1. k + BatchLen < l + BatchLen
        BY <3>1, <3>2
      <4>2. QED
        BY <3>2, <4>1 DEF OrderInv, UnreadInOrder
    <3>5. CASE UNCHANGED <<latest, haveNew>>
      <4>1. UnreadAreNewer'
        BY <3>2, <3>3, <3>5 DEF OrderInv, UnreadAreNewer
      <4>2. FramesInOrder'
        BY <3>3, <3>5 DEF OrderInv, FramesInOrder
      <4>3. QED
        BY <3>4, <4>1, <4>2 DEF OrderInv
    <3>6. CASE ~UNCHANGED <<latest, haveNew>>
      <4>1. PICK i \in 1 .. BatchLen :
              /\ UsableSwap(i)
              /\ latest' = [index |-> events[i].index, seq |-> events[i].seq]
        BY <1>3, <2>2, <3>6 DEF ReadSwapEvents, TakeLatest
      <4>2. /\ latest'.index = events[i].index /\ latest'.seq = events[i].seq
            /\ i \in 1 .. Len(events) /\ events[i].type = "swap" /\ events[i].index < nbuf
        BY <3>1, <4>1 DEF UsableSwap
      <4>3. /\ latest.seq < latest'.seq /\ latest'.seq <= swaps /\ latest'.seq \in Nat
            /\ \A j \in 1 .. Len(events) :
                 events[j].type = "swap" /\ i < j => latest'.seq < events[j].seq
        BY <1>0, <4>2 DEF OrderInv, UnreadAreNewer, UnreadInOrder
      <4>4. UnreadAreNewer'
        <5>. SUFFICES ASSUME NEW k \in 1 .. Len(events'), events'[k].type = "swap"
                      PROVE  latest'.seq < events'[k].seq /\ events'[k].seq <= swaps
          BY <3>3 DEF UnreadAreNewer
        <5>1. k + BatchLen \in 1 .. Len(events) /\ events'[k] = events[k + BatchLen]
          BY <3>2
        <5>2. i < k + BatchLen
          BY <3>1, <4>1
        <5>3. QED
          BY <4>3, <5>1, <5>2 DEF OrderInv, UnreadAreNewer
      <4>5. FramesInOrder'
        <5>1. queued.seq <= latest.seq
          BY <1>0, FrameFacts DEF OrderInv, FramesInOrder
        <5>2. front.seq < latest'.seq /\ queued.seq < latest'.seq
          BY <1>0, <4>3, <5>1 DEF OrderInv, FramesInOrder
        <5>3. QED
          BY <1>0, <3>3, <4>2, <4>3, <5>2 DEF OrderInv, FramesInOrder
      <4>6. QED
        BY <3>4, <4>4, <4>5 DEF OrderInv
    <3>7. QED
      BY <3>5, <3>6
  <2>3. QED
    BY <2>1, <2>2
<1>4. CASE PresentLatest
  <2>1. UNCHANGED <<nbuf, latest, events, swaps>>
    BY <1>4 DEF PresentLatest, appVars
  <2>2. \/ UNCHANGED <<front, queued>> /\ (haveNew' => haveNew)
        \/ haveNew /\ ~haveNew' /\ front' = latest /\ queued' = queued /\ queued = Nothing
        \/ haveNew /\ ~haveNew' /\ queued' = latest /\ front' = front
    <3>1. queued # Nothing \/ ~flipPending => queued = Nothing \/ flipPending
      BY <1>4 DEF FlipPacing, PresentLatest, LoopSteps
    <3>2. QED
      BY <1>4, <3>1 DEF PresentLatest, Presentable, FirstModeset, PageFlip,
            PageFlipUnsupported, PageFlipRetried, FlipPacing, LoopSteps
  <2>3. QED
    <3>1. UnreadAreNewer' /\ UnreadInOrder'
      BY <2>1 DEF OrderInv, UnreadAreNewer, UnreadInOrder
    <3>2. CASE UNCHANGED <<front, queued>> /\ (haveNew' => haveNew)
      BY <2>1, <3>1, <3>2 DEF OrderInv, FramesInOrder
    <3>3. CASE haveNew /\ ~haveNew' /\ front' = latest /\ queued' = queued /\ queued = Nothing
      BY <1>0, <2>1, <3>1, <3>3 DEF OrderInv, FramesInOrder
    <3>4. CASE haveNew /\ ~haveNew' /\ queued' = latest /\ front' = front
      BY <1>0, <2>1, <3>1, <3>4 DEF OrderInv, FramesInOrder
    <3>5. QED
      BY <2>2, <3>2, <3>3, <3>4
<1>5. CASE Exit
  <2>1. /\ UNCHANGED <<latest, haveNew, nbuf, events, swaps>>
        /\ queued' = queued \/ queued' = Nothing
        /\ front' = front \/ (front'.seq = 0 /\ queued' = Nothing)
    BY <1>5, FrameFacts
       DEF Exit, RestoreCrtc, RemoveFramebuffers, DropMaster, KernelCleanup, appVars
  <2>2. QED
    <3>1. UnreadAreNewer' /\ UnreadInOrder'
      BY <2>1 DEF OrderInv, UnreadAreNewer, UnreadInOrder
    <3>2. FramesInOrder'
      BY <1>0, <2>1, FrameFacts DEF OrderInv, FramesInOrder
    <3>3. QED
      BY <3>1, <3>2 DEF OrderInv
<1>6. CASE Park
  BY <1>6, ParkEffect, FrameFacts DEF IdleInv, OrderInv, FramesInOrder, UnreadAreNewer, UnreadInOrder
<1>7. CASE Killed
  <2>1. /\ UNCHANGED <<latest, haveNew, nbuf, events, swaps>>
        /\ front' = Console /\ queued' = Nothing
    BY <1>7, CleanupEffect DEF Killed
  <2>2. UnreadAreNewer' /\ UnreadInOrder'
    BY <2>1 DEF OrderInv, UnreadAreNewer, UnreadInOrder
  <2>3. FramesInOrder'
    <3>1. Nothing.seq = 0 /\ Console.seq = 0
      BY FrameFacts
    <3>2. front.seq < latest.seq \/ ~haveNew
      BY DEF OrderInv, FramesInOrder
    <3>3. QED
      BY <1>0, <2>1, <3>1, <3>2 DEF OrderInv, FramesInOrder
  <2>4. QED
    BY <2>2, <2>3 DEF OrderInv
<1>8. CASE VBlank
  <2>1. /\ UNCHANGED <<latest, haveNew, nbuf, events, swaps>>
        /\ queued # Nothing /\ front' = queued /\ queued' = Nothing
    BY <1>8 DEF VBlank, localVars, appVars
  <2>2. UnreadAreNewer' /\ UnreadInOrder'
    BY <2>1 DEF OrderInv, UnreadAreNewer, UnreadInOrder
  <2>3. FramesInOrder'
    <3>1. Nothing.seq = 0
      BY FrameFacts
    <3>2. QED
      BY <1>0, <2>1, <3>1 DEF OrderInv, FramesInOrder
  <2>4. QED
    BY <2>2, <2>3 DEF OrderInv
<1>9. CASE App
  <2>1. CASE UNCHANGED <<events, swaps>>
    BY <1>9, <2>1, AppEffect DEF OrderInv, FramesInOrder, UnreadAreNewer, UnreadInOrder
  <2>2. CASE ~UNCHANGED <<events, swaps>>
    <3>1. PICK e \in Events :
            /\ events' = Append(events, e)
            /\ \/ swaps' = swaps /\ e.type # "swap"
               \/ swaps' = swaps + 1 /\ e.seq = swaps + 1
      <4>1. CASE AppCreateSwapchain
        <5>1. /\ events' = Append(events, [type |-> "create", index |-> nbuf, seq |-> swaps])
              /\ swaps' = swaps
          BY <4>1 DEF AppCreateSwapchain
        <5>2. /\ [type |-> "create", index |-> nbuf, seq |-> swaps] \in Events
              /\ [type |-> "create", index |-> nbuf, seq |-> swaps].type = "create"
          BY <1>0, EventFacts
        <5>3. QED
          BY <5>1, <5>2
      <4>2. CASE AppSwap
        <5>1. /\ events' = Append(events, [type |-> "swap", index |-> drawing, seq |-> swaps + 1])
              /\ swaps' = swaps + 1 /\ drawing \in Nat /\ swaps + 1 \in Nat
          BY <1>0, <4>2 DEF AppSwap
        <5>2. /\ [type |-> "swap", index |-> drawing, seq |-> swaps + 1] \in Events
              /\ [type |-> "swap", index |-> drawing, seq |-> swaps + 1].seq = swaps + 1
          BY <5>1, EventFacts
        <5>3. QED
          BY <5>1, <5>2
      <4>3. CASE AppDestroySwapchain
        <5>1. /\ events' = Append(events, [type |-> "destroy", index |-> 0, seq |-> swaps])
              /\ swaps' = swaps
          BY <4>3 DEF AppDestroySwapchain
        <5>2. /\ [type |-> "destroy", index |-> 0, seq |-> swaps] \in Events
              /\ [type |-> "destroy", index |-> 0, seq |-> swaps].type = "destroy"
          BY <1>0, EventFacts
        <5>3. QED
          BY <5>1, <5>2
      <4>4. QED
        BY <1>9, <2>2, <4>1, <4>2, <4>3 DEF App, ChildStops, ChildContinues, ChildExits, appVars
    <3>2. UNCHANGED <<latest, front, queued, haveNew, nbuf>>
      BY <1>9, AppEffect
    <3>3. /\ Len(events') = Len(events) + 1 /\ Len(events) \in Nat
          /\ events'[Len(events) + 1] = e
          /\ \A i \in 1 .. Len(events) : events'[i] = events[i]
      BY <3>1
    <3>4. UnreadAreNewer'
      <4>. SUFFICES ASSUME NEW i \in 1 .. Len(events'), events'[i].type = "swap"
                    PROVE  latest.seq < events'[i].seq /\ events'[i].seq <= swaps'
        BY <3>2 DEF UnreadAreNewer
      <4>1. CASE i = Len(events) + 1
        BY <1>0, <3>1, <3>3, <4>1 DEF OrderInv, FramesInOrder
      <4>2. CASE i \in 1 .. Len(events)
        <5>1. latest.seq < events[i].seq /\ events[i].seq <= swaps
          BY <3>3, <4>2 DEF OrderInv, UnreadAreNewer
        <5>2. QED
          BY <1>0, <3>1, <3>3, <4>2, <5>1
      <4>3. QED
        BY <3>3, <4>1, <4>2
    <3>5. UnreadInOrder'
      <4>. SUFFICES ASSUME NEW i \in 1 .. Len(events'), NEW j \in 1 .. Len(events'),
                           events'[i].type = "swap", events'[j].type = "swap", i < j
                    PROVE  events'[i].seq < events'[j].seq
        BY DEF UnreadInOrder
      <4>1. i \in 1 .. Len(events) /\ events'[i] = events[i]
        BY <3>3
      <4>2. CASE j = Len(events) + 1
        <5>1. events[i].seq <= swaps /\ events[i].seq \in Nat
          BY <1>0, <4>1 DEF OrderInv, UnreadAreNewer
        <5>2. QED
          BY <1>0, <3>1, <3>3, <4>1, <4>2, <5>1
      <4>3. CASE j \in 1 .. Len(events)
        BY <3>3, <4>1, <4>3 DEF OrderInv, UnreadInOrder
      <4>4. QED
        BY <3>3, <4>2, <4>3
    <3>6. FramesInOrder'
      BY <1>0, <3>1, <3>2 DEF OrderInv, FramesInOrder
    <3>7. QED
      BY <3>4, <3>5, <3>6 DEF OrderInv
  <2>3. QED
    BY <2>1, <2>2
<1>10. CASE UNCHANGED vars
  BY <1>10 DEF vars, localVars, kmsVars, appVars, OrderInv, FramesInOrder, UnreadAreNewer, UnreadInOrder
<1>11. QED
  BY <1>1, <1>2, <1>3, <1>4, <1>5, <1>6, <1>7, <1>8, <1>9, <1>10 DEF Next, Main, Loop

-----------------------------------------------------------------------------
(* The theorems.                                                            *)

LEMMA IInvStep == IInv /\ [Next]_vars => IInv'
  BY TypeOKStep, SizeInvStep, IdleInvStep, SnapshotInvStep, OrderInvStep, PanelInvStep,
     FlipPacingStep, ScanoutOwnedStep, NoIdleFrameStep, NeverDarkStep DEF IInv

\* The invariant that every theorem below rests on.
THEOREM Invariance == Spec => []IInv
  BY InitIInv, IInvStep, PTL DEF Spec

\* Every variable keeps its type; in particular no framebuffer slot past
\* MAX_BUFS is ever written (sgxmode.c:129, 182-202).
THEOREM TypeCorrect == Spec => []TypeOK
<1>1. IInv => TypeOK
  BY DEF IInv
<1>2. QED
  BY <1>1, Invariance, PTL

\* One flip is in flight at most, and the flag in main() knows of it, so that
\* PAGE_FLIP is never called into EBUSY (sgxmode.c:255-298).
THEOREM FlipsArePaced == Spec => []FlipPacing
<1>1. IInv => FlipPacing
  BY DEF IInv
<1>2. QED
  BY <1>1, Invariance, PTL

\* What is scanned out, or queued to be, is a completed frame in a framebuffer
\* the presenter holds while it is master (sgxmode.c:181-202, 248-298).
THEOREM ScanoutIsOwned == Spec => []ScanoutOwned
<1>1. IInv => ScanoutOwned
  BY DEF IInv
<1>2. QED
  BY <1>1, Invariance, PTL

\* main() never goes to sleep on a frame that it could have shown, unless a flip
\* has failed (sgxmode.c:269-304).
THEOREM NoFrameIdles == Spec => []NoIdleFrame
<1>1. IInv => NoIdleFrame
  BY DEF IInv
<1>2. QED
  BY <1>1, Invariance, PTL

\* With a saved CRTC and a SETCRTC that works the console is back before the
\* framebuffers go (sgxmode.c:307-319).
THEOREM PanelNeverDark == Spec => []NeverDark
<1>1. IInv => NeverDark
  BY DEF IInv
<1>2. QED
  BY <1>1, Invariance, PTL

-----------------------------------------------------------------------------
(* The presenter implements the mailbox, its fairness aside.               *)

Down == {"rmfb", "drop", "done"}

LEMMA InitMailbox == Init => Mailbox!Init
  BY FrameFacts DEF Init, Mailbox!Init

LEMMA StepMailbox == IInv /\ [Next]_vars => [Mailbox!Next]_(Mailbox!mailboxVars)
<1>. SUFFICES ASSUME IInv, [Next]_vars
              PROVE  Mailbox!Next \/ UNCHANGED Mailbox!mailboxVars
  OBVIOUS
<1>. USE DEF Mailbox!mailboxVars, Steps, SetupSteps, LoopSteps, ExitSteps, ParkSteps, Live
<1>0. /\ latest.seq \in Nat /\ queued.seq \in Nat /\ front.seq \in Nat /\ swaps \in Nat
      /\ pc \in Steps
  BY SgxmodeAssumption, FrameFacts DEF IInv, TypeOK
<1>1. ASSUME pc \notin Down, pc' \in Down, UNCHANGED swaps
      PROVE  Mailbox!Release
  BY <1>1 DEF Down, Mailbox!Release
<1>2. ASSUME pc \in Down, pc' \in Down, UNCHANGED swaps
      PROVE  UNCHANGED Mailbox!mailboxVars
  BY <1>2 DEF Down
<1>3. ASSUME pc \notin Down, pc' \notin Down, UNCHANGED swaps, front' # front,
             front.seq < front'.seq, front'.seq <= swaps, front'.seq \in Nat
      PROVE  Mailbox!Present
  BY <1>0, <1>3 DEF Down, Mailbox!Present
<1>4. ASSUME UNCHANGED <<front, swaps>>, pc \in Down <=> pc' \in Down
      PROVE  UNCHANGED Mailbox!mailboxVars
  BY <1>4 DEF Down
<1>5. CASE Setup
  BY <1>1, <1>4, <1>5, SetupEffect DEF Down, Mailbox!Next
<1>6. CASE Poll \/ ReapChild \/ ReadSwapEvents \/ ReadFlipEvents
  BY <1>4, <1>6 DEF Poll, ReapChild, ReadSwapEvents, ReadFlipEvents, LeaveLoop, Down,
                    kmsVars, appVars
<1>7. CASE PresentLatest
  <2>1. UNCHANGED swaps /\ pc \notin Down /\ pc' \notin Down
    BY <1>7 DEF PresentLatest, FirstModeset, PageFlip, PageFlipUnsupported,
                PageFlipRetried, LeaveLoop, Down, appVars
  <2>2. front' = front \/ (front' = latest /\ haveNew)
    BY <1>7 DEF PresentLatest, Presentable, FirstModeset, PageFlip, PageFlipUnsupported,
                PageFlipRetried
  <2>3. front' = latest /\ haveNew => front.seq < front'.seq /\ front'.seq <= swaps
    BY <2>1 DEF IInv, OrderInv, FramesInOrder
  <2>4. QED
    BY <1>0, <1>3, <1>4, <2>1, <2>2, <2>3 DEF Mailbox!Next
<1>8. CASE Exit
  <2>1. pc' \in Down /\ UNCHANGED swaps
    BY <1>8 DEF Exit, RestoreCrtc, RemoveFramebuffers, DropMaster, KernelCleanup, Down, appVars
  <2>2. QED
    BY <1>1, <1>2, <2>1 DEF Mailbox!Next
<1>9. CASE Park
  <2>1. pc \notin Down /\ UNCHANGED swaps
    BY <1>9, ParkEffect DEF Down
  <2>2. pc' \in Down \/ UNCHANGED front
    BY <1>9, ParkEffect DEF IInv, IdleInv
  <2>3. QED
    BY <1>1, <1>4, <2>1, <2>2 DEF Mailbox!Next
<1>10. CASE Killed
  <2>1. pc' \in Down /\ UNCHANGED swaps
    BY <1>10, CleanupEffect DEF Killed, Down
  <2>2. QED
    BY <1>1, <1>2, <2>1 DEF Mailbox!Next
<1>11. CASE VBlank
  <2>1. UNCHANGED <<pc, swaps>> /\ front' = queued /\ queued # Nothing
    BY <1>11 DEF VBlank, localVars, appVars
  <2>2. front.seq < queued.seq /\ queued.seq <= swaps
    BY <1>0, <2>1 DEF IInv, OrderInv, FramesInOrder
  <2>3. CASE pc \in Down
    BY <1>2, <2>1, <2>3
  <2>4. CASE pc \notin Down
    <3>1. front' # front
      BY <1>0, <2>1, <2>2
    <3>2. QED
      BY <1>0, <1>3, <2>1, <2>2, <2>4, <3>1 DEF Mailbox!Next
  <2>5. QED
    BY <2>3, <2>4
<1>12. CASE App
  <2>1. UNCHANGED <<pc, front>>
    BY <1>12, AppEffect
  <2>2. UNCHANGED swaps \/ swaps' = swaps + 1
    BY <1>12 DEF App, AppCreateSwapchain, AppSwap, AppDestroySwapchain, ChildStops,
                 ChildContinues, ChildExits, appVars
  <2>3. swaps' = swaps + 1 => Mailbox!Complete
    BY <2>1 DEF Mailbox!Complete
  <2>4. QED
    BY <1>4, <2>1, <2>2, <2>3 DEF Mailbox!Next
<1>13. CASE UNCHANGED vars
  BY <1>4, <1>13 DEF vars, localVars, kmsVars, appVars
<1>14. QED
  BY <1>5, <1>6, <1>7, <1>8, <1>9, <1>10, <1>11, <1>12, <1>13 DEF Next, Main, Loop

\* Frames are skipped but never reordered, repeated or invented: every step of the
\* presenter is a step of the mailbox or leaves it alone (sgxmode.c:6-10).
THEOREM MailboxSafety == Spec => Mailbox!Spec
  BY InitMailbox, StepMailbox, Invariance, PTL DEF Spec, Mailbox!Spec
-----------------------------------------------------------------------------
(* The child's exit ends the presenter, but that the next step can be taken. *)

\* There is no child before the fork, and its exit is not lost: while main() is in
\* its loop with a handler installed, a byte says so in the pipe.
WakeInv ==
  /\ pc \in SetupSteps \cup {"park", "parkfork"} => child = "none"
  /\ pc \in LoopSteps /\ child = "zombie" /\ sigHandler => sigBytes > 0

LEMMA WakeStep == TypeOK /\ WakeInv /\ [Next]_vars => WakeInv'
<1>. SUFFICES ASSUME TypeOK, WakeInv, [Next]_vars PROVE WakeInv'
  OBVIOUS
<1>. USE DEF WakeInv, SetupSteps, LoopSteps
<1>1. CASE Setup
  BY <1>1 DEF Setup, Subscribe, QueryAbi, OpenCard, FindConnectorAndCrtc, SaveCrtc,
              ImportBuffer, InstallSigchld, Fork, Return, Go
<1>2. CASE ReapChild
  BY <1>2 DEF ReapChild, ChildGone, LeaveLoop, heldVars
<1>3. CASE Poll \/ ReadSwapEvents \/ ReadFlipEvents \/ PresentLatest
  <2>1. UNCHANGED <<child, sigHandler, sigBytes>> /\ pc \in LoopSteps
        /\ pc' \in LoopSteps \cup {"restore"}
    BY <1>3 DEF Poll, ReadSwapEvents, ReadFlipEvents, PresentLatest, FirstModeset,
                PageFlip, PageFlipUnsupported, PageFlipRetried, LeaveLoop, heldVars
  <2>2. QED
    BY <2>1
<1>4. CASE Exit \/ Killed
  BY <1>4 DEF Exit, RestoreCrtc, RemoveFramebuffers, DropMaster, Killed, KernelCleanup
<1>5. CASE Park
  BY <1>5 DEF Park, ParkOpen, ParkFork, ParkWait, ParkDrop, KernelCleanup, Return, Go
<1>6. CASE VBlank
  BY <1>6 DEF VBlank, localVars, heldVars
<1>7. CASE AppCreateSwapchain \/ AppSwap \/ AppDestroySwapchain
  BY <1>7 DEF AppCreateSwapchain, AppSwap, AppDestroySwapchain, localVars, heldVars
<1>8. CASE ChildStops \/ ChildContinues \/ ChildExits
  BY <1>8 DEF ChildStops, ChildContinues, ChildExits, Sigchld, Alive, TypeOK, localVars, heldVars
<1>9. CASE UNCHANGED vars
  BY <1>9 DEF vars, localVars, heldVars
<1>10. QED
  BY <1>1, <1>2, <1>3, <1>4, <1>5, <1>6, <1>7, <1>8, <1>9 DEF Next, Main, Loop, App

\* A SIGCHLD that comes between poll() and waitpid(), or while the pipe is drained, does
\* not go unnoticed (sgxmode.c:206-213, 233-240).
THEOREM ExitIsNoticed == Spec => []WakeInv
<1>1. Init => WakeInv
  BY DEF Init, WakeInv, SetupSteps, LoopSteps
<1>2. QED
  BY <1>1, WakeStep, TypeCorrect, PTL DEF Spec

\* The child is gone and main() can know it, or main() is on its way out.
Leaving ==
  \/ child = "zombie" /\ (sigHandler \/ pc \in ParkSteps)
  \/ pc \in ExitSteps \cup {"parkdrop"}

\* The steps main() still has then: one turn of the loop if poll() was too early to see
\* the signal, then the check of the child and the teardown.
StepsLeft ==
  CASE pc = "reap" /\ "sig" \notin revents -> 9 [] pc = "swaps" -> 8 [] pc = "flips" -> 7
    [] pc = "present" -> 6 [] pc = "poll" -> 5 [] pc = "reap" /\ "sig" \in revents -> 4
    [] pc = "restore" -> 3 [] pc \in {"rmfb", "parkwait"} -> 2
    [] pc \in {"drop", "parkdrop"} -> 1 [] OTHER -> 0

\* A step of its own brings main() nearer to its end.
LEMMA LeavingSteps ==
  ASSUME TypeOK, WakeInv, Leaving, Main
  PROVE  StepsLeft' < StepsLeft /\ (Leaving' \/ pc' = "done")
<1>. USE DEF Leaving, SetupSteps, LoopSteps, ExitSteps, ParkSteps
<1>1. CASE Setup \/ ParkOpen \/ ParkFork
  <2>1. pc \in SetupSteps \cup {"park", "parkfork"}
    BY <1>1, SetupEffect DEF ParkOpen, ParkFork
  <2>2. QED
    BY <2>1 DEF WakeInv
<1>2. CASE Poll
  <2>1. pc = "poll" /\ child = "zombie" /\ sigHandler
    BY <1>2 DEF Poll
  <2>2. "sig" \in Readable
    BY <2>1 DEF WakeInv, Readable
  <2>3. UNCHANGED <<child, sigHandler>>
        /\ (pc' = "restore" \/ (pc' = "reap" /\ revents' = Readable))
    BY <1>2 DEF Poll, LeaveLoop, heldVars
  <2>4. QED
    BY <2>1, <2>2, <2>3 DEF StepsLeft
<1>3. CASE ReapChild
  <2>1. pc = "reap" /\ child = "zombie" /\ sigHandler
    BY <1>3 DEF ReapChild
  <2>2. CASE "sig" \in revents
    <3>1. pc' = "restore"
      BY <1>3, <2>1, <2>2 DEF ReapChild, ChildGone, LeaveLoop
    <3>2. StepsLeft = 4 /\ StepsLeft' = 3
      BY <2>1, <2>2, <3>1 DEF StepsLeft
    <3>3. QED
      BY <3>1, <3>2
  <2>3. CASE "sig" \notin revents
    <3>1. pc' = "swaps" /\ UNCHANGED <<child, sigHandler>>
      BY <1>3, <2>3 DEF ReapChild, ChildGone, heldVars
    <3>2. StepsLeft = 9 /\ StepsLeft' = 8
      BY <2>1, <2>3, <3>1 DEF StepsLeft
    <3>3. QED
      BY <2>1, <3>1, <3>2
  <2>4. QED
    BY <2>2, <2>3
<1>4. CASE ReadSwapEvents \/ ReadFlipEvents \/ PresentLatest
  <2>1. \/ pc = "swaps" /\ pc' = "flips"
        \/ pc = "flips" /\ pc' = "present"
        \/ pc = "present" /\ pc' \in {"poll", "restore"}
    BY <1>4 DEF ReadSwapEvents, ReadFlipEvents, PresentLatest, FirstModeset, PageFlip,
                PageFlipUnsupported, PageFlipRetried, LeaveLoop
  <2>2. UNCHANGED <<child, sigHandler>>
    BY <1>4 DEF ReadSwapEvents, ReadFlipEvents, PresentLatest, heldVars
  <2>3. QED
    BY <2>1, <2>2 DEF StepsLeft
<1>5. CASE Exit \/ ParkWait \/ ParkDrop
  <2>1. \/ pc = "restore" /\ pc' = "rmfb"
        \/ pc = "rmfb" /\ pc' = "drop"
        \/ pc \in {"drop", "parkdrop"} /\ pc' = "done"
        \/ pc = "parkwait" /\ pc' = "parkdrop"
    BY <1>5 DEF Exit, RestoreCrtc, RemoveFramebuffers, DropMaster, ParkWait, ParkDrop,
                KernelCleanup, Go
  <2>2. QED
    BY <2>1 DEF StepsLeft
<1>6. QED
  BY <1>1, <1>2, <1>3, <1>4, <1>5 DEF Main, Loop, Park

\* Nobody else sets it back: not the panel, not the application, and no signal.
LEMMA OthersLeaveIt ==
  ASSUME Leaving, [Next]_vars, ~Main
  PROVE  StepsLeft' <= StepsLeft /\ (Leaving' \/ pc' = "done")
<1>1. CASE Killed
  <2>1. pc' = "done"
    BY <1>1, CleanupEffect DEF Killed
  <2>2. StepsLeft' = 0 /\ StepsLeft \in Nat
    BY <2>1 DEF StepsLeft
  <2>3. QED
    BY <2>1, <2>2
<1>2. CASE ~Killed
  <2>1. UNCHANGED <<pc, revents, sigHandler>>
    BY <1>2, AppEffect DEF Next, VBlank, vars, localVars, heldVars
  <2>2. child = "zombie" => child' = "zombie"
    BY <1>2 DEF Next, VBlank, App, AppCreateSwapchain, AppSwap, AppDestroySwapchain, AppRuns,
                ChildStops, ChildContinues, ChildExits, Alive, vars
  <2>3. StepsLeft' = StepsLeft /\ StepsLeft \in Nat
    BY <2>1 DEF StepsLeft
  <2>4. QED
    BY <2>1, <2>2, <2>3 DEF Leaving
<1>3. QED
  BY <1>1, <1>2

\* When the child has exited the presenter takes nine steps at the most, whatever else is
\* readable, and does not go back into its loop.  This is what ExitFollowsChild says but that
\* the next step can be taken (sgxmode.c:12, 206-213, 233-240, 307-319).
THEOREM ExitIsShort ==
  Spec => [][Leaving =>
               /\ Main => StepsLeft' < StepsLeft
               /\ StepsLeft' <= StepsLeft
               /\ Leaving' \/ pc' = "done"]_vars
<1>1. ASSUME TypeOK, WakeInv, [Next]_vars, Leaving
      PROVE  /\ Main => StepsLeft' < StepsLeft
             /\ StepsLeft' <= StepsLeft
             /\ Leaving' \/ pc' = "done"
  <2>1. StepsLeft \in Nat /\ StepsLeft' \in Nat
    BY DEF StepsLeft
  <2>2. QED
    BY <1>1, <2>1, LeavingSteps, OthersLeaveIt
<1>2. TypeOK /\ WakeInv /\ [Next]_vars =>
        [Leaving =>
           /\ Main => StepsLeft' < StepsLeft
           /\ StepsLeft' <= StepsLeft
           /\ Leaving' \/ pc' = "done"]_vars
  BY <1>1
<1>3. QED
  BY <1>2, TypeCorrect, ExitIsNoticed, PTL DEF Spec
=============================================================================
