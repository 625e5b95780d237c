----------------------------- MODULE KmsClients -----------------------------
(***************************************************************************)
(* The display tools that drive the panel through raw KMS ioctls and give  *)
(* it back: tools/kmsmode.c, tools/dc_nohw_kms_present.c and the presenter *)
(* inside tools/sgx-window-swap.c.  Several may be started on one card.    *)
(*                                                                         *)
(* None of them stops when SET_MASTER is refused, and each saves whatever  *)
(* the CRTC scans out to restore it later, so what they do to each other   *)
(* hangs on the order of their calls and on what DRM does at close.        *)
(***************************************************************************)
EXTENDS Integers

CONSTANTS
  Clients,      \* the processes, positive numbers
  NBUF,         \* phases of the scrolling grating
  MaxTimeouts,  \* bound: poll() calls that time out
  Faults        \* what may go wrong in this instance

ASSUME KmsAssumption ==
  /\ Clients \subseteq Nat \ {0}
  /\ NBUF \in Nat \ {0, 1}
  /\ MaxTimeouts \in Nat
  /\ Faults \subseteq {"setup", "getcrtc", "flip", "restore", "kill"}

VARIABLES
  \* which tool each process runs; main()'s locals: program counter, nbuf, saved,
  \* frames % nbuf, g_stop
  program, pc, nbuf, saved, phase, stop,
  \* the card: DRM master, framebuffers, the one scanned out, the queued flip,
  \* unread events of each file
  master, fbs, crtc, queued, events,
  \* poll() time-outs so far
  timeouts,
  \* history: the masters whose restoring SETCRTC failed
  unrestored

localVars == <<program, nbuf, saved, phase, stop, unrestored>>
cardVars  == <<master, fbs, crtc, queued, events>>
vars == <<pc, localVars, cardVars, timeouts>>

Nobody == 0

\* A framebuffer is its owner's index-th; the console's has no owner.
Fb(c, i) == [owner |-> c, index |-> i]
Console  == Fb(Nobody, 0)
Off      == Fb(-1, 0)
Buffers  == {Fb(c, i) : c \in Clients, i \in 0 .. NBUF - 1}

Tools == {"kmsmode", "kms_present", "window_swap"}
Steps == {"open", "master", "save", "buffers", "modeset", "signals", "hold",
          "loop", "flip", "poll", "read", "restore", "rmfb", "drop", "close", "done"}

Closed(c) == pc[c] \in {"open", "done"}

\* kmsmode flips between two or all of its buffers, or holds one.
BufferCounts(c) == IF program[c] = "kmsmode" THEN {1, 2, NBUF} ELSE {1}

Init ==
  /\ program \in [Clients -> Tools]
  /\ pc = [c \in Clients |-> "open"]
  /\ nbuf \in {n \in [Clients -> {1, 2, NBUF}] : \A c \in Clients : n[c] \in BufferCounts(c)}
  /\ saved = [c \in Clients |-> Off]
  /\ phase = [c \in Clients |-> 0]
  /\ stop = [c \in Clients |-> FALSE]
  /\ master = Nobody /\ fbs = {} /\ crtc = Console /\ queued = Off
  /\ events = [c \in Clients |-> 0]
  /\ timeouts = 0
  /\ unrestored = {}

-----------------------------------------------------------------------------
(* The order of the calls, common to the three tools.                      *)

\* Bugs to be caught: the CRTC is saved before SET_MASTER; the master is dropped
\* before the framebuffers go; the framebuffers go before the CRTC is restored.
Following_SaveFirst ==
  [open |-> "save", save |-> "master", master |-> "buffers",
   leave |-> "restore", restore |-> "rmfb", rmfb |-> "drop", drop |-> "close"]
Following_DropFirst ==
  [open |-> "master", master |-> "save", save |-> "buffers",
   leave |-> "restore", restore |-> "drop", drop |-> "rmfb", rmfb |-> "close"]
Following_RemoveFirst ==
  [open |-> "master", master |-> "save", save |-> "buffers",
   leave |-> "rmfb", rmfb |-> "restore", restore |-> "drop", drop |-> "close"]

Following ==
  [open |-> "master", master |-> "save", save |-> "buffers",
   leave |-> "restore", restore |-> "rmfb", rmfb |-> "drop", drop |-> "close"]

Go(c, next) == pc' = [pc EXCEPT ![c] = next]

At(c, step) == pc[c] = step

\* A failing call returns 1 from main(), or goes to out: in window_swap, where
\* the master is dropped; closing the card does the rest.
Fail(c) ==
  /\ Go(c, IF program[c] = "window_swap" THEN "drop" ELSE "close")
  /\ UNCHANGED <<localVars, cardVars>>

MayFail == "setup" \in Faults

-----------------------------------------------------------------------------
(* DRM: what the calls do to the card.                                     *)

\* DRM_MASTER calls are refused to everyone else; so are removed framebuffers.
MaySetCrtc(c, fb) == master = c /\ fb \in fbs \cup {Console}

\* The kernel's end of a file: its framebuffers go, and the CRTC goes off with
\* the one it scans out; its flip and its events go; its master is free.  When
\* the last file has gone fbcon takes the CRTC back.
KernelClose(c) ==
  /\ Go(c, "done")
  /\ fbs' = {fb \in fbs : fb.owner # c}
  /\ crtc' = IF \A d \in Clients \ {c} : Closed(d) THEN Console
             ELSE IF crtc.owner = c THEN Off ELSE crtc
  /\ queued' = IF queued.owner = c THEN Off ELSE queued
  /\ events' = [events EXCEPT ![c] = 0]
  /\ master' = IF master = c THEN Nobody ELSE master
  /\ UNCHANGED <<localVars, timeouts>>

\* The vertical blank latches the queued flip and queues its event.
VBlank ==
  /\ queued # Off
  /\ crtc' = queued
  /\ queued' = Off
  /\ events' = [events EXCEPT ![queued.owner] = @ + 1]
  /\ UNCHANGED <<pc, localVars, master, fbs, timeouts>>

-----------------------------------------------------------------------------
(* Set-up.                                                                 *)

\* The first to open the card is its master at once.
OpenCard(c) ==
  /\ At(c, "open")
  /\ \/ /\ Go(c, Following.open)
        /\ master' = IF master = Nobody THEN c ELSE master
     \/ MayFail /\ Go(c, "done") /\ UNCHANGED master
  /\ UNCHANGED <<localVars, fbs, crtc, queued, events, timeouts>>

\* Refused while another is the master, which only prints a warning.  Then the
\* connector and its CRTC are looked up.
SetMaster(c) ==
  /\ At(c, "master")
  /\ \/ /\ Go(c, Following.master)
        /\ master' = IF master = Nobody THEN c ELSE master
        /\ UNCHANGED <<localVars, fbs, crtc, queued, events>>
     \/ MayFail /\ Fail(c)
  /\ UNCHANGED timeouts

\* The result of GETCRTC is not checked; nothing saved is nothing to restore.
SaveCrtc(c) ==
  /\ At(c, "save")
  /\ Go(c, Following.save)
  /\ \E fb \in {crtc} \cup (IF "getcrtc" \in Faults THEN {Off} ELSE {}) :
       saved' = [saved EXCEPT ![c] = fb]
  /\ UNCHANGED <<program, nbuf, phase, stop, unrestored, cardVars, timeouts>>

BufferIndices(c) == 0 .. nbuf[c] - 1

\* The dumb buffers are created, or the dc_nohw buffer is imported.
CreateFramebuffers(c) ==
  /\ At(c, "buffers")
  /\ \/ /\ Go(c, "modeset")
        /\ fbs' = fbs \cup {Fb(c, i) : i \in BufferIndices(c)}
        /\ UNCHANGED <<localVars, master, crtc, queued, events>>
     \/ MayFail /\ Fail(c)
  /\ UNCHANGED timeouts

\* SETCRTC waits for a flip that is still queued.
SetCrtc(c) ==
  /\ At(c, "modeset")
  /\ \/ /\ MaySetCrtc(c, Fb(c, 0)) /\ queued = Off
        /\ Go(c, IF program[c] = "kmsmode" THEN "signals" ELSE "hold")
        /\ crtc' = Fb(c, 0)
        /\ UNCHANGED <<localVars, master, fbs, queued, events>>
     \/ /\ MayFail \/ ~MaySetCrtc(c, Fb(c, 0))
        /\ Fail(c)
  /\ UNCHANGED timeouts

InstallSignals(c) ==
  /\ At(c, "signals")
  /\ Go(c, IF nbuf[c] = 1 THEN "hold" ELSE "loop")
  /\ UNCHANGED <<localVars, cardVars, timeouts>>

\* sleep(), or a loop of short naps until the time is over or g_stop is set.
Hold(c) ==
  /\ At(c, "hold")
  /\ Go(c, Following.leave)
  /\ UNCHANGED <<localVars, cardVars, timeouts>>

-----------------------------------------------------------------------------
(* kmsmode's animation.                                                    *)

\* A bug to be caught: only the time ends the loop.
Stopped_TimeOnly(c) == FALSE

Stopped(c) == stop[c]

\* The time may be over at any look at the clock.
Loop(c) ==
  /\ At(c, "loop")
  /\ Go(c, Following.leave) \/ (~Stopped(c) /\ Go(c, "flip"))
  /\ UNCHANGED <<localVars, cardVars, timeouts>>

NextPhase(c, n) == (phase[c] + n) % nbuf[c]

\* EBUSY while a flip is queued, like any other error, ends the animation.
PageFlip(c) ==
  /\ At(c, "flip")
  /\ \/ /\ MaySetCrtc(c, Fb(c, NextPhase(c, 1))) /\ queued = Off
        /\ queued' = Fb(c, NextPhase(c, 1))
        /\ Go(c, "poll")
     \/ /\ \/ "flip" \in Faults
           \/ ~MaySetCrtc(c, Fb(c, NextPhase(c, 1)))
           \/ queued # Off
        /\ Go(c, Following.leave)
        /\ UNCHANGED queued
  /\ UNCHANGED <<localVars, master, fbs, crtc, events, timeouts>>

PollReady(c) ==
  /\ At(c, "poll") /\ events[c] > 0
  /\ Go(c, "read")
  /\ UNCHANGED <<localVars, cardVars, timeouts>>

\* After a second without an event the same phase is flipped to once more.
PollTimesOut(c) ==
  /\ At(c, "poll") /\ events[c] = 0
  /\ timeouts < MaxTimeouts /\ timeouts' = timeouts + 1
  /\ Go(c, "loop")
  /\ UNCHANGED <<localVars, cardVars>>

READ_EVENTS == 8   \* events of 32 bytes in a buffer of 256

\* A bug to be caught: every event read counts as a frame.
FramesRead_PerEvent(c) == events[c]

\* However many events there were, one frame is counted.
FramesRead(c) == 1

ReadEvents(c) ==
  /\ At(c, "read")
  /\ Go(c, "loop")
  /\ events' = [events EXCEPT ![c] = IF @ <= READ_EVENTS THEN 0 ELSE @ - READ_EVENTS]
  /\ phase' = [phase EXCEPT ![c] = NextPhase(c, FramesRead(c))]
  /\ UNCHANGED <<program, nbuf, saved, stop, unrestored, master, fbs, crtc, queued, timeouts>>

-----------------------------------------------------------------------------
(* Teardown.                                                               *)

\* A failure is printed or ignored, and the framebuffers go all the same.
RestoreCrtc(c) ==
  /\ At(c, "restore")
  /\ Go(c, Following.restore)
  /\ \/ /\ saved[c] # Off /\ MaySetCrtc(c, saved[c]) /\ queued = Off
        /\ crtc' = saved[c]
        /\ UNCHANGED unrestored
     \/ /\ saved[c] # Off /\ MaySetCrtc(c, saved[c]) /\ "restore" \in Faults
        /\ unrestored' = unrestored \cup {c}
        /\ UNCHANGED crtc
     \/ /\ saved[c] = Off \/ ~MaySetCrtc(c, saved[c])
        /\ UNCHANGED <<crtc, unrestored>>
  /\ UNCHANGED <<program, nbuf, saved, phase, stop, master, fbs, queued, events, timeouts>>

\* Removing the framebuffer that is scanned out turns the CRTC off, once a flip
\* to it has completed.
RemoveFramebuffers(c) ==
  /\ At(c, "rmfb")
  /\ queued.owner # c
  /\ Go(c, Following.rmfb)
  /\ fbs' = {fb \in fbs : fb.owner # c}
  /\ crtc' = IF crtc.owner = c THEN Off ELSE crtc
  /\ UNCHANGED <<localVars, master, queued, events, timeouts>>

DropMaster(c) ==
  /\ At(c, "drop")
  /\ Go(c, Following.drop)
  /\ master' = IF master = c THEN Nobody ELSE master
  /\ UNCHANGED <<localVars, fbs, crtc, queued, events, timeouts>>

CloseCard(c) == At(c, "close") /\ KernelClose(c)

-----------------------------------------------------------------------------
(* Signals.                                                                *)

Handled(c) ==
  program[c] = "kmsmode"
    /\ pc[c] \notin {"open", "master", "save", "buffers", "modeset", "signals", "done"}

\* SIGINT and SIGTERM set g_stop; a poll() they find asleep returns EINTR.
Interrupt(c) ==
  /\ Handled(c) /\ ~stop[c]
  /\ stop' = [stop EXCEPT ![c] = TRUE]
  /\ UNCHANGED pc \/ (At(c, "poll") /\ Go(c, "loop"))
  /\ UNCHANGED <<program, nbuf, saved, phase, unrestored, cardVars, timeouts>>

\* SIGKILL, or any of the three where no handler is installed.
Killed(c) == "kill" \in Faults /\ ~Closed(c) /\ KernelClose(c)

-----------------------------------------------------------------------------
Setup(c)    == SetMaster(c) \/ SaveCrtc(c) \/ CreateFramebuffers(c) \/ SetCrtc(c)
               \/ InstallSignals(c)
Animate(c)  == Loop(c) \/ PageFlip(c) \/ PollReady(c) \/ PollTimesOut(c) \/ ReadEvents(c)
Teardown(c) == RestoreCrtc(c) \/ RemoveFramebuffers(c) \/ DropMaster(c) \/ CloseCard(c)
Main(c)     == Setup(c) \/ Hold(c) \/ Animate(c) \/ Teardown(c)

Next ==
  \/ \E c \in Clients : OpenCard(c) \/ Main(c) \/ Interrupt(c) \/ Killed(c)
  \/ VBlank

Spec == Init /\ [][Next]_vars

\* A tool that was started runs, and the panel refreshes.  Nobody has to start
\* one, and the time of the animation need not ever be over.
FairSpec == Spec /\ WF_vars(VBlank) /\ \A c \in Clients : WF_vars(Main(c))

-----------------------------------------------------------------------------
(* What makes the tools correct.                                           *)

\* The values every variable takes; no slot past fb[NBUF] is used
\* (kmsmode.c:165, 257-259).
TypeOK ==
  /\ program \in [Clients -> Tools]
  /\ pc \in [Clients -> Steps]
  /\ nbuf \in [Clients -> {1, 2, NBUF}]
  /\ saved \in [Clients -> Buffers \cup {Console, Off}]
  /\ phase \in [Clients -> 0 .. NBUF - 1]
  /\ stop \in [Clients -> BOOLEAN]
  /\ master \in Clients \cup {Nobody}
  /\ fbs \subseteq Buffers
  /\ crtc \in Buffers \cup {Console, Off}
  /\ queued \in Buffers \cup {Off}
  /\ events \in [Clients -> Nat]
  /\ timeouts \in 0 .. MaxTimeouts
  /\ unrestored \subseteq Clients

\* Only the master's own, existing framebuffers are scanned out or about to be:
\* a tool that was refused the master leaves the panel alone, and one that gives
\* it up has taken its buffers off the panel (kmsmode.c:177-178, 366-379).
PanelIsMasters ==
  \A fb \in {crtc, queued} : fb \notin {Console, Off} => fb.owner = master /\ fb \in fbs

\* What the master will restore is the console or nothing, never the picture of
\* another tool, which would be gone by then (kmsmode.c:253-255, 366-370).
SavedIsConsole ==
  \A c \in Clients :
    master = c /\ pc[c] \notin {"open", "master", "save"} => saved[c] \in {Console, Off}

\* The panel goes dark only when a tool is killed, or takes its framebuffers away
\* having had nothing to restore or having failed to restore it: an orderly end
\* whose SETCRTC succeeds shows the console without a gap.  No tool stops at a
\* failed one, so the RMFB after it does darken the panel (kmsmode.c:365-379,
\* dc_nohw_kms_present.c:235, sgx-window-swap.c:424).
ConsoleKept ==
  [][crtc # Off /\ crtc' = Off =>
       \E c \in Clients :
         (At(c, "rmfb") /\ (saved[c] = Off \/ c \in unrestored)) \/ Killed(c)]_vars

\* The grating never jumps, whatever happens to the wait for a flip: the panel
\* goes on to the next phase or repeats the last one (kmsmode.c:335-352).
PhasesInOrder ==
  [][\A c \in Clients :
       crtc.owner = c /\ crtc'.owner = c
         => crtc'.index \in {crtc.index, (crtc.index + 1) % nbuf[c]}]_vars

\* Ctrl-C ends the animation and gives the panel back (kmsmode.c:44, 331, 365-380).
StopEnds == \A c \in Clients : stop[c] ~> pc[c] = "done"
=============================================================================
