------------------------------- MODULE Sgxmode -------------------------------
(***************************************************************************)
(* The userspace presenter tools/sgxmode.c with its three partners: the    *)
(* dc_nohw exporter that queues swap events, the KMS driver that owns the  *)
(* panel, and the GLES application the presenter runs as its child.        *)
(*                                                                         *)
(* pc is where main() stands.  One iteration of its poll loop is five      *)
(* steps (poll, child check, swap events, flip events, present), so that   *)
(* the application, the vertical blank and SIGCHLD interleave between the  *)
(* poll() that sampled the descriptors and the read()s that follow it.     *)
(***************************************************************************)
EXTENDS Integers, Sequences

CONSTANTS
  MAX_BUFS,      \* size of fb_id[] and gem[]
  EV_BATCH,      \* events one read() of the exporter returns at most
  BufferCounts,  \* buffer_count values QUERY_ABI may report
  MaxSwaps,      \* bound: frames the application completes
  MaxChainOps,   \* bound: swapchain creations and destructions
  MaxSignals,    \* bound: unread bytes in the SIGCHLD self-pipe
  MaxFlipErrors, \* bound: PAGE_FLIP calls that fail
  Faults         \* which system calls may fail in this instance

FaultKinds == {"setup", "master", "getcrtc", "pipe", "poll", "modeset", "flip",
               "kill"}

ASSUME SgxmodeAssumption ==
  /\ MAX_BUFS \in Nat \ {0}
  /\ EV_BATCH \in Nat \ {0}
  /\ BufferCounts \subseteq Nat
  /\ MaxSwaps \in Nat /\ MaxChainOps \in Nat /\ MaxFlipErrors \in Nat
  /\ MaxSignals \in Nat \ {0}
  /\ Faults \subseteq FaultKinds

VARIABLES
  \* main()'s locals
  pc, revents, nbuf, saved, modeSet, flipPending, haveNew, latest,
  \* kernel objects the process holds
  fbs, master, sigHandler, sigBytes,
  \* the child process
  child,
  \* dc_nohw and the application behind it
  events, swaps, drawing, chainOps,
  \* KMS: the frame scanned out, the queued flip, unread flip-done events
  front, queued, flipDone, flipErrors

localVars  == <<pc, revents, nbuf, saved, modeSet, flipPending, haveNew, latest>>
heldVars   == <<fbs, master, sigHandler>>
appVars    == <<swaps, drawing, chainOps>>
kmsVars    == <<front, queued, flipDone>>
vars == <<localVars, heldVars, sigBytes, child, events, appVars, kmsVars, flipErrors>>

Index  == 0 .. MAX_BUFS - 1

\* A frame is a buffer index and the number of the swap that completed it.  The
\* code keeps the index only; the number is what the properties are about.
Frames  == [index : Index, seq : Nat]
Nothing == [index |-> 0, seq |-> 0]

\* What else the CRTC may scan out: the console's framebuffer, or nothing.
Console == [index |-> -1, seq |-> 0]
Blank   == [index |-> -2, seq |-> 0]

Events == [type : {"create", "destroy", "swap"}, index : Nat, seq : Nat]

SetupSteps == {"subscribe", "query", "card", "connector", "save", "import",
               "sigpipe", "fork"}
LoopSteps  == {"poll", "reap", "swaps", "flips", "present"}
ExitSteps  == {"restore", "rmfb", "drop"}
ParkSteps  == {"park", "parkfork", "parkwait", "parkdrop"}
Steps      == SetupSteps \cup LoopSteps \cup ExitSteps \cup ParkSteps \cup {"done"}

Alive == child \in {"running", "stopped"}

-----------------------------------------------------------------------------
Init ==
  /\ pc \in {"subscribe", "park"}      \* SGXMODE_PARK unset or set
  /\ revents = {} /\ nbuf = 0 /\ saved = FALSE
  /\ modeSet = FALSE /\ flipPending = FALSE /\ haveNew = FALSE
  /\ latest = Nothing
  /\ fbs = {} /\ master = FALSE /\ sigHandler = FALSE /\ sigBytes = 0
  /\ child = "none"
  /\ events = <<>> /\ swaps = 0 /\ drawing = 0 /\ chainOps = 0
  /\ front = Console /\ queued = Nothing /\ flipDone = 0 /\ flipErrors = 0

-----------------------------------------------------------------------------
(* main() up to the loop.  Every failing call returns 1; the kernel then   *)
(* closes the descriptors, which removes the framebuffers and the master.  *)

Return ==
  /\ pc' = "done"
  /\ fbs' = {}
  /\ master' = FALSE

Go(next) == pc' = next /\ UNCHANGED <<fbs, master>>

AbiRejected(count) == count = 0 \/ count > MAX_BUFS

Subscribe ==
  /\ pc = "subscribe"
  /\ Go("query") \/ ("setup" \in Faults /\ Return)
  /\ UNCHANGED <<revents, nbuf, saved, modeSet, flipPending, haveNew, latest,
                 sigHandler, sigBytes, child, events, appVars, kmsVars, flipErrors>>

QueryAbi ==
  /\ pc = "query"
  /\ \E count \in BufferCounts :
       /\ nbuf' = count
       /\ IF AbiRejected(count) THEN Return ELSE Go("card")
  /\ UNCHANGED <<revents, saved, modeSet, flipPending, haveNew, latest,
                 sigHandler, sigBytes, child, events, appVars, kmsVars, flipErrors>>

\* SET_MASTER may be refused; that only prints a warning.
OpenCard ==
  /\ pc = "card"
  /\ \/ /\ pc' = "connector"
        /\ master' \in BOOLEAN /\ (master' \/ "master" \in Faults)
        /\ UNCHANGED fbs
     \/ "setup" \in Faults /\ Return
  /\ UNCHANGED <<revents, nbuf, saved, modeSet, flipPending, haveNew, latest,
                 sigHandler, sigBytes, child, events, appVars, kmsVars, flipErrors>>

FindConnectorAndCrtc ==
  /\ pc = "connector"
  /\ Go("save") \/ ("setup" \in Faults /\ Return)
  /\ UNCHANGED <<revents, nbuf, saved, modeSet, flipPending, haveNew, latest,
                 sigHandler, sigBytes, child, events, appVars, kmsVars, flipErrors>>

\* The result of GETCRTC is not checked: after a failure, or when nothing was on
\* the CRTC, there is nothing valid to restore.
SaveCrtc ==
  /\ pc = "save"
  /\ saved' \in BOOLEAN /\ (saved' \/ "getcrtc" \in Faults)
  /\ Go("import")
  /\ UNCHANGED <<revents, nbuf, modeSet, flipPending, haveNew, latest,
                 sigHandler, sigBytes, child, events, appVars, kmsVars, flipErrors>>

\* A bug to be caught: the import loop stops one buffer short.
LastImport_OffByOne(i) == i >= nbuf - 2

LastImport(i) == i = nbuf - 1

\* Export, import and wrap the next buffer, in index order.
ImportBuffer ==
  /\ pc = "import"
  /\ \E i \in 0 .. nbuf - 1 :
       /\ \A j \in 0 .. nbuf - 1 : j \in fbs <=> j < i
       /\ \/ /\ fbs' = fbs \cup {i}
             /\ pc' = IF LastImport(i) THEN "sigpipe" ELSE "import"
             /\ UNCHANGED master
          \/ "setup" \in Faults /\ Return
  /\ UNCHANGED <<revents, nbuf, saved, modeSet, flipPending, haveNew, latest,
                 sigHandler, sigBytes, child, events, appVars, kmsVars, flipErrors>>

\* If pipe() fails the handler is not installed, and nothing says so.
InstallSigchld ==
  /\ pc = "sigpipe"
  /\ sigHandler' \in BOOLEAN /\ (sigHandler' \/ "pipe" \in Faults)
  /\ Go("fork")
  /\ UNCHANGED <<revents, nbuf, saved, modeSet, flipPending, haveNew, latest,
                 sigBytes, child, events, appVars, kmsVars, flipErrors>>

\* The child may be scheduled, run and exit before the parent's next step.
Fork ==
  /\ pc = "fork"
  /\ \/ child' = "running" /\ Go("poll")
     \/ "setup" \in Faults /\ Return /\ UNCHANGED child
  /\ UNCHANGED <<revents, nbuf, saved, modeSet, flipPending, haveNew, latest,
                 sigHandler, sigBytes, events, appVars, kmsVars, flipErrors>>

-----------------------------------------------------------------------------
(* The poll loop.                                                           *)

Readable ==
  {fd \in {"ctrl", "card", "sig"} :
     \/ fd = "ctrl" /\ events # <<>>
     \/ fd = "card" /\ flipDone > 0
     \/ fd = "sig"  /\ sigBytes > 0}

\* A bug to be caught: the framebuffers go before the console is restored.
LeaveLoop_Unrestored == pc' = "rmfb"

\* break: on to the teardown.
LeaveLoop == pc' = "restore"

\* poll() reports what is readable now; with nothing readable it times out.  An
\* EINTR is retried and changes nothing.
Poll ==
  /\ pc = "poll"
  /\ \/ revents' = Readable /\ pc' = "reap"
     \/ "poll" \in Faults /\ LeaveLoop /\ UNCHANGED revents
  /\ UNCHANGED <<nbuf, saved, modeSet, flipPending, haveNew, latest, heldVars,
                 sigBytes, child, events, appVars, kmsVars, flipErrors>>

\* A bug to be caught: waitpid is called only on an otherwise quiet wake-up.
ChildGone_WhenQuiet == revents = {"sig"} /\ child = "zombie"

\* A SIGCHLD that is no exit (the child stopped) leaves waitpid with nothing.
ChildGone == "sig" \in revents /\ child = "zombie"

SIG_READ == 16   \* bytes drained from the self-pipe at a time

ReapChild ==
  /\ pc = "reap"
  /\ sigBytes' = IF "sig" \in revents /\ sigBytes <= SIG_READ THEN 0
                 ELSE IF "sig" \in revents THEN sigBytes - SIG_READ ELSE sigBytes
  /\ IF ChildGone
       THEN child' = "reaped" /\ LeaveLoop
       ELSE pc' = "swaps" /\ UNCHANGED child
  /\ UNCHANGED <<revents, nbuf, saved, modeSet, flipPending, haveNew, latest,
                 heldVars, events, appVars, kmsVars, flipErrors>>

BatchLen == IF Len(events) < EV_BATCH THEN Len(events) ELSE EV_BATCH

UsableSwap(i) == events[i].type = "swap" /\ events[i].index < nbuf

\* A bug to be caught: the first usable swap of the batch wins.
TakeLatest_First ==
  \/ /\ \E i \in 1 .. BatchLen :
          /\ UsableSwap(i)
          /\ \A j \in 1 .. BatchLen : UsableSwap(j) => i <= j
          /\ latest' = [index |-> events[i].index, seq |-> events[i].seq]
     /\ haveNew' = TRUE
  \/ /\ \A i \in 1 .. BatchLen : ~UsableSwap(i)
     /\ UNCHANGED <<latest, haveNew>>

\* The last usable swap of the batch overwrites the mailbox.
TakeLatest ==
  \/ /\ \E i \in 1 .. BatchLen :
          /\ UsableSwap(i)
          /\ \A j \in 1 .. BatchLen : UsableSwap(j) => j <= i
          /\ latest' = [index |-> events[i].index, seq |-> events[i].seq]
     /\ haveNew' = TRUE
  \/ /\ \A i \in 1 .. BatchLen : ~UsableSwap(i)
     /\ UNCHANGED <<latest, haveNew>>

ReadSwapEvents ==
  /\ pc = "swaps"
  /\ pc' = "flips"
  /\ IF "ctrl" \in revents
       THEN TakeLatest /\ events' = SubSeq(events, BatchLen + 1, Len(events))
       ELSE UNCHANGED <<latest, haveNew, events>>
  /\ UNCHANGED <<revents, nbuf, saved, modeSet, flipPending, heldVars, sigBytes,
                 child, appVars, kmsVars, flipErrors>>

\* A bug to be caught: any wake-up is taken for a flip-done event.
FlipCompleted_AnyWake == revents # {}

FlipCompleted == "card" \in revents

ReadFlipEvents ==
  /\ pc = "flips"
  /\ pc' = "present"
  /\ flipPending' = IF FlipCompleted THEN FALSE ELSE flipPending
  /\ flipDone' = IF "card" \in revents THEN 0 ELSE flipDone
  /\ UNCHANGED <<revents, nbuf, saved, modeSet, haveNew, latest, heldVars, sigBytes,
                 child, events, appVars, front, queued, flipErrors>>

\* A SETCRTC is refused without master; it may also fail for other reasons.
ModesetMayFail == ~master \/ "modeset" \in Faults

\* The first frame sets the mode; if that fails the loop is left.
FirstModeset ==
  /\ ~modeSet
  /\ \/ /\ master
        /\ front' = latest
        /\ modeSet' = TRUE
        /\ haveNew' = FALSE
        /\ pc' = "poll"
     \/ /\ ModesetMayFail
        /\ LeaveLoop
        /\ UNCHANGED <<front, modeSet, haveNew>>
  /\ UNCHANGED <<flipPending, queued, flipErrors>>

\* The kernel takes a flip when none is queued.
PageFlip ==
  /\ modeSet
  /\ queued = Nothing
  /\ queued' = latest
  /\ flipPending' = TRUE
  /\ haveNew' = FALSE
  /\ pc' = "poll"
  /\ UNCHANGED <<modeSet, front, flipErrors>>

\* EINVAL or ENOSYS: set the CRTC instead, whose failure is only printed.
PageFlipUnsupported ==
  /\ modeSet
  /\ "flip" \in Faults /\ flipErrors < MaxFlipErrors
  /\ flipErrors' = flipErrors + 1
  /\ haveNew' = FALSE
  /\ \/ queued = Nothing /\ front' = latest
     \/ ModesetMayFail /\ UNCHANGED front
  /\ pc' = "poll"
  /\ UNCHANGED <<modeSet, flipPending, queued>>

\* Any other error (EBUSY while a flip is queued, say) leaves the frame in the
\* mailbox for the next turn of the loop.
PageFlipRetried ==
  /\ modeSet
  /\ \/ "flip" \in Faults /\ flipErrors < MaxFlipErrors /\ flipErrors' = flipErrors + 1
     \/ queued # Nothing /\ UNCHANGED flipErrors
  /\ pc' = "poll"
  /\ UNCHANGED <<modeSet, flipPending, haveNew, front, queued>>

\* A bug to be caught: a frame is looked at only on the wake-up that brought it.
Presentable_OnSwapOnly == haveNew /\ ~flipPending /\ "ctrl" \in revents

Presentable == haveNew /\ ~flipPending

PresentLatest ==
  /\ pc = "present"
  /\ IF Presentable
       THEN FirstModeset \/ PageFlip \/ PageFlipUnsupported \/ PageFlipRetried
       ELSE /\ pc' = "poll"
            /\ UNCHANGED <<modeSet, flipPending, haveNew, front, queued, flipErrors>>
  /\ UNCHANGED <<revents, nbuf, saved, latest, heldVars, sigBytes, child, events,
                 appVars, flipDone>>

-----------------------------------------------------------------------------
(* Leaving the loop.  The child is not told, nor waited for.                *)

\* Setting the saved CRTC waits for a flip that is still queued.
RestoreCrtc ==
  /\ pc = "restore"
  /\ pc' = "rmfb"
  /\ \/ saved /\ master /\ queued = Nothing /\ front' = Console
     \/ (~saved \/ ModesetMayFail) /\ UNCHANGED front
  /\ UNCHANGED <<revents, nbuf, saved, modeSet, flipPending, haveNew, latest,
                 heldVars, sigBytes, child, events, appVars, queued, flipDone, flipErrors>>

\* Removing a framebuffer that is scanned out turns the CRTC off.
RemoveFramebuffers ==
  /\ pc = "rmfb"
  /\ queued = Nothing
  /\ pc' = "drop"
  /\ fbs' = {}
  /\ front' = IF front.seq > 0 THEN Blank ELSE front
  /\ UNCHANGED <<revents, nbuf, saved, modeSet, flipPending, haveNew, latest,
                 master, sigHandler, sigBytes, child, events, appVars, queued,
                 flipDone, flipErrors>>

\* The kernel gives the panel back to fbcon with the last descriptor.
KernelCleanup ==
  /\ pc' = "done"
  /\ fbs' = {}
  /\ master' = FALSE
  /\ front' = Console
  /\ queued' = Nothing
  /\ flipDone' = 0
  /\ UNCHANGED <<revents, nbuf, saved, modeSet, flipPending, haveNew, latest,
                 sigHandler, sigBytes, child, events, appVars, flipErrors>>

DropMaster == pc = "drop" /\ KernelCleanup

\* The presenter is killed; its child lives on.
Killed == "kill" \in Faults /\ pc # "done" /\ KernelCleanup

-----------------------------------------------------------------------------
(* SGXMODE_PARK: hold the master, run the child, let the kernel present.    *)

ParkOpen ==
  /\ pc = "park"
  /\ \/ /\ pc' = "parkfork"
        /\ master' \in BOOLEAN /\ (master' \/ "master" \in Faults)
        /\ UNCHANGED fbs
     \/ "setup" \in Faults /\ Return
  /\ UNCHANGED <<revents, nbuf, saved, modeSet, flipPending, haveNew, latest,
                 sigHandler, sigBytes, child, events, appVars, kmsVars, flipErrors>>

ParkFork ==
  /\ pc = "parkfork"
  /\ \/ child' = "running" /\ Go("parkwait")
     \/ "setup" \in Faults /\ Return /\ UNCHANGED child
  /\ UNCHANGED <<revents, nbuf, saved, modeSet, flipPending, haveNew, latest,
                 sigHandler, sigBytes, events, appVars, kmsVars, flipErrors>>

ParkWait ==
  /\ pc = "parkwait"
  /\ child = "zombie"
  /\ child' = "reaped"
  /\ Go("parkdrop")
  /\ UNCHANGED <<revents, nbuf, saved, modeSet, flipPending, haveNew, latest,
                 sigHandler, sigBytes, events, appVars, kmsVars, flipErrors>>

ParkDrop == pc = "parkdrop" /\ KernelCleanup

-----------------------------------------------------------------------------
(* The partners.                                                            *)

\* The vertical blank latches the queued flip and queues its event.
VBlank ==
  /\ queued # Nothing
  /\ front' = queued
  /\ queued' = Nothing
  /\ flipDone' = flipDone + 1
  /\ UNCHANGED <<localVars, heldVars, sigBytes, child, events, appVars, flipErrors>>

HasChain == chainOps % 2 = 1

\* The application can reach dc_nohw while it runs and someone has subscribed.
AppRuns == child = "running" /\ pc \in LoopSteps \cup ExitSteps

AppCreateSwapchain ==
  /\ AppRuns /\ ~HasChain /\ chainOps < MaxChainOps
  /\ chainOps' = chainOps + 1
  /\ drawing' \in 0 .. nbuf - 1
  /\ events' = Append(events, [type |-> "create", index |-> nbuf, seq |-> swaps])
  /\ UNCHANGED <<localVars, heldVars, sigBytes, child, swaps, kmsVars, flipErrors>>

\* eglSwapBuffers completes at once: the application draws on, in any buffer but
\* the one it has just completed (the only one, if the chain has one).
AppSwap ==
  /\ AppRuns /\ HasChain /\ swaps < MaxSwaps
  /\ swaps' = swaps + 1
  /\ events' = Append(events, [type |-> "swap", index |-> drawing, seq |-> swaps + 1])
  /\ \E next \in 0 .. nbuf - 1 :
       /\ next # drawing \/ nbuf = 1
       /\ drawing' = next
  /\ UNCHANGED <<localVars, heldVars, sigBytes, child, chainOps, kmsVars, flipErrors>>

AppDestroySwapchain ==
  /\ AppRuns /\ HasChain /\ chainOps < MaxChainOps
  /\ chainOps' = chainOps + 1
  /\ events' = Append(events, [type |-> "destroy", index |-> 0, seq |-> swaps])
  /\ UNCHANGED <<localVars, heldVars, sigBytes, child, swaps, drawing, kmsVars, flipErrors>>

\* SIGCHLD runs the handler, if there is one, before main() takes its next step.
Sigchld ==
  /\ sigBytes < MaxSignals
  /\ sigBytes' = IF sigHandler /\ pc # "done" THEN sigBytes + 1 ELSE sigBytes

ChildStops ==
  /\ child = "running" /\ child' = "stopped" /\ Sigchld
  /\ sigBytes + 1 < MaxSignals
  /\ UNCHANGED <<localVars, heldVars, events, appVars, kmsVars, flipErrors>>

ChildContinues ==
  /\ child = "stopped" /\ child' = "running" /\ Sigchld
  /\ sigBytes + 1 < MaxSignals
  /\ UNCHANGED <<localVars, heldVars, events, appVars, kmsVars, flipErrors>>

\* A child whose execvp() fails exits like any other.
ChildExits ==
  /\ Alive /\ child' = "zombie" /\ Sigchld
  /\ UNCHANGED <<localVars, heldVars, events, appVars, kmsVars, flipErrors>>

-----------------------------------------------------------------------------
Setup == Subscribe \/ QueryAbi \/ OpenCard \/ FindConnectorAndCrtc \/ SaveCrtc
         \/ ImportBuffer \/ InstallSigchld \/ Fork
Loop  == Poll \/ ReapChild \/ ReadSwapEvents \/ ReadFlipEvents \/ PresentLatest
Exit  == RestoreCrtc \/ RemoveFramebuffers \/ DropMaster
Park  == ParkOpen \/ ParkFork \/ ParkWait \/ ParkDrop
Main  == Setup \/ Loop \/ Exit \/ Park

App == AppCreateSwapchain \/ AppSwap \/ AppDestroySwapchain
       \/ ChildStops \/ ChildContinues \/ ChildExits

Next == Main \/ Killed \/ VBlank \/ App

Spec == Init /\ [][Next]_vars

\* The presenter runs whenever it can, poll() times out, the panel refreshes; the
\* application owes nobody anything.
FairSpec == Spec /\ WF_vars(Main) /\ WF_vars(VBlank)

-----------------------------------------------------------------------------
(* What makes the presenter correct.                                        *)

\* The values every variable takes.  fb_id[] and gem[] are never written past
\* their end (sgxmode.c:129, 182-202).
TypeOK ==
  /\ pc \in Steps
  /\ revents \subseteq {"ctrl", "card", "sig"}
  /\ nbuf \in Nat
  /\ saved \in BOOLEAN /\ modeSet \in BOOLEAN /\ flipPending \in BOOLEAN
  /\ haveNew \in BOOLEAN /\ master \in BOOLEAN /\ sigHandler \in BOOLEAN
  /\ latest \in Frames
  /\ fbs \subseteq Index
  /\ sigBytes \in 0 .. MaxSignals
  /\ child \in {"none", "running", "stopped", "zombie", "reaped"}
  /\ events \in Seq(Events)
  /\ swaps \in 0 .. MaxSwaps
  /\ drawing \in Nat
  /\ chainOps \in 0 .. MaxChainOps
  /\ front \in Frames \cup {Console, Blank}
  /\ queued \in Frames
  /\ flipDone \in Nat
  /\ flipErrors \in 0 .. MaxFlipErrors

\* flip_pending is exact: it is set while, and only while, a flip is queued in
\* the kernel or its event is unread, and there is never more than one of the
\* two.  PAGE_FLIP is therefore never called into EBUSY (sgxmode.c:255-270).
FlipPacing ==
  pc \in LoopSteps =>
    /\ flipPending <=> queued # Nothing \/ flipDone > 0
    /\ flipDone = 0 \/ (flipDone = 1 /\ queued = Nothing)

\* What is scanned out or about to be is a completed frame in a buffer this
\* process has wrapped in a framebuffer, and it holds the master: no index from
\* the exporter reaches fb_id[] past the imported part (sgxmode.c:181-202, 248).
ScanoutOwned ==
  \A f \in {front, queued} :
    f \notin {Console, Blank, Nothing} => f.index \in fbs /\ master /\ f.seq > 0

\* The loop never goes to sleep on a frame it could have shown: at poll() a full
\* mailbox means a flip is pending or a flip has failed (sgxmode.c:269-304).
NoIdleFrame == pc = "poll" /\ haveNew => flipPending \/ flipErrors > 0

\* The panel does not go dark on the way back to the console: the saved CRTC is
\* restored before its framebuffers are removed (sgxmode.c:307-319).
NeverDark == front = Blank => ~saved \/ "modeset" \in Faults

\* The child's exit always ends the presenter, whatever else arrives with the
\* signal, unless no handler could be installed (sgxmode.c:12, 206-213, 233-240).
ExitFollowsChild ==
  child = "zombie" /\ (sigHandler \/ pc \in ParkSteps) ~> pc = "done"

\* The presenter is a mailbox: frames are skipped, never reordered, repeated or
\* invented, and the newest one is shown in the end (sgxmode.c:6-10).
Mailbox == INSTANCE FrameMailbox WITH
  produced <- swaps,
  up       <- pc \notin {"rmfb", "drop", "done"},
  shown    <- IF pc \in {"rmfb", "drop", "done"} THEN 0 ELSE front.seq

ImplementsMailbox == Mailbox!FairSpec
=============================================================================
