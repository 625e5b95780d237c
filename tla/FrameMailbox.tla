---------------------------- MODULE FrameMailbox ----------------------------
(***************************************************************************)
(* What a free-running mailbox presenter promises, without saying how: an  *)
(* application completes frames 1, 2, 3, ...; the panel shows one of them; *)
(* frames may be skipped, but the panel only ever moves to a newer frame,  *)
(* and while the presenter is up it catches up with every completed frame. *)
(* tools/sgxmode.c states this in its header comment (lines 6-10); module  *)
(* Sgxmode is shown to implement it.                                       *)
(***************************************************************************)
EXTENDS Naturals

VARIABLES
  produced,   \* number of frames the application has completed
  shown,      \* the frame on the panel, 0 when the panel shows none
  up          \* the presenter owns the panel

mailboxVars == <<produced, shown, up>>

Init ==
  /\ produced = 0
  /\ shown = 0
  /\ up = TRUE

\* The application completes its next frame; nobody waits for anybody.
Complete ==
  /\ produced' = produced + 1
  /\ UNCHANGED <<shown, up>>

\* The panel moves to some newer completed frame, skipping any in between.
Present ==
  /\ up
  /\ \E n \in (shown + 1) .. produced : shown' = n
  /\ UNCHANGED <<produced, up>>

\* The presenter gives the panel back.
Release ==
  /\ up
  /\ up' = FALSE
  /\ shown' = 0
  /\ UNCHANGED produced

Next == Complete \/ Present \/ Release

Spec == Init /\ [][Next]_mailboxVars

FairSpec == Spec /\ WF_mailboxVars(Present)
=============================================================================
