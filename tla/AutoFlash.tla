------------------------------ MODULE AutoFlash ------------------------------
(***************************************************************************)
(* flash/recovery-autoflash.sh: wait for a CI build, download its image to *)
(* a USB stick, check it, write it to the SD card and verify the write.    *)
(*                                                                         *)
(* The script runs under set -e but without pipefail: a failing command    *)
(* ends it, a failing xz in front of a pipe does not.  Its trap on TERM    *)
(* runs cleanup, which unmounts the stick, and the script goes on.         *)
(***************************************************************************)
EXTENDS Naturals

CONSTANTS
  MaxRuns,   \* bound: CI runs of the workflow
  MaxPolls   \* polls that fit into WAIT_TIMEOUT

ASSUME AutoFlashAssumption == MaxRuns \in Nat \ {0} /\ MaxPolls \in Nat

VARIABLES
  \* the script: next command, $RUN_ID set, $run, polls made, $MOUNTED, $VERIFY,
  \* how it ended
  pc, named, run, polls, mountedVar, verify, outcome,
  \* the stick is mounted; where the downloaded files are; they are intact; the
  \* artifact has checksums
  mounted, files, intact, sums,
  \* the runs at GitHub
  runs,
  \* the SD card: its data, whether p1 and p2 look like vfat and ext4, in use;
  \* xz has read the image to its end while the card was written
  card, signed, busy, xzDone

scriptVars == <<named, run, polls, mountedVar, verify>>
fileVars   == <<files, intact, sums>>
cardVars   == <<card, signed, busy, xzDone>>
autoVars == <<pc, outcome, scriptVars, mounted, fileVars, runs, cardVars>>

Runs   == 1 .. MaxRuns
Latest == CHOOSE r \in Runs : runs[r] # "none" /\ \A s \in Runs : s > r => runs[s] = "none"

AutoInit ==
  /\ pc = "mount" /\ outcome = "none" /\ polls = 0
  /\ named \in BOOLEAN /\ run = IF named THEN 1 ELSE 0
  /\ mountedVar = FALSE /\ mounted = FALSE
  /\ verify \in {"sig", "full"}
  /\ files = "none" /\ intact \in BOOLEAN /\ sums \in BOOLEAN
  /\ runs = [r \in Runs |-> IF r = 1 THEN "running" ELSE "none"]
  /\ card \in {"old", "torn"} /\ signed \in BOOLEAN /\ busy \in BOOLEAN
  /\ xzDone = FALSE

-----------------------------------------------------------------------------
\* The EXIT trap.
AtExit == mounted' = (mounted /\ ~mountedVar)

EndScript(result) ==
  /\ pc' = "done"
  /\ outcome' = result
  /\ AtExit

Go(next) == pc' = next /\ UNCHANGED <<outcome, mounted>>

\* die, or set -e.
Die == EndScript("error")

MountUsb ==
  /\ pc = "mount"
  /\ pc' = "trap"
  /\ mounted' \in BOOLEAN /\ mountedVar' = mounted'
  /\ UNCHANGED <<outcome, named, run, polls, verify, fileVars, runs, cardVars>>

SetTrap ==
  /\ pc = "trap"
  /\ Go(IF named THEN "download" ELSE "wait")
  /\ UNCHANGED <<scriptVars, fileVars, runs, cardVars>>

\* A bug to be caught: the run is looked up once, its status at every poll.
Polled_FirstRun == IF run = 0 THEN Latest ELSE run

\* Run, status and conclusion come from one answer.
Polled == Latest

\* A bug to be caught: the deadline is computed at every turn of the loop.
PollsMade_Restarted == 0

PollsMade == polls + 1
Overdue   == polls >= MaxPolls

WaitForRun ==
  /\ pc = "wait"
  /\ run' = Polled
  /\ \/ runs[Latest] = "success" /\ Go("download") /\ UNCHANGED polls
     \/ runs[Latest] = "running" /\ ~Overdue /\ Go("wait") /\ polls' = PollsMade
     \/ /\ runs[Latest] = "failure" \/ (runs[Latest] = "running" /\ Overdue)
        /\ Die /\ UNCHANGED polls
  /\ UNCHANGED <<named, mountedVar, verify, fileVars, runs, cardVars>>

\* curl gives up after its retries: the assignment j=$(...) fails.
ApiFails ==
  /\ pc = "wait" /\ Die
  /\ UNCHANGED <<scriptVars, fileVars, runs, cardVars>>

\* $WORKDIR is the mount point, on the stick or, once that is gone, in tmpfs.
Download ==
  /\ pc = "download"
  /\ \/ files' = (IF mounted THEN "usb" ELSE "tmp") /\ Go("extract")
     \/ Die /\ UNCHANGED files
  /\ UNCHANGED <<scriptVars, intact, sums, runs, cardVars>>

Readable == files = "tmp" \/ (files = "usb" /\ mounted)

Extract ==
  /\ pc = "extract"
  /\ (Readable /\ Go("checksum")) \/ Die
  /\ UNCHANGED <<scriptVars, fileVars, runs, cardVars>>

Mismatch == sums /\ Readable /\ ~intact

\* Without SHA256SUMS the check is skipped: the artifact had none, or the stick
\* has gone before it was looked for.  If it goes later sha256sum fails.
Checksum ==
  /\ pc = "checksum"
  /\ IF Mismatch THEN Die ELSE Go("guard") \/ (sums /\ ~Readable /\ Die)
  /\ UNCHANGED <<scriptVars, fileVars, runs, cardVars>>

\* The target is a block device, not mounted, and not the root.
CheckTarget ==
  /\ pc = "guard"
  /\ IF busy THEN Die ELSE Go("write")
  /\ UNCHANGED <<scriptVars, fileVars, runs, cardVars>>

\* xz | dd: the status is dd's.  xz may stop anywhere: at once if it cannot open
\* the image, and if its data is bad or the stick fails; dd then writes the rest
\* of nothing and is content.
WriteCard ==
  /\ pc = "write"
  /\ \/ /\ Readable /\ intact /\ xzDone' = TRUE
        /\ card' = "new" /\ signed' = TRUE
        /\ Go("verify")
     \/ /\ \/ UNCHANGED <<card, signed>>
           \/ Readable /\ card' = "torn" /\ signed' \in BOOLEAN
        /\ \/ xzDone' = FALSE /\ Go("verify")
           \/ xzDone' \in {FALSE, Readable /\ intact} /\ Die
  /\ UNCHANGED <<scriptVars, fileVars, runs, busy>>

\* The signatures of p1 and p2.
VerifySignatures ==
  /\ pc = "verify" /\ verify = "sig"
  /\ IF signed THEN EndScript("success") ELSE Die
  /\ UNCHANGED <<scriptVars, fileVars, runs, cardVars>>

\* xz | cmp: only what xz delivers is compared, and "EOF on -" is expected.  A
\* card that differs passes if xz stops before the difference.
VerifyFull ==
  /\ pc = "verify" /\ verify = "full"
  /\ EndScript("success") \/ (Readable /\ card # "new" /\ Die)
  /\ UNCHANGED <<scriptVars, fileVars, runs, cardVars>>

-----------------------------------------------------------------------------
\* TERM: the trap runs between two commands, and the script goes on.  Before the
\* trap is set TERM ends it, and nothing is unmounted.
Term ==
  /\ \/ /\ pc \in {"mount", "trap"}
        /\ pc' = "done" /\ outcome' = "killed" /\ UNCHANGED mounted
     \/ /\ pc \notin {"mount", "trap", "done"}
        /\ mounted' = FALSE /\ UNCHANGED <<pc, outcome>>
  /\ UNCHANGED <<scriptVars, fileVars, runs, cardVars>>

\* GitHub: runs come to an end, and new ones begin.
CiStep ==
  /\ \/ \E result \in {"success", "failure"} :
          /\ runs[Latest] = "running"
          /\ runs' = [runs EXCEPT ![Latest] = result]
     \/ /\ Latest < MaxRuns
        /\ runs' = [runs EXCEPT ![Latest + 1] = "running"]
  /\ UNCHANGED <<pc, outcome, scriptVars, mounted, fileVars, cardVars>>

Script == MountUsb \/ SetTrap \/ WaitForRun \/ Download \/ Extract \/ Checksum
          \/ CheckTarget \/ WriteCard \/ VerifySignatures \/ VerifyFull

AutoNext == Script \/ ApiFails \/ Term \/ CiStep

AutoSpec == AutoInit /\ [][AutoNext]_autoVars

\* The script runs on; sleep and curl's retries come to an end.  GitHub owes
\* nothing.
AutoFairSpec == AutoSpec /\ WF_autoVars(Script)

-----------------------------------------------------------------------------
\* The values every variable takes; polls are counted up to the deadline
\* (recovery-autoflash.sh:83, 94).
AutoTypeOK ==
  /\ pc \in {"mount", "trap", "wait", "download", "extract", "checksum", "guard",
             "write", "verify", "done"}
  /\ outcome \in {"none", "error", "success", "killed"}
  /\ run \in 0 .. MaxRuns /\ polls \in 0 .. MaxPolls
  /\ {named, mountedVar, mounted, intact, sums, signed, busy, xzDone} \subseteq BOOLEAN
  /\ verify \in {"sig", "full"} /\ files \in {"none", "usb", "tmp"}
  /\ runs \in [Runs -> {"none", "running", "success", "failure"}]
  /\ card \in {"old", "torn", "new"}

\* While new runs begin and end, the run that is flashed is one that succeeded,
\* unless $RUN_ID names it (recovery-autoflash.sh:84-98).
RunSucceeded ==
  ~named /\ (pc \notin {"mount", "trap", "wait", "done"} \/ outcome = "success")
    => runs[run] = "success"

\* The wait is bounded also if the latest run never ends or new runs keep
\* beginning (recovery-autoflash.sh:83, 94).
WaitEnds == pc = "wait" ~> pc # "wait"

\* The only way to success without the whole image on the card is an xz that
\* stopped early; a dd that failed never is (recovery-autoflash.sh:24, 132).
WholeIfRead == outcome = "success" /\ xzDone => card = "new"

\* What the script claims by ending well: an image of a build that succeeded, and
\* all of it on the card unless xz stopped (recovery-autoflash.sh:84-98, 132).
SuccessIsRight == RunSucceeded /\ WholeIfRead
=============================================================================
