-------------------------------- MODULE Kiosk --------------------------------
(***************************************************************************)
(* The kiosk session script, rootfs/devuan/kiosk: the commands start and   *)
(* stop, the session they begin and end (launcher, application, launcher,  *)
(* ...), the hotkey watcher beside an application, and the virtual         *)
(* terminal all of them take turns with.                                   *)
(*                                                                         *)
(* A session is a shell process.  Between two of its commands it looks at  *)
(* pending signals first: every step of the script therefore requires that *)
(* no TERM is pending, and Trap takes a pending one.  wait is interrupted  *)
(* by it.  The shell runs the EXIT trap once: a TERM taken while cleanup   *)
(* runs exits for good and leaves the rest of cleanup undone ("cut").      *)
(***************************************************************************)
EXTENDS Naturals, FiniteSets

CONSTANTS
  Clients,      \* shells that issue kiosk start and kiosk stop
  MaxCommands,  \* bound: commands issued in all
  MaxHasty,     \* bound: the same when a start overlaps the one before it
  MaxSessions   \* bound: sessions begun

ASSUME KioskAssumption ==
  /\ MaxCommands \in Nat /\ MaxHasty \in 0 .. MaxCommands /\ MaxSessions \in Nat

Sessions == 1 .. MaxSessions

VARIABLES
  \* the clients; whether a start was issued before the last one had settled
  client, commands, hasty,
  \* the sessions: program counter, pending TERM, $app set, fails, program kind
  pc, term, known, fails, kind,
  \* the process group a session started last, and its hotkey watcher
  group, watcher,
  \* $PIDFILE, $KIOSK_RESULT, the terminal's mode and the active terminal
  pidfile, result, text, active

clientVars  == <<client, commands, hasty>>
sessionVars == <<pc, term, known, fails, kind>>
groupVars   == <<group, watcher>>
fileVars    == <<pidfile, result>>
vtVars      == <<text, active>>
vars == <<clientVars, sessionVars, groupVars, fileVars, vtVars>>

NoSession == 0
Choices   == {"console", "app", "unknown"}

LoopSteps  == {"top", "spawn", "note", "wait", "choice", "pause"}
CleanSteps == {"clean", "grace", "release", "text", "chvt", "rm"}
Over       == {"ended", "cut"}

Alive(s) == pc[s] \notin {"none"} \cup Over

\* The process group still has a member.
Populated(s) == group[s] \in {"forked", "up", "leaderless"}

Init ==
  /\ client = [c \in Clients |-> "idle"] /\ commands = 0 /\ hasty = FALSE
  /\ pc = [s \in Sessions |-> "none"]
  /\ term = [s \in Sessions |-> FALSE]
  /\ known = [s \in Sessions |-> FALSE]
  /\ fails = [s \in Sessions |-> 0]
  /\ kind = [s \in Sessions |-> "launcher"]
  /\ group = [s \in Sessions |-> "none"]
  /\ watcher = [s \in Sessions |-> "none"]
  /\ pidfile = NoSession /\ result = "none"
  /\ text = TRUE /\ active = "console"

-----------------------------------------------------------------------------
(* kiosk start and kiosk stop.                                             *)

Running == pidfile # NoSession /\ Alive(pidfile)

\* A start has settled when its session has written $PIDFILE.
Settled == /\ \A s \in Sessions : pc[s] # "new"
           /\ \A c \in Clients : client[c] \notin {"graphics", "openvt"}

Issue(c, overlapping) ==
  /\ client[c] = "idle"
  /\ hasty' = (hasty \/ overlapping)
  /\ commands < IF hasty' THEN MaxHasty ELSE MaxCommands
  /\ commands' = commands + 1

Start(c) ==
  /\ Issue(c, ~Settled)
  /\ client' = [client EXCEPT ![c] = IF Running THEN "idle" ELSE "graphics"]
  /\ UNCHANGED <<sessionVars, groupVars, fileVars, vtVars>>

StartGraphics(c) ==
  /\ client[c] = "graphics"
  /\ client' = [client EXCEPT ![c] = "openvt"]
  /\ text' = FALSE
  /\ UNCHANGED <<commands, hasty, sessionVars, groupVars, fileVars, active>>

StartOpenvt(c) ==
  /\ client[c] = "openvt"
  /\ client' = [client EXCEPT ![c] = "idle"]
  /\ \E s \in Sessions :
       /\ pc[s] = "none" /\ \A r \in 1 .. s - 1 : pc[r] # "none"
       /\ pc' = [pc EXCEPT ![s] = "new"]
  /\ active' = "kiosk"
  /\ UNCHANGED <<commands, hasty, term, known, fails, kind, groupVars, fileVars, text>>

Stop(c) ==
  /\ Issue(c, FALSE)
  /\ client' = [client EXCEPT ![c] = IF Running THEN "kill" ELSE "idle"]
  /\ UNCHANGED <<sessionVars, groupVars, fileVars, vtVars>>

\* Reads $PIDFILE again.  Before the traps are set TERM kills the shell outright.
StopKill(c) ==
  /\ client[c] = "kill"
  /\ client' = [client EXCEPT ![c] = "idle"]
  /\ IF Running
       THEN IF pc[pidfile] = "untrapped"
              THEN pc' = [pc EXCEPT ![pidfile] = "cut"] /\ UNCHANGED term
              ELSE term' = [term EXCEPT ![pidfile] = TRUE] /\ UNCHANGED pc
       ELSE UNCHANGED <<pc, term>>
  /\ UNCHANGED <<commands, hasty, known, fails, kind, groupVars, fileVars, vtVars>>

-----------------------------------------------------------------------------
(* The session.                                                             *)

\* Session s is at step p, with no TERM to look at, and goes on to one of next.
Step(s, p, next) ==
  /\ pc[s] = p
  /\ ~term[s]
  /\ \E q \in next : pc' = [pc EXCEPT ![s] = q]
  /\ UNCHANGED <<clientVars, term>>

WritePidfile(s) ==
  /\ Step(s, "new", {"untrapped"})
  /\ pidfile' = s
  /\ UNCHANGED <<known, fails, kind, groupVars, result, vtVars>>

\* trap, trap and exec 4<>card0, whose failure ends the shell.
SetTraps(s) ==
  /\ Step(s, "untrapped", {"top", "clean"})
  /\ UNCHANGED <<known, fails, kind, groupVars, fileVars, vtVars>>

RemoveResult(s) ==
  /\ Step(s, "top", {"spawn"})
  /\ kind' = [kind EXCEPT ![s] = "launcher"]
  /\ result' = "none"
  /\ UNCHANGED <<known, fails, groupVars, pidfile, vtVars>>

\* setsid "$@" & : the process exists, its group not yet, and $app is not set.
Spawn(s) ==
  /\ Step(s, "spawn", {"note"})
  /\ group' = [group EXCEPT ![s] = "forked"]
  /\ UNCHANGED <<known, fails, kind, watcher, fileVars, vtVars>>

\* app=$! and, for an application, the watcher.
Note(s) ==
  /\ Step(s, "note", {"wait"})
  /\ known' = [known EXCEPT ![s] = TRUE]
  /\ watcher' = [watcher EXCEPT ![s] = IF kind[s] = "app" THEN "watching" ELSE @]
  /\ UNCHANGED <<fails, kind, group, fileVars, vtVars>>

\* A bug to be caught: kill -KILL "$app" where the group -"$app" is meant.
Reap_LeaderOnly(s) ==
  /\ group[s] \in {"leaderless", "dead"}
  /\ Step(s, "wait", {IF kind[s] = "launcher" THEN "choice" ELSE "top"})
  /\ watcher' = [watcher EXCEPT ![s] = "none"]
  /\ known' = [known EXCEPT ![s] = FALSE]
  /\ UNCHANGED <<fails, kind, group, fileVars, vtVars>>

\* wait returns with the leader; the watcher and what is left of the group are killed.
Reap(s) ==
  /\ group[s] \in {"leaderless", "dead"}
  /\ Step(s, "wait", {IF kind[s] = "launcher" THEN "choice" ELSE "top"})
  /\ group' = [group EXCEPT ![s] = "dead"]
  /\ watcher' = [watcher EXCEPT ![s] = "none"]
  /\ known' = [known EXCEPT ![s] = FALSE]
  /\ UNCHANGED <<fails, kind, fileVars, vtVars>>

Choose(s) ==
  \/ /\ result = "console"
     /\ Step(s, "choice", {"clean"})
     /\ UNCHANGED <<fails, kind>>
  \/ /\ result = "none"
     /\ fails' = [fails EXCEPT ![s] = @ + 1]
     /\ Step(s, "choice", {IF fails[s] + 1 >= 3 THEN "clean" ELSE "pause"})
     /\ UNCHANGED kind
  \/ /\ result = "unknown"
     /\ fails' = [fails EXCEPT ![s] = 0]
     /\ Step(s, "choice", {"top"})
     /\ UNCHANGED kind
  \/ /\ result = "app"
     /\ fails' = [fails EXCEPT ![s] = 0]
     /\ Step(s, "choice", {"spawn"})
     /\ kind' = [kind EXCEPT ![s] = "app"]

ReadChoice(s) ==
  /\ Choose(s)
  /\ UNCHANGED <<known, groupVars, fileVars, vtVars>>

Pause(s) ==
  /\ Step(s, "pause", {"top"})
  /\ UNCHANGED <<known, fails, kind, groupVars, fileVars, vtVars>>

\* A bug to be caught: the program runs in the foreground, where a trap waits.
Interruptible_ForegroundOnly(s) == pc[s] \in LoopSteps \ {"wait"}

Interruptible(s) == pc[s] \in LoopSteps

\* The trap on TERM: exit 0, and so to the EXIT trap, or out of it.
Trap(s) ==
  /\ term[s]
  /\ \/ Interruptible(s) /\ pc' = [pc EXCEPT ![s] = "clean"]
     \/ pc[s] \in CleanSteps /\ pc' = [pc EXCEPT ![s] = "cut"]
  /\ term' = [term EXCEPT ![s] = FALSE]
  /\ UNCHANGED <<clientVars, known, fails, kind, groupVars, fileVars, vtVars>>

-----------------------------------------------------------------------------
(* cleanup.                                                                 *)

\* kill -TERM, which the group may ignore, then sleep 2.
CleanTerm(s) ==
  /\ Step(s, "clean", {IF known[s] THEN "grace" ELSE "release"})
  /\ UNCHANGED <<known, fails, kind, groupVars, fileVars, vtVars>>

\* By now setsid has run: it has had two seconds.
CleanKill(s) ==
  /\ group[s] # "forked"
  /\ Step(s, "grace", {"release"})
  /\ group' = [group EXCEPT ![s] = "dead"]
  /\ UNCHANGED <<known, fails, kind, watcher, fileVars, vtVars>>

\* A bug to be caught: $PIDFILE goes before the terminal is given back.
CleanRelease_RmFirst(s) ==
  /\ Step(s, "release", {"text"})
  /\ watcher' = [watcher EXCEPT ![s] = "none"]
  /\ pidfile' = NoSession
  /\ UNCHANGED <<known, fails, kind, group, result, vtVars>>

\* kill "$watch" and exec 4>&-, which lets fbcon draw again.
CleanRelease(s) ==
  /\ Step(s, "release", {"text"})
  /\ watcher' = [watcher EXCEPT ![s] = "none"]
  /\ UNCHANGED <<known, fails, kind, group, fileVars, vtVars>>

\* A bug to be caught: vt_mode restores the keyboard and not the text.
CleanText_KeyboardOnly(s) ==
  /\ Step(s, "text", {"chvt"})
  /\ UNCHANGED <<known, fails, kind, groupVars, fileVars, vtVars>>

CleanText(s) ==
  /\ Step(s, "text", {"chvt"})
  /\ text' = TRUE
  /\ UNCHANGED <<known, fails, kind, groupVars, fileVars, active>>

CleanChvt(s) ==
  /\ Step(s, "chvt", {"rm"})
  /\ active' = "console"
  /\ UNCHANGED <<known, fails, kind, groupVars, fileVars, text>>

CleanRm(s) ==
  /\ Step(s, "rm", {"ended"})
  /\ pidfile' = NoSession /\ result' = "none"
  /\ UNCHANGED <<known, fails, kind, groupVars, vtVars>>

-----------------------------------------------------------------------------
(* The launcher, the applications and the hotkey watcher.                  *)

Setsid(s) ==
  /\ group[s] = "forked"
  /\ group' = [group EXCEPT ![s] = "up"]
  /\ UNCHANGED <<clientVars, sessionVars, watcher, fileVars, vtVars>>

LauncherWrites(s) ==
  /\ group[s] = "up" /\ kind[s] = "launcher" /\ result = "none"
  /\ result' \in Choices
  /\ UNCHANGED <<clientVars, sessionVars, groupVars, pidfile, vtVars>>

\* It exits when it likes, with its children or without them.
LeaderExits(s) ==
  /\ group[s] = "up"
  /\ \E g \in {"leaderless", "dead"} : group' = [group EXCEPT ![s] = g]
  /\ UNCHANGED <<clientVars, sessionVars, watcher, fileVars, vtVars>>

\* Esc held or USER pressed: TERM to the group, which may ignore it.
Hotkey(s) ==
  /\ watcher[s] = "watching"
  /\ group[s] = "up"
  /\ watcher' = [watcher EXCEPT ![s] = "termed"]
  /\ UNCHANGED <<clientVars, sessionVars, group, fileVars, vtVars>>

\* A bug to be caught: the watcher asks nicely and leaves it at that.
HotkeyKill_AskOnly(s) ==
  /\ watcher[s] = "termed"
  /\ watcher' = [watcher EXCEPT ![s] = "none"]
  /\ UNCHANGED <<clientVars, sessionVars, group, fileVars, vtVars>>

\* Five seconds later, kill -KILL to what is left of the group.
HotkeyKill(s) ==
  /\ watcher[s] = "termed"
  /\ watcher' = [watcher EXCEPT ![s] = "none"]
  /\ group' = [group EXCEPT ![s] = "dead"]
  /\ UNCHANGED <<clientVars, sessionVars, fileVars, vtVars>>

-----------------------------------------------------------------------------
Client(c) == Start(c) \/ StartGraphics(c) \/ StartOpenvt(c) \/ Stop(c) \/ StopKill(c)

Script(s) ==
  \/ WritePidfile(s) \/ SetTraps(s) \/ RemoveResult(s) \/ Spawn(s) \/ Note(s)
  \/ Reap(s) \/ ReadChoice(s) \/ Pause(s) \/ Trap(s)
  \/ CleanTerm(s) \/ CleanKill(s) \/ CleanRelease(s) \/ CleanText(s)
  \/ CleanChvt(s) \/ CleanRm(s)

Program(s) == LauncherWrites(s) \/ LeaderExits(s) \/ Hotkey(s)

Next ==
  \/ \E c \in Clients : Client(c)
  \/ \E s \in Sessions : Script(s) \/ Setsid(s) \/ HotkeyKill(s) \/ Program(s)

Spec == Init /\ [][Next]_vars

\* Shells, setsid and the watcher run when they can.  Programs owe nothing.
FairSpec ==
  /\ Spec
  /\ \A s \in Sessions : WF_vars(Script(s)) /\ WF_vars(Setsid(s)) /\ WF_vars(HotkeyKill(s))

-----------------------------------------------------------------------------
(* What makes the kiosk correct.                                           *)

\* The values every variable takes.  The launcher fails three times in a row at
\* most (kiosk:131-137).
TypeOK ==
  /\ client \in [Clients -> {"idle", "graphics", "openvt", "kill"}]
  /\ commands \in 0 .. MaxCommands /\ hasty \in BOOLEAN
  /\ pc \in [Sessions -> {"none", "new", "untrapped"} \cup LoopSteps \cup CleanSteps \cup Over]
  /\ term \in [Sessions -> BOOLEAN] /\ known \in [Sessions -> BOOLEAN]
  /\ fails \in [Sessions -> 0 .. 3]
  /\ kind \in [Sessions -> {"launcher", "app"}]
  /\ group \in [Sessions -> {"none", "forked", "up", "leaderless", "dead"}]
  /\ watcher \in [Sessions -> {"none", "watching", "termed"}]
  /\ pidfile \in {NoSession} \cup Sessions
  /\ result \in {"none"} \cup Choices
  /\ text \in BOOLEAN /\ active \in {"console", "kiosk"}

\* While starts wait for each other, a session in its loop can be stopped and is
\* seen: $PIDFILE names it, its terminal is active and in graphics mode, and no
\* other session lives.  An earlier session's cleanup never undoes it
\* (kiosk:103-115, 147-156).
SessionInCharge ==
  \A s \in Sessions : ~hasty /\ pc[s] \in LoopSteps =>
    /\ pidfile = s
    /\ ~text /\ active = "kiosk"
    /\ \A r \in Sessions : Alive(r) => r = s

Starting == \E c \in Clients : client[c] \in {"graphics", "openvt"}
Quiet    == ~Starting /\ \A s \in Sessions : ~Alive(s)

\* When every session has run its cleanup to the end the text console is back,
\* however many sessions there were and however they overlapped (kiosk:103-115).
ConsoleBack ==
  Quiet /\ (\A s \in Sessions : pc[s] # "cut")
    => text /\ active = "console" /\ pidfile = NoSession

\* Before the next program starts, and when the session has ended, the whole
\* group of the last one it knew of is gone (kiosk:85-90, 104-108).
GroupGone ==
  \A s \in Sessions :
    \/ pc[s] \in {"top", "spawn", "choice", "pause"}
    \/ pc[s] = "ended" /\ known[s]
    => ~Populated(s)

\* kiosk stop works at once whatever the running program does: a TERM ends the
\* session (kiosk:79-85, 120, 158-161).
StopEnds == \A s \in Sessions : term[s] ~> ~Alive(s)

\* The hotkey gets back to the launcher from a program that ignores TERM
\* (kiosk:65-68, 85).
HotkeyReturns ==
  \A s \in Sessions : watcher[s] = "termed" ~> ~Populated(s) /\ pc[s] \in {"top"} \cup CleanSteps \cup Over

\* kiosk:4-5: "(or `kiosk stop`) ends the session and returns to the text console
\* on tty1".
StopReturnsToConsole == Quiet /\ ~hasty => text /\ active = "console"
=============================================================================
