------------------------------ MODULE UBootMenu ------------------------------
(***************************************************************************)
(* The boot menu of the patched U-Boot environment: autoboot, the entries  *)
(* of the menu and the scripts bootmmc, bootnand and bootusb, which load a *)
(* kernel and a device tree into the same two places of memory and share   *)
(* bootargs.  Any command may fail; what failed scripts leave behind is    *)
(* there for the next one.                                                 *)
(***************************************************************************)
EXTENDS Naturals

Scripts == {"mmc", "nand", "usb"}   \* and the media they load from

VARIABLES
  script, step,   \* the script (or auto, menu, shell) and its next command
  kernel, dtb,    \* what is at 0x82000000 and 0x83000000: a medium's, torn, none
  bootargs,       \* whose they are: the card's, bootnand's, none
  usb,            \* the USB controllers are running
  valid           \* the kernels whose image bootz accepts

memVars == <<kernel, dtb, bootargs>>
menuVars == <<script, step, memVars, usb, valid>>

MenuInit ==
  /\ script = "auto" /\ step = "probe"
  /\ kernel = "none" /\ dtb = "none" /\ bootargs = "none"
  /\ usb = FALSE
  /\ valid \in SUBSET Scripts

-----------------------------------------------------------------------------
At(s, c)   == script = s /\ step = c
Goto(s, c) == script' = s /\ step' = c

\* The flasher's card leads to the shell; if rootfs.ubi is not found, to the menu.
Autoboot ==
  /\ At("auto", "probe")
  /\ Goto("shell", "ended") \/ Goto("menu", "choose")
  /\ UNCHANGED <<memVars, usb, valid>>

\* run bootnand begins with setenv.  A bug to be caught: if they are not set yet.
NandArgs_Unset == IF bootargs = "none" THEN "nand" ELSE bootargs
NandArgs == "nand"
RunBootnand == Goto("nand", "start") /\ bootargs' = NandArgs

\* A bug to be caught: run bootmmc && run bootnand.
AfterMmc_Menu == Goto("menu", "choose") /\ UNCHANGED bootargs
AfterMmc == RunBootnand

\* What follows a script that did not boot.
Return(s) ==
  \/ s = "mmc" /\ AfterMmc
  \/ s # "mmc" /\ Goto("menu", "choose") /\ UNCHANGED bootargs

\* Where a command that fails leads: bootnand goes on with bootz, which follows a
\* semicolon.  A bug to be caught: the others have semicolons too.
Fails_GoesOn(s) == Goto(s, "stop") /\ UNCHANGED bootargs
Fails(s) ==
  \/ s = "nand" /\ Goto(s, "bootz") /\ UNCHANGED bootargs
  \/ s # "nand" /\ Return(s)

Choose ==
  /\ At("menu", "choose")
  /\ \/ RunBootnand
     \/ Goto("mmc", "start") /\ UNCHANGED bootargs
     \/ Goto("usb", "start") /\ UNCHANGED bootargs
     \/ Goto("shell", "ended") /\ UNCHANGED bootargs
  /\ UNCHANGED <<kernel, dtb, usb, valid>>

\* mmc rescan, nandmount or usb start.
Start(s) ==
  /\ At(s, "start")
  /\ usb' \in {usb, usb \/ s = "usb"}
  /\ \/ Goto(s, "kernel") /\ (s = "usb" => usb') /\ UNCHANGED bootargs
     \/ Fails(s)
  /\ UNCHANGED <<kernel, dtb, valid>>

\* The first load; if it fails memory is as it was, or has the beginning of a file.
LoadKernel(s) ==
  /\ At(s, "kernel")
  /\ \/ kernel' = s /\ Goto(s, "dtb") /\ UNCHANGED bootargs
     \/ kernel' \in {kernel, "torn"} /\ Fails(s)
  /\ UNCHANGED <<dtb, usb, valid>>

LoadDtb(s) ==
  /\ At(s, "dtb")
  /\ \/ dtb' = s /\ Goto(s, IF s = "mmc" THEN "env" ELSE "stop") /\ UNCHANGED bootargs
     \/ dtb' \in {dtb, "torn"} /\ Fails(s)
  /\ UNCHANGED <<kernel, usb, valid>>

\* uEnv.txt, if the card has one.
ImportEnv ==
  /\ At("mmc", "env")
  /\ bootargs' \in {"mmc", bootargs}
  /\ Goto("mmc", "stop")
  /\ UNCHANGED <<kernel, dtb, usb, valid>>

UsbStop(s) ==
  /\ At(s, "stop")
  /\ usb' = FALSE
  /\ Goto(s, "bootz")
  /\ UNCHANGED <<memVars, valid>>

\* bootz starts what is in memory, if it looks like a kernel and a device tree.
Bootz(s) ==
  /\ At(s, "bootz")
  /\ \/ /\ kernel \in valid \cup {"torn"} /\ dtb # "none"
        /\ Goto(s, "booted") /\ UNCHANGED bootargs
     \/ /\ kernel \notin valid \/ dtb \in {"none", "torn"}
        /\ Return(s)
  /\ UNCHANGED <<kernel, dtb, usb, valid>>

MenuEnded == step \in {"booted", "ended"} /\ UNCHANGED menuVars

MenuCommand(s) == Start(s) \/ LoadKernel(s) \/ LoadDtb(s) \/ UsbStop(s) \/ Bootz(s)
MenuCommands == ImportEnv \/ \E s \in Scripts : MenuCommand(s)

MenuNext == Autoboot \/ Choose \/ MenuCommands \/ MenuEnded

MenuSpec == MenuInit /\ [][MenuNext]_menuVars

\* Commands come to an end, and the next one is run.  The user owes nothing.
MenuFairSpec == MenuSpec /\ WF_menuVars(MenuCommands)

-----------------------------------------------------------------------------
\* Whatever scripts have failed before and left in memory, SD and USB boot their own
\* kernel with their own device tree and USB stopped, and NAND has its own bootargs
\* (0002-omap3_beagle-bootmenu-env.patch:11-13).
BootsItsOwn ==
  step = "booted" =>
    /\ script \in {"mmc", "usb"} => kernel = script /\ dtb = script /\ ~usb
    /\ script = "nand" => bootargs = "nand"

\* The SD entry boots the card, or comes to try NAND (FLASHING.md:79, 85-86).
FallsBack == At("mmc", "start") ~> step = "booted" \/ At("nand", "bootz")
=============================================================================
