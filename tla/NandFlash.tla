------------------------------- MODULE NandFlash -------------------------------
(***************************************************************************)
(* The NAND flasher: the U-Boot macros flashall, flashmlo, flashub,        *)
(* flashenv and flashrootfs of uboot/patches/0002-*.patch, run from the    *)
(* prompt of the flasher SD, with the board's bad blocks, failing commands *)
(* and power cuts.                                                         *)
(*                                                                         *)
(* The rootfs partition is modelled block by block, numbered from its      *)
(* start at 0x680000; rootfs.ubi is a sequence of `size' UBI blocks, each  *)
(* as large as an erase block.  The other partitions are written whole and *)
(* have one value.  A macro is a chain of commands joined by && and stops  *)
(* at the first that fails; flashall joins the macros by ; and goes on.    *)
(***************************************************************************)
EXTENDS Integers, FiniteSets

CONSTANTS
  End,       \* blocks of the rootfs partition: 0xf980000
  Half,      \* blocks of the first write: 0x3000000
  Second,    \* block the second write begins at: 0x3780000
  Ram,       \* blocks fatload has room for
  Word,      \* setexpr computes modulo this: 2^32
  Sizes,     \* sizes rootfs.ubi may have
  MaxBad,    \* bound: bad blocks
  MaxFaults  \* bound: failing commands and power cuts

ASSUME NandFlashAssumption ==
  /\ End \in Nat /\ Half \in Nat /\ Second \in Nat /\ Ram \in Nat /\ Word \in Nat
  /\ 0 < Half /\ Half <= Second /\ Second <= End /\ End < Word - Half
  /\ Sizes \subseteq 1 .. End
  /\ MaxBad \in Nat /\ MaxFaults \in Nat

VARIABLES
  stage, cmd,   \* the macro that runs, and its command
  all,          \* it runs, or ran, as part of flashall
  ok,           \* the macros whose last run ended well
  region,       \* contents of the partitions written whole
  block, bad,   \* contents of the rootfs partition's blocks, the bad ones
  size, c2,     \* blocks of rootfs.ubi, and of the second chunk
  pos, k,       \* block the command is at, blocks it has written
  loaded,       \* blocks the last fatload read
  faults

nandVars == <<region, block>>
fixed    == <<bad, size>>
copyVars == <<pos, k, loaded>>
vars == <<stage, cmd, all, ok, nandVars, fixed, c2, copyVars, faults>>

Blocks  == 0 .. End - 1
Regions == {"mlo", "ub", "env"}
Macros  == Regions \cup {"rootfs"}

\* What a block holds that is not one of the image's blocks 0, 1, 2, ...  Clash
\* is what comes of writing to a block that is not erased.
Erased == -1
Old    == -2
Torn   == -3
Junk   == -4
Clash  == -5
Contents == {Erased, Old, Torn, Junk, Clash} \cup Nat

Init ==
  /\ stage = "prompt" /\ cmd = "none" /\ all = FALSE /\ ok = {}
  /\ region = [r \in Regions |-> "old"]
  /\ block = [b \in Blocks |-> Old]
  /\ bad \in {s \in SUBSET Blocks : Cardinality(s) <= MaxBad}
  /\ size \in Sizes
  /\ c2 = 0 /\ pos = 0 /\ k = 0 /\ loaded = 0 /\ faults = 0

-----------------------------------------------------------------------------
(* The chain of macros.                                                    *)

FirstCommand == [mlo |-> "load", ub |-> "load", env |-> "erase",
                 rootfs |-> "size", prompt |-> "none"]
NextMacro    == [mlo |-> "ub", ub |-> "env", env |-> "rootfs", rootfs |-> "prompt"]

Begin(macro) ==
  /\ stage' = macro
  /\ cmd' = FirstCommand[macro]

\* The macro that runs has ended, and its last command with it.
Ended(good) ==
  /\ pos' = 0 /\ k' = 0 /\ loaded' = 0
  /\ ok' = IF good THEN ok \cup {stage} ELSE ok \ {stage}
  /\ Begin(IF all THEN NextMacro[stage] ELSE "prompt")

\* On to the macro's next command.
Then(command) ==
  /\ cmd' = command
  /\ UNCHANGED <<stage, ok>>

\* A command fails: a file that cannot be read, an erase or a write error.
Fault ==
  /\ faults < MaxFaults
  /\ faults' = faults + 1
  /\ Ended(FALSE)

RunFlashall ==
  /\ stage = "prompt"
  /\ all' = TRUE
  /\ Begin("mlo")
  /\ UNCHANGED <<ok, nandVars, fixed, c2, copyVars, faults>>

RunMacro ==
  /\ stage = "prompt"
  /\ all' = FALSE
  /\ \E macro \in Macros : Begin(macro)
  /\ UNCHANGED <<ok, nandVars, fixed, c2, copyVars, faults>>

-----------------------------------------------------------------------------
(* flashmlo, flashub and flashenv.                                         *)

LoadFile ==
  /\ stage \in {"mlo", "ub"} /\ cmd = "load"
  /\ \/ Then("erase") /\ UNCHANGED <<copyVars, faults>>
     \/ Fault
  /\ UNCHANGED <<all, nandVars, fixed, c2>>

EraseRegion ==
  /\ stage \in Regions /\ cmd = "erase"
  /\ \/ /\ region' = [region EXCEPT ![stage] = "erased"]
        /\ IF stage = "env" THEN Ended(TRUE) ELSE Then("write") /\ UNCHANGED copyVars
        /\ UNCHANGED faults
     \/ Fault /\ region' = [region EXCEPT ![stage] = "torn"]
  /\ UNCHANGED <<all, block, fixed, c2>>

WriteRegion ==
  /\ stage \in Regions /\ cmd = "write"
  /\ \/ /\ region' = [region EXCEPT ![stage] = IF @ = "erased" THEN "new" ELSE "torn"]
        /\ Ended(TRUE)
        /\ UNCHANGED faults
     \/ Fault /\ region' = [region EXCEPT ![stage] = "torn"]
  /\ UNCHANGED <<all, block, fixed, c2>>

-----------------------------------------------------------------------------
(* flashrootfs.                                                            *)

\* setexpr c2 ${filesize} - 0x3000000.  Two bugs to be caught: the whole file, and
\* a difference that is not cut to a word.
SecondChunk_WholeFile == size % Word
SecondChunk_Signed == size - Half
SecondChunk == (size - Half) % Word

Rootfs(command) == stage = "rootfs" /\ cmd = command

FatSize ==
  /\ Rootfs("size")
  /\ \/ /\ c2' = SecondChunk
        /\ Then("erase")
        /\ UNCHANGED <<copyVars, faults>>
     \/ Fault /\ UNCHANGED c2
  /\ UNCHANGED <<all, nandVars, fixed>>

\* How far flashrootfs erases.  A bug to be caught: as far as the image reaches.
EraseEnd_ImageOnly == IF size < End THEN size ELSE End
EraseEnd == End

\* nand erase, which passes over bad blocks.
EraseBlock ==
  /\ Rootfs("erase")
  /\ \/ /\ pos < EraseEnd
        /\ block' = [block EXCEPT ![pos] = IF pos \in bad THEN @ ELSE Erased]
        /\ pos' = pos + 1
        /\ UNCHANGED <<stage, cmd, ok, k, loaded, faults>>
     \/ /\ pos = EraseEnd
        /\ Then("load1")
        /\ UNCHANGED <<block, copyVars, faults>>
     \/ Fault /\ UNCHANGED block
  /\ UNCHANGED <<all, region, fixed, c2>>

\* fatload reads what the file has from this offset; it refuses what does not fit.
InFile(offset, length) ==
  IF offset >= size THEN 0 ELSE IF length < size - offset THEN length ELSE size - offset

FatLoad(offset, length, writeAt, next) ==
  LET n == InFile(offset, length) IN
  /\ \/ /\ n <= Ram
        /\ loaded' = n /\ pos' = writeAt /\ k' = 0
        /\ Then(next)
        /\ UNCHANGED faults
     \/ /\ n > Ram
        /\ Ended(FALSE)
        /\ UNCHANGED faults
     \/ Fault
  /\ UNCHANGED <<all, nandVars, fixed, c2>>

Load1 == Rootfs("load1") /\ FatLoad(0, Half, 0, "write1")

\* Where the second chunk goes.  A bug to be caught: right behind the first.
SecondStart_NoGap == Half
SecondStart == Second

Load2 == Rootfs("load2") /\ FatLoad(Half, c2, SecondStart, "write2")

\* The good blocks from block `from' on.
Good(from) == (from .. End - 1) \ bad

\* What the k-th block written is: the file's, or what was in RAM behind it.
Data(base) == IF k < loaded THEN base + k ELSE Junk

\* A bug to be caught: bad blocks are written to like any other.
Skipped_Never(b) == FALSE
Skipped(b) == b \in bad

\* nand write of n blocks, the image's from `base' on.  It starts only if that many
\* good blocks are left, and passes over bad ones.
NandWrite(n, base, next) ==
  /\ \/ /\ k < n /\ n - k <= Cardinality(Good(pos))
        /\ IF Skipped(pos)
             THEN UNCHANGED <<block, k>>
             ELSE /\ block' = [block EXCEPT ![pos] = IF @ = Erased THEN Data(base) ELSE Clash]
                  /\ k' = k + 1
        /\ pos' = pos + 1
        /\ UNCHANGED <<stage, cmd, ok, loaded, faults>>
     \/ /\ k < n /\ n - k > Cardinality(Good(pos))
        /\ Ended(FALSE)
        /\ UNCHANGED <<block, faults>>
     \/ /\ k = n
        /\ IF next = "end" THEN Ended(TRUE) ELSE Then(next) /\ UNCHANGED copyVars
        /\ UNCHANGED <<block, faults>>
     \/ /\ k < n /\ pos \in Good(pos)
        /\ Fault
        /\ block' = [block EXCEPT ![pos] = Torn]
  /\ UNCHANGED <<all, region, fixed, c2>>

Write1 == Rootfs("write1") /\ NandWrite(Half, 0, "load2")

Write2 == Rootfs("write2") /\ NandWrite(c2, Half, "end")

-----------------------------------------------------------------------------
(* The power fails; the operator boots the flasher SD again (USER1 held).  *)

Touched == cmd \in {"erase", "write", "write1", "write2"}

PowerFails ==
  /\ stage \in Macros
  /\ faults < MaxFaults /\ faults' = faults + 1
  /\ stage' = "off" /\ cmd' = "none"
  /\ ok' = ok \ {stage}
  /\ pos' = 0 /\ k' = 0 /\ loaded' = 0
  /\ \/ /\ stage \in Regions /\ Touched
        /\ region' = [region EXCEPT ![stage] = "torn"]
        /\ UNCHANGED block
     \/ /\ stage = "rootfs" /\ Touched /\ pos \in Good(pos)
        /\ block' = [block EXCEPT ![pos] = Torn]
        /\ UNCHANGED region
     \/ UNCHANGED nandVars
  /\ UNCHANGED <<all, fixed, c2>>

PowerOn ==
  /\ stage = "off"
  /\ stage' = "prompt"
  /\ UNCHANGED <<cmd, all, ok, nandVars, fixed, c2, copyVars, faults>>

-----------------------------------------------------------------------------
FlashRegion == LoadFile \/ EraseRegion \/ WriteRegion
FlashRootfs == FatSize \/ EraseBlock \/ Load1 \/ Write1 \/ Load2 \/ Write2
Command     == FlashRegion \/ FlashRootfs

Next == RunFlashall \/ RunMacro \/ Command \/ PowerFails \/ PowerOn

Spec == Init /\ [][Next]_vars

\* U-Boot runs the next command; the operator powers the board on again and, as
\* flash/FLASHING.md:59 tells him to, runs flashall again.
FairSpec ==
  /\ Spec
  /\ WF_vars(Command) /\ WF_vars(PowerOn) /\ SF_vars(RunFlashall)

-----------------------------------------------------------------------------
(* What makes the flasher correct.                                         *)

\* The bad blocks before the second chunk fit in the gap between the two.
FewBad == Cardinality(bad \cap 0 .. Second - 1) <= Second - Half

\* The values every variable takes.  No write leaves the partition (0002:22).
TypeOK ==
  /\ stage \in Macros \cup {"prompt", "off"}
  /\ cmd \in {"none", "load", "erase", "write", "size", "load1", "write1", "load2", "write2"}
  /\ all \in BOOLEAN
  /\ ok \subseteq Macros
  /\ region \in [Regions -> {"old", "torn", "erased", "new"}]
  /\ block \in [Blocks -> Contents]
  /\ bad \subseteq Blocks /\ size \in Sizes
  /\ c2 \in 0 .. Word - 1
  /\ pos \in 0 .. End
  /\ k \in 0 .. End
  /\ loaded \in 0 .. End
  /\ faults \in 0 .. MaxFaults

\* No block is written twice: bad blocks do not push the first chunk into the
\* second as long as there are no more of them than the gap has blocks, whatever
\* was interrupted before (0002:22, flash/FLASHING.md:67-69).
HalvesApart == FewBad => \A b \in Blocks : block[b] # Clash

\* The first m blocks of the image are on one good block each, in order, and
\* nothing else is there for UBI to find.
Used == {b \in Blocks \ bad : block[b] # Erased}
HoldsFirst(m) ==
  /\ {block[b] : b \in Used} = 0 .. m - 1
  /\ \A a, b \in Used : a < b => block[a] < block[b]

RootfsWhole == HoldsFirst(size)

WorkDone(macro) ==
  CASE macro = "env"    -> region["env"] = "erased"
    [] macro = "rootfs" -> FewBad => RootfsWhole
    [] OTHER            -> region[macro] = "new"

\* A macro that ended well has done its work, whatever the state it found: a torn
\* write, an interrupted run, a longer image before (0002:19-22).
OkMeansDone == \A macro \in ok \ {stage} : WorkDone(macro)

\* The image can be flashed: both chunks are there, fit in RAM and in the NAND.
Flashable ==
  /\ FewBad
  /\ Half <= size /\ size - Half <= Ram /\ Half <= Ram
  /\ size - Half <= Cardinality(Good(Second))

\* "If a stage errors, just re-run `run flashall` (it re-erases)": it helps in the
\* end, from wherever failing commands and power cuts have left the NAND
\* (flash/FLASHING.md:59).
RerunHeals == Flashable => []<>(stage = "prompt" /\ ok = Macros)
=============================================================================
