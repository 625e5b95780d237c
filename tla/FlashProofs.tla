------------------------------ MODULE FlashProofs ------------------------------
(***************************************************************************)
(* Theorems about what puts the system on the board and starts it: the     *)
(* NAND flasher (NandFlash), the boot menu (UBootMenu) and the script on   *)
(* the flasher's card (AutoFlash).                                         *)
(*                                                                         *)
(* NandFlash first, for every partition, image and set of bad blocks: the  *)
(* two halves of the root file system are apart.  The argument counts.     *)
(* While the first chunk is written, the command has passed pos blocks,    *)
(* and the k it has written are those of them that are good (Counted).  At *)
(* the block where the second chunk begins it has therefore written at     *)
(* least as many as the first chunk has, and stops; every write finds its  *)
(* block erased (Clear).                                                   *)
(***************************************************************************)
EXTENDS NandFlash, UBootMenu, AutoFlash, FiniteSetTheorems, TLAPS

\* Only flashrootfs moves pos, after its first command.
Types ==
  /\ TypeOK
  /\ k <= pos
  /\ pos # 0 => stage = "rootfs" /\ cmd # "size"

\* Bad blocks passed, below block b.
BadBelow(b) == Cardinality(bad \cap 0 .. b - 1)

Counted ==
  Rootfs("write1") =>
    /\ k = pos - BadBelow(pos)
    /\ FewBad => pos <= Second

\* From here on no good block has been written since it was erased.
Untouched ==
  CASE cmd = "load1" -> 0
    [] cmd = "load2" -> Second
    [] OTHER         -> pos

Clear ==
  FewBad /\ stage = "rootfs" =>
    /\ cmd = "erase" => \A b \in Blocks \ bad : b < pos => block[b] = Erased
    /\ cmd \in {"load1", "write1", "load2", "write2"} =>
         \A b \in Blocks \ bad : b >= Untouched => block[b] = Erased

IInv == Types /\ Counted /\ Clear /\ HalvesApart

-----------------------------------------------------------------------------
(* Counting bad blocks.                                                     *)

\* One more block passed is one more bad block, if it is bad.
LEMMA BadBelowStep ==
  ASSUME bad \subseteq Blocks, NEW b \in Nat
  PROVE  /\ BadBelow(0) = 0
         /\ BadBelow(b) \in Nat
         /\ BadBelow(b + 1) = IF b \in bad THEN BadBelow(b) + 1 ELSE BadBelow(b)
<1> DEFINE S == bad \cap 0 .. b - 1
<1>1. IsFiniteSet(0 .. b - 1)
  BY FS_Interval
<1>2. IsFiniteSet(S) /\ Cardinality(S) \in Nat
  BY <1>1, FS_Subset, FS_CardinalityType
<1>3. bad \cap 0 .. 0 - 1 = {}
  OBVIOUS
<1>4. BadBelow(0) = 0
  BY <1>3, FS_EmptySet DEF BadBelow
<1>5. BadBelow(b) = Cardinality(S)
  BY DEF BadBelow
<1>6. CASE b \in bad
  <2>1. bad \cap 0 .. (b + 1) - 1 = S \cup {b}
    BY <1>6
  <2>2. b \notin S
    OBVIOUS
  <2>3. Cardinality(S \cup {b}) = Cardinality(S) + 1
    BY <1>2, <2>2, FS_AddElement
  <2> HIDE DEF S
  <2> QED
    BY <1>2, <1>6, <1>4, <1>5, <2>1, <2>3 DEF BadBelow
<1>7. CASE b \notin bad
  <2>1. bad \cap 0 .. (b + 1) - 1 = S
    BY <1>7
  <2> QED
    BY <1>2, <1>7, <1>4, <1>5, <2>1 DEF BadBelow
<1> QED
  BY <1>6, <1>7

\* What setexpr computes: a length, or far more than the partition has blocks.
LEMMA SecondChunkValue ==
  ASSUME TypeOK
  PROVE  /\ SecondChunk \in 0 .. Word - 1
         /\ Half <= size => SecondChunk = size - Half
         /\ size < Half => SecondChunk > End
<1> DEFINE x == size - Half
<1>1. x \in Int /\ -Word < x /\ x < Word /\ Word \in Nat /\ Word > 0
  BY NandFlashAssumption DEF TypeOK
<1>2. x % Word \in 0 .. Word - 1
  BY <1>1
<1>3. ASSUME x >= 0
      PROVE  x % Word = x
  BY <1>1, <1>3
<1>4. ASSUME x < 0
      PROVE  x % Word = x + Word
  BY <1>1, <1>4
<1> QED
  BY <1>1, <1>2, <1>3, <1>4, NandFlashAssumption DEF SecondChunk, TypeOK

\* No good block is left behind the partition's end.
LEMMA GoodLeft ==
  ASSUME bad \subseteq Blocks, NEW b \in Nat
  PROVE  /\ Cardinality(Good(b)) \in Nat
         /\ b >= End => Cardinality(Good(b)) = 0
<1> USE NandFlashAssumption
<1>1. IsFiniteSet(b .. End - 1)
  BY FS_Interval
<1>2. IsFiniteSet(Good(b)) /\ Cardinality(Good(b)) \in Nat
  BY <1>1, FS_Subset, FS_CardinalityType DEF Good
<1>3. ASSUME b >= End
      PROVE  Good(b) = {}
  BY <1>3 DEF Good
<1> QED
  BY <1>2, <1>3, FS_EmptySet

\* If the gap takes the bad blocks, the first chunk is written before its end.
LEMMA FirstChunkFits ==
  ASSUME FewBad
  PROVE  BadBelow(Second) <= Second - Half
BY DEF FewBad, BadBelow

-----------------------------------------------------------------------------
(* The initial states.                                                      *)

LEMMA InitIInv == Init => IInv
<1> SUFFICES ASSUME Init
             PROVE  IInv
  OBVIOUS
<1> USE NandFlashAssumption DEF Init
<1>1. Types
  <2>1. /\ block \in [Blocks -> Contents]
        /\ bad \subseteq Blocks /\ size \in Sizes
    BY DEF Contents
  <2>2. /\ c2 \in 0 .. Word - 1 /\ pos \in 0 .. End /\ k \in 0 .. End
        /\ loaded \in 0 .. End /\ faults \in 0 .. MaxFaults /\ k <= pos
    OBVIOUS
  <2> QED
    BY <2>1, <2>2 DEF Types, TypeOK
<1>2. Counted
  BY DEF Counted, Rootfs
<1>3. Clear
  BY DEF Clear
<1>6. HalvesApart
  BY DEF HalvesApart, Old, Clash
<1> QED
  BY <1>1, <1>2, <1>3, <1>6 DEF IInv

-----------------------------------------------------------------------------
(* What several steps have in common.                                       *)

\* After a macro has ended another one begins, or none.
LEMMA EndedEffect ==
  ASSUME TypeOK, stage \in Macros, NEW good, Ended(good)
  PROVE  /\ stage' \in Macros \cup {"prompt"}
         /\ cmd' \in {"none", "load", "erase", "size"}
         /\ stage' = "rootfs" => cmd' = "size"
         /\ ok' \subseteq Macros
         /\ pos' = 0 /\ k' = 0 /\ loaded' = 0
BY DEF TypeOK, Ended, Begin, NextMacro, FirstCommand, Macros, Regions

LEMMA FaultEffect ==
  ASSUME TypeOK, stage \in Macros, Fault
  PROVE  /\ Ended(FALSE)
         /\ faults' \in 0 .. MaxFaults
<1>1. Ended(FALSE)
  BY DEF Fault
<1>2. faults' \in 0 .. MaxFaults
  <2>1. faults \in 0 .. MaxFaults /\ faults < MaxFaults /\ faults' = faults + 1
    BY DEF TypeOK, Fault
  <2> QED
    BY <2>1, NandFlashAssumption
<1> QED
  BY <1>1, <1>2

\* The parts of the invariant about flashrootfs say nothing before its erase.
LEMMA FreshMacro ==
  ASSUME stage' = "rootfs" => cmd' = "size"
  PROVE  Counted' /\ Clear'
BY DEF Counted, Clear, Rootfs

\* No block becomes a clash if one changes, and to something else.
LEMMA StaysApart ==
  ASSUME TypeOK, HalvesApart, UNCHANGED bad, NEW b, NEW c,
         FewBad => c # Clash,
         block' = [block EXCEPT ![b] = c]
  PROVE  HalvesApart'
BY DEF TypeOK, HalvesApart, FewBad

LEMMA StaysApartUnchanged ==
  ASSUME HalvesApart, UNCHANGED <<bad, block>>
  PROVE  HalvesApart'
BY DEF HalvesApart, FewBad

-----------------------------------------------------------------------------
(* The steps.                                                               *)

LEMMA RunStep ==
  ASSUME IInv, RunFlashall \/ RunMacro
  PROVE  IInv'
<1> USE DEF IInv, RunFlashall, RunMacro
<1>1. /\ stage' \in Macros /\ cmd' \in {"load", "erase", "size"}
      /\ stage' = "rootfs" => cmd' = "size"
  BY DEF Begin, FirstCommand, Macros, Regions
<1>2. Types'
  BY <1>1 DEF Types, TypeOK, nandVars, fixed, copyVars
<1>3. HalvesApart'
  BY StaysApartUnchanged DEF nandVars, fixed
<1> QED
  BY <1>1, <1>2, <1>3, FreshMacro

LEMMA RegionStep ==
  ASSUME IInv, FlashRegion
  PROVE  IInv'
<1> USE DEF IInv
<1>1. /\ stage \in Regions
      /\ UNCHANGED <<all, block, bad, size, c2>>
      /\ region' \in [Regions -> {"old", "torn", "erased", "new"}]
      /\ \/ /\ stage' = stage /\ ok' = ok /\ cmd' \in {"erase", "write"}
            /\ UNCHANGED copyVars /\ UNCHANGED faults
         \/ (\E good \in BOOLEAN : Ended(good)) /\ faults' \in 0 .. MaxFaults
  <2>1. CASE LoadFile
    BY <2>1, FaultEffect DEF LoadFile, Then, Types, TypeOK, Regions, Macros, nandVars, fixed
  <2>2. CASE EraseRegion
    BY <2>2, FaultEffect DEF EraseRegion, Then, Types, TypeOK, Regions, Macros, fixed
  <2>3. CASE WriteRegion
    BY <2>3, FaultEffect DEF WriteRegion, Then, Types, TypeOK, Regions, Macros, fixed
  <2> QED
    BY <2>1, <2>2, <2>3 DEF FlashRegion
<1>2. stage \in Macros /\ stage # "rootfs"
  BY <1>1 DEF Macros, Regions
<1>3. Types' /\ (stage' = "rootfs" => cmd' = "size")
  <2>1. CASE \E good \in BOOLEAN : Ended(good)
    <3>1. PICK good \in BOOLEAN : Ended(good)
      BY <2>1
    <3>2. /\ stage' \in Macros \cup {"prompt"}
          /\ cmd' \in {"none", "load", "erase", "size"}
          /\ stage' = "rootfs" => cmd' = "size"
          /\ ok' \subseteq Macros
          /\ pos' = 0 /\ k' = 0 /\ loaded' = 0
      BY <1>2, <3>1, EndedEffect DEF Types
    <3>3. faults' \in 0 .. MaxFaults
      BY <1>1 DEF Types, TypeOK
    <3> QED
      BY <1>1, <3>2, <3>3, NandFlashAssumption DEF Types, TypeOK
  <2>2. CASE /\ stage' = stage /\ ok' = ok /\ cmd' \in {"erase", "write"}
             /\ UNCHANGED copyVars /\ UNCHANGED faults
    BY <1>1, <1>2, <2>2 DEF Types, TypeOK, copyVars
  <2> QED
    BY <1>1, <2>1, <2>2
<1>4. HalvesApart'
  BY <1>1, StaysApartUnchanged
<1> QED
  BY <1>3, <1>4, FreshMacro

LEMMA PowerStep ==
  ASSUME IInv, PowerFails \/ PowerOn
  PROVE  IInv'
<1> USE DEF IInv
<1>1. CASE PowerFails
  <2>1. Types'
    BY <1>1, NandFlashAssumption DEF PowerFails, Types, TypeOK, nandVars, fixed, Regions, Macros, Contents
  <2>2. HalvesApart'
    BY <1>1, StaysApart, StaysApartUnchanged
    DEF PowerFails, Types, fixed, nandVars, Torn, Clash
  <2> QED
    BY <1>1, <2>1, <2>2, FreshMacro DEF PowerFails
<1>2. CASE PowerOn
  <2>1. Types'
    BY <1>2 DEF PowerOn, Types, TypeOK, nandVars, fixed, copyVars
  <2>2. HalvesApart'
    BY <1>2, StaysApartUnchanged DEF PowerOn, nandVars, fixed
  <2> QED
    BY <1>2, <2>1, <2>2, FreshMacro DEF PowerOn
<1> QED
  BY <1>1, <1>2

-----------------------------------------------------------------------------
(* The steps of flashrootfs.                                                *)

\* Its end, by success or failure, after a change to one block at most.
LEMMA RootfsEnds ==
  ASSUME IInv, stage = "rootfs", NEW good, Ended(good),
         UNCHANGED <<all, region, bad, size, c2>>, faults' \in 0 .. MaxFaults,
         NEW b \in Blocks, block' = block \/ block' = [block EXCEPT ![b] = Torn]
  PROVE  IInv'
<1> USE DEF IInv
<1>1. /\ stage' \in Macros \cup {"prompt"}
      /\ cmd' \in {"none", "load", "erase", "size"}
      /\ stage' = "rootfs" => cmd' = "size"
      /\ ok' \subseteq Macros
      /\ pos' = 0 /\ k' = 0 /\ loaded' = 0
  BY EndedEffect DEF Types, Macros
<1>2. Types'
  BY <1>1, NandFlashAssumption DEF Types, TypeOK, Contents
<1>3. HalvesApart'
  BY StaysApart, StaysApartUnchanged DEF Types, Torn, Clash
<1> QED
  BY <1>1, <1>2, <1>3, FreshMacro

\* In a command that does not write, the invariant is kept if the next one finds the
\* blocks it will write untouched.
LEMMA FatSizeStep ==
  ASSUME IInv, FatSize
  PROVE  IInv'
<1> USE DEF IInv
<1>1. Rootfs("size") /\ UNCHANGED <<all, region, block, bad, size>>
  BY DEF FatSize, nandVars, fixed
<1>2. CASE Fault /\ UNCHANGED c2
  <2>1. 0 \in Blocks
    BY NandFlashAssumption DEF Blocks
  <2>2. TypeOK /\ stage \in Macros /\ stage = "rootfs"
    BY <1>1 DEF Types, Rootfs, Macros
  <2> QED
    BY <1>1, <1>2, <2>1, <2>2, FaultEffect, RootfsEnds
<1>3. CASE c2' = SecondChunk /\ Then("erase") /\ UNCHANGED <<copyVars, faults>>
  <2>1. c2' \in 0 .. Word - 1
    BY <1>3, NandFlashAssumption DEF SecondChunk, Types, TypeOK
  <2>2. Types'
    BY <1>1, <1>3, <2>1 DEF Types, TypeOK, Then, copyVars, Rootfs
  <2>3. pos' = 0 /\ cmd' = "erase" /\ stage' = "rootfs"
    BY <1>1, <1>3 DEF Types, Then, copyVars, Rootfs
  <2>4. Counted' /\ Clear'
    BY <2>3 DEF Counted, Clear, Rootfs, Blocks
  <2>5. HalvesApart'
    BY <1>1, StaysApartUnchanged
  <2> QED
    BY <2>2, <2>4, <2>5
<1> QED
  BY <1>2, <1>3 DEF FatSize

LEMMA EraseStep ==
  ASSUME IInv, EraseBlock
  PROVE  IInv'
<1> USE DEF IInv
<1>1. Rootfs("erase") /\ UNCHANGED <<all, region, bad, size, c2>>
  BY DEF EraseBlock, fixed
<1>2. /\ TypeOK /\ stage \in Macros /\ stage = "rootfs" /\ cmd = "erase"
      /\ FewBad' = FewBad
  BY <1>1 DEF Types, Rootfs, Macros, FewBad
<1>3. CASE Fault /\ UNCHANGED block
  <2>1. 0 \in Blocks
    BY NandFlashAssumption DEF Blocks
  <2> QED
    BY <1>1, <1>2, <1>3, <2>1, FaultEffect, RootfsEnds
<1>4. CASE /\ pos < EraseEnd
           /\ block' = [block EXCEPT ![pos] = IF pos \in bad THEN @ ELSE Erased]
           /\ pos' = pos + 1
           /\ UNCHANGED <<stage, cmd, ok, k, loaded, faults>>
  <2> DEFINE c == IF pos \in bad THEN block[pos] ELSE Erased
  <2>1. pos \in Blocks /\ pos + 1 \in 0 .. End /\ k <= pos + 1
    BY <1>2, <1>4, NandFlashAssumption DEF EraseEnd, Blocks, TypeOK, Types
  <2>2. block' = [block EXCEPT ![pos] = c] /\ c \in Contents
    BY <1>2, <1>4, <2>1 DEF TypeOK, Contents
  <2>3. Types'
    BY <1>1, <1>2, <1>4, <2>1, <2>2 DEF Types, TypeOK
  <2>4. Counted'
    BY <1>2, <1>4 DEF Counted, Rootfs
  <2>5. Clear'
    <3> SUFFICES ASSUME FewBad, NEW b \in Blocks \ bad, b < pos + 1
                 PROVE  block'[b] = Erased
      BY <1>1, <1>2, <1>4 DEF Clear
    <3>1. CASE b = pos
      BY <1>2, <2>2, <3>1 DEF TypeOK
    <3>2. CASE b < pos
      BY <1>2, <2>1, <2>2, <3>2 DEF TypeOK, Clear
    <3> QED
      BY <2>1, <3>1, <3>2 DEF Blocks
  <2>6. FewBad => c # Clash
    BY <2>1 DEF HalvesApart, Erased, Clash
  <2> HIDE DEF c
  <2>7. HalvesApart'
    BY <1>1, <1>2, <2>2, <2>6, StaysApart
  <2> QED
    BY <2>3, <2>4, <2>5, <2>7
<1>5. CASE pos = EraseEnd /\ Then("load1") /\ UNCHANGED <<block, copyVars, faults>>
  <2>1. Types'
    BY <1>1, <1>2, <1>5 DEF Types, TypeOK, Then, copyVars
  <2>2. Counted'
    BY <1>5 DEF Counted, Rootfs, Then
  <2>3. Clear'
    <3>1. ASSUME FewBad, NEW b \in Blocks \ bad
          PROVE  block[b] = Erased
      BY <1>2, <1>5, <3>1, NandFlashAssumption DEF Clear, EraseEnd, Blocks, TypeOK
    <3>2. cmd' = "load1" /\ block' = block /\ bad' = bad
      BY <1>1, <1>5 DEF Then
    <3> QED
      BY <1>2, <3>1, <3>2 DEF Clear
  <2>4. HalvesApart'
    BY <1>1, <1>5, StaysApartUnchanged
  <2> QED
    BY <2>1, <2>2, <2>3, <2>4
<1> QED
  BY <1>3, <1>4, <1>5 DEF EraseBlock

\* fatload: either flashrootfs ends, or the write begins with untouched blocks.
LEMMA LoadStep ==
  ASSUME IInv, Load1 \/ Load2
  PROVE  IInv'
<1> USE DEF IInv
<1>1. PICK offset \in Nat, length \in Nat, at \in {0, SecondStart}, next \in {"write1", "write2"} :
        /\ FatLoad(offset, length, at, next)
        /\ \/ Rootfs("load1") /\ at = 0 /\ next = "write1"
           \/ Rootfs("load2") /\ at = Second /\ next = "write2"
  BY NandFlashAssumption DEF Load1, Load2, Types, TypeOK, SecondStart
<1>2. /\ TypeOK /\ stage \in Macros /\ stage = "rootfs"
      /\ FewBad' = FewBad
      /\ UNCHANGED <<all, region, block, bad, size, c2>>
  BY <1>1 DEF Types, Rootfs, Macros, FewBad, FatLoad, nandVars, fixed
<1>3. CASE (Fault \/ (Ended(FALSE) /\ UNCHANGED faults))
  <2>1. 0 \in Blocks
    BY NandFlashAssumption DEF Blocks
  <2>2. Ended(FALSE) /\ faults' \in 0 .. MaxFaults
    BY <1>2, <1>3, FaultEffect DEF TypeOK
  <2> QED
    BY <1>2, <2>1, <2>2, RootfsEnds
<1>4. CASE /\ loaded' = InFile(offset, length) /\ pos' = at /\ k' = 0
           /\ Then(next)
           /\ UNCHANGED faults
  <2>1. InFile(offset, length) \in 0 .. End
    BY <1>2, NandFlashAssumption DEF InFile, TypeOK
  <2>2. Types'
    BY <1>1, <1>2, <1>4, <2>1, NandFlashAssumption DEF Types, TypeOK, Then, SecondStart
  <2>3. Counted'
    <3>1. bad \subseteq Blocks
      BY <1>2 DEF TypeOK
    <3>2. BadBelow(0) = 0
      BY <3>1, BadBelowStep
    <3>3. ASSUME cmd' = "write1"
          PROVE  pos' = 0 /\ k' = 0
      BY <1>1, <1>4, <3>3 DEF Then
    <3>4. ASSUME cmd' = "write1"
          PROVE  BadBelow(pos)' = 0
      BY <1>2, <3>2, <3>3, <3>4 DEF BadBelow
    <3> QED
      BY <3>3, <3>4, NandFlashAssumption DEF Counted, Rootfs
  <2>4. Clear'
    BY <1>1, <1>2, <1>4, NandFlashAssumption DEF Clear, Untouched, Then, Rootfs
  <2>5. HalvesApart'
    BY <1>2, StaysApartUnchanged
  <2> QED
    BY <2>2, <2>3, <2>4, <2>5
<1> QED
  BY <1>1, <1>3, <1>4 DEF FatLoad

\* One block of nand write: it is erased when it is written, and the blocks beyond
\* stay so.
LEMMA BlockStep ==
  ASSUME IInv, NEW n \in Nat, NEW base \in Nat,
         stage = "rootfs", cmd \in {"write1", "write2"},
         cmd = "write1" => n = Half,
         UNCHANGED <<stage, cmd, all, ok, region, bad, size, c2, loaded, faults>>,
         k < n, n - k <= Cardinality(Good(pos)),
         IF Skipped(pos)
           THEN UNCHANGED <<block, k>>
           ELSE /\ block' = [block EXCEPT ![pos] = IF @ = Erased THEN Data(base) ELSE Clash]
                /\ k' = k + 1,
         pos' = pos + 1
  PROVE  IInv'
<1> USE DEF IInv
<1>1. /\ TypeOK /\ FewBad' = FewBad /\ bad \subseteq Blocks
      /\ pos \in Nat /\ k \in Nat /\ k <= pos
  BY DEF Types, TypeOK, FewBad
<1>2. pos \in Blocks
  <2>1. ~(pos >= End)
    BY <1>1, GoodLeft
  <2> QED
    BY <1>1, <2>1, NandFlashAssumption DEF Blocks
<1>3. pos + 1 \in 0 .. End /\ k + 1 \in 0 .. End /\ k <= pos + 1 /\ k + 1 <= pos + 1
  BY <1>1, <1>2, NandFlashAssumption DEF Blocks
<1>4. Data(base) \in Contents /\ Data(base) # Clash
  BY <1>1 DEF Data, Contents, Junk, Clash
<1>5. Types'
  <2>1. CASE pos \in bad
    BY <1>1, <1>2, <1>3, <2>1, NandFlashAssumption DEF Types, TypeOK, Skipped
  <2>2. CASE pos \notin bad
    <3>1. block' \in [Blocks -> Contents]
      BY <1>1, <1>2, <1>4, <2>2 DEF TypeOK, Skipped, Contents
    <3> QED
      BY <1>1, <1>3, <2>2, <3>1 DEF Types, TypeOK, Skipped
  <2> QED
    BY <2>1, <2>2
<1>6. Counted'
  <2> SUFFICES ASSUME cmd = "write1"
               PROVE  /\ k' = (pos + 1) - BadBelow(pos + 1)
                      /\ FewBad => pos + 1 <= Second
    BY <1>1 DEF Counted, Rootfs, BadBelow
  <2>1. k = pos - BadBelow(pos) /\ (FewBad => pos <= Second) /\ n = Half
    BY DEF Counted, Rootfs
  <2>2. /\ BadBelow(pos) \in Nat
        /\ BadBelow(pos + 1) = IF pos \in bad THEN BadBelow(pos) + 1 ELSE BadBelow(pos)
    BY <1>1, BadBelowStep
  <2>3. k' = IF pos \in bad THEN k ELSE k + 1
    BY DEF Skipped
  <2>4. ASSUME FewBad
        PROVE  pos # Second
    BY <1>1, <2>1, <2>2, <2>4, FirstChunkFits, NandFlashAssumption
  <2> QED
    BY <1>1, <2>1, <2>2, <2>3, <2>4, NandFlashAssumption
<1>7. Clear'
  <2> SUFFICES ASSUME FewBad, NEW b \in Blocks \ bad, b >= pos + 1
               PROVE  block'[b] = Erased
    BY <1>1 DEF Clear, Untouched
  <2>1. b # pos /\ b >= pos /\ block[b] = Erased
    BY <1>1 DEF Clear, Untouched, Blocks
  <2> QED
    BY <1>1, <2>1 DEF Skipped, TypeOK
<1>8. HalvesApart'
  <2>1. CASE pos \in bad
    BY <2>1, StaysApartUnchanged DEF Skipped
  <2>2. CASE pos \notin bad
    <3> DEFINE c == IF block[pos] = Erased THEN Data(base) ELSE Clash
    <3>1. block' = [block EXCEPT ![pos] = c]
      BY <2>2 DEF Skipped
    <3>2. FewBad => c # Clash
      BY <1>1, <1>2, <1>4, <2>2 DEF Clear, Untouched
    <3> HIDE DEF c
    <3> QED
      BY <1>1, <3>1, <3>2, StaysApart
  <2> QED
    BY <2>1, <2>2
<1> QED
  BY <1>5, <1>6, <1>7, <1>8

LEMMA WriteStep ==
  ASSUME IInv, Write1 \/ Write2
  PROVE  IInv'
<1> USE DEF IInv
<1>1. PICK n \in Nat, base \in Nat, next \in {"load2", "end"} :
        /\ NandWrite(n, base, next)
        /\ \/ Rootfs("write1") /\ n = Half /\ next = "load2"
           \/ Rootfs("write2") /\ next = "end"
  BY NandFlashAssumption DEF Write1, Write2, Types, TypeOK
<1>2. /\ TypeOK /\ stage \in Macros /\ stage = "rootfs" /\ cmd \in {"write1", "write2"}
      /\ cmd = "write1" => n = Half
      /\ FewBad' = FewBad
      /\ UNCHANGED <<all, region, bad, size, c2>>
  BY <1>1 DEF Types, Rootfs, Macros, FewBad, NandWrite, fixed
<1>3. 0 \in Blocks
  BY NandFlashAssumption DEF Blocks
<1>4. CASE /\ k < n /\ n - k <= Cardinality(Good(pos))
           /\ IF Skipped(pos)
                THEN UNCHANGED <<block, k>>
                ELSE /\ block' = [block EXCEPT ![pos] = IF @ = Erased THEN Data(base) ELSE Clash]
                     /\ k' = k + 1
           /\ pos' = pos + 1
           /\ UNCHANGED <<stage, cmd, ok, loaded, faults>>
  BY <1>2, <1>4, BlockStep
<1>5. CASE Ended(FALSE) /\ UNCHANGED <<block, faults>>
  BY <1>2, <1>3, <1>5, RootfsEnds DEF TypeOK
<1>6. CASE /\ k = n
           /\ IF next = "end" THEN Ended(TRUE) ELSE Then(next) /\ UNCHANGED copyVars
           /\ UNCHANGED <<block, faults>>
  <2>1. CASE next = "end"
    BY <1>2, <1>3, <1>6, <2>1, RootfsEnds DEF TypeOK
  <2>2. CASE next = "load2"
    <3>1. cmd = "write1" /\ cmd' = "load2"
      BY <1>1, <1>6, <2>2 DEF Then, Rootfs
    <3>2. Types'
      BY <1>2, <1>6, <2>2 DEF Types, TypeOK, Then, copyVars
    <3>3. Counted'
      BY <3>1 DEF Counted, Rootfs
    <3>4. Clear'
      <4>1. ASSUME FewBad
            PROVE  pos <= Second
        BY <1>2, <3>1, <4>1 DEF Counted, Rootfs
      <4>2. ASSUME FewBad, NEW b \in Blocks \ bad, b >= Second
            PROVE  block[b] = Erased
        BY <1>2, <3>1, <4>1, <4>2, NandFlashAssumption
        DEF Clear, Untouched, Blocks, Types, TypeOK
      <4> QED
        BY <1>2, <1>6, <3>1, <4>2 DEF Clear, Untouched
    <3>5. HalvesApart'
      BY <1>2, <1>6, StaysApartUnchanged
    <3> QED
      BY <3>2, <3>3, <3>4, <3>5
  <2> QED
    BY <2>1, <2>2
<1>7. CASE /\ pos \in Good(pos)
           /\ Fault
           /\ block' = [block EXCEPT ![pos] = Torn]
  <2>1. pos \in Blocks
    BY <1>2, <1>7 DEF Good, Blocks, TypeOK
  <2> QED
    BY <1>2, <1>7, <2>1, FaultEffect, RootfsEnds
<1> QED
  BY <1>1, <1>4, <1>5, <1>6, <1>7 DEF NandWrite

-----------------------------------------------------------------------------
(* The invariant of what may be written.                                    *)

LEMMA IInvStep == IInv /\ [Next]_vars => IInv'
<1> SUFFICES ASSUME IInv, [Next]_vars
             PROVE  IInv'
  OBVIOUS
<1>1. CASE RunFlashall \/ RunMacro
  BY <1>1, RunStep
<1>2. CASE FlashRegion
  BY <1>2, RegionStep
<1>3. CASE FlashRootfs
  BY <1>3, FatSizeStep, EraseStep, LoadStep, WriteStep DEF FlashRootfs
<1>4. CASE PowerFails \/ PowerOn
  BY <1>4, PowerStep
<1>5. CASE UNCHANGED vars
  BY <1>5 DEF vars, nandVars, fixed, copyVars, IInv, Types, TypeOK, Counted, Clear,
    Untouched, Rootfs, BadBelow, FewBad, HalvesApart
<1> QED
  BY <1>1, <1>2, <1>3, <1>4, <1>5 DEF Next, Command

-----------------------------------------------------------------------------
(* A macro that ends well has done its work.  IInv says where flashrootfs   *)
(* may write; Copied says what it has written: after the erase the good     *)
(* blocks hold the first 0 blocks of the image, and every good block passed *)
(* adds one.                                                                *)

CommandsInv ==
  /\ stage = "rootfs" => cmd \in {"size", "erase", "load1", "write1", "load2", "write2"}
  /\ stage \in Regions => cmd \in {"load", "erase", "write"}
  /\ stage \in Regions /\ cmd = "write" => stage # "env" /\ region[stage] = "erased"

ChunkSize == stage = "rootfs" /\ cmd # "size" => c2 = SecondChunk

\* With a shorter image the second write is refused, and what is there does not
\* matter.
Copied ==
  FewBad /\ Half <= size /\ stage = "rootfs" =>
    /\ cmd = "load1"  => HoldsFirst(0)
    /\ cmd = "write1" => loaded = Half /\ HoldsFirst(k)
    /\ cmd = "load2"  => HoldsFirst(Half)
    /\ cmd = "write2" => loaded = c2 /\ HoldsFirst(Half + k)

RInv == CommandsInv /\ ChunkSize /\ Copied /\ OkMeansDone

LEMMA InitRInv == Init => RInv
BY DEF Init, RInv, CommandsInv, ChunkSize, Copied, OkMeansDone, Regions

\* Nothing is known of flashrootfs before its erase.
LEMMA FreshCopy ==
  ASSUME stage' = "rootfs" => cmd' = "size"
  PROVE  ChunkSize' /\ Copied'
BY DEF ChunkSize, Copied

\* After a macro has ended, only the first command of the next one can follow.
LEMMA EndedCommands ==
  ASSUME TypeOK, stage \in Macros, NEW good, Ended(good)
  PROVE  CommandsInv' /\ ChunkSize' /\ Copied'
<1>1. /\ stage' = "rootfs" => cmd' = "size"
      /\ stage' \in {"mlo", "ub"} => cmd' = "load"
      /\ stage' = "env" => cmd' = "erase"
  BY DEF Ended, Begin, NextMacro, FirstCommand, Macros, Regions
<1> QED
  BY <1>1, FreshCopy DEF CommandsInv, Regions

\* What other macros have done stays done.
LEMMA OkKept ==
  ASSUME TypeOK, OkMeansDone,
         ok' \subseteq ok \cup {stage},
         NEW old, old = stage,
         old \in ok' => stage' = old \/ WorkDone(old)',
         \A macro \in Macros \ {stage} : WorkDone(macro) => WorkDone(macro)'
  PROVE  OkMeansDone'
<1> SUFFICES ASSUME NEW macro \in ok' \ {stage'}
             PROVE  WorkDone(macro)'
  BY DEF OkMeansDone
<1>1. CASE macro = old
  BY <1>1
<1>2. CASE macro # old
  <2>1. macro \in ok \ {stage} /\ macro \in Macros \ {stage}
    BY <1>2 DEF TypeOK
  <2> QED
    BY <2>1 DEF OkMeansDone
<1> QED
  BY <1>1, <1>2

LEMMA WholeKept ==
  ASSUME UNCHANGED <<block, bad, size>>
  PROVE  /\ WorkDone("rootfs")' = WorkDone("rootfs")
         /\ FewBad' = FewBad
         /\ \A m \in Int : HoldsFirst(m)' = HoldsFirst(m)
BY DEF WorkDone, FewBad, RootfsWhole, HoldsFirst, Used

LEMMA RegionsKept ==
  ASSUME UNCHANGED region
  PROVE  \A macro \in Regions : WorkDone(macro)' = WorkDone(macro)
BY DEF WorkDone, Regions

LEMMA RunRecord ==
  ASSUME IInv, RInv, RunFlashall \/ RunMacro
  PROVE  RInv'
<1> USE DEF IInv, RInv
<1>1. TypeOK /\ stage = "prompt" /\ ok' = ok /\ UNCHANGED <<region, block, bad, size>>
  BY DEF RunFlashall, RunMacro, nandVars, fixed, Types
<1>2. /\ stage' \in Macros
      /\ stage' = "rootfs" => cmd' = "size"
      /\ stage' \in {"mlo", "ub"} => cmd' = "load"
      /\ stage' = "env" => cmd' = "erase"
  BY DEF RunFlashall, RunMacro, Begin, FirstCommand, Macros, Regions
<1>3. CommandsInv' /\ ChunkSize' /\ Copied'
  BY <1>2, FreshCopy DEF CommandsInv, Regions
<1>4. stage \notin ok'
  BY <1>1 DEF TypeOK, Macros, Regions
<1>5. \A macro \in Macros \ {stage} : WorkDone(macro) => WorkDone(macro)'
  BY <1>1, WholeKept, RegionsKept DEF Macros
<1> QED
  BY <1>1, <1>3, <1>4, <1>5, OkKept

LEMMA RegionRecord ==
  ASSUME IInv, RInv, FlashRegion
  PROVE  RInv'
<1> USE DEF IInv, RInv
<1>1. /\ TypeOK /\ stage \in Regions /\ stage \in Macros /\ stage # "rootfs"
      /\ UNCHANGED <<block, bad, size>>
  BY DEF FlashRegion, LoadFile, EraseRegion, WriteRegion, nandVars, fixed, Types,
    Regions, Macros
<1> PICK old \in Regions : old = stage
  BY <1>1
<1>2. \A other \in Regions \ {stage} : region'[other] = region[other]
  BY <1>1 DEF FlashRegion, LoadFile, EraseRegion, WriteRegion, nandVars, TypeOK
<1>3. \A macro \in Macros \ {stage} : WorkDone(macro) => WorkDone(macro)'
  <2>1. ASSUME NEW macro \in Regions \ {stage}
        PROVE  WorkDone(macro) => WorkDone(macro)'
    BY <1>2, <2>1 DEF WorkDone, Regions
  <2> QED
    BY <1>1, <2>1, WholeKept DEF Macros
<1>4. \/ stage' = stage /\ ok' = ok
      \/ Ended(FALSE)
      \/ Ended(TRUE) /\ WorkDone(old)'
  <2>1. CASE LoadFile
    BY <2>1 DEF LoadFile, Then, Fault
  <2>2. CASE EraseRegion
    BY <1>1, <2>2 DEF EraseRegion, Then, Fault, WorkDone, TypeOK
  <2>3. CASE WriteRegion
    BY <1>1, <2>3 DEF WriteRegion, Fault, CommandsInv, WorkDone, TypeOK, Regions
  <2> QED
    BY <2>1, <2>2, <2>3 DEF FlashRegion
<1>5. OkMeansDone'
  <2>1. ok' \subseteq ok \cup {stage} /\ (old \in ok' => stage' = old \/ WorkDone(old)')
    BY <1>1, <1>4 DEF Ended
  <2> QED
    BY <1>1, <1>3, <2>1, OkKept
<1>6. CommandsInv' /\ ChunkSize' /\ Copied'
  <2>1. CASE \E good \in BOOLEAN : Ended(good)
    BY <1>1, <2>1, EndedCommands
  <2>2. CASE ~ \E good \in BOOLEAN : Ended(good)
    <3>1. /\ stage' = stage
          /\ \/ cmd' = "erase"
             \/ cmd' = "write" /\ stage # "env" /\ region'[stage] = "erased"
      BY <1>1, <2>2 DEF FlashRegion, LoadFile, EraseRegion, WriteRegion, Then, Fault, TypeOK
    <3> QED
      BY <1>1, <3>1, FreshCopy DEF CommandsInv
  <2> QED
    BY <2>1, <2>2
<1> QED
  BY <1>5, <1>6

LEMMA PowerRecord ==
  ASSUME IInv, RInv, PowerFails \/ PowerOn
  PROVE  RInv'
<1> USE DEF IInv, RInv
<1>1. /\ TypeOK /\ stage' \in {"off", "prompt"}
      /\ ok' \subseteq ok \ {stage}
      /\ UNCHANGED <<bad, size>>
  BY DEF PowerFails, PowerOn, fixed, Types, TypeOK, Macros, Regions
<1>2. CommandsInv' /\ ChunkSize' /\ Copied'
  BY <1>1, FreshCopy DEF CommandsInv, Regions
<1>3. \A macro \in Macros \ {stage} : WorkDone(macro) => WorkDone(macro)'
  <2>1. UNCHANGED block \/ stage = "rootfs"
    BY DEF PowerFails, PowerOn, nandVars
  <2>2. \A other \in Regions \ {stage} : region'[other] = region[other]
    BY <1>1 DEF PowerFails, PowerOn, nandVars, TypeOK
  <2>3. ASSUME NEW macro \in Regions \ {stage}
        PROVE  WorkDone(macro) => WorkDone(macro)'
    BY <2>2, <2>3 DEF WorkDone, Regions
  <2> QED
    BY <1>1, <2>1, <2>3, WholeKept DEF Macros
<1> QED
  BY <1>1, <1>2, <1>3, OkKept

\* flashrootfs ends: badly, or with the image on the blocks.
LEMMA RootfsEndsRecord ==
  ASSUME TypeOK, RInv, stage = "rootfs", UNCHANGED <<region, bad, size>>,
         NEW good \in BOOLEAN, Ended(good), good => WorkDone("rootfs")'
  PROVE  RInv'
<1> USE DEF RInv
<1>1. stage \in Macros
  BY DEF Macros
<1>2. \A macro \in Macros \ {stage} : WorkDone(macro) => WorkDone(macro)'
  BY RegionsKept DEF Macros
<1>3. ok' \subseteq ok \cup {stage} /\ ("rootfs" \in ok' => WorkDone("rootfs")')
  BY <1>1 DEF Ended
<1> QED
  BY <1>1, <1>2, <1>3, OkKept, EndedCommands

\* It goes on: what it has done so far is not asked yet.
LEMMA RootfsGoesOnRecord ==
  ASSUME TypeOK, RInv, stage = "rootfs", UNCHANGED <<stage, ok, region>>,
         cmd' \in {"erase", "load1", "write1", "load2", "write2"}
  PROVE  CommandsInv' /\ OkMeansDone'
<1> USE DEF RInv
<1>1. \A macro \in Macros \ {stage} : WorkDone(macro) => WorkDone(macro)'
  BY RegionsKept DEF Macros
<1>2. OkMeansDone'
  BY <1>1, OkKept
<1> QED
  BY <1>2 DEF CommandsInv, Regions

\* One more block, behind all that are used.
LEMMA Appended ==
  ASSUME TypeOK, NEW m \in Nat, HoldsFirst(m), NEW p \in Blocks \ bad,
         \A b \in Blocks \ bad : b >= p => block[b] = Erased,
         block' = [block EXCEPT ![p] = m], bad' = bad
  PROVE  HoldsFirst(m + 1)'
<1>1. \A b \in Blocks : b \in Int
  BY NandFlashAssumption DEF Blocks
<1>2. \A b \in Used : b < p /\ block[b] \in 0 .. m - 1 /\ block'[b] = block[b]
  BY <1>1 DEF Used, HoldsFirst, TypeOK
<1>3. block'[p] = m /\ m # Erased
  BY DEF TypeOK, Erased
<1>4. Used' = Used \cup {p}
  BY <1>3 DEF Used, TypeOK
<1>5. {block'[b] : b \in Used'} = 0 .. (m + 1) - 1
  <2>1. {block'[b] : b \in Used'} = {block[b] : b \in Used} \cup {m}
    BY <1>2, <1>3, <1>4
  <2> QED
    BY <2>1 DEF HoldsFirst
<1>6. \A a, b \in Used' : a < b => block'[a] < block'[b]
  <2> SUFFICES ASSUME NEW a \in Used \cup {p}, NEW b \in Used \cup {p}, a < b
               PROVE  block'[a] < block'[b]
    BY <1>4
  <2>1. p \in Int /\ a # p
    <3>1. p \in Blocks /\ Used \subseteq Blocks
      BY DEF Used
    <3>2. p \in Int /\ a \in Int /\ b \in Int
      BY <1>1, <3>1
    <3>3. b <= p
      BY <1>2, <3>2
    <3> QED
      BY <3>2, <3>3
  <2>2. a \in Used /\ block'[a] = block[a] /\ block[a] \in 0 .. m - 1
    BY <1>2, <2>1
  <2>3. CASE b = p
    BY <1>3, <2>2, <2>3
  <2>4. CASE b \in Used
    BY <1>2, <2>2, <2>4 DEF HoldsFirst
  <2> QED
    BY <2>3, <2>4
<1> QED
  BY <1>5, <1>6 DEF HoldsFirst

LEMMA FatSizeRecord ==
  ASSUME IInv, RInv, FatSize
  PROVE  RInv'
<1>1. TypeOK /\ stage = "rootfs" /\ UNCHANGED <<region, bad, size, block>>
  BY DEF IInv, Types, FatSize, Rootfs, nandVars, fixed
<1>2. CASE Fault
  BY <1>1, <1>2, RootfsEndsRecord DEF Fault
<1>3. CASE c2' = SecondChunk /\ Then("erase")
  <2>1. CommandsInv' /\ OkMeansDone'
    BY <1>1, <1>3, RootfsGoesOnRecord DEF Then
  <2>2. ChunkSize' /\ Copied'
    BY <1>1, <1>3 DEF ChunkSize, Copied, SecondChunk, Then
  <2> QED
    BY <2>1, <2>2 DEF RInv
<1> QED
  BY <1>2, <1>3 DEF FatSize

LEMMA EraseRecord ==
  ASSUME IInv, RInv, EraseBlock
  PROVE  RInv'
<1> USE DEF IInv, RInv
<1>1. TypeOK /\ stage = "rootfs" /\ cmd = "erase" /\ UNCHANGED <<region, bad, size, c2>>
  BY DEF Types, EraseBlock, Rootfs, fixed
<1>2. CASE Fault
  BY <1>1, <1>2, RootfsEndsRecord DEF Fault
<1>3. CASE UNCHANGED <<stage, cmd, ok>>
  <2>1. CommandsInv' /\ OkMeansDone'
    BY <1>1, <1>3, RootfsGoesOnRecord
  <2>2. ChunkSize' /\ Copied'
    BY <1>1, <1>3 DEF ChunkSize, Copied, SecondChunk
  <2> QED
    BY <2>1, <2>2
<1>4. CASE pos = EraseEnd /\ Then("load1") /\ UNCHANGED block
  <2>1. CommandsInv' /\ OkMeansDone'
    BY <1>1, <1>4, RootfsGoesOnRecord DEF Then
  <2>2. ChunkSize'
    BY <1>1, <1>4 DEF ChunkSize, SecondChunk, Then
  <2>3. ASSUME FewBad
        PROVE  Used = {}
    BY <1>1, <1>4, <2>3, NandFlashAssumption DEF Clear, EraseEnd, Blocks, Used, TypeOK
  <2>4. ASSUME FewBad
        PROVE  HoldsFirst(0)
    BY <2>3, <2>4 DEF HoldsFirst
  <2>5. Copied'
    <3>1. FewBad => HoldsFirst(0)'
      BY <1>1, <1>4, <2>4 DEF HoldsFirst, Used
    <3> QED
      BY <1>1, <1>4, <3>1, WholeKept DEF Copied, Then
  <2> QED
    BY <2>1, <2>2, <2>5
<1> QED
  BY <1>2, <1>3, <1>4 DEF EraseBlock

LEMMA LoadRecord ==
  ASSUME IInv, RInv, Load1 \/ Load2
  PROVE  RInv'
<1> USE DEF IInv, RInv
<1>1. TypeOK /\ stage = "rootfs" /\ UNCHANGED <<region, block, bad, size, c2>>
  BY DEF Types, Load1, Load2, FatLoad, Rootfs, nandVars, fixed
<1>2. CASE Fault \/ Ended(FALSE)
  BY <1>1, <1>2, RootfsEndsRecord DEF Fault
<1>3. CASE Rootfs("load1") /\ loaded' = InFile(0, Half) /\ k' = 0 /\ Then("write1")
  <2>1. CommandsInv' /\ OkMeansDone'
    BY <1>1, <1>3, RootfsGoesOnRecord DEF Then
  <2>2. ChunkSize'
    BY <1>1, <1>3 DEF ChunkSize, SecondChunk, Then, Rootfs
  <2>3. ASSUME Half <= size
        PROVE  loaded' = Half
    BY <1>1, <1>3, <2>3, NandFlashAssumption DEF InFile, TypeOK
  <2>4. Copied'
    <3>1. FewBad /\ Half <= size => HoldsFirst(0)
      BY <1>3 DEF Copied, Rootfs
    <3>2. FewBad /\ Half <= size => HoldsFirst(k)'
      BY <1>1, <1>3, <3>1 DEF HoldsFirst, Used
    <3> QED
      BY <1>1, <1>3, <2>3, <3>2, WholeKept DEF Copied, Then
  <2> QED
    BY <2>1, <2>2, <2>4
<1>4. CASE Rootfs("load2") /\ loaded' = InFile(Half, c2) /\ k' = 0 /\ Then("write2")
  <2>1. CommandsInv' /\ OkMeansDone'
    BY <1>1, <1>4, RootfsGoesOnRecord DEF Then
  <2>2. ChunkSize'
    BY <1>1, <1>4 DEF ChunkSize, SecondChunk, Then, Rootfs
  <2>3. ASSUME Half <= size
        PROVE  loaded' = c2
    <3>1. c2 = size - Half
      BY <1>1, <1>4, <2>3, SecondChunkValue DEF ChunkSize, Rootfs
    <3> QED
      BY <1>1, <1>4, <2>3, <3>1, NandFlashAssumption DEF InFile, TypeOK
  <2>4. Half + k' = Half
    BY <1>4, NandFlashAssumption
  <2>5. Copied'
    <3>1. FewBad /\ Half <= size => HoldsFirst(Half)
      BY <1>4 DEF Copied, Rootfs
    <3>2. FewBad /\ Half <= size => HoldsFirst(Half + k)'
      BY <1>1, <2>4, <3>1 DEF HoldsFirst, Used
    <3> QED
      BY <1>1, <1>4, <2>3, <3>2, WholeKept DEF Copied, Then
  <2> QED
    BY <2>1, <2>2, <2>5
<1> QED
  BY <1>2, <1>3, <1>4 DEF Load1, Load2, FatLoad

\* A block written holds the next block of the image.
LEMMA BlockRecord ==
  ASSUME IInv, RInv, NEW m \in Nat, NEW base \in Nat, NEW n \in Nat,
         stage = "rootfs", cmd \in {"write1", "write2"},
         UNCHANGED <<bad, size>>,
         FewBad, HoldsFirst(m), m = base + k, loaded = n,
         k < n, n - k <= Cardinality(Good(pos)),
         IF Skipped(pos)
           THEN UNCHANGED <<block, k>>
           ELSE /\ block' = [block EXCEPT ![pos] = IF @ = Erased THEN Data(base) ELSE Clash]
                /\ k' = k + 1
  PROVE  HoldsFirst(base + k)'
<1> USE DEF IInv
<1>1. TypeOK /\ pos \in Nat /\ k \in Nat /\ bad \subseteq Blocks
  BY DEF Types, TypeOK
<1>2. CASE pos \in bad
  <2>1. base + k' = m /\ UNCHANGED block
    BY <1>2 DEF Skipped
  <2> QED
    BY <2>1 DEF HoldsFirst, Used
<1>3. CASE pos \notin bad
  <2>1. pos \in Blocks \ bad
    <3>1. ~(pos >= End)
      BY <1>1, GoodLeft
    <3> QED
      BY <1>1, <1>3, <3>1, NandFlashAssumption DEF Blocks
  <2>2. \A b \in Blocks \ bad : b >= pos => block[b] = Erased
    BY DEF Clear, Untouched
  <2>3. pos >= pos /\ block[pos] = Erased /\ Data(base) = m
    BY <1>1, <2>1, <2>2 DEF Data
  <2>4. block' = [block EXCEPT ![pos] = m] /\ base + k' = m + 1
    BY <1>1, <1>3, <2>3 DEF Skipped
  <2>5. HoldsFirst(m + 1)'
    BY <1>1, <2>1, <2>2, <2>4, Appended
  <2> QED
    BY <2>4, <2>5 DEF HoldsFirst, Used
<1> QED
  BY <1>2, <1>3

LEMMA WriteRecord ==
  ASSUME IInv, RInv, Write1 \/ Write2
  PROVE  RInv'
<1> USE DEF IInv, RInv
<1>1. PICK n \in Nat, base \in Nat, next \in {"load2", "end"} :
        /\ NandWrite(n, base, next)
        /\ \/ Rootfs("write1") /\ n = Half /\ base = 0 /\ next = "load2"
           \/ Rootfs("write2") /\ n = c2 /\ base = Half /\ next = "end"
  BY NandFlashAssumption DEF Write1, Write2, Types, TypeOK
<1>2. /\ TypeOK /\ stage = "rootfs" /\ cmd \in {"write1", "write2"}
      /\ k \in Nat
      /\ UNCHANGED <<region, bad, size, c2>>
  BY <1>1 DEF Types, TypeOK, Rootfs, NandWrite, fixed
\* What the chunk has brought so far.
<1>3. ASSUME FewBad, Half <= size
      PROVE  loaded = n /\ HoldsFirst(base + k)
  <2>1. CASE Rootfs("write1") /\ n = Half /\ base = 0
    <3>1. loaded = n /\ HoldsFirst(k)
      BY <1>3, <2>1 DEF Copied, Rootfs
    <3>2. base + k = k
      BY <1>2, <2>1
    <3> QED
      BY <3>1, <3>2
  <2>2. CASE Rootfs("write2") /\ n = c2 /\ base = Half
    BY <1>3, <2>2 DEF Copied, Rootfs
  <2> QED
    BY <1>1, <2>1, <2>2
<1>4. CASE /\ k < n /\ n - k <= Cardinality(Good(pos))
           /\ IF Skipped(pos)
                THEN UNCHANGED <<block, k>>
                ELSE /\ block' = [block EXCEPT ![pos] = IF @ = Erased THEN Data(base) ELSE Clash]
                     /\ k' = k + 1
           /\ UNCHANGED <<stage, cmd, ok, loaded>>
  <2>1. CommandsInv' /\ OkMeansDone'
    BY <1>2, <1>4, RootfsGoesOnRecord
  <2>2. ChunkSize'
    BY <1>2, <1>4 DEF ChunkSize, SecondChunk
  <2>3. base + k \in Nat
    BY <1>2
  <2>4. ASSUME FewBad, Half <= size
        PROVE  HoldsFirst(base + k)'
    BY <1>2, <1>3, <1>4, <2>3, <2>4, BlockRecord
  <2>5. FewBad' = FewBad
    BY <1>2 DEF FewBad
  <2>6. Copied'
    <3>1. CASE cmd = "write1"
      <4>1. base = 0 /\ n = Half /\ k' \in Nat
        BY <1>1, <1>2, <1>4, <3>1 DEF Rootfs
      <4>2. base + k' = k'
        <5>1. \A x \in Nat : 0 + x = x
          OBVIOUS
        <5> QED
          BY <4>1, <5>1, Zenon
      <4>3. FewBad /\ Half <= size => HoldsFirst(k)'
        BY <2>4, <4>2 DEF HoldsFirst
      <4> QED
        BY <1>2, <1>3, <1>4, <2>5, <3>1, <4>1, <4>3 DEF Copied
    <3>2. CASE cmd = "write2"
      <4>1. base = Half /\ n = c2
        BY <1>1, <3>2 DEF Rootfs
      <4>2. FewBad /\ Half <= size => HoldsFirst(Half + k)'
        BY <2>4, <4>1 DEF HoldsFirst
      <4> QED
        BY <1>2, <1>3, <1>4, <2>5, <3>2, <4>1, <4>2 DEF Copied
    <3> QED
      BY <1>2, <3>1, <3>2
  <2> QED
    BY <2>1, <2>2, <2>6
<1>5. CASE Ended(FALSE) \/ Fault
  BY <1>2, <1>5, RootfsEndsRecord DEF Fault
<1>6. CASE k = n /\ next = "end" /\ Ended(TRUE) /\ UNCHANGED block
  <2>1. Rootfs("write2") /\ n = c2 /\ base = Half
    BY <1>1, <1>6
  <2>2. Half <= size /\ Half + k = size
    BY <1>2, <1>6, <2>1, SecondChunkValue, NandFlashAssumption DEF ChunkSize, Rootfs, TypeOK
  <2>3. FewBad => RootfsWhole
    BY <1>3, <2>1, <2>2 DEF RootfsWhole
  <2>4. WorkDone("rootfs")'
    <3>1. WorkDone("rootfs")
      BY <2>3 DEF WorkDone
    <3> QED
      BY <1>2, <1>6, <3>1, WholeKept
  <2> QED
    BY <1>2, <1>6, <2>4, RootfsEndsRecord
<1>7. CASE k = n /\ next = "load2" /\ Then("load2") /\ UNCHANGED block
  <2>1. cmd = "write1" /\ n = Half /\ base = 0 /\ base + k = Half
    BY <1>1, <1>2, <1>7 DEF Rootfs
  <2>2. CommandsInv' /\ OkMeansDone'
    BY <1>2, <1>7, RootfsGoesOnRecord DEF Then
  <2>3. ChunkSize'
    BY <1>2, <1>7 DEF ChunkSize, SecondChunk, Then
  <2>4. FewBad /\ Half <= size => HoldsFirst(Half)'
    BY <1>2, <1>3, <1>7, <2>1 DEF HoldsFirst, Used
  <2>5. Copied'
    BY <1>2, <1>7, <2>4, WholeKept DEF Copied, Then
  <2> QED
    BY <2>2, <2>3, <2>5
<1> QED
  BY <1>1, <1>4, <1>5, <1>6, <1>7 DEF NandWrite

LEMMA RInvStep == IInv /\ RInv /\ [Next]_vars => RInv'
<1> SUFFICES ASSUME IInv, RInv, [Next]_vars
             PROVE  RInv'
  OBVIOUS
<1>1. CASE RunFlashall \/ RunMacro
  BY <1>1, RunRecord
<1>2. CASE FlashRegion
  BY <1>2, RegionRecord
<1>3. CASE FlashRootfs
  BY <1>3, FatSizeRecord, EraseRecord, LoadRecord, WriteRecord DEF FlashRootfs
<1>4. CASE PowerFails \/ PowerOn
  BY <1>4, PowerRecord
<1>5. CASE UNCHANGED vars
  <2>1. UNCHANGED <<stage, cmd, ok, region, block, bad, size, c2, k, loaded>>
    BY <1>5 DEF vars, nandVars, fixed, copyVars
  <2>2. CommandsInv' /\ ChunkSize'
    BY <2>1 DEF RInv, CommandsInv, ChunkSize, SecondChunk
  <2>3. Copied'
    BY <2>1 DEF RInv, Copied, HoldsFirst, Used, FewBad
  <2>4. \A macro \in Macros : WorkDone(macro)' = WorkDone(macro)
    BY <2>1, WholeKept, RegionsKept DEF Macros
  <2>5. OkMeansDone'
    BY <2>1, <2>4 DEF RInv, OkMeansDone, IInv, Types, TypeOK
  <2> QED
    BY <2>2, <2>3, <2>5 DEF RInv
<1> QED
  BY <1>1, <1>2, <1>3, <1>4, <1>5 DEF Next, Command

-----------------------------------------------------------------------------
(* The theorems.                                                            *)

\* Both invariants hold in every reachable state, for every partition, image and bad
\* block.
THEOREM Invariance == Spec => [](IInv /\ RInv)
BY InitIInv, InitRInv, IInvStep, RInvStep, PTL DEF Spec

\* The type invariant: among others, no write leaves the partition.
THEOREM TypeCorrect == Spec => []TypeOK
<1>1. IInv => TypeOK
  BY DEF IInv, Types
<1> QED
  BY <1>1, Invariance, PTL

\* The two chunks never meet unless more blocks are bad than the gap has blocks,
\* whatever failed or was cut short before: the claim of flash/FLASHING.md:67-69 with
\* the condition it needs.
THEOREM ChunksApart == Spec => []HalvesApart
<1>1. IInv => HalvesApart
  BY DEF IInv
<1> QED
  BY <1>1, Invariance, PTL

\* A macro that ended well has done its work: after flashrootfs every block of the
\* image is on a good block, in order, with nothing else beside them; the reason to
\* believe an "OK" on the console (0002:19-22).
THEOREM OkIsDone == Spec => []OkMeansDone
<1>1. RInv => OkMeansDone
  BY DEF RInv
<1> QED
  BY <1>1, Invariance, PTL

-----------------------------------------------------------------------------
(* flashall again, without a failing command: it comes to its end, and each *)
(* macro with it.                                                           *)

\* Behind a block passed one good block less is left, or none.
LEMMA GoodStep ==
  ASSUME bad \subseteq Blocks, NEW b \in 0 .. End, b < End
  PROVE  Cardinality(Good(b)) = Cardinality(Good(b + 1)) + (IF b \in bad THEN 0 ELSE 1)
<1> USE NandFlashAssumption
<1>1. IsFiniteSet((b + 1) .. End - 1)
  BY FS_Interval
<1>2. IsFiniteSet(Good(b + 1)) /\ Cardinality(Good(b + 1)) \in Nat
  BY <1>1, FS_Subset, FS_CardinalityType DEF Good
<1>3. CASE b \in bad
  <2>1. Good(b) = Good(b + 1)
    BY <1>3 DEF Good
  <2> QED
    BY <1>2, <1>3, <2>1
<1>4. CASE b \notin bad
  <2>1. Good(b) = Good(b + 1) \cup {b} /\ b \notin Good(b + 1)
    BY <1>4 DEF Good
  <2>2. Cardinality(Good(b)) = Cardinality(Good(b + 1)) + 1
    BY <1>2, <2>1, FS_AddElement
  <2> QED
    BY <1>4, <2>2
<1> QED
  BY <1>3, <1>4

\* The first chunk has room as soon as the gap takes the bad blocks.
LEMMA RoomAtFirst ==
  ASSUME bad \subseteq Blocks, FewBad
  PROVE  Half <= Cardinality(Good(0))
<1> USE NandFlashAssumption
<1> DEFINE S == 0 .. Second - 1
<1>1. IsFiniteSet(S) /\ Cardinality(S) = Second
  BY FS_Interval
<1>2. IsFiniteSet(S \ bad) /\ Cardinality(S \ bad) = Second - Cardinality(S \cap bad)
  BY <1>1, FS_Difference
<1>3. S \cap bad = bad \cap 0 .. Second - 1
  OBVIOUS
<1>4. IsFiniteSet(S \cap bad) /\ Cardinality(S \cap bad) \in Nat
  BY <1>1, FS_Subset, FS_CardinalityType
<1>5. IsFiniteSet(0 .. End - 1)
  BY FS_Interval
<1>6. IsFiniteSet(Good(0)) /\ Cardinality(Good(0)) \in Nat
  BY <1>5, FS_Subset, FS_CardinalityType DEF Good
<1>7. S \ bad \subseteq Good(0)
  BY DEF Good
<1>8. Cardinality(S \ bad) <= Cardinality(Good(0))
  BY <1>6, <1>7, FS_Subset
<1>9. Cardinality(S \cap bad) <= Second - Half
  BY <1>3 DEF FewBad
<1> HIDE DEF S
<1> QED
  BY <1>2, <1>4, <1>6, <1>8, <1>9

\* A write that has begun finds the good blocks it still needs.
RoomInv ==
  Flashable =>
    /\ Rootfs("write1") => Half - k <= Cardinality(Good(pos))
    /\ Rootfs("write2") => c2 - k <= Cardinality(Good(pos))

LEMMA RoomStep == IInv /\ RInv /\ RoomInv /\ [Next]_vars => RoomInv'
<1>a. [Next]_vars => UNCHANGED <<bad, size>>
  BY DEF Next, RunFlashall, RunMacro, Command, FlashRegion, FlashRootfs, LoadFile, EraseRegion,
         WriteRegion, FatSize, EraseBlock, Load1, Load2, FatLoad, Write1, Write2, NandWrite,
         PowerFails, PowerOn, fixed, vars
<1>b. UNCHANGED <<bad, size>> /\ Flashable' => Flashable
  BY DEF Flashable, FewBad, Good
<1> SUFFICES ASSUME IInv, RInv, RoomInv, [Next]_vars, Flashable,
                    stage' = "rootfs", cmd' \in {"write1", "write2"}
             PROVE  /\ cmd' = "write1" => Half - k' <= Cardinality(Good(pos))'
                    /\ cmd' = "write2" => c2' - k' <= Cardinality(Good(pos))'
  BY <1>a, <1>b DEF RoomInv, Rootfs
<1>0. TypeOK /\ bad \subseteq Blocks
  BY DEF IInv, Types, TypeOK
<1> USE <1>0
<1>1. CASE RunFlashall \/ RunMacro \/ PowerFails \/ PowerOn
  BY <1>1 DEF RunFlashall, RunMacro, PowerFails, PowerOn, Begin, FirstCommand, Macros, Regions
<1>2. CASE FlashRegion
  BY <1>2 DEF FlashRegion, LoadFile, EraseRegion, WriteRegion, Fault, Ended, Begin, FirstCommand,
              NextMacro, Then, Regions
<1>3. ASSUME NEW good, stage = "rootfs", Ended(good)
      PROVE  FALSE
  BY <1>3 DEF Ended, Begin, FirstCommand, NextMacro
<1>4. CASE FatSize \/ EraseBlock
  BY <1>3, <1>4 DEF FatSize, EraseBlock, Rootfs, Then, Fault
<1>5. CASE Load1
  <2>1. cmd' = "write1" /\ pos' = 0 /\ k' = 0 /\ bad' = bad
    BY <1>3, <1>5 DEF Load1, FatLoad, Rootfs, Fault, Then, fixed
  <2>2. Good(pos)' = Good(0)
    BY <2>1 DEF Good
  <2> QED
    BY <2>1, <2>2, RoomAtFirst, NandFlashAssumption DEF Flashable
<1>6. CASE Load2
  <2>1. /\ cmd' = "write2" /\ pos' = Second /\ k' = 0 /\ bad' = bad /\ c2' = c2
        /\ stage = "rootfs" /\ cmd = "load2"
    BY <1>3, <1>6 DEF Load2, FatLoad, Rootfs, Fault, Then, fixed, SecondStart
  <2>2. Good(pos)' = Good(Second)
    BY <2>1 DEF Good
  <2>3. c2 = size - Half
    BY <2>1, SecondChunkValue DEF RInv, ChunkSize, Flashable
  <2> QED
    BY <2>1, <2>2, <2>3, NandFlashAssumption DEF Flashable, TypeOK
<1>7. ASSUME NEW n \in Nat, NEW base, NEW next \in {"load2", "end"}, stage = "rootfs",
             NandWrite(n, base, next)
      PROVE  cmd' = cmd /\ c2' = c2 /\ n - k' <= Cardinality(Good(pos))'
  <2>1. /\ k < n /\ n - k <= Cardinality(Good(pos))
        /\ k' = IF pos \in bad THEN k ELSE k + 1
        /\ pos' = pos + 1 /\ UNCHANGED <<cmd, bad, c2>>
    BY <1>3, <1>7 DEF NandWrite, Fault, Then, Skipped, fixed
  <2>2. pos \in 0 .. End /\ k \in Nat /\ Cardinality(Good(pos)) \in Nat
    BY NandFlashAssumption, GoodLeft DEF TypeOK
  <2>3. pos < End
    BY <2>1, <2>2, GoodLeft, NandFlashAssumption
  <2>4. Good(pos)' = Good(pos + 1)
    BY <2>1 DEF Good
  <2>5. /\ Cardinality(Good(pos + 1)) \in Nat
        /\ Cardinality(Good(pos)) = Cardinality(Good(pos + 1)) + (IF pos \in bad THEN 0 ELSE 1)
    BY <2>2, <2>3, GoodLeft, GoodStep, NandFlashAssumption
  <2> QED
    BY <1>7, <2>1, <2>2, <2>4, <2>5
<1>8. CASE Write1
  <2>1. cmd' = cmd /\ Half - k' <= Cardinality(Good(pos))'
    BY <1>7, <1>8, NandFlashAssumption DEF Write1, Rootfs
  <2> QED
    BY <1>8, <2>1 DEF Write1, Rootfs
<1>9. CASE Write2
  <2>1. cmd' = cmd /\ c2' = c2 /\ c2 - k' <= Cardinality(Good(pos))'
    <3>1. c2 \in Nat
      BY NandFlashAssumption DEF TypeOK
    <3> QED
      BY <1>7, <1>9, <3>1 DEF Write2, Rootfs
  <2> QED
    BY <1>9, <2>1 DEF Write2, Rootfs
<1>10. CASE UNCHANGED vars
  <2>1. UNCHANGED <<stage, cmd, pos, k, c2, bad>>
    BY <1>10 DEF vars, copyVars, fixed
  <2> QED
    BY <2>1 DEF RoomInv, Rootfs, Good
<1> QED
  BY <1>1, <1>2, <1>4, <1>5, <1>6, <1>8, <1>9, <1>10 DEF Next, Command, FlashRootfs

\* The commands flashall still has, a write or an erase of one block counting as one.
FlashLeft ==
  CASE stage = "prompt" -> 0
    [] stage = "rootfs" /\ cmd = "write2" -> End - pos + 1
    [] stage = "rootfs" /\ cmd = "load2"  -> End + 2
    [] stage = "rootfs" /\ cmd = "write1" -> End + 3 + (End - pos)
    [] stage = "rootfs" /\ cmd = "load1"  -> 2 * End + 4
    [] stage = "rootfs" /\ cmd = "erase"  -> 2 * End + 5 + (End - pos)
    [] stage = "rootfs" /\ cmd = "size"   -> 3 * End + 6
    [] stage = "env"                      -> 3 * End + 7
    [] stage = "ub" /\ cmd = "write"      -> 3 * End + 8
    [] stage = "ub" /\ cmd = "erase"      -> 3 * End + 9
    [] stage = "ub" /\ cmd = "load"       -> 3 * End + 10
    [] stage = "mlo" /\ cmd = "write"     -> 3 * End + 11
    [] stage = "mlo" /\ cmd = "erase"     -> 3 * End + 12
    [] stage = "mlo" /\ cmd = "load"      -> 3 * End + 13
    [] OTHER                              -> 0

\* The macro goes on, or it has ended well and the next one begins.
Passes ==
  \/ stage' = stage /\ ok' = ok
  \/ /\ stage' = IF all THEN NextMacro[stage] ELSE "prompt"
     /\ ok' = ok \cup {stage}

LEMMA EndedPasses ==
  ASSUME TypeOK, Ended(TRUE),
         \/ stage \in {"mlo", "ub"} /\ cmd = "write"
         \/ stage = "env"
         \/ stage = "rootfs" /\ cmd = "write2"
  PROVE  Passes /\ FlashLeft' < FlashLeft
<1>1. Passes
  BY DEF Passes, Ended, Begin
<1>2. stage' = (IF all THEN NextMacro[stage] ELSE "prompt") /\ cmd' = FirstCommand[stage']
  BY DEF Ended, Begin
<1>3. \/ stage' = "prompt"
      \/ stage = "mlo" /\ stage' = "ub" /\ cmd' = "load"
      \/ stage = "ub" /\ stage' = "env"
      \/ stage = "env" /\ stage' = "rootfs" /\ cmd' = "size"
  BY <1>2 DEF NextMacro, FirstCommand
<1>4. End \in Nat /\ pos \in 0 .. End
  BY NandFlashAssumption DEF TypeOK
<1>5. FlashLeft' < FlashLeft
  <2>1. CASE stage = "rootfs" /\ cmd = "write2"
    BY <1>3, <1>4, <2>1 DEF FlashLeft
  <2>2. CASE stage = "env" \/ (stage \in {"mlo", "ub"} /\ cmd = "write")
    BY <1>3, <1>4, <2>2 DEF FlashLeft
  <2> QED
    BY <2>1, <2>2
<1> QED
  BY <1>1, <1>5

LEMMA RegionPasses ==
  ASSUME TypeOK, CommandsInv, FlashRegion, faults' = faults
  PROVE  Passes /\ FlashLeft' < FlashLeft
<1>1. ~Fault
  <2>1. faults \in Nat
    BY NandFlashAssumption DEF TypeOK
  <2>2. faults' # faults + 1
    BY <2>1
  <2> QED
    BY <2>2 DEF Fault
<1>2. CASE Ended(TRUE) /\ ((stage \in {"mlo", "ub"} /\ cmd = "write") \/ stage = "env")
  BY <1>2, EndedPasses
<1>3. CASE /\ stage' = stage /\ ok' = ok
           /\ \/ stage \in {"mlo", "ub"} /\ cmd = "load" /\ cmd' = "erase"
              \/ stage \in {"mlo", "ub"} /\ cmd = "erase" /\ cmd' = "write"
  <2>1. Passes
    BY <1>3 DEF Passes
  <2>2. FlashLeft' < FlashLeft
    BY <1>3, NandFlashAssumption DEF FlashLeft
  <2> QED
    BY <2>1, <2>2
<1>4. CASE LoadFile
  BY <1>1, <1>3, <1>4 DEF LoadFile, Then
<1>5. CASE EraseRegion
  BY <1>1, <1>2, <1>3, <1>5 DEF EraseRegion, Then, Regions
<1>6. CASE WriteRegion
  BY <1>1, <1>2, <1>6 DEF WriteRegion, CommandsInv, Regions
<1> QED
  BY <1>4, <1>5, <1>6 DEF FlashRegion

LEMMA RootfsPasses ==
  ASSUME TypeOK, TypeOK', ChunkSize, RoomInv, Flashable, FlashRootfs, faults' = faults
  PROVE  Passes /\ FlashLeft' < FlashLeft
<1>1. ~Fault
  <2>1. faults \in Nat
    BY NandFlashAssumption DEF TypeOK
  <2>2. faults' # faults + 1
    BY <2>1
  <2> QED
    BY <2>2 DEF Fault
<1>2. End \in Nat /\ pos \in 0 .. End /\ pos' \in 0 .. End /\ stage = "rootfs"
  BY NandFlashAssumption
     DEF TypeOK, FlashRootfs, FatSize, EraseBlock, Load1, Write1, Load2, Write2, Rootfs
<1>3. ASSUME stage' = stage, ok' = ok,
             \/ cmd = "size" /\ cmd' = "erase"
             \/ cmd = "erase" /\ cmd' = "load1"
             \/ cmd = "load1" /\ cmd' = "write1"
             \/ cmd = "write1" /\ cmd' = "load2"
             \/ cmd = "load2" /\ cmd' = "write2" /\ 0 < pos'
             \/ cmd \in {"erase", "write1", "write2"} /\ cmd' = cmd /\ pos' = pos + 1
      PROVE  Passes /\ FlashLeft' < FlashLeft
  <2>1. Passes
    BY <1>3 DEF Passes
  <2>2. FlashLeft' < FlashLeft
    BY <1>2, <1>3 DEF FlashLeft
  <2> QED
    BY <2>1, <2>2
<1>4. CASE FatSize \/ EraseBlock
  BY <1>1, <1>3, <1>4 DEF FatSize, EraseBlock, Rootfs, Then
<1>5. CASE Load1
  <2>1. InFile(0, Half) <= Ram
    BY NandFlashAssumption DEF InFile, Flashable, TypeOK
  <2>2. InFile(0, Half) \in Nat /\ Ram \in Nat
    BY NandFlashAssumption DEF InFile, TypeOK
  <2>3. ~(InFile(0, Half) > Ram)
    BY <2>1, <2>2
  <2>4. stage' = stage /\ ok' = ok /\ cmd = "load1" /\ cmd' = "write1"
    BY <1>1, <1>5, <2>3 DEF Load1, FatLoad, Rootfs, Then
  <2> QED
    BY <1>3, <2>4
<1>6. CASE Load2
  <2>1. c2 = size - Half
    BY <1>6, SecondChunkValue DEF Load2, Rootfs, ChunkSize, Flashable
  <2>2. InFile(Half, c2) <= Ram /\ InFile(Half, c2) \in Nat /\ Ram \in Nat
    BY <2>1, NandFlashAssumption DEF InFile, Flashable, TypeOK
  <2>3. ~(InFile(Half, c2) > Ram)
    BY <2>2
  <2>4. stage' = stage /\ ok' = ok /\ cmd = "load2" /\ cmd' = "write2" /\ pos' = Second
    BY <1>1, <1>6, <2>3 DEF Load2, FatLoad, Rootfs, Then, SecondStart
  <2> QED
    BY <1>3, <2>4, NandFlashAssumption
<1>7. ASSUME NEW n \in Nat, NEW base, NEW next, NandWrite(n, base, next),
             n - k <= Cardinality(Good(pos))
      PROVE  \/ stage' = stage /\ ok' = ok /\ cmd' = cmd /\ pos' = pos + 1
             \/ next = "end" /\ Ended(TRUE)
             \/ next # "end" /\ stage' = stage /\ ok' = ok /\ cmd' = next
  <2>1. ~(n - k > Cardinality(Good(pos)))
    BY <1>2, <1>7, GoodLeft DEF TypeOK
  <2> QED
    BY <1>1, <1>7, <2>1 DEF NandWrite, Then
<1>8. CASE Write1
  <2>1. cmd = "write1" /\ NandWrite(Half, 0, "load2") /\ Half - k <= Cardinality(Good(pos))
    BY <1>8 DEF Write1, Rootfs, RoomInv
  <2> QED
    BY <1>3, <1>7, <2>1, NandFlashAssumption
<1>9. CASE Write2
  <2>1. cmd = "write2" /\ NandWrite(c2, Half, "end") /\ c2 - k <= Cardinality(Good(pos))
    BY <1>9 DEF Write2, Rootfs, RoomInv
  <2>2. c2 \in Nat
    BY NandFlashAssumption DEF TypeOK
  <2> QED
    BY <1>2, <1>3, <1>7, <2>1, <2>2, EndedPasses
<1> QED
  BY <1>4, <1>5, <1>6, <1>8, <1>9 DEF FlashRootfs

\* With an image that can be flashed, a macro ends badly only if a command fails or the
\* power does: no command refuses its work, whatever was left in the NAND, each brings
\* flashall nearer to its end, and no macro that has ended well is lost.  So the run of
\* flashall after the last fault ends with all four done.  This is what RerunHeals says
\* but that it is run, and its next command (0002:19-22, flash/FLASHING.md:59, 67-71).
THEOREM RerunPasses ==
  Spec => [][Flashable /\ stage \in Macros /\ faults' = faults
               => Passes /\ all' = all /\ FlashLeft' < FlashLeft]_vars
<1>1. ASSUME IInv, IInv', RInv, RoomInv, Next, Flashable, stage \in Macros, faults' = faults
      PROVE  Passes /\ all' = all /\ FlashLeft' < FlashLeft
  <2>1. TypeOK /\ TypeOK' /\ CommandsInv /\ ChunkSize
    BY <1>1 DEF IInv, Types, RInv
  <2>2. CASE Command
    <3>1. all' = all
      BY <2>2 DEF Command, FlashRegion, FlashRootfs, LoadFile, EraseRegion, WriteRegion, FatSize,
                  EraseBlock, Load1, Load2, FatLoad, Write1, Write2, NandWrite
    <3> QED
      BY <1>1, <2>1, <2>2, <3>1, RegionPasses, RootfsPasses DEF Command
  <2>3. ~(RunFlashall \/ RunMacro \/ PowerOn)
    BY <1>1 DEF RunFlashall, RunMacro, PowerOn, Macros, Regions
  <2>4. ~PowerFails
    BY <1>1, <2>1 DEF PowerFails, TypeOK
  <2> QED
    BY <1>1, <2>2, <2>3, <2>4 DEF Next
<1>2. IInv /\ IInv' /\ RInv /\ RoomInv /\ [Next]_vars =>
        [Flashable /\ stage \in Macros /\ faults' = faults
           => Passes /\ all' = all /\ FlashLeft' < FlashLeft]_vars
  BY <1>1
<1>3. Init => RoomInv
  BY DEF Init, RoomInv, Rootfs
<1> QED
  BY <1>2, <1>3, RoomStep, Invariance, PTL DEF Spec

-----------------------------------------------------------------------------
(* The boot menu (UBootMenu): whatever scripts have failed before, what is *)
(* booted was loaded by the script that boots it.                          *)

\* At each command of a script, what it has loaded and set so far.
Loaded ==
  /\ script \in Scripts \cup {"auto", "menu", "shell"}
  /\ script \in {"mmc", "usb"} /\ step \in {"dtb", "env", "stop", "bootz", "booted"} => kernel = script
  /\ script \in {"mmc", "usb"} /\ step \in {"env", "stop", "bootz", "booted"} => dtb = script
  /\ script \in {"mmc", "usb"} /\ step \in {"bootz", "booted"} => ~usb
  /\ script = "nand" => bootargs = "nand"
  /\ script \in {"auto", "menu", "shell"} => step \in {"probe", "choose", "ended"}

LEMMA MenuStarts == MenuInit => Loaded
BY DEF MenuInit, Loaded

LEMMA MenuSteps == Loaded /\ [MenuNext]_menuVars => Loaded'
<1> SUFFICES ASSUME Loaded, [MenuNext]_menuVars PROVE Loaded'
  OBVIOUS
<1> USE DEF Goto, At, Fails, Return, AfterMmc, RunBootnand, NandArgs, memVars
<1>1. CASE Autoboot
  BY <1>1 DEF Autoboot, Loaded
<1>2. CASE Choose
  BY <1>2 DEF Choose, Loaded, Scripts
<1>3. CASE ImportEnv
  BY <1>3 DEF ImportEnv, Loaded, Scripts
<1>4. ASSUME NEW s \in Scripts, MenuCommand(s) PROVE Loaded'
  <2>1. CASE Start(s)
    BY <1>4, <2>1 DEF Start, Loaded, Scripts
  <2>2. CASE LoadKernel(s)
    BY <1>4, <2>2 DEF LoadKernel, Loaded, Scripts
  <2>3. CASE LoadDtb(s)
    BY <1>4, <2>3 DEF LoadDtb, Loaded, Scripts
  <2>4. CASE UsbStop(s)
    BY <1>4, <2>4 DEF UsbStop, Loaded, Scripts
  <2>5. CASE Bootz(s)
    BY <1>4, <2>5 DEF Bootz, Loaded, Scripts
  <2> QED
    BY <1>4, <2>1, <2>2, <2>3, <2>4, <2>5 DEF MenuCommand
<1>5. CASE MenuEnded \/ UNCHANGED menuVars
  BY <1>5 DEF MenuEnded, menuVars, Loaded, Scripts
<1> QED
  BY <1>1, <1>2, <1>3, <1>4, <1>5 DEF MenuNext, MenuCommands

\* SD and USB boot the kernel and the device tree they have loaded themselves, with USB
\* stopped, and NAND boots with its own bootargs, whatever failed scripts have left in
\* memory (0002-omap3_beagle-bootmenu-env.patch:11-13).
THEOREM MenuBootsItsOwn == MenuSpec => []BootsItsOwn
<1>1. Loaded => BootsItsOwn
  BY DEF Loaded, BootsItsOwn
<1> QED
  BY <1>1, MenuStarts, MenuSteps, PTL DEF MenuSpec

-----------------------------------------------------------------------------
\* The commands a script of the menu still has; bootnand follows bootmmc.
CommandsLeft ==
  CASE step = "start" -> 6 [] step = "kernel" -> 5 [] step = "dtb" -> 4
    [] step = "env" -> 3 [] step = "stop" -> 2 [] step = "bootz" -> 1 [] OTHER -> 0
MenuRank ==
  IF script = "mmc" /\ CommandsLeft > 0 THEN 6 + CommandsLeft
  ELSE IF script \in Scripts THEN CommandsLeft ELSE 0

\* What has begun as bootmmc and is not yet at the end of bootnand.
Trying == script \in {"mmc", "nand"} /\ step # "booted" /\ ~At("nand", "bootz")

\* Each command brings a script nearer to its end, and the SD entry, whatever fails on
\* the way, does not come back to the menu before the bootz of NAND: what FallsBack
\* says but that the next command is run (0002-omap3_beagle-bootmenu-env.patch:11-13).
THEOREM MenuComesToNand ==
  MenuSpec => [][/\ MenuCommands => MenuRank' < MenuRank
                 /\ Trying => script' \in {"mmc", "nand"}]_menuVars
<1> DEFINE Less == MenuRank' < MenuRank
           Stays == Trying => script' \in {"mmc", "nand"}
<1> USE DEF Goto, At, Fails, Return, AfterMmc, RunBootnand
<1>1. ASSUME NEW s \in Scripts, MenuCommand(s) PROVE Less /\ Stays
  <2> USE DEF MenuRank, CommandsLeft, Trying, Scripts
  <2>1. CASE Start(s)
    BY <2>1 DEF Start
  <2>2. CASE LoadKernel(s)
    BY <2>2 DEF LoadKernel
  <2>3. CASE LoadDtb(s)
    BY <2>3 DEF LoadDtb
  <2>4. CASE UsbStop(s)
    BY <2>4 DEF UsbStop
  <2>5. CASE Bootz(s)
    BY <2>5 DEF Bootz
  <2> QED
    BY <1>1, <2>1, <2>2, <2>3, <2>4, <2>5 DEF MenuCommand
<1>2. ImportEnv => Less /\ Stays
  BY DEF ImportEnv, MenuRank, CommandsLeft, Trying, Scripts
<1>3. MenuCommands => Less /\ Stays
  BY <1>1, <1>2 DEF MenuCommands
<1>4. [MenuNext]_menuVars /\ ~MenuCommands => Stays
  BY DEF MenuNext, Autoboot, Choose, MenuEnded, menuVars, Trying
<1>5. [MenuNext]_menuVars => [(MenuCommands => Less) /\ Stays]_menuVars
  BY <1>3, <1>4
<1> QED
  BY <1>5, PTL DEF MenuSpec

-----------------------------------------------------------------------------
(* The flasher card's own script (AutoFlash), for any number of builds and *)
(* of polls.                                                               *)

\* There is a newest run; later ones have not begun.
IsLatest(r) == r \in Runs /\ runs[r] # "none" /\ \A s \in Runs : s > r => runs[s] = "none"
NewestInv == \E r \in Runs : IsLatest(r)

\* The script has no outcome while it runs.
RunningInv == pc # "done" => outcome = "none"

\* xz has read the image to its end only once the card was to be written, and then
\* dd, if it did not fail, has written all of it.
WrittenInv ==
  /\ pc \notin {"verify", "done"} => ~xzDone
  /\ pc = "verify" /\ xzDone => card = "new"

\* Past the wait, or after a success, a build has been chosen.
Past == pc \notin {"mount", "trap", "wait", "done"} \/ outcome = "success"
ChosenInv == ~named /\ Past => run \in Runs

ImageInv == /\ AutoTypeOK /\ NewestInv /\ RunningInv /\ WrittenInv
        /\ ChosenInv /\ RunSucceeded /\ WholeIfRead

LEMMA LatestIs == NewestInv => IsLatest(Latest)
BY DEF NewestInv, IsLatest, Latest

LEMMA ImageStarts ==
  ASSUME AutoInit
  PROVE  ImageInv
<1>1. 1 \in Runs /\ MaxRuns \in Nat
  BY AutoFlashAssumption DEF Runs
<1>2. AutoTypeOK
  <2>1. run \in 0 .. MaxRuns /\ polls \in 0 .. MaxPolls
    BY <1>1, AutoFlashAssumption DEF AutoInit, Runs
  <2>2. runs \in [Runs -> {"none", "running", "success", "failure"}]
    BY DEF AutoInit
  <2>3. {named, mountedVar, mounted, intact, sums, signed, busy, xzDone} \subseteq BOOLEAN
    BY DEF AutoInit
  <2> QED
    BY <2>1, <2>2, <2>3 DEF AutoInit, AutoTypeOK
<1>3. IsLatest(1)
  BY <1>1 DEF AutoInit, IsLatest, Runs
<1>4. NewestInv
  BY <1>1, <1>3 DEF NewestInv
<1>5. RunningInv /\ WrittenInv /\ ChosenInv /\ RunSucceeded /\ WholeIfRead
  BY DEF AutoInit, RunningInv, WrittenInv, ChosenInv, Past, RunSucceeded, WholeIfRead
<1> QED
  BY <1>2, <1>4, <1>5 DEF ImageInv

-----------------------------------------------------------------------------
LEMMA ImageTypes ==
  ASSUME ImageInv, [AutoNext]_autoVars
  PROVE  AutoTypeOK'
<1> USE DEF Go, Die, EndScript, AtExit, scriptVars, fileVars, cardVars
<1>0. AutoTypeOK /\ IsLatest(Latest) /\ MaxRuns \in Nat /\ MaxPolls \in Nat
  BY LatestIs, AutoFlashAssumption DEF ImageInv
<1>1. CASE MountUsb \/ SetTrap
  BY <1>0, <1>1 DEF AutoTypeOK, MountUsb, SetTrap
<1>2. CASE WaitForRun
  <2>1. run' \in 0 .. MaxRuns
    BY <1>0, <1>2 DEF WaitForRun, Polled, IsLatest, Runs
  <2>2. polls' \in 0 .. MaxPolls
    BY <1>0, <1>2 DEF AutoTypeOK, WaitForRun, Overdue, PollsMade
  <2>3. pc' \in {"wait", "download", "done"} /\ outcome' \in {outcome, "error"}
    BY <1>2 DEF WaitForRun
  <2>4. mounted' \in BOOLEAN
    BY <1>0, <1>2 DEF AutoTypeOK, WaitForRun
  <2> QED
    BY <1>0, <1>2, <2>1, <2>2, <2>3, <2>4 DEF AutoTypeOK, WaitForRun
<1>3. CASE ApiFails \/ Download \/ Extract
  BY <1>0, <1>3 DEF AutoTypeOK, ApiFails, Download, Extract
<1>4. CASE Checksum \/ CheckTarget
  BY <1>0, <1>4 DEF AutoTypeOK, Checksum, CheckTarget
<1>5. CASE WriteCard
  <2>1. /\ signed' \in BOOLEAN /\ card' \in {"old", "torn", "new"}
        /\ xzDone' \in BOOLEAN /\ pc' \in {"verify", "done"}
        /\ outcome' \in {"none", "error", "success", "killed"} /\ mounted' \in BOOLEAN
    BY <1>0, <1>5 DEF AutoTypeOK, WriteCard, Readable
  <2> QED
    BY <1>0, <1>5, <2>1 DEF AutoTypeOK, WriteCard
<1>6. CASE VerifySignatures \/ VerifyFull
  BY <1>0, <1>6 DEF AutoTypeOK, VerifySignatures, VerifyFull
<1>7. CASE Term
  BY <1>0, <1>7 DEF AutoTypeOK, Term
<1>8. CASE CiStep
  BY <1>0, <1>8 DEF AutoTypeOK, CiStep, IsLatest, Runs
<1>9. CASE UNCHANGED autoVars
  BY <1>0, <1>9 DEF AutoTypeOK, autoVars
<1> QED
  BY <1>1, <1>2, <1>3, <1>4, <1>5, <1>6, <1>7, <1>8, <1>9 DEF AutoNext, Script

\* What the script does, with the builds as they are.
LEMMA ScriptStep ==
  ASSUME ImageInv, [Script \/ ApiFails \/ Term]_autoVars
  PROVE  /\ NewestInv' /\ RunningInv' /\ WrittenInv'
         /\ ChosenInv' /\ RunSucceeded' /\ WholeIfRead'
<1> DEFINE Kept  == RunningInv' /\ WrittenInv' /\ WholeIfRead'
           Right == ChosenInv' /\ RunSucceeded'
<1> USE DEF Go, Die, EndScript, scriptVars, fileVars, cardVars
<1>0. /\ RunningInv /\ WrittenInv /\ ChosenInv /\ RunSucceeded /\ WholeIfRead
      /\ NewestInv /\ IsLatest(Latest)
  BY LatestIs DEF ImageInv
<1>1. UNCHANGED runs
  BY DEF Script, MountUsb, SetTrap, WaitForRun, Download, Extract, Checksum, CheckTarget,
         WriteCard, VerifySignatures, VerifyFull, ApiFails, Term, autoVars
<1>2. NewestInv'
  BY <1>0, <1>1 DEF NewestInv, IsLatest
<1>3. CASE MountUsb \/ SetTrap
  <2>1. Kept
    BY <1>0, <1>3 DEF MountUsb, SetTrap, RunningInv, WrittenInv, WholeIfRead
  <2>2. Right
    BY <1>0, <1>1, <1>3 DEF MountUsb, SetTrap, RunningInv, ChosenInv, Past, RunSucceeded
  <2> QED
    BY <1>2, <2>1, <2>2
<1>4. CASE WaitForRun
  <2>1. Kept
    BY <1>0, <1>4 DEF WaitForRun, RunningInv, WrittenInv, WholeIfRead
  <2>2. run' = Latest /\ (Past' => runs[Latest] = "success") /\ Latest \in Runs
    BY <1>0, <1>4 DEF WaitForRun, Polled, Past, RunningInv, IsLatest
  <2>3. Right
    BY <1>1, <2>2 DEF ChosenInv, Past, RunSucceeded
  <2> QED
    BY <1>2, <2>1, <2>3
<1>5. CASE ApiFails \/ Download \/ Extract \/ Checksum \/ CheckTarget
  <2>0. /\ UNCHANGED <<named, run, card, xzDone>>
        /\ pc \notin {"mount", "trap", "verify", "done"}
        /\ pc' \notin {"mount", "trap", "wait", "verify"}
        /\ outcome' \in {outcome, "error"} /\ (pc' # "done" => outcome' = outcome)
        /\ (Past' => Past)
    BY <1>0, <1>5 DEF ApiFails, Download, Extract, Checksum, CheckTarget, Past, RunningInv
  <2>1. Kept
    BY <1>0, <2>0 DEF RunningInv, WrittenInv, WholeIfRead
  <2>2. Right
    BY <1>0, <1>1, <2>0 DEF ChosenInv, Past, RunSucceeded
  <2> QED
    BY <1>2, <2>1, <2>2
<1>6. CASE WriteCard
  <2>0. /\ UNCHANGED <<named, run>> /\ pc = "write" /\ pc' \in {"verify", "done"}
        /\ \/ pc' = "verify" /\ outcome' = outcome /\ (xzDone' => card' = "new")
           \/ pc' = "done" /\ outcome' = "error"
    BY <1>0, <1>6 DEF WriteCard
  <2>1. Kept
    BY <1>0, <2>0 DEF RunningInv, WrittenInv, WholeIfRead
  <2>2. Right
    BY <1>0, <1>1, <2>0 DEF ChosenInv, Past, RunSucceeded
  <2> QED
    BY <1>2, <2>1, <2>2
<1>7. CASE VerifySignatures \/ VerifyFull
  <2>0. /\ UNCHANGED <<named, run, card, xzDone>> /\ pc = "verify" /\ pc' = "done"
        /\ outcome' \in {"success", "error"}
    BY <1>7 DEF VerifySignatures, VerifyFull
  <2>1. Kept
    BY <1>0, <2>0 DEF RunningInv, WrittenInv, WholeIfRead
  <2>2. Right
    BY <1>0, <1>1, <2>0 DEF ChosenInv, Past, RunSucceeded
  <2> QED
    BY <1>2, <2>1, <2>2
<1>8. CASE Term
  <2>0. /\ UNCHANGED <<named, run, card, xzDone>>
        /\ \/ UNCHANGED <<pc, outcome>>
           \/ pc' = "done" /\ outcome' = "killed"
    BY <1>8 DEF Term
  <2>1. Kept
    BY <1>0, <2>0 DEF RunningInv, WrittenInv, WholeIfRead
  <2>2. Right
    BY <1>0, <1>1, <2>0 DEF ChosenInv, Past, RunSucceeded
  <2> QED
    BY <1>2, <2>1, <2>2
<1>9. CASE UNCHANGED autoVars
  BY <1>0, <1>2, <1>9 DEF autoVars, RunningInv, WrittenInv, ChosenInv, Past, RunSucceeded,
     WholeIfRead
<1> QED
  BY <1>3, <1>4, <1>5, <1>6, <1>7, <1>8, <1>9 DEF Script

\* Builds that begin and end leave the one that was chosen alone.
LEMMA BuildStep ==
  ASSUME ImageInv, CiStep
  PROVE  /\ NewestInv' /\ RunningInv' /\ WrittenInv'
         /\ ChosenInv' /\ RunSucceeded' /\ WholeIfRead'
<1> USE DEF scriptVars, fileVars, cardVars
<1>0. /\ AutoTypeOK /\ RunningInv /\ WrittenInv /\ ChosenInv /\ RunSucceeded /\ WholeIfRead
      /\ IsLatest(Latest) /\ MaxRuns \in Nat
  BY LatestIs, AutoFlashAssumption DEF ImageInv
<1>1. RunningInv' /\ WrittenInv' /\ ChosenInv' /\ WholeIfRead'
  BY <1>0 DEF CiStep, RunningInv, WrittenInv, ChosenInv, Past, WholeIfRead
<1>2. ASSUME NEW r \in Runs, runs[r] = "success"
      PROVE  runs'[r] = "success"
  BY <1>0, <1>2 DEF CiStep, AutoTypeOK, IsLatest, Runs
<1>3. RunSucceeded'
  BY <1>0, <1>2 DEF CiStep, RunSucceeded, ChosenInv, Past
<1>4. NewestInv'
  <2>1. PICK l : l = Latest
    OBVIOUS
  <2>2. IsLatest(l) /\ l \in 1 .. MaxRuns
    BY <1>0, <2>1 DEF IsLatest, Runs
  <2>3. CASE \E result \in {"success", "failure"} : runs' = [runs EXCEPT ![l] = result]
    <3>1. IsLatest(l)'
      BY <1>0, <2>2, <2>3 DEF IsLatest, Runs, AutoTypeOK
    <3> QED
      BY <3>1, <2>2 DEF NewestInv, Runs
  <2>4. CASE l < MaxRuns /\ runs' = [runs EXCEPT ![l + 1] = "running"]
    <3>1. l + 1 \in Runs /\ IsLatest(l + 1)'
      BY <1>0, <2>2, <2>4 DEF IsLatest, Runs, AutoTypeOK
    <3> QED
      BY <3>1 DEF NewestInv
  <2> QED
    BY <2>1, <2>3, <2>4 DEF CiStep
<1> QED
  BY <1>1, <1>3, <1>4

LEMMA ImageAlways == AutoSpec => []ImageInv
<1>1. AutoInit => ImageInv
  BY ImageStarts
<1>2. ImageInv /\ [AutoNext]_autoVars => ImageInv'
  BY ImageTypes, ScriptStep, BuildStep DEF ImageInv, AutoNext
<1> QED
  BY <1>1, <1>2, PTL DEF AutoSpec

\* Every variable keeps its type; the polls stay within the deadline
\* (recovery-autoflash.sh:83, 94).
THEOREM ImageTypeCorrect == AutoSpec => []AutoTypeOK
<1>1. ImageInv => AutoTypeOK
  BY DEF ImageInv
<1> QED
  BY <1>1, ImageAlways, PTL

\* However builds begin and end and whenever the script is interrupted, a success means
\* the image of a build that succeeded, all of it on the card unless xz stopped early
\* (recovery-autoflash.sh:84-98, 132).
THEOREM SuccessIsSound == AutoSpec => []SuccessIsRight
<1>1. ImageInv => SuccessIsRight
  BY DEF ImageInv, SuccessIsRight
<1> QED
  BY <1>1, ImageAlways, PTL

-----------------------------------------------------------------------------
\* The commands the script has before it, one for each poll that may still be made.
ScriptRank ==
  CASE pc = "mount" -> MaxPolls + 9 [] pc = "trap" -> MaxPolls + 8
    [] pc = "wait" -> MaxPolls - polls + 7
    [] pc = "download" -> 6 [] pc = "extract" -> 5 [] pc = "checksum" -> 4
    [] pc = "guard" -> 3 [] pc = "write" -> 2 [] pc = "verify" -> 1 [] OTHER -> 0

\* Whatever GitHub does meanwhile and however often it is interrupted, the script makes
\* MaxPolls + 9 commands at the most: what WaitEnds says but that the next one is run
\* (recovery-autoflash.sh:79-98).
THEOREM ScriptIsShort ==
  AutoSpec => [][/\ ScriptRank' <= ScriptRank
                 /\ Script \/ ApiFails => ScriptRank' < ScriptRank]_autoVars
<1> DEFINE Less == ScriptRank' < ScriptRank
           NotMore == ScriptRank' <= ScriptRank
<1>1. ASSUME AutoTypeOK, AutoTypeOK', [AutoNext]_autoVars
      PROVE  NotMore /\ (Script \/ ApiFails => Less)
  <2>0. polls \in 0 .. MaxPolls /\ polls' \in 0 .. MaxPolls /\ MaxPolls \in Nat
    BY <1>1, AutoFlashAssumption DEF AutoTypeOK
  <2> USE DEF ScriptRank, Die, EndScript, Go
  <2>1. MountUsb \/ SetTrap => Less
    BY <2>0 DEF MountUsb, SetTrap, scriptVars
  <2>2. WaitForRun \/ ApiFails => Less
    BY <2>0 DEF WaitForRun, ApiFails, PollsMade, Overdue
  <2>3. Download \/ Extract \/ Checksum \/ CheckTarget => Less
    BY DEF Download, Extract, Checksum, CheckTarget
  <2>4. WriteCard \/ VerifySignatures \/ VerifyFull => Less
    <3>1. WriteCard => pc = "write" /\ pc' \in {"verify", "done"}
      BY Zenon DEF WriteCard
    <3>2. VerifySignatures \/ VerifyFull => pc = "verify" /\ pc' = "done"
      BY Zenon DEF VerifySignatures, VerifyFull
    <3> QED
      BY <3>1, <3>2
  <2>5. ScriptRank \in Nat /\ ScriptRank' \in Nat
    BY <2>0
  <2>6. Term \/ CiStep \/ UNCHANGED autoVars => NotMore
    BY <2>0, <2>5 DEF Term, CiStep, scriptVars, autoVars
  <2>7. Less => NotMore
    BY <2>5
  <2> HIDE DEF ScriptRank
  <2> QED
    BY <1>1, <2>1, <2>2, <2>3, <2>4, <2>6, <2>7 DEF AutoNext, Script
<1> QED
  BY <1>1, ImageTypeCorrect, PTL DEF AutoSpec
===============================================================================
