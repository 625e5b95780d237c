-------------------------- MODULE ShimLoaderProofs --------------------------
(***************************************************************************)
(* Proofs about ShimLoader, for any threads, libraries and number of       *)
(* calls: what holds of every build (a library takes one slot, and a       *)
(* preloaded library always answers for itself), and what holds of a build *)
(* that keeps the stores of an append in order (every library does).       *)
(*                                                                         *)
(* The invariant says who may touch the table, and where: the one thread   *)
(* that runs ns_init() before g_once is done, the holder of g_lock after,  *)
(* and only at the first slot that is not complete.                        *)
(***************************************************************************)
EXTENDS ShimLoader, TLAPS

\* The first slot whose entry is not complete and counted.
Base == IF hidden = {} THEN nlibs ELSE Slot

\* Before g_once is done at most one thread is past it, in ns_init().
OneInit ==
  /\ once # "done" =>
       /\ ~ready /\ lock = NoThread /\ hidden = {}
       /\ \A t \in Threads : pc[t] \in {"idle", "once", "init"}
  /\ \A t \in Threads : pc[t] = "init" => once = "running"
  /\ \A t, u \in Threads : pc[t] = "init" /\ pc[u] = "init" => t = u

\* The lock is held by the thread between its Lock and its unlocking.
LockHeld == \A t \in Threads : pc[t] \in {"rescan", "unlock"} <=> lock = t

\* Complete entries, each for another library, and nothing past the one under way.
Table ==
  /\ \A i \in Slots : i < Base => soname[i] \in Sonames /\ handle[i] = soname[i]
  /\ \A i \in Slots : i > Base => soname[i] = Null /\ handle[i] = Null
  /\ \A i, j \in Slots : i < Base /\ j < Base /\ soname[i] = soname[j] => i = j

\* An append under way is its holder's, for a library the table does not have.
Appending ==
  /\ hidden # {} =>
       /\ lock \in Threads /\ pc[lock] = "unlock" /\ Base \in Slots
       /\ \A i \in Slots : i < Base => soname[i] # want[lock]
       /\ soname[Base] = (IF "soname" \in hidden THEN Null ELSE want[lock])
       /\ handle[Base] = (IF "handle" \in hidden THEN Null ELSE want[lock])
  /\ hidden = {} /\ nlibs \in Slots => soname[nlibs] = Null /\ handle[nlibs] = Null

\* In an ordered build an entry is counted last.
CountedLast == ordered /\ "count" \notin hidden => hidden = {}

\* PRELOAD[] fills the first slots, and who asks for one of them stops there.
Preloaded ==
  /\ once # "done" =>
       /\ nlibs <= Len(Preload)
       /\ \A i \in Slots : i < nlibs => soname[i] = Preload[i + 1]
  /\ ready =>
       /\ nlibs >= Len(Preload)
       /\ \A i \in Slots : i < Len(Preload) =>
            i < Base /\ soname[i] = Preload[i + 1]
  /\ \A t \in Threads : process = "up" /\ pc[t] \notin {"idle", "once", "init"} => ready
  /\ \A t \in Threads : \A i \in 1 .. Len(Preload) : want[t] = Preload[i] =>
       /\ pc[t] \in {"scan", "take"} => scan[t] < i
       /\ pc[t] \notin {"lock", "rescan", "unlock"}

\* What a thread has found stays found.
Matched ==
  \A t \in Threads :
    /\ pc[t] # "idle" => want[t] \in Sonames
    /\ pc[t] = "take" => scan[t] < nlibs /\ soname[scan[t]] = want[t]

\* The inductive invariant.
IInv ==
  /\ TypeOK /\ OneInit /\ LockHeld /\ Table /\ Appending /\ CountedLast
  /\ Preloaded /\ Matched /\ OwnLibraryInOrder /\ PreloadedOwn /\ NoNullRead

-----------------------------------------------------------------------------
\* Names and bounds every step needs.
LEMMA Constants ==
  /\ MAX_LIBS \in Nat /\ Len(Preload) \in Nat /\ Len(Preload) <= MAX_LIBS
  /\ \A i \in 1 .. Len(Preload) : Preload[i] \in Sonames
  /\ \A i, j \in 1 .. Len(Preload) : Preload[i] = Preload[j] => i = j
  /\ Null \notin Sonames /\ NotLoaded \notin Sonames /\ NoThread \notin Threads
  /\ MaxCalls \in Nat
BY ShimLoaderAssumption, NameAssumption

LEMMA InitIInv == Init => IInv
<1> SUFFICES ASSUME Init PROVE IInv
  OBVIOUS
<1>1. MAX_LIBS \in Nat /\ MaxCalls \in Nat /\ Len(Preload) \in Nat
  BY Constants
<1>2. TypeOK
  <2>1. soname \in [Slots -> Sonames \cup {Null}] /\ handle \in [Slots -> Sonames \cup {Null}]
    BY DEF Init
  <2>2. pc \in [Threads -> Steps] /\ want \in [Threads -> Sonames \cup {Null}]
    BY DEF Init, Steps
  <2>3. result \in [Threads -> Sonames \cup {Null, NotLoaded}]
    BY DEF Init
  <2>4. scan \in [Threads -> 0 .. MAX_LIBS] /\ nlibs \in 0 .. MAX_LIBS /\ calls \in 0 .. MaxCalls
    BY <1>1 DEF Init
  <2> QED
    BY <2>1, <2>2, <2>3, <2>4 DEF Init, TypeOK
<1>3. OneInit /\ LockHeld
  BY Constants DEF Init, OneInit, LockHeld
<1>4. Table /\ Appending /\ CountedLast
  BY <1>1 DEF Init, Table, Appending, CountedLast, Base, Slots
<1>5. Preloaded
  BY <1>1 DEF Init, Preloaded, Slots
<1>6. Matched /\ OwnLibraryInOrder /\ PreloadedOwn /\ NoNullRead
  BY DEF Init, Matched, OwnLibraryInOrder, OwnLibrary, PreloadedOwn, NoNullRead
<1> QED
  BY <1>2, <1>3, <1>4, <1>5, <1>6 DEF IInv

LEMMA CallStep == ASSUME IInv, NEW t \in Threads, Call(t) PROVE IInv'
<1> USE Constants DEF IInv
<1>1. TypeOK'
  BY DEF Call, Move, tableVars, TypeOK, Steps
<1>2. OneInit'
  BY DEF Call, Move, tableVars, TypeOK, OneInit
<1>3. LockHeld'
  BY DEF Call, Move, tableVars, TypeOK, LockHeld
<1>4. Table'
  BY DEF Call, Move, tableVars, TypeOK, Base, Slot, Table
<1>5. Appending'
  BY DEF Call, Move, tableVars, TypeOK, Base, Slot, Appending
<1>6. CountedLast'
  BY DEF Call, Move, tableVars, TypeOK, CountedLast
<1>7. Preloaded'
  BY DEF Call, Move, tableVars, TypeOK, Base, Slot, Preloaded
<1>8. Matched'
  BY DEF Call, Move, tableVars, TypeOK, Matched
<1>9. OwnLibraryInOrder'
  BY DEF Call, Move, tableVars, TypeOK, OwnLibrary, OwnLibraryInOrder
<1>10. PreloadedOwn'
  BY DEF Call, Move, tableVars, TypeOK, PreloadedOwn
<1>11. NoNullRead'
  BY DEF Call, Move, tableVars, TypeOK, NoNullRead
<1> QED
  BY <1>1, <1>2, <1>3, <1>4, <1>5, <1>6, <1>7, <1>8, <1>9, <1>10, <1>11

LEMMA OnceBeginStep == ASSUME IInv, NEW t \in Threads, OnceBegin(t) PROVE IInv'
<1> USE Constants DEF IInv
<1>1. TypeOK'
  BY DEF OnceBegin, Move, tableVars, threadVars, TypeOK, Steps
<1>2. OneInit'
  BY DEF OnceBegin, Move, tableVars, threadVars, TypeOK, OneInit
<1>3. LockHeld'
  BY DEF OnceBegin, Move, tableVars, threadVars, TypeOK, LockHeld
<1>4. Table'
  BY DEF OnceBegin, Move, tableVars, threadVars, TypeOK, Base, Slot, Table
<1>5. Appending'
  BY DEF OnceBegin, Move, tableVars, threadVars, TypeOK, Base, Slot, Appending
<1>6. CountedLast'
  BY DEF OnceBegin, Move, tableVars, threadVars, TypeOK, CountedLast
<1>7. Preloaded'
  BY DEF OnceBegin, Move, tableVars, threadVars, TypeOK, Base, Slot, Preloaded
<1>8. Matched'
  BY DEF OnceBegin, Move, tableVars, threadVars, TypeOK, Matched
<1>9. OwnLibraryInOrder'
  BY DEF OnceBegin, Move, tableVars, threadVars, TypeOK, OwnLibrary, OwnLibraryInOrder
<1>10. PreloadedOwn'
  BY DEF OnceBegin, Move, tableVars, threadVars, TypeOK, PreloadedOwn
<1>11. NoNullRead'
  BY DEF OnceBegin, Move, tableVars, threadVars, TypeOK, NoNullRead
<1> QED
  BY <1>1, <1>2, <1>3, <1>4, <1>5, <1>6, <1>7, <1>8, <1>9, <1>10, <1>11

\* The library that ns_init() opens next, and the slot it gets.
LEMMA NextPreload ==
  ASSUME TypeOK, nlibs < Len(Preload)
  PROVE  nlibs \in Slots /\ nlibs + 1 \in 0 .. MAX_LIBS /\ Preload[nlibs + 1] \in Sonames
<1>1. nlibs \in Nat /\ MAX_LIBS \in Nat /\ Len(Preload) \in Nat /\ Len(Preload) <= MAX_LIBS
  BY Constants DEF TypeOK
<1>2. nlibs + 1 \in 1 .. Len(Preload) /\ nlibs + 1 \in 0 .. MAX_LIBS
  BY <1>1
<1>3. Preload[nlibs + 1] \in Sonames
  BY <1>2, Constants
<1> QED
  BY <1>1, <1>2, <1>3 DEF Slots

\* What one turn of ns_init()'s loop, or its end, does; nobody else is under way.
LEMMA NsInitEffect ==
  ASSUME IInv, NEW t \in Threads, NsInit(t)
  PROVE  /\ once = "running" /\ pc[t] = "init" /\ ~ready
         /\ lock = NoThread /\ lock' = NoThread /\ hidden = {} /\ hidden' = {}
         /\ UNCHANGED <<ordered, want, scan, result, process, calls>>
         /\ \A u \in Threads : u # t => pc'[u] = pc[u] /\ pc[u] \in {"idle", "once"}
         /\ nlibs \in Nat /\ nlibs <= Len(Preload)
         /\ \/ /\ nlibs < Len(Preload) /\ nlibs' = nlibs + 1
               /\ nlibs \in Slots /\ nlibs + 1 \in 0 .. MAX_LIBS /\ Preload[nlibs + 1] \in Sonames
               /\ soname' = [soname EXCEPT ![nlibs] = Preload[nlibs + 1]]
               /\ handle' = [handle EXCEPT ![nlibs] = Preload[nlibs + 1]]
               /\ pc'[t] = "init" /\ once' = "running" /\ ready' = ready
            \/ /\ UNCHANGED tableVars /\ pc'[t] = "once" /\ once' = "done"
               /\ ready' => nlibs = Len(Preload)
<1>1. pc[t] = "init"
  BY DEF NsInit, Move
<1>2. once = "running"
  BY <1>1 DEF IInv, OneInit
<1>3. lock = NoThread /\ hidden = {} /\ ~ready
  BY <1>2 DEF IInv, OneInit
<1>4. \A u \in Threads : u # t => pc'[u] = pc[u] /\ pc[u] \in {"idle", "once"}
  BY <1>1, <1>2 DEF NsInit, Move, IInv, OneInit, TypeOK
<1>5. nlibs \in Nat /\ nlibs <= Len(Preload)
  BY <1>2 DEF IInv, Preloaded, TypeOK
<1>6. TypeOK
  BY DEF IInv
<1>7. nlibs < Len(Preload) =>
        nlibs \in Slots /\ nlibs + 1 \in 0 .. MAX_LIBS /\ Preload[nlibs + 1] \in Sonames
  BY <1>6, NextPreload
<1> QED
  BY <1>1, <1>2, <1>3, <1>4, <1>5, <1>6, <1>7 DEF NsInit, ToPreload, Move, threadVars, tableVars, TypeOK

LEMMA NsInitStep == ASSUME IInv, NEW t \in Threads, NsInit(t) PROVE IInv'
<1> USE Constants DEF IInv
<1>1. TypeOK'
  <2>1. soname' \in [Slots -> Sonames \cup {Null}] /\ handle' \in [Slots -> Sonames \cup {Null}]
    <3>1. /\ soname \in [Slots -> Sonames \cup {Null}] /\ handle \in [Slots -> Sonames \cup {Null}]
          /\ \/ /\ nlibs \in Slots /\ Preload[nlibs + 1] \in Sonames
                /\ soname' = [soname EXCEPT ![nlibs] = Preload[nlibs + 1]]
                /\ handle' = [handle EXCEPT ![nlibs] = Preload[nlibs + 1]]
             \/ soname' = soname /\ handle' = handle
      BY NsInitEffect DEF tableVars, TypeOK
    <3>2. soname' \in [Slots -> Sonames \cup {Null}]
      BY <3>1
    <3>3. handle' \in [Slots -> Sonames \cup {Null}]
      BY <3>1
    <3> QED
      BY <3>2, <3>3
  <2>2. nlibs' \in 0 .. MAX_LIBS
    BY NsInitEffect DEF tableVars, TypeOK
  <2>3. pc' \in [Threads -> Steps]
    <3>1. PICK q \in {"init", "once"} : pc' = [pc EXCEPT ![t] = q]
      BY DEF NsInit, Move
    <3>2. pc \in [Threads -> Steps] /\ q \in Steps
      BY DEF TypeOK, Steps
    <3> QED
      BY <3>1, <3>2
  <2>4. once' \in {"no", "running", "done"} /\ ready' \in BOOLEAN
    BY DEF NsInit, TypeOK
  <2> QED
    BY <2>1, <2>2, <2>3, <2>4, NsInitEffect DEF TypeOK
<1>2. OneInit'
  BY NsInitEffect DEF OneInit
<1>3. LockHeld'
  BY NsInitEffect DEF LockHeld
<1>4. Table'
  <2>1. Base = nlibs /\ Base' = nlibs'
    BY NsInitEffect DEF Base
  <2>2. CASE UNCHANGED tableVars
    BY <2>1, <2>2 DEF Table, tableVars
  <2>3. CASE /\ nlibs < Len(Preload) /\ nlibs' = nlibs + 1
             /\ nlibs \in Slots /\ Preload[nlibs + 1] \in Sonames
             /\ soname' = [soname EXCEPT ![nlibs] = Preload[nlibs + 1]]
             /\ handle' = [handle EXCEPT ![nlibs] = Preload[nlibs + 1]]
    <3>1. nlibs \in Slots /\ Preload[nlibs + 1] \in Sonames /\ nlibs + 1 \in 1 .. Len(Preload)
      BY <2>3 DEF Slots
    <3>2. /\ soname'[nlibs] = Preload[nlibs + 1] /\ handle'[nlibs] = Preload[nlibs + 1]
          /\ \A i \in Slots : i # nlibs => soname'[i] = soname[i] /\ handle'[i] = handle[i]
      BY <2>3, <3>1 DEF TypeOK
    <3>3. \A i \in Slots : i < nlibs => soname[i] = Preload[i + 1] /\ i + 1 \in 1 .. Len(Preload)
      BY <3>1, NsInitEffect DEF Preloaded, Slots
    <3>4. \A i \in Slots : i < nlibs => soname[i] # Preload[nlibs + 1]
      <4> SUFFICES ASSUME NEW i \in Slots, i < nlibs, Preload[i + 1] = Preload[nlibs + 1] PROVE FALSE
        BY <3>3
      <4>1. i + 1 = nlibs + 1
        BY <3>1, <3>3
      <4> QED
        BY <4>1, <3>1 DEF Slots
    <3>5. \A i \in Slots : i < nlibs' => soname'[i] \in Sonames /\ handle'[i] = soname'[i]
      BY <2>1, <2>3, <3>1, <3>2 DEF Table, Slots
    <3>6. \A i \in Slots : i > nlibs' => soname'[i] = Null /\ handle'[i] = Null
      BY <2>1, <2>3, <3>1, <3>2 DEF Table, Slots
    <3>7. \A i, j \in Slots : i < nlibs' /\ j < nlibs' /\ soname'[i] = soname'[j] => i = j
      BY <2>1, <2>3, <3>1, <3>2, <3>4 DEF Table, Slots
    <3> QED
      BY <2>1, <3>5, <3>6, <3>7 DEF Table
  <2> QED
    BY <2>2, <2>3, NsInitEffect
<1>5. Appending'
  <2>1. CASE UNCHANGED tableVars
    BY <2>1, NsInitEffect DEF Appending, tableVars
  <2>2. CASE /\ nlibs' = nlibs + 1
             /\ soname' = [soname EXCEPT ![nlibs] = Preload[nlibs + 1]]
             /\ handle' = [handle EXCEPT ![nlibs] = Preload[nlibs + 1]]
    <3>1. Base = nlibs /\ nlibs + 1 \in Slots => soname[nlibs + 1] = Null /\ handle[nlibs + 1] = Null
      BY NsInitEffect DEF Table, Slots
    <3>2. Base = nlibs
      BY NsInitEffect DEF Base
    <3> QED
      BY <2>2, <3>1, <3>2, NsInitEffect DEF Appending, TypeOK
  <2> QED
    BY <2>1, <2>2, NsInitEffect
<1>6. CountedLast'
  BY NsInitEffect DEF CountedLast
<1>7. Preloaded'
  <2>1. Base' = nlibs'
    BY NsInitEffect DEF Base
  <2>2. CASE UNCHANGED tableVars /\ pc'[t] = "once" /\ once' = "done"
    BY <2>1, <2>2, NsInitEffect DEF Preloaded, tableVars, Slots
  <2>3. CASE /\ nlibs < Len(Preload) /\ nlibs' = nlibs + 1
             /\ soname' = [soname EXCEPT ![nlibs] = Preload[nlibs + 1]]
             /\ once' = "running" /\ pc'[t] = "init" /\ ready' = ready
    <3>1. \A i \in Slots : i < nlibs' => soname'[i] = Preload[i + 1]
      BY <2>3, NsInitEffect DEF Preloaded, TypeOK, Slots
    <3>2. nlibs' <= Len(Preload) /\ ~ready'
      BY <2>3, NsInitEffect
    <3>3. \A u \in Threads : pc'[u] \in {"idle", "once", "init"}
      BY <2>3, NsInitEffect
    <3> QED
      BY <3>1, <3>2, <3>3 DEF Preloaded
  <2> QED
    BY <2>2, <2>3, NsInitEffect
<1>8. Matched'
  <2>1. \A u \in Threads : pc'[u] # "take" /\ (pc'[u] # "idle" => pc[u] # "idle")
    BY NsInitEffect
  <2> QED
    BY <2>1, NsInitEffect DEF Matched
<1>9. OwnLibraryInOrder'
  BY NsInitEffect DEF OwnLibraryInOrder, OwnLibrary
<1>10. PreloadedOwn'
  BY NsInitEffect DEF PreloadedOwn
<1>11. NoNullRead'
  BY NsInitEffect DEF NoNullRead
<1> QED
  BY <1>1, <1>2, <1>3, <1>4, <1>5, <1>6, <1>7, <1>8, <1>9, <1>10, <1>11

LEMMA OnceDoneStep == ASSUME IInv, NEW t \in Threads, OnceDone(t) PROVE IInv'
<1> USE Constants DEF IInv
<1>1. TypeOK'
  BY DEF OnceDone, Move, tableVars, TypeOK, Steps
<1>2. OneInit'
  BY DEF OnceDone, Move, tableVars, TypeOK, OneInit
<1>3. LockHeld'
  BY DEF OnceDone, Move, tableVars, TypeOK, LockHeld
<1>4. Table'
  BY DEF OnceDone, Move, tableVars, TypeOK, Base, Slot, Table
<1>5. Appending'
  BY DEF OnceDone, Move, tableVars, TypeOK, Base, Slot, Appending
<1>6. CountedLast'
  BY DEF OnceDone, Move, tableVars, TypeOK, CountedLast
<1>7. Preloaded'
  BY DEF OnceDone, Move, tableVars, TypeOK, Base, Slot, Preloaded
<1>8. Matched'
  BY DEF OnceDone, Move, tableVars, TypeOK, Matched
<1>9. OwnLibraryInOrder'
  BY DEF OnceDone, Move, tableVars, TypeOK, OwnLibrary, OwnLibraryInOrder
<1>10. PreloadedOwn'
  BY DEF OnceDone, Move, tableVars, TypeOK, PreloadedOwn
<1>11. NoNullRead'
  BY DEF OnceDone, Move, tableVars, TypeOK, NoNullRead
<1> QED
  BY <1>1, <1>2, <1>3, <1>4, <1>5, <1>6, <1>7, <1>8, <1>9, <1>10, <1>11

LEMMA ScanStep == ASSUME IInv, NEW t \in Threads, Scan(t) PROVE IInv'
<1> USE Constants DEF IInv
<1>1. TypeOK'
  <2>1. scan' \in [Threads -> 0 .. MAX_LIBS]
    BY DEF Scan, TypeOK
  <2>2. pc' \in [Threads -> Steps]
    BY DEF Scan, TypeOK, Steps
  <2>3. process' \in {"up", "aborted", "crashed"}
    BY DEF Scan, TypeOK
  <2> QED
    BY <2>1, <2>2, <2>3 DEF Scan, tableVars, TypeOK
<1>2. OneInit'
  <2>1. once = "done" /\ pc[t] = "scan"
    BY DEF Scan, OneInit
  <2>2. \A u \in Threads : pc'[u] = "init" => pc[u] = "init"
    BY DEF Scan, TypeOK
  <2> QED
    BY <2>1, <2>2 DEF Scan, OneInit
<1>3. LockHeld'
  BY DEF Scan, tableVars, TypeOK, LockHeld
<1>4. Table'
  BY DEF Scan, tableVars, TypeOK, Base, Slot, Table
<1>5. Appending'
  BY DEF Scan, tableVars, TypeOK, Base, Slot, Appending
<1>6. CountedLast'
  BY DEF Scan, tableVars, TypeOK, CountedLast
<1>7. Preloaded'
  <2>1. UNCHANGED <<soname, nlibs, Base, once, ready, want>> /\ once = "done" /\ ready
    BY DEF Scan, tableVars, Base, Slot, OneInit, Preloaded
  <2>2. \A u \in Threads : u # t => pc'[u] = pc[u] /\ scan'[u] = scan[u]
    BY DEF Scan, TypeOK
  <2>3. ASSUME NEW i \in 1 .. Len(Preload), want[t] = Preload[i]
        PROVE  pc'[t] \in {"scan", "take"} /\ scan'[t] < i
    <3>1. scan[t] \in Nat /\ scan[t] < i /\ i - 1 \in Slots /\ i - 1 < Len(Preload) /\ nlibs >= Len(Preload)
      BY <2>1, <2>3 DEF Scan, Preloaded, TypeOK, Slots
    <3>2. soname[i - 1] = want[t]
      BY <2>1, <2>3, <3>1 DEF Preloaded
    <3>3. nlibs \in Nat /\ scan[t] < nlibs
      BY <3>1 DEF TypeOK
    <3>4. CASE scan' = scan
      BY <3>1, <3>3, <3>4 DEF Scan, TypeOK
    <3>5. CASE soname[scan[t]] # want[t] /\ scan' = [scan EXCEPT ![t] = @ + 1] /\ pc' = pc
      <4>1. scan[t] # i - 1
        BY <3>2, <3>5
      <4>2. scan'[t] = scan[t] + 1
        BY <3>5 DEF TypeOK
      <4> QED
        BY <3>1, <3>5, <4>1, <4>2 DEF Scan
    <3> QED
      BY <3>3, <3>4, <3>5 DEF Scan
  <2> QED
    BY <2>1, <2>2, <2>3 DEF Preloaded
<1>8. Matched'
  BY DEF Scan, tableVars, TypeOK, Matched
<1>9. OwnLibraryInOrder'
  BY DEF Scan, tableVars, TypeOK, OwnLibrary, OwnLibraryInOrder
<1>10. PreloadedOwn'
  BY DEF Scan, tableVars, TypeOK, PreloadedOwn
<1>11. NoNullRead'
  <2>1. ordered /\ scan[t] < nlibs => soname[scan[t]] \in Sonames
    <3>1. ordered => Base = nlibs
      BY DEF CountedLast, Base, Slot
    <3>2. scan[t] < nlibs => scan[t] \in Slots
      BY DEF TypeOK, Slots
    <3> QED
      BY <3>1, <3>2 DEF Table
  <2> QED
    BY <2>1 DEF Scan, NoNullRead
<1> QED
  BY <1>1, <1>2, <1>3, <1>4, <1>5, <1>6, <1>7, <1>8, <1>9, <1>10, <1>11

LEMMA TakeStep == ASSUME IInv, NEW t \in Threads, Take(t) PROVE IInv'
<1> USE Constants DEF IInv
<1>1. TypeOK'
  <2>1. handle[scan[t]] \in Sonames \cup {Null}
    BY DEF Take, Move, TypeOK, Matched, Slots
  <2>2. pc' \in [Threads -> Steps]
    BY DEF Take, Move, TypeOK, Steps
  <2> QED
    BY <2>1, <2>2 DEF Take, tableVars, TypeOK
<1>2. OneInit'
  BY DEF Take, Move, tableVars, TypeOK, OneInit
<1>3. LockHeld'
  BY DEF Take, Move, tableVars, TypeOK, LockHeld
<1>4. Table'
  BY DEF Take, Move, tableVars, TypeOK, Base, Slot, Table
<1>5. Appending'
  BY DEF Take, Move, tableVars, TypeOK, Base, Slot, Appending
<1>6. CountedLast'
  BY DEF Take, Move, tableVars, TypeOK, CountedLast
<1>7. Preloaded'
  BY DEF Take, Move, tableVars, TypeOK, Base, Slot, Preloaded
<1>8. Matched'
  BY DEF Take, Move, tableVars, TypeOK, Matched
<1>9. OwnLibraryInOrder'
  BY DEF Take, Move, tableVars, TypeOK, OwnLibrary, Matched, Table, CountedLast, Base, Slot, Slots, OwnLibraryInOrder
<1>10. PreloadedOwn'
  BY DEF Take, Move, tableVars, TypeOK, Matched, Table, Preloaded, Slots, PreloadedOwn
<1>11. NoNullRead'
  BY DEF Take, Move, tableVars, TypeOK, NoNullRead
<1> QED
  BY <1>1, <1>2, <1>3, <1>4, <1>5, <1>6, <1>7, <1>8, <1>9, <1>10, <1>11

LEMMA LockStep == ASSUME IInv, NEW t \in Threads, Lock(t) PROVE IInv'
<1> USE Constants DEF IInv
<1>1. TypeOK'
  BY DEF Lock, Move, tableVars, threadVars, TypeOK, Steps
<1>2. OneInit'
  BY DEF Lock, Move, tableVars, threadVars, TypeOK, OneInit
<1>3. LockHeld'
  BY DEF Lock, Move, tableVars, threadVars, TypeOK, LockHeld
<1>4. Table'
  BY DEF Lock, Move, tableVars, threadVars, TypeOK, Base, Slot, Table
<1>5. Appending'
  BY DEF Lock, Move, tableVars, threadVars, TypeOK, Base, Slot, LockHeld, Appending
<1>6. CountedLast'
  BY DEF Lock, Move, tableVars, threadVars, TypeOK, CountedLast
<1>7. Preloaded'
  BY DEF Lock, Move, tableVars, threadVars, TypeOK, Base, Slot, Preloaded
<1>8. Matched'
  BY DEF Lock, Move, tableVars, threadVars, TypeOK, Matched
<1>9. OwnLibraryInOrder'
  BY DEF Lock, Move, tableVars, threadVars, TypeOK, OwnLibrary, OwnLibraryInOrder
<1>10. PreloadedOwn'
  BY DEF Lock, Move, tableVars, threadVars, TypeOK, PreloadedOwn
<1>11. NoNullRead'
  BY DEF Lock, Move, tableVars, threadVars, TypeOK, NoNullRead
<1> QED
  BY <1>1, <1>2, <1>3, <1>4, <1>5, <1>6, <1>7, <1>8, <1>9, <1>10, <1>11

LEMMA RescanFindsStep == ASSUME IInv, NEW t \in Threads, RescanFinds(t) PROVE IInv'
<1> USE Constants DEF IInv
<1>1. TypeOK'
  BY DEF RescanFinds, Move, tableVars, TypeOK, Steps, Released, Found, Slots
<1>2. OneInit'
  BY DEF RescanFinds, Move, tableVars, TypeOK, OneInit
<1>3. LockHeld'
  BY DEF RescanFinds, Move, tableVars, TypeOK, Released, LockHeld
<1>4. Table'
  BY DEF RescanFinds, Move, tableVars, TypeOK, Base, Slot, Table
<1>5. Appending'
  BY DEF RescanFinds, Move, tableVars, TypeOK, Base, Slot, Released, LockHeld, Appending
<1>6. CountedLast'
  BY DEF RescanFinds, Move, tableVars, TypeOK, CountedLast
<1>7. Preloaded'
  BY DEF RescanFinds, Move, tableVars, TypeOK, Base, Slot, Preloaded
<1>8. Matched'
  BY DEF RescanFinds, Move, tableVars, TypeOK, Matched
<1>9. OwnLibraryInOrder'
  <2>1. hidden = {}
    BY DEF RescanFinds, Move, LockHeld, Appending
  <2>2. \A i \in Found(t) : handle[i] = want[t]
    BY <2>1 DEF Found, Table, Base, TypeOK, Slots
  <2> QED
    BY <2>2 DEF RescanFinds, Move, TypeOK, OwnLibrary, OwnLibraryInOrder
<1>10. PreloadedOwn'
  BY DEF RescanFinds, Move, tableVars, TypeOK, Preloaded, PreloadedOwn
<1>11. NoNullRead'
  BY DEF RescanFinds, Move, tableVars, TypeOK, NoNullRead
<1> QED
  BY <1>1, <1>2, <1>3, <1>4, <1>5, <1>6, <1>7, <1>8, <1>9, <1>10, <1>11

LEMMA CannotLoadStep == ASSUME IInv, NEW t \in Threads, CannotLoad(t) PROVE IInv'
<1> USE Constants DEF IInv
<1>1. TypeOK'
  BY DEF CannotLoad, Move, tableVars, TypeOK, Steps
<1>2. OneInit'
  BY DEF CannotLoad, Move, tableVars, TypeOK, OneInit
<1>3. LockHeld'
  BY DEF CannotLoad, Move, tableVars, TypeOK, LockHeld
<1>4. Table'
  BY DEF CannotLoad, Move, tableVars, TypeOK, Base, Slot, Table
<1>5. Appending'
  BY DEF CannotLoad, Move, tableVars, TypeOK, Base, Slot, LockHeld, Appending
<1>6. CountedLast'
  BY DEF CannotLoad, Move, tableVars, TypeOK, CountedLast
<1>7. Preloaded'
  BY DEF CannotLoad, Move, tableVars, TypeOK, Base, Slot, Preloaded
<1>8. Matched'
  BY DEF CannotLoad, Move, tableVars, TypeOK, Matched
<1>9. OwnLibraryInOrder'
  BY DEF CannotLoad, Move, tableVars, TypeOK, OwnLibrary, OwnLibraryInOrder
<1>10. PreloadedOwn'
  BY DEF CannotLoad, Move, tableVars, TypeOK, Preloaded, PreloadedOwn
<1>11. NoNullRead'
  BY DEF CannotLoad, Move, tableVars, TypeOK, NoNullRead
<1> QED
  BY <1>1, <1>2, <1>3, <1>4, <1>5, <1>6, <1>7, <1>8, <1>9, <1>10, <1>11

\* The entry that Load begins.
LEMMA LoadEffect ==
  ASSUME IInv, NEW t \in Threads, Load(t)
  PROVE  /\ lock = t /\ lock' = t /\ hidden = {} /\ hidden' = Stores /\ pc'[t] = "unlock"
         /\ UNCHANGED <<soname, handle, nlibs, want, once, ready>>
         /\ Base = nlibs /\ Base' = nlibs /\ nlibs \in Slots
         /\ \A i \in Slots : i < nlibs => soname[i] # want[t]
         /\ \A u \in Threads : u # t => pc'[u] = pc[u]
<1>1. lock = t /\ hidden = {}
  BY DEF Load, Move, IInv, LockHeld, Appending
<1>2. nlibs \in Slots
  BY Constants DEF Load, TableFull, IInv, TypeOK, Slots
<1>3. \A i \in Slots : i < nlibs => soname[i] # want[t]
  BY <1>2 DEF Load, Found, Slots
<1>4. hidden' = Stores /\ "count" \in Stores
  BY DEF Load, Stores
<1>5. Base = nlibs /\ Base' = nlibs
  BY <1>1, <1>4 DEF Base, Slot, Load, tableVars
<1> QED
  BY <1>1, <1>2, <1>3, <1>4, <1>5 DEF Load, Move, tableVars, threadVars, IInv, TypeOK

LEMMA LoadStep == ASSUME IInv, NEW t \in Threads, Load(t) PROVE IInv'
<1> USE Constants DEF IInv
<1>1. TypeOK'
  BY DEF Load, Move, tableVars, threadVars, TypeOK, Steps
<1>2. OneInit'
  BY DEF Load, Move, tableVars, threadVars, TypeOK, OneInit
<1>3. LockHeld'
  BY DEF Load, Move, tableVars, threadVars, TypeOK, LockHeld
<1>4. Table'
  BY LoadEffect DEF Table
<1>5. Appending'
  <2>1. soname[nlibs] = Null /\ handle[nlibs] = Null
    BY LoadEffect DEF Appending
  <2>2. "soname" \in Stores /\ "handle" \in Stores
    BY DEF Stores
  <2> QED
    BY <2>1, <2>2, LoadEffect DEF Appending
<1>6. CountedLast'
  BY LoadEffect DEF CountedLast, Stores
<1>7. Preloaded'
  <2>1. pc[t] = "rescan" /\ UNCHANGED <<scan, process>>
    BY DEF Load, Move, threadVars
  <2> QED
    BY <2>1, LoadEffect DEF Preloaded
<1>8. Matched'
  BY DEF Load, Move, tableVars, threadVars, TypeOK, Matched
<1>9. OwnLibraryInOrder'
  BY DEF Load, Move, tableVars, threadVars, TypeOK, OwnLibrary, OwnLibraryInOrder
<1>10. PreloadedOwn'
  BY DEF Load, Move, tableVars, threadVars, TypeOK, PreloadedOwn
<1>11. NoNullRead'
  BY DEF Load, Move, tableVars, threadVars, TypeOK, NoNullRead
<1> QED
  BY <1>1, <1>2, <1>3, <1>4, <1>5, <1>6, <1>7, <1>8, <1>9, <1>10, <1>11

LEMMA UnlockStep == ASSUME IInv, NEW t \in Threads, Unlock(t) PROVE IInv'
<1> USE Constants DEF IInv
<1>1. TypeOK'
  BY DEF Unlock, Move, tableVars, TypeOK, Steps
<1>2. OneInit'
  BY DEF Unlock, Move, tableVars, TypeOK, OneInit
<1>3. LockHeld'
  BY DEF Unlock, Move, tableVars, TypeOK, LockHeld
<1>4. Table'
  BY DEF Unlock, Move, tableVars, TypeOK, Base, Slot, Table
<1>5. Appending'
  BY DEF Unlock, Move, tableVars, TypeOK, Base, Slot, LockHeld, Appending
<1>6. CountedLast'
  BY DEF Unlock, Move, tableVars, TypeOK, CountedLast
<1>7. Preloaded'
  BY DEF Unlock, Move, tableVars, TypeOK, Base, Slot, Preloaded
<1>8. Matched'
  BY DEF Unlock, Move, tableVars, TypeOK, Matched
<1>9. OwnLibraryInOrder'
  BY DEF Unlock, Move, tableVars, TypeOK, OwnLibrary, OwnLibraryInOrder
<1>10. PreloadedOwn'
  BY DEF Unlock, Move, tableVars, TypeOK, PreloadedOwn
<1>11. NoNullRead'
  BY DEF Unlock, Move, tableVars, TypeOK, NoNullRead
<1> QED
  BY <1>1, <1>2, <1>3, <1>4, <1>5, <1>6, <1>7, <1>8, <1>9, <1>10, <1>11

LEMMA ReturnStep == ASSUME IInv, NEW t \in Threads, Return(t) PROVE IInv'
<1> USE Constants DEF IInv
<1>1. TypeOK'
  BY DEF Return, Move, tableVars, threadVars, TypeOK, Steps
<1>2. OneInit'
  BY DEF Return, Move, tableVars, threadVars, TypeOK, OneInit
<1>3. LockHeld'
  BY DEF Return, Move, tableVars, threadVars, TypeOK, LockHeld
<1>4. Table'
  BY DEF Return, Move, tableVars, threadVars, TypeOK, Base, Slot, Table
<1>5. Appending'
  BY DEF Return, Move, tableVars, threadVars, TypeOK, Base, Slot, Appending
<1>6. CountedLast'
  BY DEF Return, Move, tableVars, threadVars, TypeOK, CountedLast
<1>7. Preloaded'
  BY DEF Return, Move, tableVars, threadVars, TypeOK, Base, Slot, Preloaded
<1>8. Matched'
  BY DEF Return, Move, tableVars, threadVars, TypeOK, Matched
<1>9. OwnLibraryInOrder'
  BY DEF Return, Move, tableVars, threadVars, TypeOK, OwnLibrary, OwnLibraryInOrder
<1>10. PreloadedOwn'
  BY DEF Return, Move, tableVars, threadVars, TypeOK, PreloadedOwn
<1>11. NoNullRead'
  BY DEF Return, Move, tableVars, threadVars, TypeOK, NoNullRead
<1> QED
  BY <1>1, <1>2, <1>3, <1>4, <1>5, <1>6, <1>7, <1>8, <1>9, <1>10, <1>11

\* One store of the append becomes visible: what changes, and that a slot that was
\* complete stays as it is.
LEMMA ShowEffect ==
  ASSUME IInv, NEW store \in Stores, Show(store)
  PROVE  /\ lock \in Threads /\ pc[lock] = "unlock" /\ want[lock] \in Sonames /\ once = "done"
         /\ Base \in Slots /\ Base = Slot /\ nlibs \in Nat
         /\ store \in hidden /\ hidden' = hidden \ {store}
         /\ soname' = (IF store = "soname" THEN [soname EXCEPT ![Base] = want[lock]] ELSE soname)
         /\ handle' = (IF store = "handle" THEN [handle EXCEPT ![Base] = want[lock]] ELSE handle)
         /\ nlibs' = (IF store = "count" THEN nlibs + 1 ELSE nlibs)
         /\ UNCHANGED <<ordered, once, ready, lock, pc, want, scan, result, process, calls>>
         /\ Base' = IF hidden' = {} THEN Base + 1 ELSE Base
<1>1. store \in hidden /\ hidden # {} /\ hidden' = hidden \ {store}
  BY DEF Show
<1>2. lock \in Threads /\ pc[lock] = "unlock" /\ Base \in Slots /\ Base = Slot
  BY <1>1 DEF IInv, Appending, Base
<1>3. want[lock] \in Sonames /\ once = "done"
  BY <1>2 DEF IInv, Matched, OneInit
<1>4. nlibs \in Nat /\ MAX_LIBS \in Nat
  BY Constants DEF IInv, TypeOK
<1>5. Base' = IF hidden' = {} THEN Base + 1 ELSE Base
  <2>1. CASE store = "count"
    <3>1. Base = nlibs /\ nlibs' = nlibs + 1 /\ "count" \notin hidden'
      BY <2>1, <1>1, <1>2 DEF Show, Slot
    <3> QED
      BY <3>1, <1>4 DEF Base, Slot
  <2>2. CASE store # "count"
    <3>1. nlibs' = nlibs /\ ("count" \in hidden' <=> "count" \in hidden)
      BY <2>2, <1>1 DEF Show
    <3> QED
      BY <3>1, <1>2, <1>4 DEF Base, Slot
  <2> QED
    BY <2>1, <2>2
<1> QED
  BY <1>1, <1>2, <1>3, <1>4, <1>5 DEF Show, threadVars

LEMMA ShowStep == ASSUME IInv, NEW store \in Stores, Show(store) PROVE IInv'
<1> USE Constants DEF IInv
<1>1. /\ \A i \in Slots : i # Base => soname'[i] = soname[i] /\ handle'[i] = handle[i]
      /\ soname'[Base] = (IF "soname" \in hidden' THEN Null ELSE want[lock])
      /\ handle'[Base] = (IF "handle" \in hidden' THEN Null ELSE want[lock])
  BY ShowEffect DEF Appending, TypeOK
<1>2. TypeOK'
  <2>1. soname' \in [Slots -> Sonames \cup {Null}] /\ handle' \in [Slots -> Sonames \cup {Null}]
    BY ShowEffect DEF TypeOK
  <2>2. nlibs' \in 0 .. MAX_LIBS
    <3>1. store = "count" => Base = nlibs
      BY ShowEffect DEF Slot
    <3> QED
      BY <3>1, ShowEffect DEF TypeOK, Slots
  <2>3. hidden' \subseteq Stores
    BY ShowEffect DEF TypeOK
  <2> QED
    BY <2>1, <2>2, <2>3, ShowEffect DEF TypeOK
<1>3. OneInit' /\ LockHeld' /\ OwnLibraryInOrder' /\ PreloadedOwn' /\ NoNullRead'
  BY ShowEffect DEF OneInit, LockHeld, OwnLibraryInOrder, OwnLibrary, PreloadedOwn, NoNullRead
<1>4. Table'
  <2>1. CASE hidden' = {}
    <3>1. soname'[Base] = want[lock] /\ handle'[Base] = want[lock] /\ Base' = Base + 1
      BY <2>1, <1>1, ShowEffect
    <3>2. \A i \in Slots : i < Base => soname[i] # want[lock]
      BY ShowEffect DEF Appending
    <3>3. \A i \in Slots : i < Base' => soname'[i] \in Sonames /\ handle'[i] = soname'[i]
      BY <3>1, <1>1, ShowEffect DEF Table, Slots
    <3>4. \A i \in Slots : i > Base' => soname'[i] = Null /\ handle'[i] = Null
      BY <3>1, <1>1, ShowEffect DEF Table, Slots
    <3>5. \A i, j \in Slots : i < Base' /\ j < Base' /\ soname'[i] = soname'[j] => i = j
      BY <3>1, <3>2, <1>1, ShowEffect DEF Table, Slots
    <3> QED
      BY <3>3, <3>4, <3>5 DEF Table
  <2>2. CASE hidden' # {}
    <3>1. Base' = Base
      BY <2>2, ShowEffect
    <3> QED
      BY <3>1, <1>1, ShowEffect DEF Table, Slots
  <2> QED
    BY <2>1, <2>2
<1>5. Appending'
  <2>1. CASE hidden' = {}
    <3>1. Base' = nlibs' /\ Base' = Base + 1
      BY <2>1, ShowEffect DEF Base
    <3>2. Base + 1 \in Slots => soname'[Base + 1] = Null /\ handle'[Base + 1] = Null
      BY <1>1, ShowEffect DEF Table, Slots
    <3> QED
      BY <2>1, <3>1, <3>2 DEF Appending
  <2>2. CASE hidden' # {}
    <3>1. Base' = Base
      BY <2>2, ShowEffect
    <3>2. \A i \in Slots : i < Base => soname'[i] # want[lock]
      BY <1>1, ShowEffect DEF Appending, Slots
    <3> QED
      BY <2>2, <3>1, <3>2, <1>1, ShowEffect DEF Appending
  <2> QED
    BY <2>1, <2>2
<1>6. CountedLast'
  <2>1. CASE ordered /\ store = "count"
    BY <2>1, ShowEffect DEF CountedLast, Show, Before, TypeOK, Stores
  <2>2. CASE ordered /\ store # "count"
    BY <2>2, ShowEffect DEF CountedLast
  <2> QED
    BY <2>1, <2>2, ShowEffect DEF CountedLast
<1>7. Preloaded'
  <2>1. \A i \in Slots : i < Base => i < Base' /\ soname'[i] = soname[i]
    BY <1>1, ShowEffect DEF Slots
  <2>2. nlibs' >= nlibs
    BY ShowEffect
  <2>3. ready => \A i \in Slots : i < Len(Preload) => i < Base' /\ soname'[i] = Preload[i + 1]
    BY <2>1 DEF Preloaded
  <2>4. ready => nlibs' >= Len(Preload)
    <3>1. nlibs' \in Nat /\ nlibs \in Nat
      BY ShowEffect
    <3>2. ready => nlibs >= Len(Preload)
      BY DEF Preloaded
    <3> QED
      BY <2>2, <3>1, <3>2
  <2> QED
    BY <2>3, <2>4, ShowEffect DEF Preloaded
<1>8. Matched'
  <2>1. ASSUME NEW u \in Threads, pc[u] = "take"
        PROVE  scan[u] < nlibs' /\ soname'[scan[u]] = want[u]
    <3>1. scan[u] \in Slots /\ scan[u] < nlibs /\ soname[scan[u]] = want[u] /\ want[u] \in Sonames
      BY <2>1 DEF Matched, TypeOK, Slots
    <3>2. scan[u] < nlibs'
      BY <3>1, ShowEffect DEF TypeOK
    <3>3. scan[u] = Base /\ store = "soname" => FALSE
      BY <3>1, ShowEffect DEF Appending
    <3> QED
      BY <3>1, <3>2, <3>3, <1>1, ShowEffect
  <2> QED
    BY <2>1, ShowEffect DEF Matched
<1> QED
  BY <1>2, <1>3, <1>4, <1>5, <1>6, <1>7, <1>8

LEMMA StutterStep == ASSUME IInv, UNCHANGED vars PROVE IInv'
<1> USE DEF IInv, vars, tableVars, threadVars
<1>1. TypeOK'
  BY DEF TypeOK
<1>2. OneInit' /\ LockHeld' /\ CountedLast'
  BY DEF OneInit, LockHeld, CountedLast
<1>3. Table' /\ Appending'
  BY DEF Table, Appending, Base, Slot
<1>4. Preloaded' /\ Matched'
  BY DEF Preloaded, Matched, Base, Slot
<1>5. OwnLibraryInOrder' /\ PreloadedOwn' /\ NoNullRead'
  BY DEF OwnLibraryInOrder, OwnLibrary, PreloadedOwn, NoNullRead
<1> QED
  BY <1>1, <1>2, <1>3, <1>4, <1>5

\* Every step keeps the invariant.
LEMMA IInvStep == ASSUME IInv, [Next]_vars PROVE IInv'
<1>1. CASE UNCHANGED vars
  BY <1>1, StutterStep
<1>2. ASSUME NEW store \in Stores, Show(store) PROVE IInv'
  BY <1>2, ShowStep
<1>3. ASSUME NEW t \in Threads, Call(t) PROVE IInv'
  BY <1>3, CallStep
<1>4. ASSUME NEW t \in Threads, OnceBegin(t) \/ NsInit(t) \/ OnceDone(t) PROVE IInv'
  BY <1>4, OnceBeginStep, NsInitStep, OnceDoneStep
<1>5. ASSUME NEW t \in Threads, Scan(t) \/ Take(t) \/ Lock(t) PROVE IInv'
  BY <1>5, ScanStep, TakeStep, LockStep
<1>6. ASSUME NEW t \in Threads, RescanFinds(t) \/ CannotLoad(t) PROVE IInv'
  BY <1>6, RescanFindsStep, CannotLoadStep
<1>7. ASSUME NEW t \in Threads, Load(t) \/ Unlock(t) \/ Return(t) PROVE IInv'
  BY <1>7, LoadStep, UnlockStep, ReturnStep
<1> QED
  BY <1>1, <1>2, <1>3, <1>4, <1>5, <1>6, <1>7 DEF Next, ShowAny, Work

\* Complete entries are all different, and the one under way differs from them.
LEMMA IInvLoadedOnce == IInv => LoadedOnce
<1> SUFFICES ASSUME IInv, NEW i \in Slots, NEW j \in Slots, i # j, handle[i] # Null
             PROVE  handle[i] # handle[j]
  BY DEF LoadedOnce
<1> USE Constants DEF IInv
<1>1. Base \in Nat
  <2>1. CASE hidden = {}
    BY <2>1 DEF Base, TypeOK
  <2>2. CASE hidden # {}
    BY <2>2 DEF Appending, Slots
  <2> QED
    BY <2>1, <2>2
<1>2. i <= Base
  BY <1>1 DEF Table, Slots
<1>3. CASE i < Base /\ j < Base
  BY <1>3 DEF Table
<1>4. CASE i < Base /\ j >= Base
  <2>1. handle[i] \in Sonames /\ handle[i] = soname[i]
    BY <1>4 DEF Table
  <2>2. handle[j] \in {Null, want[lock]} /\ (handle[j] # Null => j = Base /\ hidden # {})
    BY <1>1, <1>4 DEF Table, Appending, Base, Slots
  <2> QED
    BY <1>4, <2>1, <2>2 DEF Appending
<1>5. CASE i = Base
  <2>1. hidden # {} /\ handle[i] = want[lock]
    BY <1>5 DEF Appending, Base
  <2>2. CASE j < Base
    BY <2>1, <2>2 DEF Table, Appending
  <2>3. CASE j > Base
    BY <2>3 DEF Table
  <2> QED
    BY <1>1, <1>5, <2>2, <2>3 DEF Slots
<1> QED
  BY <1>1, <1>2, <1>3, <1>4, <1>5 DEF Slots

-----------------------------------------------------------------------------
\* The invariant holds of the specification.
THEOREM Invariance == Spec => []IInv
<1>1. Init => IInv
  BY InitIInv
<1>2. IInv /\ [Next]_vars => IInv'
  BY IInvStep
<1> QED
  BY <1>1, <1>2, PTL DEF Spec

\* Every variable keeps its type; above all g_nlibs never passes the end of g_libs[]
\* (hf-shim-loader.c:29, 104).
THEOREM TypeCorrect == Spec => []TypeOK
<1>1. IInv => TypeOK
  BY DEF IInv
<1> QED
  BY <1>1, Invariance, PTL

\* In any build, threads that miss together load a library once
\* (hf-shim-loader.c:97-104).
THEOREM LibrariesLoadOnce == Spec => []LoadedOnce
BY IInvLoadedOnce, Invariance, PTL

\* In any build a preloaded library answers for itself, although the scan takes no
\* lock (hf-shim-loader.c:63, 91-93).
THEOREM PreloadedAnswerForThemselves == Spec => []PreloadedOwn
<1>1. IInv => PreloadedOwn
  BY DEF IInv
<1> QED
  BY <1>1, Invariance, PTL

\* In an ordered build every library does (hf-shim-loader.c:83-112).
THEOREM AnswersFromOwnLibrary == Spec => []OwnLibraryInOrder
<1>1. IInv => OwnLibraryInOrder
  BY DEF IInv
<1> QED
  BY <1>1, Invariance, PTL

\* In an ordered build no scan reads an entry whose name is not there
\* (hf-shim-loader.c:91-93, 98-99).
THEOREM ScansCompleteEntries == Spec => []NoNullRead
<1>1. IInv => NoNullRead
  BY DEF IInv
<1> QED
  BY <1>1, Invariance, PTL


\* All three together: the answer comes from the library asked for, as far as the build
\* and the library allow (hf-shim-loader.c:16-17, 63, 91-93).
THEOREM AnswersAreOwn == Spec => []AnswersOwn
<1>1. IInv => AnswersOwn
  BY DEF IInv, AnswersOwn
<1> QED
  BY <1>1, Invariance, PTL

-----------------------------------------------------------------------------
\* The steps a call still has, whatever is appended meanwhile: the scan has no more
\* turns than g_libs[] has slots.
CallRank(t) ==
  CASE pc[t] = "once" /\ once # "done" -> 2 * MAX_LIBS + 9
    [] pc[t] = "init" -> 2 * MAX_LIBS + 8 - nlibs
    [] pc[t] = "once" /\ once = "done" -> MAX_LIBS + 7
    [] pc[t] = "scan" -> MAX_LIBS + 6 - scan[t]
    [] pc[t] = "lock" -> 4 [] pc[t] = "rescan" -> 3
    [] pc[t] \in {"take", "unlock"} -> 2 [] pc[t] = "done" -> 1 [] OTHER -> 0

\* What CallRank reads of another thread does not grow.
LEMMA OthersRank ==
  ASSUME TypeOK, TypeOK', NEW t \in Threads, pc'[t] = pc[t], scan'[t] = scan[t],
         nlibs' >= nlibs, once = "done" => once' = "done"
  PROVE  CallRank(t)' <= CallRank(t)
<1>1. /\ nlibs \in 0 .. MAX_LIBS /\ nlibs' \in 0 .. MAX_LIBS /\ MAX_LIBS \in Nat
      /\ scan[t] \in 0 .. MAX_LIBS
  BY ShimLoaderAssumption DEF TypeOK
<1> QED
  BY <1>1 DEF CallRank

\* A step of a thread in a call brings it nearer to its end.
LEMMA OwnRank ==
  ASSUME TypeOK, TypeOK', NEW t \in Threads, Work(t), process' = "up"
  PROVE  CallRank(t)' < CallRank(t)
<1>1. /\ nlibs \in 0 .. MAX_LIBS /\ nlibs' \in 0 .. MAX_LIBS /\ MAX_LIBS \in Nat
      /\ scan[t] \in 0 .. MAX_LIBS /\ scan'[t] \in 0 .. MAX_LIBS /\ DOMAIN pc = Threads
      /\ DOMAIN scan = Threads
  BY ShimLoaderAssumption DEF TypeOK
<1> USE DEF Move, CallRank
<1>2. CASE OnceBegin(t)
  <2>1. pc[t] = "once" /\ once # "done" /\ pc'[t] = "init"
    BY <1>1, <1>2 DEF OnceBegin
  <2> QED
    BY <1>1, <2>1
<1>3. CASE NsInit(t)
  <2>1. pc[t] = "init" /\ ((pc'[t] = "init" /\ nlibs' = nlibs + 1) \/ (pc'[t] = "once" /\ once' = "done"))
    BY <1>1, <1>3 DEF NsInit
  <2> QED
    BY <1>1, <2>1
<1>4. CASE OnceDone(t)
  <2>1. pc[t] = "once" /\ once = "done" /\ pc'[t] = "scan" /\ scan'[t] = 0
    BY <1>1, <1>4 DEF OnceDone
  <2> QED
    BY <1>1, <2>1
<1>5. CASE Scan(t)
  <2>1. pc[t] = "scan" /\ (pc'[t] \in {"lock", "take"} \/ (pc'[t] = "scan" /\ scan'[t] = scan[t] + 1))
    BY <1>1, <1>5 DEF Scan
  <2> QED
    BY <1>1, <2>1
<1>6. CASE Lock(t) \/ Load(t)
  <2>1. (pc[t] = "lock" /\ pc'[t] = "rescan") \/ (pc[t] = "rescan" /\ pc'[t] = "unlock")
    BY <1>1, <1>6 DEF Lock, Load
  <2> QED
    BY <2>1
<1>7. CASE Take(t) \/ RescanFinds(t) \/ CannotLoad(t) \/ Unlock(t)
  <2>1. pc[t] \in {"take", "rescan", "unlock"} /\ pc'[t] = "done"
    BY <1>1, <1>7 DEF Take, RescanFinds, CannotLoad, Unlock
  <2> QED
    BY <2>1
<1>8. CASE Return(t)
  <2>1. pc[t] = "done" /\ pc'[t] = "idle"
    BY <1>1, <1>8 DEF Return
  <2> QED
    BY <2>1
<1> QED
  BY <1>2, <1>3, <1>4, <1>5, <1>6, <1>7, <1>8 DEF Work

\* A call makes 2 * MAX_LIBS + 9 steps of its own at the most, in any build: the table may
\* grow under the scan, and any thread may append, but no step of another thread sets a
\* call back.  This is what CallsReturn says but that the next step is taken
\* (hf-shim-loader.c:83-112).
THEOREM CallsAreShort ==
  Spec => [][\A t \in Threads :
               /\ Work(t) /\ process' = "up" => CallRank(t)' < CallRank(t)
               /\ ~Call(t) /\ process' = "up" => CallRank(t)' <= CallRank(t)]_vars
<1>1. ASSUME TypeOK, TypeOK', Next, process' = "up", NEW t \in Threads, ~Call(t)
      PROVE  CallRank(t)' <= CallRank(t)
  <2>1. CASE Work(t)
    <3>1. CallRank(t)' < CallRank(t)
      BY <1>1, <2>1, OwnRank
    <3>2. /\ nlibs \in 0 .. MAX_LIBS /\ nlibs' \in 0 .. MAX_LIBS /\ MAX_LIBS \in Nat
          /\ scan[t] \in 0 .. MAX_LIBS /\ scan'[t] \in 0 .. MAX_LIBS
      BY <1>1, ShimLoaderAssumption DEF TypeOK
    <3>3. CallRank(t) \in Nat
      BY <3>2 DEF CallRank
    <3>4. CallRank(t)' \in Nat
      BY <3>2 DEF CallRank
    <3> QED
      BY <3>1, <3>3, <3>4
  <2>2. ASSUME NEW u \in Threads, u # t, Call(u) \/ Work(u) PROVE CallRank(t)' <= CallRank(t)
    <3>0. nlibs \in Nat
      BY <1>1 DEF TypeOK
    <3>1. pc'[t] = pc[t] /\ scan'[t] = scan[t]
      BY <1>1, <2>2 DEF TypeOK, Call, Work, Move, OnceBegin, NsInit, OnceDone, Scan, Take, Lock,
        RescanFinds, CannotLoad, Load, Unlock, Return, threadVars
    <3>2. nlibs' >= nlibs /\ (once = "done" => once' = "done")
      BY <2>2, <3>0 DEF Call, Work, Move, OnceBegin, NsInit, OnceDone, Scan, Take, Lock,
        RescanFinds, CannotLoad, Load, Unlock, Return, tableVars
    <3> QED
      BY <1>1, <3>1, <3>2, OthersRank
  <2>3. CASE ShowAny
    <3>0. nlibs \in Nat
      BY <1>1 DEF TypeOK
    <3>1. pc' = pc /\ scan' = scan /\ once' = once /\ nlibs' >= nlibs
      BY <2>3, <3>0 DEF ShowAny, Show, threadVars
    <3> QED
      BY <1>1, <3>1, OthersRank
  <2> QED
    BY <1>1, <2>1, <2>2, <2>3 DEF Next
<1>2. TypeOK /\ TypeOK' /\ [Next]_vars =>
        [\A t \in Threads :
           /\ Work(t) /\ process' = "up" => CallRank(t)' < CallRank(t)
           /\ ~Call(t) /\ process' = "up" => CallRank(t)' <= CallRank(t)]_vars
  BY <1>1, OwnRank
<1> QED
  BY <1>2, TypeCorrect, PTL DEF Spec
=============================================================================
