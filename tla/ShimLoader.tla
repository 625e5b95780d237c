----------------------------- MODULE ShimLoader -----------------------------
(***************************************************************************)
(* The namespace loader of the hard-float shim, tools/hf-shim-loader.c:    *)
(* sgxhf_dlsym() called by any number of threads.  The first call loads    *)
(* the preloaded libraries under pthread_once; a later one looks the       *)
(* library up in g_libs[] without the lock, and only when it is not there  *)
(* takes the lock, looks again, loads it and appends an entry.             *)
(*                                                                         *)
(* Nothing orders the three stores of an append (soname, handle, g_nlibs)  *)
(* for a reader without the lock.  The stores the lock's holder has made   *)
(* and others do not see yet are in the variable hidden; in a build that   *)
(* is ordered they become visible in program order, in another in any      *)
(* order: GCC at the -O2 of build-hf-shim.sh:105 stores g_nlibs before the *)
(* entry it counts.  Unlocking makes them all visible.                     *)
(*                                                                         *)
(* dlmopen() may fail at any time; strdup() always succeeds here.          *)
(***************************************************************************)
EXTENDS Naturals, Sequences

CONSTANTS
  Threads,
  Sonames,   \* the libraries a caller may ask for
  Preload,   \* PRELOAD[], opened by the first call, in this order
  MAX_LIBS,  \* slots of g_libs[]
  MaxCalls   \* bound: calls of sgxhf_dlsym()

ASSUME ShimLoaderAssumption ==
  /\ Preload \in Seq(Sonames)
  /\ \A i, j \in 1 .. Len(Preload) : Preload[i] = Preload[j] => i = j
  /\ MAX_LIBS \in Nat /\ Len(Preload) <= MAX_LIBS
  /\ MaxCalls \in Nat

\* The null pointer.  dlsym() takes it for RTLD_DEFAULT: the application's own
\* libraries, the shim among them, instead of the DDK.
Null == "null"

\* What a call returns for a library it could not load.
NotLoaded == "not loaded"

\* No thread: g_lock is free.
NoThread == "none"

ASSUME NameAssumption ==
  Null \notin Sonames /\ NotLoaded \notin Sonames /\ NoThread \notin Threads

VARIABLES
  ordered,                \* the build: are the stores of an append seen in order?
  once, ready,            \* g_once: not begun, running, done; g_ready
  soname, handle, nlibs,  \* g_libs[] and g_nlibs, as visible without the lock
  hidden,                 \* the stores of the append under way not yet visible
  lock,                   \* holder of g_lock
  pc, want, scan, result, \* the threads: step, argument, scan index, answer
  process,                \* up, or ended by abort() or by a null dereference
  calls

tableVars  == <<soname, handle, nlibs>>
threadVars == <<want, scan, result>>
vars ==
  <<ordered, once, ready, tableVars, hidden, lock, pc, threadVars, process, calls>>

Slots == 0 .. MAX_LIBS - 1

Init ==
  /\ ordered \in BOOLEAN
  /\ once = "no" /\ ready = FALSE
  /\ soname = [i \in Slots |-> Null] /\ handle = [i \in Slots |-> Null] /\ nlibs = 0
  /\ hidden = {} /\ lock = NoThread
  /\ pc = [t \in Threads |-> "idle"]
  /\ want = [t \in Threads |-> Null]
  /\ scan = [t \in Threads |-> 0]
  /\ result = [t \in Threads |-> Null]
  /\ process = "up" /\ calls = 0

\* Thread t of a live process moves from step p to step q.
Move(t, p, q) ==
  /\ process = "up"
  /\ pc[t] = p
  /\ pc' = [pc EXCEPT ![t] = q]

-----------------------------------------------------------------------------
Call(t) ==
  /\ calls < MaxCalls /\ calls' = calls + 1
  /\ Move(t, "idle", "once")
  /\ \E s \in Sonames : want' = [want EXCEPT ![t] = s]
  /\ UNCHANGED <<ordered, once, ready, tableVars, hidden, lock, scan, result, process>>

\* pthread_once: the first caller runs ns_init(), the others wait for it.
OnceBegin(t) ==
  /\ once = "no"
  /\ Move(t, "once", "init")
  /\ once' = "running"
  /\ UNCHANGED <<ordered, ready, tableVars, hidden, lock, threadVars, process, calls>>

\* How many libraries ns_init() loads.
ToPreload == Len(Preload)

\* One turn of the loop in ns_init(), or its end.  A library that does not open
\* ends it without g_ready.
NsInit(t) ==
  /\ \/ /\ nlibs < ToPreload
        /\ Move(t, "init", "init")
        /\ soname' = [soname EXCEPT ![nlibs] = Preload[nlibs + 1]]
        /\ handle' = [handle EXCEPT ![nlibs] = Preload[nlibs + 1]]
        /\ nlibs' = nlibs + 1
        /\ UNCHANGED <<once, ready>>
     \/ /\ nlibs < ToPreload
        /\ Move(t, "init", "once")
        /\ once' = "done"
        /\ UNCHANGED <<ordered, ready, tableVars>>
     \/ /\ nlibs = ToPreload
        /\ Move(t, "init", "once")
        /\ once' = "done"
        /\ ready' = TRUE
        /\ UNCHANGED tableVars
  /\ UNCHANGED <<ordered, hidden, lock, threadVars, process, calls>>

OnceDone(t) ==
  /\ once = "done"
  /\ Move(t, "once", "scan")
  /\ process' = IF ready THEN "up" ELSE "aborted"
  /\ scan' = [scan EXCEPT ![t] = 0]
  /\ UNCHANGED <<ordered, once, ready, tableVars, hidden, lock, want, result, calls>>

\* The scan without the lock: one entry, or the end of the table.
Scan(t) ==
  /\ process = "up" /\ pc[t] = "scan"
  /\ \/ /\ scan[t] >= nlibs
        /\ pc' = [pc EXCEPT ![t] = "lock"]
        /\ UNCHANGED <<scan, process>>
     \/ /\ scan[t] < nlibs /\ soname[scan[t]] = Null
        /\ process' = "crashed"
        /\ UNCHANGED <<scan, pc>>
     \/ /\ scan[t] < nlibs /\ soname[scan[t]] = want[t]
        /\ pc' = [pc EXCEPT ![t] = "take"]
        /\ UNCHANGED <<scan, process>>
     \/ /\ scan[t] < nlibs /\ soname[scan[t]] \notin {Null, want[t]}
        /\ scan' = [scan EXCEPT ![t] = @ + 1]
        /\ UNCHANGED <<pc, process>>
  /\ UNCHANGED <<ordered, once, ready, tableVars, hidden, lock, want, result, calls>>

\* return dlsym(g_libs[i].handle, sym): the library of the answer.
Take(t) ==
  /\ Move(t, "take", "done")
  /\ result' = [result EXCEPT ![t] = handle[scan[t]]]
  /\ UNCHANGED <<ordered, once, ready, tableVars, hidden, lock, want, scan, process, calls>>

Lock(t) ==
  /\ lock = NoThread
  /\ lock' = t
  /\ Move(t, "lock", "rescan")
  /\ UNCHANGED <<ordered, once, ready, tableVars, hidden, threadVars, process, calls>>

\* The entries for the library, seen under the lock.  A bug to be caught: nobody
\* looks again.
Found_NotAgain(t) == {}
Found(t) == {i \in 0 .. nlibs - 1 : soname[i] = want[t]}

\* The lock after the early return.  A bug to be caught: it is not released there.
Released_Kept(t) == t
Released(t) == NoThread

\* Somebody else has appended the entry.
RescanFinds(t) ==
  /\ Move(t, "rescan", "done")
  /\ \E i \in Found(t) : result' = [result EXCEPT ![t] = handle[i]]
  /\ lock' = Released(t)
  /\ UNCHANGED <<ordered, once, ready, tableVars, hidden, want, scan, process, calls>>

\* A bug to be caught: one entry too many.
TableFull_OffByOne == nlibs > MAX_LIBS
TableFull == nlibs >= MAX_LIBS

\* The table is full or the library does not open: NULL.
CannotLoad(t) ==
  /\ Found(t) = {}
  /\ Move(t, "rescan", "done")
  /\ result' = [result EXCEPT ![t] = NotLoaded]
  /\ lock' = NoThread
  /\ UNCHANGED <<ordered, once, ready, tableVars, hidden, want, scan, process, calls>>

\* dlmopen() and the three stores of the append.
Stores == {"soname", "handle", "count"}

Load(t) ==
  /\ ~TableFull
  /\ Found(t) = {}
  /\ Move(t, "rescan", "unlock")
  /\ hidden' = Stores
  /\ UNCHANGED <<ordered, once, ready, tableVars, lock, threadVars, process, calls>>

\* What has to be visible before a store: nothing, unless stores keep their order.
\* A bug to be caught: the entry counted between its two stores.
Before_CountBetween(store) ==
  CASE store = "soname" -> {}
    [] store = "count"  -> {"soname"}
    [] OTHER            -> {"count", "soname"}
Before(store) ==
  CASE ~ordered         -> {}
    [] store = "soname" -> {}
    [] store = "handle" -> {"soname"}
    [] OTHER            -> {"soname", "handle"}

\* The slot the append under way fills: g_nlibs as its thread read it.
Slot == IF "count" \in hidden THEN nlibs ELSE nlibs - 1

\* One store of the append becomes visible.
Show(store) ==
  /\ process = "up"
  /\ store \in hidden /\ Before(store) \cap hidden = {}
  /\ hidden' = hidden \ {store}
  /\ soname' = IF store = "soname" THEN [soname EXCEPT ![Slot] = want[lock]] ELSE soname
  /\ handle' = IF store = "handle" THEN [handle EXCEPT ![Slot] = want[lock]] ELSE handle
  /\ nlibs' = IF store = "count" THEN nlibs + 1 ELSE nlibs
  /\ UNCHANGED <<ordered, once, ready, lock, pc, threadVars, process, calls>>

Unlock(t) ==
  /\ hidden = {}
  /\ Move(t, "unlock", "done")
  /\ result' = [result EXCEPT ![t] = want[t]]
  /\ lock' = NoThread
  /\ UNCHANGED <<ordered, once, ready, tableVars, hidden, want, scan, process, calls>>

Return(t) ==
  /\ Move(t, "done", "idle")
  /\ UNCHANGED <<ordered, once, ready, tableVars, hidden, lock, threadVars, process, calls>>

-----------------------------------------------------------------------------
Work(t) ==
  \/ OnceBegin(t) \/ NsInit(t) \/ OnceDone(t) \/ Scan(t) \/ Take(t) \/ Lock(t)
  \/ RescanFinds(t) \/ CannotLoad(t) \/ Load(t) \/ Unlock(t) \/ Return(t)

ShowAny == \E store \in Stores : Show(store)

Next == ShowAny \/ \E t \in Threads : Call(t) \/ Work(t)

Spec == Init /\ [][Next]_vars

\* Threads are scheduled and stores become visible.  Nothing is asked of the mutex:
\* it is not fair, but calls are finitely many.
FairSpec ==
  /\ Spec
  /\ WF_vars(ShowAny)
  /\ \A t \in Threads : WF_vars(Work(t))

-----------------------------------------------------------------------------
Steps == {"idle", "once", "init", "scan", "take", "lock", "rescan", "unlock", "done"}

\* The values every variable takes: no entry past the end of g_libs[]
\* (hf-shim-loader.c:34-37, 104).
TypeOK ==
  /\ ordered \in BOOLEAN
  /\ once \in {"no", "running", "done"} /\ ready \in BOOLEAN
  /\ soname \in [Slots -> Sonames \cup {Null}]
  /\ handle \in [Slots -> Sonames \cup {Null}]
  /\ nlibs \in 0 .. MAX_LIBS
  /\ hidden \subseteq Stores
  /\ lock \in Threads \cup {NoThread}
  /\ pc \in [Threads -> Steps]
  /\ want \in [Threads -> Sonames \cup {Null}]
  /\ scan \in [Threads -> 0 .. MAX_LIBS]
  /\ result \in [Threads -> Sonames \cup {Null, NotLoaded}]
  /\ process \in {"up", "aborted", "crashed"}
  /\ calls \in 0 .. MaxCalls

\* "we keep a per-soname handle table and resolve each symbol against the specific
\* DDK library that exports it" (hf-shim-loader.c:16-17): an answer comes from
\* the library that was asked for, or is the failure to load it.
OwnLibrary ==
  \A t \in Threads : pc[t] = "done" => result[t] \in {want[t], NotLoaded}

\* It does if the build keeps the stores in order (hf-shim-loader.c:91-93, 106-108).
OwnLibraryInOrder == ordered => OwnLibrary

\* Then no thread reads a table entry before its name is there, either
\* (hf-shim-loader.c:91-93).
NoNullRead == ordered => process # "crashed"

\* And in any build it does for the libraries ns_init() loaded, the only ones the
\* generated veneers ask for (hf-shim-loader.c:63, 91-93).
PreloadedOwn ==
  \A t \in Threads : \A i \in 1 .. Len(Preload) :
    pc[t] = "done" /\ want[t] = Preload[i] => result[t] = want[t]

\* What a caller may rely on, in the build it has: the generated veneers, which ask
\* for preloaded libraries only, in any; other callers where stores are seen in order
\* (hf-shim-loader.c:16-17, 63, 91-93).
AnswersOwn == OwnLibraryInOrder /\ NoNullRead /\ PreloadedOwn

\* However many threads miss at the same time, a library takes one slot: the table
\* cannot fill up with copies and leave a library without (hf-shim-loader.c:97-104).
LoadedOnce ==
  \A i, j \in Slots : i # j /\ handle[i] # Null => handle[i] # handle[j]

\* Every call returns, unless it ends the process (hf-shim-loader.c:83-112).
CallsReturn ==
  \A t \in Threads : pc[t] = "once" ~> pc[t] = "done" \/ process # "up"
=============================================================================
